------------------------------- MODULE Daemon -------------------------------
(***************************************************************************)
(* The daemon's command loop with the two kinds of task it spawns, at the  *)
(* granularity of its awaits: `run` and `handle_check_result` of           *)
(* crates/daemon/src/daemon.rs, a check (crates/core/src/check.rs) and an  *)
(* apply (`apply_flow`, whose files and privileged side are the subject of *)
(* module Apply).  A lock is the repository it was computed for and the    *)
(* version each input is pinned to.  An update set goes by the derivation  *)
(* it builds (drvPath): a lock, evaluated in the tree and for the host     *)
(* that the evaluation finds.                                              *)
(***************************************************************************)
EXTENDS Integers, Sequences

CONSTANTS
    Repos,          \* values flake_path can have in the configuration
    Inputs,         \* the flake's inputs
    Versions,       \* what an input can be pinned to
    Trees,          \* states of a repository's tree and of host_attr
    None,           \* Option::None
    MaxInputs       \* bound: clicks, D-Bus calls, ticks, signals, saved settings

Lock == [repo : Repos, pins : [Inputs -> Versions]]
Drv == [lock : Lock, tree : Trees]

ASSUME SetsAssumption == {} \notin {Repos, Inputs, Versions, Trees}
ASSUME NoneAssumption == None \notin Lock /\ None \notin Drv
ASSUME DaemonBounds == MaxInputs \in Nat

VARIABLES
    savedCfg,       \* flake_path in config.toml
    repoLock,       \* flake.lock of each repository
    candFile,       \* candidate/<pid>.flake.lock
    inputs,         \* how many inputs the loop has been given
    queue,          \* the command channel
    loop,           \* where the command loop is
    cfg,            \* the loop's cfg (its flake_path)
    checking,       \* the loop's flags
    applying,
    result,         \* the check outcome being folded into the shared state
    checks,         \* check tasks spawned and not yet received from done_rx
    applies,        \* apply tasks spawned and not yet received
    status,         \* Shared::status
    candidate,      \* Shared::candidate_lock and candidate_drv
    dismissed,      \* Shared::dismissed_drv
    lastNotified,   \* Shared::last_notified_drv
    incomplete,     \* Shared::apply_incomplete
    trayStatus,     \* NixTray::status
    trayIncomplete, \* NixTray::apply_incomplete
    popups          \* history: update sets the user has been notified of

disk    == <<repoLock, candFile>>
flags   == <<cfg, checking, applying>>
tasks   == <<checks, applies>>
memory  == <<candidate, dismissed, lastNotified>>
tray    == <<trayStatus, trayIncomplete>>
vars    == <<savedCfg, disk, inputs, queue, loop, flags, result, tasks, status, memory,
             incomplete, tray, popups>>

Commands == {"check", "apply", "dismiss", "quit"}
Statuses == {"idle", "checking", "system", "applying", "updates", "error"}
Applicable == {"system", "updates"}

\* A running check or apply; ids tell two tasks apart that exist together.
CheckTask == [id : {0, 1}, repo : Repos, base : Drv, cand : Drv, ok : BOOLEAN,
              pkgs : BOOLEAN,
              stage : {"baseline", "update", "save", "diff", "done"}]
ApplyTask == [id : {0, 1}, repo : Repos, shown : Lock \cup {None},
              verified : BOOLEAN, saved : Lock, installed : Lock \cup {None},
              completed : BOOLEAN,
              stage : {"status", "tray", "verify", "install", "rebuild", "flag",
                       "flag_tray", "error", "error_tray", "done"}]

\* Before it evaluates anything a check knows only the lock it starts from.
Unevaluated(l) == [lock |-> l, tree |-> CHOOSE t \in Trees : TRUE]

Init == /\ savedCfg \in Repos
        /\ \E pins \in [Repos -> [Inputs -> Versions]] :
              repoLock = [r \in Repos |-> [repo |-> r, pins |-> pins[r]]]
        /\ candFile = None
        /\ inputs = 0
        /\ queue = <<"check">>
        /\ loop = "select"
        /\ cfg = savedCfg /\ checking = FALSE /\ applying = FALSE
        /\ result = None
        /\ checks = {} /\ applies = {}
        /\ status = "idle" /\ trayStatus = "idle"
        /\ candidate = None /\ dismissed = None /\ lastNotified = None
        /\ incomplete = FALSE /\ trayIncomplete = FALSE
        /\ popups = <<>>

-----------------------------------------------------------------------------
(* The command loop: tokio::select! and the handlers it runs *)

\* Mutant of AtSelect: the loop awaits the check it has started.
AtSelectAwaitsCheck == loop = "select" /\ checks = {}

AtSelect == loop = "select"

\* Mutants of Busy: requests are not collapsed.
NeverBusy(flag) == FALSE

\* An overlapping request is a no-op.
Busy(flag) == flag

\* Command::CheckNow: the first half of set_status(Checking), or nothing.
CheckNow ==
    \/ /\ Busy(checking)
       /\ UNCHANGED <<loop, status>>
    \/ /\ ~Busy(checking)
       /\ loop' = "checking_tray" /\ status' = "checking"

\* The ticker finds the interval elapsed, or SIGUSR1 arrives.
TickOrSignal ==
    /\ AtSelect /\ inputs < MaxInputs
    /\ inputs' = inputs + 1
    /\ CheckNow
    /\ UNCHANGED <<savedCfg, disk, queue, flags, result, tasks, memory, incomplete, tray,
                   popups>>

SetCheckingTray ==
    /\ loop = "checking_tray"
    /\ loop' = "spawn_check" /\ trayStatus' = "checking"
    /\ UNCHANGED <<savedCfg, disk, inputs, queue, flags, result, tasks, status, memory,
                   incomplete, trayIncomplete, popups>>

NewId(ts) == IF \E t \in ts : t.id = 0 THEN 1 ELSE 0

\* Config::load, which may fail, then the spawn.
SpawnCheck ==
    /\ loop = "spawn_check"
    /\ loop' = "select"
    /\ cfg' \in {cfg, savedCfg}
    /\ checking' = TRUE
    /\ checks' = checks \cup
          {[id |-> NewId(checks), repo |-> cfg', stage |-> "baseline", ok |-> TRUE,
            pkgs |-> FALSE, base |-> Unevaluated(repoLock[cfg']),
            cand |-> Unevaluated(repoLock[cfg'])]}
    /\ UNCHANGED <<savedCfg, disk, inputs, queue, applying, result, applies, status,
                   memory, incomplete, tray, popups>>

\* Command::Apply: a candidate, or a retry of an unfinished switch.
SpawnApply ==
    IF ~Busy(applying) /\ (candidate # None \/ incomplete)
    THEN /\ applying' = TRUE
         /\ applies' = applies \cup
               {[id |-> NewId(applies), repo |-> cfg, stage |-> "status",
                 shown |-> IF candidate = None THEN None ELSE candidate.lock,
                 verified |-> FALSE, saved |-> repoLock[cfg], installed |-> None,
                 completed |-> FALSE]}
    ELSE UNCHANGED <<applying, applies>>

\* rx.recv(): the command at the head of the channel is handled.  (Commands
\* that only launch the GTK client change nothing here; CancelApply is in
\* module Apply.)
RecvCommand ==
    /\ AtSelect /\ queue # <<>>
    /\ queue' = Tail(queue)
    /\ \/ /\ Head(queue) = "check"
          /\ CheckNow
          /\ UNCHANGED <<applying, applies, dismissed>>
       \/ /\ Head(queue) = "apply"
          /\ SpawnApply
          /\ UNCHANGED <<loop, status, dismissed>>
       \/ /\ Head(queue) = "dismiss"
          /\ dismissed' = candidate
          /\ UNCHANGED <<loop, status, applying, applies>>
       \/ /\ Head(queue) = "quit"
          /\ loop' = "quitting"
          /\ UNCHANGED <<status, applying, applies, dismissed>>
    /\ UNCHANGED <<savedCfg, disk, inputs, cfg, checking, result, checks, candidate,
                   lastNotified, incomplete, tray, popups>>

\* Mutant of AfterApply: no re-check is asked for.
AfterApplyNothing == queue

AfterApply == Append(queue, "check")

\* apply_done_rx: re-check so the tray reflects the new baseline.
RecvApplyDone ==
    /\ AtSelect
    /\ \E t \in applies :
          /\ t.stage = "done"
          /\ applies' = applies \ {t}
    /\ applying' = FALSE
    /\ queue' = AfterApply
    /\ UNCHANGED <<savedCfg, disk, inputs, loop, cfg, checking, result, checks,
                   status, memory, incomplete, tray, popups>>

\* The status a finished check leads to.
Verdict(c) == IF ~c.ok THEN "error"
              ELSE IF c.base = c.cand THEN "idle"
              ELSE IF c.pkgs THEN "updates" ELSE "system"

\* done_rx, and handle_check_result up to the first half of set_status.
RecvCheckResult ==
    /\ AtSelect
    /\ \E c \in checks :
          /\ c.stage = "done"
          /\ checks' = checks \ {c}
          /\ result' = c /\ status' = Verdict(c)
    /\ checking' = FALSE
    /\ loop' = "result_tray"
    /\ UNCHANGED <<savedCfg, disk, inputs, queue, cfg, applying, applies, memory,
                   incomplete, tray, popups>>

SetResultTray ==
    /\ loop = "result_tray"
    /\ loop' = "publish" /\ trayStatus' = Verdict(result)
    /\ UNCHANGED <<savedCfg, disk, inputs, queue, flags, result, tasks, status, memory,
                   incomplete, trayIncomplete, popups>>

\* cfg.notify && is_new && !dismissed && count > 0, for any cfg.notify.
Notifiable(c) == /\ Verdict(c) = "updates"
                 /\ lastNotified # c.cand /\ dismissed # c.cand

\* Mutant of NotifiedAfter: a failed check forgets what was notified.
NotifiedAfterForgets(c) == IF c.ok THEN lastNotified ELSE None

\* last_notified_drv after a check that does not notify.
NotifiedAfter(c) == lastNotified

\* Mutant of KeptCandidate: a configuration-only change is not kept.
KeptCandidatePackages(c) == IF Verdict(c) = "updates" THEN c.cand ELSE None

\* The candidate on offer after a check: dropped unless updates were found.
KeptCandidate(c) == IF Verdict(c) \in Applicable THEN c.cand ELSE None

\* The rest of handle_check_result: notify, then one write of the shared
\* state.  Only the loop itself writes these fields.
Publish ==
    /\ loop = "publish"
    /\ loop' = "select" /\ result' = None
    /\ candidate' = KeptCandidate(result)
    /\ dismissed' = IF Verdict(result) = "idle" THEN None ELSE dismissed
    /\ \/ /\ Notifiable(result)
          /\ lastNotified' = result.cand
          /\ popups' = Append(popups, result.cand)
       \/ lastNotified' = NotifiedAfter(result) /\ UNCHANGED popups
    /\ UNCHANGED <<savedCfg, disk, inputs, queue, flags, tasks, status, incomplete, tray>>

\* cleanup_own_artifacts, then the process ends and its tasks with it.
CleanUp ==
    /\ loop = "quitting"
    /\ loop' = "stopped" /\ candFile' = None
    /\ UNCHANGED <<savedCfg, repoLock, inputs, queue, flags, result, tasks, status, memory,
                   incomplete, tray, popups>>

-----------------------------------------------------------------------------
(* A check task *)

Running == loop # "stopped"

\* Check c takes a step that leaves it as d.
CheckStep(c, d) ==
    /\ Running
    /\ checks' = (checks \ {c}) \cup {d}
    /\ UNCHANGED <<savedCfg, repoLock, inputs, queue, loop, flags, result, applies,
                   status, memory, incomplete, tray, popups>>

\* The scratch copy and the baseline evaluation read the repository's lock;
\* the evaluation reads the tree as well, which is edited at any time.
CheckBaseline(c) ==
    /\ c.stage = "baseline"
    /\ \E t \in Trees :
          CheckStep(c, [c EXCEPT !.stage = "update",
                                 !.base = [lock |-> repoLock[c.repo], tree |-> t]])
    /\ UNCHANGED candFile

\* The inputs of the flake in l that are moved are at what is offered.
Advanced(l, moved, offered) ==
    [l EXCEPT !.pins = [i \in Inputs |-> IF i \in moved THEN offered[i] ELSE @[i]]]

\* nix flake update, one input after the other, in the scratch flake: to what
\* its remote offers at the time.  An input that cannot be fetched or is left
\* out by the configuration stays where the repository has it, and unless all
\* do the check goes on.  Then the candidate evaluation, in the tree as it is.
CheckUpdate(c) ==
    /\ c.stage = "update"
    /\ \E moved \in SUBSET Inputs \ {{}}, offered \in [Inputs -> Versions], t \in Trees :
          CheckStep(c, [c EXCEPT !.stage = "save",
                                 !.cand = [lock |-> Advanced(c.base.lock, moved, offered),
                                           tree |-> t]])
    /\ UNCHANGED candFile

\* save_candidate_lock: always to the same path.
CheckSave(c) ==
    /\ c.stage = "save"
    /\ CheckStep(c, [c EXCEPT !.stage = "diff"])
    /\ candFile' = c.cand.lock

\* Equal derivations, or the diff: with or without a package that moved.
CheckDiff(c) ==
    /\ c.stage = "diff"
    /\ \E moved \in {FALSE, c.base # c.cand} :
          CheckStep(c, [c EXCEPT !.stage = "done", !.pkgs = moved])
    /\ UNCHANGED candFile

\* Any stage can return Err.
CheckFails(c) ==
    /\ c.stage # "done"
    /\ CheckStep(c, [c EXCEPT !.stage = "done", !.ok = FALSE])
    /\ UNCHANGED candFile

-----------------------------------------------------------------------------
(* An apply task *)

ApplyStep(t, u) ==
    /\ Running
    /\ applies' = (applies \ {t}) \cup {u}
    /\ UNCHANGED <<savedCfg, candFile, inputs, queue, loop, flags, result, checks,
                   memory, popups>>

\* The two halves of a set_status: shared state first, then the tray.
SetStatus(t, from, s, to) ==
    /\ t.stage = from
    /\ ApplyStep(t, [t EXCEPT !.stage = to])
    /\ status' = s
    /\ UNCHANGED <<repoLock, incomplete, tray>>

SetTrayStatus(t, from, s, to) ==
    /\ t.stage = from
    /\ ApplyStep(t, [t EXCEPT !.stage = to])
    /\ trayStatus' = s
    /\ UNCHANGED <<repoLock, status, incomplete, trayIncomplete>>

ApplyStatus(t) == SetStatus(t, "status", "applying", "tray")

\* Mutant of AfterStatus: the pins are not verified.
AfterStatusUnverified(t) == IF t.shown = None THEN "rebuild" ELSE "install"

\* Only a candidate is verified and installed; a retry goes to the rebuild.
AfterStatus(t) == IF t.shown = None THEN "rebuild" ELSE "verify"

\* ... unless the daemon cannot locate its own executable: apply_flow returns.
ApplyTray(t) == \/ SetTrayStatus(t, "tray", "applying", AfterStatus(t))
                \/ SetTrayStatus(t, "tray", "applying", "done")

\* verify_pins reads the candidate file.
ApplyVerify(t) ==
    /\ t.stage = "verify"
    /\ \/ /\ candFile # None
          /\ ApplyStep(t, [t EXCEPT !.stage = "install", !.verified = TRUE])
       \/ ApplyStep(t, [t EXCEPT !.stage = "error"])
    /\ UNCHANGED <<repoLock, status, incomplete, tray>>

\* install_candidate_lock reads it again.
ApplyInstall(t) ==
    /\ t.stage = "install"
    /\ \/ /\ candFile # None
          /\ ApplyStep(t, [t EXCEPT !.stage = "rebuild", !.saved = repoLock[t.repo],
                                    !.installed = candFile])
          /\ repoLock' = [repoLock EXCEPT ![t.repo] = candFile]
       \/ /\ ApplyStep(t, [t EXCEPT !.stage = "error"])
          /\ UNCHANGED repoLock
    /\ UNCHANGED <<status, incomplete, tray>>

\* The privileged rebuild: completed, failed once live, or rolled back.
ApplyRebuild(t) ==
    /\ t.stage = "rebuild"
    /\ \/ /\ \E b \in BOOLEAN :
                ApplyStep(t, [t EXCEPT !.stage = "flag", !.completed = b])
          /\ UNCHANGED repoLock
       \/ /\ ApplyStep(t, [t EXCEPT !.stage = "error"])
          /\ repoLock' = IF t.shown = None THEN repoLock
                         ELSE [repoLock EXCEPT ![t.repo] = t.saved]
    /\ UNCHANGED <<status, incomplete, tray>>

\* set_apply_incomplete, again in two halves.
ApplyFlag(t) ==
    /\ t.stage = "flag"
    /\ ApplyStep(t, [t EXCEPT !.stage = "flag_tray"])
    /\ incomplete' = ~t.completed
    /\ UNCHANGED <<repoLock, status, tray>>

ApplyFlagTray(t) ==
    /\ t.stage = "flag_tray"
    /\ ApplyStep(t, [t EXCEPT !.stage = IF t.completed THEN "done" ELSE "error"])
    /\ trayIncomplete' = ~t.completed
    /\ UNCHANGED <<repoLock, status, incomplete, trayStatus>>

ApplyError(t) == SetStatus(t, "error", "error", "error_tray")
ApplyErrorTray(t) == SetTrayStatus(t, "error_tray", "error", "done")

-----------------------------------------------------------------------------
(* The surroundings *)

\* A menu click or a D-Bus call.
Send(cmd) ==
    /\ Running /\ inputs < MaxInputs
    /\ inputs' = inputs + 1
    /\ queue' = Append(queue, cmd)
    /\ UNCHANGED <<savedCfg, disk, loop, flags, result, tasks, status, memory, incomplete,
                   tray, popups>>

\* The settings window points flake_path elsewhere.
SaveSettings ==
    /\ inputs < MaxInputs
    /\ inputs' = inputs + 1
    /\ savedCfg' \in Repos \ {savedCfg}
    /\ UNCHANGED <<disk, queue, loop, flags, result, tasks, status,
                   memory, incomplete, tray, popups>>

-----------------------------------------------------------------------------
HandlerStep == SetCheckingTray \/ SpawnCheck \/ SetResultTray \/ Publish \/ CleanUp

CheckTaskStep(c) == \/ CheckBaseline(c) \/ CheckUpdate(c) \/ CheckSave(c)
                    \/ CheckDiff(c) \/ CheckFails(c)

ApplyTaskStep(t) == \/ ApplyStatus(t) \/ ApplyTray(t) \/ ApplyVerify(t)
                    \/ ApplyInstall(t) \/ ApplyRebuild(t) \/ ApplyFlag(t)
                    \/ ApplyFlagTray(t) \/ ApplyError(t) \/ ApplyErrorTray(t)

Next == \/ TickOrSignal \/ RecvCommand \/ RecvApplyDone \/ RecvCheckResult
        \/ HandlerStep
        \/ \E c \in checks : CheckTaskStep(c)
        \/ \E t \in applies : ApplyTaskStep(t)
        \/ \E cmd \in Commands : Send(cmd)
        \/ SaveSettings

Spec == Init /\ [][Next]_vars

\* A handler that has begun goes on; select! polls its branches in random
\* order, so the command branch is taken if it is ready again and again.
\* Nothing obliges a check or a rebuild to end.
Fairness == WF_vars(HandlerStep) /\ SF_vars(RecvCommand)

FairSpec == Spec /\ Fairness

-----------------------------------------------------------------------------
(* Properties *)

\* The values every variable takes; a lock is installed only by a task that
\* has verified one.
TypeOK ==
    /\ savedCfg \in Repos
    /\ repoLock \in [Repos -> Lock] /\ candFile \in Lock \cup {None}
    /\ inputs \in Nat /\ queue \in Seq(Commands)
    /\ loop \in {"select", "checking_tray", "spawn_check", "result_tray", "publish",
                 "quitting", "stopped"}
    /\ cfg \in Repos /\ checking \in BOOLEAN /\ applying \in BOOLEAN
    /\ result \in CheckTask \cup {None}
    /\ loop \in {"result_tray", "publish"} => result \in CheckTask
    /\ checks \subseteq CheckTask /\ applies \subseteq ApplyTask
    /\ status \in Statuses /\ trayStatus \in Statuses
    /\ candidate \in Drv \cup {None}
    /\ dismissed \in Drv \cup {None} /\ lastNotified \in Drv \cup {None}
    /\ incomplete \in BOOLEAN /\ trayIncomplete \in BOOLEAN
    /\ popups \in Seq(Drv)
    /\ \A t \in applies : t.stage = "install" => t.verified

\* check.rs: "Checks within one process are serialized, so reuse is safe": no
\* two check tasks, finished or not, share the scratch directory and the
\* candidate file, whatever mix of ticks, signals, clicks and finished applies
\* asks for checks.
ChecksSerialized ==
    /\ \A c, d \in checks : c = d
    /\ checking <=> checks # {}

\* At most one apply task exists until its end has been received.
AppliesExclusive ==
    /\ \A t, u \in applies : t = u
    /\ applying <=> applies # {}

\* tray.rs: the apply item is enabled when there is something to apply.  An
\* enabled item is never dead: between handlers, and with no apply under way,
\* there is a candidate whose lock is on disk, or an unfinished switch.
OfferIsLive ==
    /\ loop = "select" /\ applies = {}
    /\ trayStatus \in Applicable \/ trayIncomplete
    => \/ incomplete
       \/ candidate # None /\ candFile # None

\* state.rs, dismiss / re-notify bookkeeping: over failed checks, applies,
\* settled states and dismissals, whatever inputs, remotes, trees and the
\* configuration do, no update set is announced to the user twice, unless a
\* different one was announced in between: the daemon remembers one.
NotifiedOnce ==
    \A i, j \in 1 .. Len(popups) :
        i < j /\ popups[i] = popups[j] => \E k \in i .. j : popups[k] # popups[i]

\* daemon.rs: awaiting a check or a rebuild would block the loop "and the
\* daemon would look dead".  Quit is heard however long checks and rebuilds
\* take, even if they never end.
QuitIsHeard == (\E i \in 1 .. Len(queue) : queue[i] = "quit") ~> loop = "stopped"

\* set_status: "Update both the shared state (for D-Bus readers) and the tray
\* icon".  The loop and an apply interleave their halves of it, but once
\* nothing is under way the two agree again; and with no apply under way the
\* retry item of the menu is enabled exactly when the daemon would retry.
Settled == loop = "select" /\ checks = {} /\ applies = {} /\ queue = <<>>
TrayAgrees ==
    /\ Settled => trayStatus = status
    /\ applies = {} => trayIncomplete = incomplete

\* check.rs: candidate_lock is the lock "to apply on approval": what an apply
\* installs is the update set that was on offer when it was approved.
InstalledIsApproved ==
    \A t \in applies : t.installed # None => t.installed = t.shown
=============================================================================
