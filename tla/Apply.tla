------------------------------- MODULE Apply --------------------------------
(***************************************************************************)
(* One apply, from the user's approval to the daemon's verdict:            *)
(* `apply_flow` / `install_lock_or_bail` / `apply_rebuild` of the daemon   *)
(* (crates/daemon/src/daemon.rs), the file handling and the privileged     *)
(* rebuild of crates/core/src/apply.rs, and, as far as the code relies on  *)
(* it, `nixos-rebuild switch` itself.  A lock is identified with its       *)
(* content; `SystemOf` is the system a lock builds.                        *)
(***************************************************************************)
EXTENDS Integers, FiniteSets

CONSTANTS
    Locks,          \* well-formed contents of flake.lock
    Systems,        \* system generations
    SystemOf,       \* the system `nixos-rebuild` builds from a lock
    Torn,           \* a flake.lock left half-written by a failed copy
    None,           \* Option::None
    KEEP_BACKUPS,   \* how many flake.lock.bak.<epoch> are kept
    MaxClock,       \* bound: the wall clock, in seconds, stops here
    Faults          \* what may go wrong in this instance

FaultKinds == { "clock_back",    \* the wall clock is stepped backwards
                "copy_fails",    \* a file copy fails, perhaps half-way
                "prune_fails",   \* an old backup cannot be deleted
                "unreadable",    \* /run/current-system cannot be resolved
                "same_system",   \* the candidate builds the running system
                "restart" }      \* the daemon dies and is started again

ASSUME LocksAssumption == Torn \notin Locks /\ None \notin Locks \cup {Torn}
ASSUME SystemsAssumption == None \notin Systems /\ SystemOf \in [Locks -> Systems]
ASSUME BoundsAssumption == /\ KEEP_BACKUPS \in Nat \ {0}
                           /\ MaxClock \in Nat
                           /\ None \notin Nat
ASSUME FaultsAssumption == Faults \subseteq FaultKinds

Content == Locks \cup {Torn}

VARIABLES
    repoLock,       \* content of <repo>/flake.lock
    backups,        \* epoch |-> content of <repo>/flake.lock.bak.<epoch>
    clock,          \* wall clock, seconds since the epoch
    pc,             \* where the apply task is
    cand,           \* candidate lock being applied, None for a retry
    bk,             \* epoch of this apply's backup, None if it has none
    before,         \* system_before
    incomplete,     \* Shared::apply_incomplete
    cancelFlag,     \* does the cancel flag file exist?
    helper,         \* the root side: `apply-privileged` under pkexec
    during,         \* its during_activation
    switch,         \* the nixos-rebuild it runs
    target,         \* the lock that rebuild was evaluated with
    profile,        \* /nix/var/nix/profiles/system
    current,        \* /run/current-system
    start,          \* history: lock and system when the apply started
    unfinished,     \* history: the running system's switch did not complete
    outcome         \* history: how the last apply ended

files   == <<repoLock, backups>>
locals  == <<cand, bk, before>>
task    == <<pc, locals, incomplete>>
root    == <<helper, during, switch, target>>
systems == <<profile, current>>
history == <<start, unfinished, outcome>>
vars    == <<files, clock, task, cancelFlag, root, systems, history>>

Failures == {"blocked", "not_staged", "rolled_back", "retry_failed"}
Outcomes == {"none", "interrupted", "applied", "partial"} \cup Failures

\* Is the rebuild process group still alive?
Alive == switch \in {"build", "profile", "live"}

\* Has the root side returned (or never been started)?
Ended == helper \in {"none", "ok", "failed", "cancelled"}

Init == /\ repoLock \in Locks
        /\ backups = [e \in {} |-> repoLock]
        /\ clock = 0
        /\ pc = "idle" /\ cand = None /\ bk = None /\ before = None
        /\ incomplete = FALSE
        /\ cancelFlag = FALSE
        /\ helper = "none" /\ during = FALSE /\ switch = "none" /\ target = repoLock
        /\ current \in Systems /\ profile = current
        /\ start = [lock |-> repoLock, sys |-> current]
        /\ unfinished = FALSE
        /\ outcome = "none"

-----------------------------------------------------------------------------
(* Pure helpers *)

\* Mutant of Newest: sorted in ascending order, so the oldest are kept.
NewestAscending(epochs, keep) ==
    {e \in epochs : Cardinality({f \in epochs : f < e}) < keep}

\* Mutants of Newest: skip(keep + 1) and skip(keep - 1).
NewestOneMore(epochs, keep) ==
    {e \in epochs : Cardinality({f \in epochs : f > e}) < keep + 1}
NewestOneLess(epochs, keep) ==
    {e \in epochs : Cardinality({f \in epochs : f > e}) < keep - 1}

\* The `keep` newest of a set of epochs; the others are what pruning deletes.
Newest(epochs, keep) ==
    {e \in epochs : Cardinality({f \in epochs : f > e}) < keep}

\* What canonicalize(...).ok() may return for a link to s.
Resolved(s) == {s} \cup (IF "unreadable" \in Faults THEN {None} ELSE {})

\* Mutants of Activated: a non-zero exit always, or never, means "not live".
ActivatedNever(was, now) == FALSE
ActivatedAlways(was, now) == TRUE

\* system_before.is_some() && current_system() != system_before
Activated(was, now) == was # None /\ now # was

\* generations_differ: unresolvable links mean "no".
GenerationsDiffer(p, c) == p # None /\ c # None /\ p # c

\* The apply task returns with outcome o; its locals are gone.
Finish(o) == /\ pc' = "idle" /\ outcome' = o
             /\ cand' = None /\ bk' = None /\ before' = None

-----------------------------------------------------------------------------
(* The daemon's apply task *)

\* Bound: an apply is not started while a rebuild that an earlier daemon
\* left behind still runs (with no "restart" fault there never is one).
Startable == pc = "idle" /\ Ended

StartApply(c) ==
    /\ Startable
    /\ "same_system" \in Faults \/ SystemOf[c] # current
    /\ pc' = "verify" /\ cand' = c /\ bk' = None
    /\ start' = [lock |-> repoLock, sys |-> current]
    /\ helper' = "none" /\ switch' = "none"
    /\ UNCHANGED <<files, clock, before, incomplete, cancelFlag, during, target,
                   systems, unfinished, outcome>>

\* No candidate but an unfinished switch: rebuild the repository's own lock.
StartRetry ==
    /\ Startable /\ incomplete
    /\ pc' = "flag" /\ cand' = None /\ bk' = None
    /\ start' = [lock |-> repoLock, sys |-> current]
    /\ helper' = "none" /\ switch' = "none"
    /\ UNCHANGED <<files, clock, before, incomplete, cancelFlag, during, target,
                   systems, unfinished, outcome>>

VerifyPins ==
    /\ pc = "verify"
    /\ \/ pc' = "backup" /\ UNCHANGED <<locals, outcome>>
       \/ Finish("blocked")
    /\ UNCHANGED <<files, clock, incomplete, cancelFlag, root,
                   systems, start, unfinished>>

\* install_candidate_lock, first half: flake.lock -> flake.lock.bak.<epoch>.
Backup ==
    /\ pc = "backup"
    /\ pc' = "prune" /\ bk' = clock
    /\ backups' = [e \in DOMAIN backups \cup {clock} |->
                       IF e = clock THEN repoLock ELSE backups[e]]
    /\ UNCHANGED <<repoLock, clock, cand, before, incomplete, cancelFlag, root,
                   systems, history>>

\* ... which can fail with the copy not begun, or with a torn backup.
BackupFails ==
    /\ pc = "backup" /\ "copy_fails" \in Faults
    /\ Finish("not_staged")
    /\ \/ UNCHANGED backups
       \/ backups' = [e \in DOMAIN backups \cup {clock} |->
                          IF e = clock THEN Torn ELSE backups[e]]
    /\ UNCHANGED <<repoLock, clock, incomplete, cancelFlag, root,
                   systems, start, unfinished>>

\* prune_old_backups; deleting each old one is best-effort.
Prune ==
    /\ pc = "prune"
    /\ pc' = "install"
    /\ LET keep == Newest(DOMAIN backups, KEEP_BACKUPS)
       IN  \E left \in IF "prune_fails" \in Faults
                       THEN SUBSET (DOMAIN backups \ keep) ELSE {{}} :
              backups' = [e \in keep \cup left |-> backups[e]]
    /\ UNCHANGED <<repoLock, clock, locals, incomplete, cancelFlag, root,
                   systems, history>>

\* install_candidate_lock, second half: the candidate goes over flake.lock.
Install ==
    /\ pc = "install"
    /\ pc' = "flag" /\ repoLock' = cand
    /\ UNCHANGED <<backups, clock, locals, incomplete, cancelFlag, root,
                   systems, history>>

\* ... which can fail with the candidate unreadable, or after the truncation.
InstallFails ==
    /\ pc = "install" /\ "copy_fails" \in Faults
    /\ Finish("not_staged")
    /\ repoLock' \in {repoLock, Torn}
    /\ UNCHANGED <<backups, clock, incomplete, cancelFlag, root,
                   systems, start, unfinished>>

RemoveCancelFlag ==
    /\ pc = "flag"
    /\ pc' = "sample" /\ cancelFlag' = FALSE
    /\ UNCHANGED <<files, clock, locals, incomplete, root, systems, history>>

SampleSystem ==
    /\ pc = "sample"
    /\ pc' = "launch" /\ before' \in Resolved(current)
    /\ UNCHANGED <<files, clock, cand, bk, incomplete, cancelFlag, root, systems,
                   history>>

LaunchPkexec ==
    /\ pc = "launch"
    /\ pc' = "wait" /\ helper' = "prompt" /\ during' = FALSE /\ switch' = "none"
    /\ UNCHANGED <<files, clock, locals, incomplete, cancelFlag, target,
                   systems, history>>

\* Mutants of RollBack: the lock is not restored; a retry restores too.
RollBackSkipped == Finish("rolled_back")
RollBackAlways == pc' = "restore" /\ UNCHANGED <<locals, outcome>>

\* The failure path shared by a failed launch and a failed rebuild.
RollBack == IF bk = None
            THEN Finish("retry_failed")
            ELSE pc' = "restore" /\ UNCHANGED <<locals, outcome>>

LaunchFails ==
    /\ pc = "launch"
    /\ RollBack
    /\ UNCHANGED <<files, clock, incomplete, cancelFlag, root,
                   systems, start, unfinished>>

RebuildSucceeded ==
    /\ pc = "wait" /\ helper = "ok"
    /\ Finish("applied") /\ incomplete' = FALSE
    /\ UNCHANGED <<files, clock, cancelFlag, root, systems, start,
                   unfinished>>

RebuildFailed ==
    /\ pc = "wait" /\ helper \in {"failed", "cancelled"}
    /\ \E now \in Resolved(current) :
          \/ /\ Activated(before, now)
             /\ Finish("partial") /\ incomplete' = TRUE
          \/ /\ ~Activated(before, now)
             /\ RollBack /\ UNCHANGED incomplete
    /\ UNCHANGED <<files, clock, cancelFlag, root, systems, start,
                   unfinished>>

\* restore_lock is best-effort: a missing backup leaves flake.lock alone.
Restore ==
    /\ pc = "restore"
    /\ Finish("rolled_back")
    /\ \/ repoLock' = IF bk \in DOMAIN backups THEN backups[bk] ELSE repoLock
       \/ "copy_fails" \in Faults /\ repoLock' \in {repoLock, Torn}
    /\ UNCHANGED <<backups, clock, incomplete, cancelFlag, root,
                   systems, start, unfinished>>

-----------------------------------------------------------------------------
(* The root side: pkexec, rebuild_privileged and terminate_group *)

\* The user answers the polkit prompt.  nixos-rebuild evaluates the lock
\* that is in the repository when it starts.
Authenticate ==
    /\ helper = "prompt"
    /\ helper' = "poll" /\ switch' = "build" /\ target' = repoLock
    /\ UNCHANGED <<files, clock, task, cancelFlag, during, systems, history>>

Deny ==
    /\ helper = "prompt"
    /\ helper' = "failed"
    /\ UNCHANGED <<files, clock, task, cancelFlag, during, switch, target, systems,
                   history>>

\* Mutant of PollCancel: a rebuild that has begun activation is not stopped.
PollCancelDeclines ==
    /\ helper = "poll" /\ cancelFlag /\ profile = current
    /\ helper' = "stopping" /\ during' = FALSE
    /\ UNCHANGED <<files, clock, task, cancelFlag, switch, target, systems, history>>

\* Every 500 ms: the flag is there, so sample the phase, then SIGTERM.
\* select! picks at random when the rebuild has ended at the same moment.
PollCancel ==
    /\ helper = "poll" /\ cancelFlag
    /\ helper' = "stopping"
    /\ \E p \in Resolved(profile), c \in Resolved(current) :
          during' = GenerationsDiffer(p, c)
    /\ UNCHANGED <<files, clock, task, cancelFlag, switch, target, systems, history>>

\* SIGTERM, or SIGKILL once the grace period is over, ends the rebuild.
Terminate ==
    /\ helper = "stopping" /\ Alive
    /\ switch' = "dead"
    /\ UNCHANGED <<files, clock, task, cancelFlag, helper, during, target, systems,
                   history>>

HelperExits ==
    /\ ~Alive
    /\ \/ helper = "poll" /\ switch = "done" /\ helper' = "ok"
       \/ helper = "poll" /\ switch = "dead" /\ helper' = "failed"
       \/ helper = "stopping" /\ helper' = "cancelled"
    /\ UNCHANGED <<files, clock, task, cancelFlag, during, switch, target, systems,
                   history>>

-----------------------------------------------------------------------------
(* nixos-rebuild switch: build, set the profile, activate.  Activation     *)
(* installs the bootloader before /run/current-system is updated and       *)
(* restarts units after it; any stage can fail.                            *)

SetProfile ==
    /\ switch = "build" /\ target \in Locks
    /\ switch' = "profile" /\ profile' = SystemOf[target]
    /\ UNCHANGED <<files, clock, task, cancelFlag, helper, during, target, current,
                   history>>

GoLive ==
    /\ switch = "profile"
    /\ switch' = "live" /\ current' = SystemOf[target] /\ unfinished' = TRUE
    /\ UNCHANGED <<files, clock, task, cancelFlag, helper, during, target, profile,
                   start, outcome>>

SwitchCompletes ==
    /\ switch = "live"
    /\ switch' = "done" /\ unfinished' = FALSE
    /\ UNCHANGED <<files, clock, task, cancelFlag, helper, during, target, systems,
                   start, outcome>>

SwitchFails ==
    /\ Alive
    /\ switch' = "dead"
    /\ UNCHANGED <<files, clock, task, cancelFlag, helper, during, target, systems,
                   history>>

-----------------------------------------------------------------------------
(* The surroundings *)

\* Command::CancelApply, from the progress window or over D-Bus, at any time.
Cancel ==
    /\ ~cancelFlag
    /\ cancelFlag' = TRUE
    /\ UNCHANGED <<files, clock, task, root, systems, history>>

Tick ==
    /\ clock' \in {c \in 0 .. MaxClock :
                     c = clock + 1 \/ ("clock_back" \in Faults /\ c < clock)}
    /\ UNCHANGED <<files, task, cancelFlag, root, systems, history>>

\* The user updates or edits flake.lock by hand between applies.
EditLock ==
    /\ pc = "idle" /\ Ended
    /\ repoLock' \in Locks \ {repoLock}
    /\ outcome' = "none"
    /\ UNCHANGED <<backups, clock, task, cancelFlag, root, systems, start, unfinished>>

\* The daemon dies (Quit, a crash, the service stopped) and is started again:
\* its memory is lost, a running rebuild is not.
Restart ==
    /\ "restart" \in Faults
    /\ Finish(IF pc = "idle" THEN outcome ELSE "interrupted")
    /\ incomplete' = FALSE
    /\ repoLock' \in IF pc \in {"install", "restore"} /\ "copy_fails" \in Faults
                     THEN {repoLock, Torn} ELSE {repoLock}
    /\ UNCHANGED <<backups, clock, cancelFlag, root, systems, start,
                   unfinished>>

-----------------------------------------------------------------------------
TaskStep == \/ VerifyPins \/ Backup \/ BackupFails \/ Prune \/ Install \/ InstallFails
            \/ RemoveCancelFlag \/ SampleSystem \/ LaunchPkexec \/ LaunchFails
            \/ RebuildSucceeded \/ RebuildFailed \/ Restore

RootStep == PollCancel \/ Terminate \/ HelperExits

RebuildStep == SetProfile \/ GoLive \/ SwitchCompletes \/ SwitchFails

Next == \/ \E c \in Locks : StartApply(c)
        \/ StartRetry
        \/ TaskStep
        \/ Authenticate \/ Deny \/ RootStep
        \/ RebuildStep
        \/ Cancel \/ Tick \/ EditLock \/ Restart

\* The daemon's task and the root side keep running; nothing obliges the
\* user to answer a prompt or a rebuild to make progress.
Fairness == WF_vars(TaskStep) /\ WF_vars(RootStep)

Spec == Init /\ [][Next]_vars

FairSpec == Spec /\ Fairness

-----------------------------------------------------------------------------
(* Properties *)

\* The values every variable takes; the Options that apply_flow has unwrapped
\* at a step (the candidate, the backup to restore) are not None there, and a
\* torn lock is never activated.
TypeOK ==
    /\ repoLock \in Content
    /\ DOMAIN backups \subseteq Nat /\ backups \in [DOMAIN backups -> Content]
    /\ clock \in Nat
    /\ pc \in {"idle", "verify", "backup", "prune", "install", "flag", "sample",
               "launch", "wait", "restore"}
    /\ cand \in Locks \cup {None}
    /\ bk \in Nat \cup {None}
    /\ before \in Systems \cup {None}
    /\ incomplete \in BOOLEAN
    /\ cancelFlag \in BOOLEAN
    /\ helper \in {"none", "prompt", "poll", "stopping", "ok", "failed", "cancelled"}
    /\ during \in BOOLEAN
    /\ switch \in {"none", "build", "profile", "live", "done", "dead"}
    /\ target \in Content
    /\ profile \in Systems /\ current \in Systems
    /\ start \in [lock : Content, sys : Systems]
    /\ unfinished \in BOOLEAN
    /\ outcome \in Outcomes
    /\ pc \in {"verify", "backup", "prune", "install"} => cand # None
    /\ pc \in {"prune", "install", "restore"} => bk # None
    /\ switch \in {"profile", "live", "done"} => target \in Locks

\* README "Applying updates": the previous lock is restored if the rebuild
\* fails or the prompt is cancelled.  An apply that reports failure leaves
\* flake.lock exactly as it found it, wherever it failed.
FailureRestoresLock ==
    pc = "idle" /\ outcome \in Failures => repoLock = start.lock

\* The comment in apply_rebuild (restoring the lock under a live system
\* "would silently revert" the user at the next rebuild): when an apply has
\* ended, the lock in the repository is the one the running system was built
\* from, or both lock and system are those the apply started with.
NoSilentRevert ==
    pc = "idle" /\ outcome \in Failures \cup {"applied", "partial"} =>
        \/ repoLock \in Locks /\ current = SystemOf[repoLock]
        \/ repoLock = start.lock /\ current = start.sys

\* The backup that install_candidate_lock returns outlives its own pruning:
\* from then until the verdict it holds the lock the apply started with.
BackupHoldsOriginal ==
    pc \in {"install", "flag", "sample", "launch", "wait", "restore"} /\ bk # None =>
        bk \in DOMAIN backups /\ backups[bk] = start.lock

\* Whatever dies and whichever copy fails, the lock an apply displaced can be
\* recovered: it is in flake.lock or in one of the backups.
PreviousLockRecoverable ==
    pc # "idle" \/ outcome # "none" =>
        start.lock = repoLock \/ \E e \in DOMAIN backups : backups[e] = start.lock

\* Shared::apply_incomplete: a switch left unfinished on the running system
\* is remembered until one completes, so the tray keeps offering the retry.
UnfinishedIsRemembered == pc = "idle" /\ Ended /\ unfinished => incomplete

\* KEEP_BACKUPS: an apply leaves no more than the newest few backups behind.
BackupsBounded == pc = "idle" => Cardinality(DOMAIN backups) <= KEEP_BACKUPS

\* "so a cancel can never hang": a cancelled rebuild ends and the apply
\* reaches its verdict, whatever the rebuild itself does.
CancelEndsApply ==
    pc = "wait" /\ helper = "poll" /\ cancelFlag ~> pc = "idle"

\* The apply seen as a transaction: open from approval to verdict.
Transaction == INSTANCE LockUpdate
    WITH lock <- repoLock, running <- current,
         open <- (pc # "idle"), base <- start

\* The apply implements the transaction on flake.lock and the running system.
ImplementsLockUpdate == Transaction!Spec
=============================================================================
