--------------------------- MODULE Daemon_proofs ----------------------------
(***************************************************************************)
(* Theorems about Daemon, for every set of repositories, inputs, versions  *)
(* and trees, and any number of requests, checks and applies.              *)
(***************************************************************************)
EXTENDS Daemon, SequenceTheorems, TLAPS

\* What evaluating a lock gives, and what a check starts from.
LEMMA Evaluated ==
  ASSUME NEW l \in Lock
  PROVE  /\ \A t \in Trees : [lock |-> l, tree |-> t] \in Drv
         /\ Unevaluated(l) \in Drv
<1>1. (CHOOSE t \in Trees : TRUE) \in Trees
  BY SetsAssumption
<1>. QED  BY <1>1 DEF Drv, Unevaluated

\* An update of some inputs gives a lock of the same repository.
LEMMA AdvancedIsLock ==
  ASSUME NEW l \in Lock, NEW moved, NEW offered \in [Inputs -> Versions]
  PROVE  Advanced(l, moved, offered) \in Lock
<1>. DEFINE pins == [i \in Inputs |-> IF i \in moved THEN offered[i] ELSE l.pins[i]]
<1>1. l = [repo |-> l.repo, pins |-> l.pins] /\ l.repo \in Repos /\ l.pins \in [Inputs -> Versions]
  BY DEF Lock
<1>2. pins \in [Inputs -> Versions]
  BY <1>1
<1>3. Advanced(l, moved, offered) = [repo |-> l.repo, pins |-> pins]
  BY <1>1 DEF Advanced
<1>. QED  BY <1>1, <1>2, <1>3 DEF Lock

\* Nothing but well-typed states is reachable; in particular no lock is
\* installed by a task that has not verified one.
THEOREM TypeCorrect == Spec => []TypeOK
<1>. USE SetsAssumption, NoneAssumption, DaemonBounds
     DEF Statuses, Commands, CheckTask, ApplyTask, Applicable
<1>1. Init => TypeOK
  <2>. SUFFICES ASSUME Init PROVE TypeOK
    OBVIOUS
  <2>1. /\ checking \in BOOLEAN /\ applying \in BOOLEAN
        /\ incomplete \in BOOLEAN /\ trayIncomplete \in BOOLEAN
    BY Zenon DEF Init
  <2>2. queue \in Seq(Commands) /\ popups \in Seq(Drv)
    BY DEF Init
  <2>3. repoLock \in [Repos -> Lock]
    BY DEF Init, Lock
  <2>. QED  BY <2>1, <2>2, <2>3 DEF Init, TypeOK
<1>2. TypeOK /\ [Next]_vars => TypeOK'
  <2>. SUFFICES ASSUME TypeOK, [Next]_vars PROVE TypeOK'
    OBVIOUS
  <2>. USE DEF TypeOK, disk, flags, tasks, memory, tray
  <2>1. CASE TickOrSignal
    BY <2>1 DEF TickOrSignal, CheckNow
  <2>2. CASE RecvCommand
    <3>1. queue' \in Seq(Commands)
      BY <2>2 DEF RecvCommand
    <3>2. /\ applying' \in BOOLEAN
      BY <2>2, Zenon DEF RecvCommand, SpawnApply
    <3>3. /\ applies' \subseteq ApplyTask
          /\ \A t \in applies' : t.stage = "install" => t.verified
      <4>. DEFINE shown == IF candidate = None THEN None ELSE candidate.lock
                  t == [id |-> NewId(applies), repo |-> cfg, stage |-> "status",
                        shown |-> shown, verified |-> FALSE,
                        saved |-> repoLock[cfg], installed |-> None, completed |-> FALSE]
      <4>1. FALSE \in BOOLEAN /\ NewId(applies) \in {0, 1}
        BY DEF NewId
      <4>2. shown \in Lock \cup {None}
        BY DEF Drv
      <4>3. t \in ApplyTask /\ t.stage # "install"
        BY <4>1, <4>2
      <4>4. applies' = applies \cup {t} \/ UNCHANGED applies
        BY <2>2 DEF RecvCommand, SpawnApply
      <4>. HIDE DEF t, ApplyTask
      <4>. QED  BY <4>3, <4>4
    <3>4. /\ loop' \in {"select", "checking_tray", "quitting"}
          /\ status' \in Statuses /\ dismissed' \in Drv \cup {None}
      BY <2>2 DEF RecvCommand, CheckNow, AtSelect
    <3>. QED  BY <2>2, <3>1, <3>2, <3>3, <3>4 DEF RecvCommand
  <2>3. CASE RecvApplyDone
    <3>1. queue' \in Seq(Commands)
      BY <2>3 DEF RecvApplyDone, AfterApply
    <3>2. applying' \in BOOLEAN
      BY <2>3, Zenon DEF RecvApplyDone
    <3>3. applies' \subseteq applies
      BY <2>3 DEF RecvApplyDone
    <3>. QED  BY <2>3, <3>1, <3>2, <3>3 DEF RecvApplyDone
  <2>4. CASE RecvCheckResult
    <3>1. PICK c \in checks : /\ checks' = checks \ {c}
                              /\ result' = c /\ status' = Verdict(c)
      BY <2>4 DEF RecvCheckResult
    <3>2. checking' \in BOOLEAN
      BY <2>4, Zenon DEF RecvCheckResult
    <3>3. result' \in CheckTask /\ checks' \subseteq CheckTask
      BY <3>1
    <3>4. status' \in Statuses
      BY <3>1 DEF Verdict
    <3>. QED  BY <2>4, <3>2, <3>3, <3>4 DEF RecvCheckResult
  <2>5. CASE SetCheckingTray
    BY <2>5 DEF SetCheckingTray
  <2>6. CASE SpawnCheck
    <3>1. checking' \in BOOLEAN
      BY <2>6, Zenon DEF SpawnCheck
    <3>2. cfg' \in Repos
      BY <2>6 DEF SpawnCheck
    <3>3. checks' \subseteq CheckTask
      <4>. DEFINE u == Unevaluated(repoLock[cfg'])
                  c == [id |-> NewId(checks), repo |-> cfg', stage |-> "baseline",
                        ok |-> TRUE, pkgs |-> FALSE, base |-> u, cand |-> u]
      <4>1. TRUE \in BOOLEAN /\ FALSE \in BOOLEAN /\ NewId(checks) \in {0, 1}
        BY DEF NewId
      <4>2. u \in Drv
        BY <3>2, Evaluated
      <4>3. checks' = checks \cup {c}
        BY <2>6 DEF SpawnCheck
      <4>. HIDE DEF u
      <4>4. c \in CheckTask
        BY <3>2, <4>1, <4>2
      <4>. HIDE DEF c, CheckTask
      <4>. QED  BY <4>3, <4>4
    <3>. QED  BY <2>6, <3>1, <3>2, <3>3 DEF SpawnCheck
  <2>7. CASE SetResultTray
    BY <2>7 DEF SetResultTray, Verdict
  <2>8. CASE Publish
    <3>1. result \in CheckTask
      BY <2>8 DEF Publish
    <3>2. popups' \in Seq(Drv) /\ lastNotified' \in Drv \cup {None}
      <4>1. result.cand \in Drv
        BY <3>1
      <4>2. \/ popups' = Append(popups, result.cand) /\ lastNotified' = result.cand
            \/ UNCHANGED <<popups, lastNotified>>
        BY <2>8 DEF Publish, NotifiedAfter
      <4>3. Append(popups, result.cand) \in Seq(Drv)
        BY <4>1, AppendProperties
      <4>. QED  BY <4>1, <4>2, <4>3
    <3>3. candidate' \in Drv \cup {None} /\ dismissed' \in Drv \cup {None}
      BY <2>8, <3>1 DEF Publish, KeptCandidate
    <3>. QED  BY <2>8, <3>2, <3>3 DEF Publish
  <2>9. CASE CleanUp
    BY <2>9 DEF CleanUp
  <2>10. ASSUME NEW c \in checks, CheckTaskStep(c) PROVE TypeOK'
    <3>1. c \in CheckTask /\ c.repo \in Repos /\ c.base.lock \in Lock /\ c.cand.lock \in Lock
      BY DEF Drv
    <3>2. PICK d \in CheckTask : CheckStep(c, d)
      <4>1. CASE CheckBaseline(c)
        <5>1. PICK t \in Trees :
                CheckStep(c, [c EXCEPT !.stage = "update",
                                       !.base = [lock |-> repoLock[c.repo], tree |-> t]])
          BY <4>1 DEF CheckBaseline
        <5>. DEFINE drv == [lock |-> repoLock[c.repo], tree |-> t]
        <5>2. drv \in Drv
          BY <3>1, Evaluated
        <5>. HIDE DEF drv
        <5>3. [c EXCEPT !.stage = "update", !.base = drv] \in CheckTask
          BY <3>1, <5>2
        <5>. QED  BY <5>1, <5>3, Zenon DEF drv
      <4>2. CASE CheckUpdate(c)
        <5>1. PICK moved \in SUBSET Inputs, offered \in [Inputs -> Versions], t \in Trees :
                CheckStep(c, [c EXCEPT !.stage = "save",
                                       !.cand = [lock |-> Advanced(c.base.lock, moved, offered),
                                                 tree |-> t]])
          BY <4>2 DEF CheckUpdate
        <5>. DEFINE drv == [lock |-> Advanced(c.base.lock, moved, offered), tree |-> t]
        <5>2. drv \in Drv
          BY <3>1, AdvancedIsLock, Evaluated
        <5>. HIDE DEF drv
        <5>3. [c EXCEPT !.stage = "save", !.cand = drv] \in CheckTask
          BY <3>1, <5>2
        <5>. QED  BY <5>1, <5>3, Zenon DEF drv
      <4>3. CASE CheckSave(c)
        <5>1. [c EXCEPT !.stage = "diff"] \in CheckTask
          BY <3>1
        <5>. QED  BY <4>3, <5>1, Zenon DEF CheckSave
      <4>4. CASE CheckDiff(c)
        <5>1. PICK moved \in BOOLEAN : CheckStep(c, [c EXCEPT !.stage = "done", !.pkgs = moved])
          BY <4>4 DEF CheckDiff
        <5>2. [c EXCEPT !.stage = "done", !.pkgs = moved] \in CheckTask
          BY <3>1
        <5>. QED  BY <5>1, <5>2, Zenon
      <4>5. CASE CheckFails(c)
        <5>1. FALSE \in BOOLEAN
          OBVIOUS
        <5>2. [c EXCEPT !.stage = "done", !.ok = FALSE] \in CheckTask
          BY <3>1, <5>1
        <5>. QED  BY <4>5, <5>2, Zenon DEF CheckFails
      <4>. QED  BY <2>10, <4>1, <4>2, <4>3, <4>4, <4>5, Zenon DEF CheckTaskStep
    <3>3. candFile' \in Lock \cup {None}
      <4>2. candFile' = candFile \/ candFile' = c.cand.lock
        BY <2>10 DEF CheckTaskStep, CheckBaseline, CheckUpdate, CheckSave, CheckDiff,
                     CheckFails
      <4>. QED  BY <3>1, <4>2
    <3>4. checks' \subseteq CheckTask
      BY <3>2 DEF CheckStep
    <3>5. /\ UNCHANGED <<savedCfg, repoLock, inputs, queue, loop, flags, result, applies>>
          /\ UNCHANGED <<status, memory, incomplete, tray, popups>>
      BY <3>2 DEF CheckStep
    <3>. HIDE DEF CheckTask, ApplyTask
    <3>. QED  BY <3>3, <3>4, <3>5
  <2>11. ASSUME NEW t \in applies, ApplyTaskStep(t) PROVE TypeOK'
    <3>. DEFINE Good(u) == /\ u \in ApplyTask
                           /\ u.stage = "install" => u.verified
    <3>a. ASSUME NEW s \in {"status", "tray", "verify", "rebuild", "flag", "flag_tray",
                           "error", "error_tray", "done"}
          PROVE  Good([t EXCEPT !.stage = s])
      <4>1. t \in ApplyTask
        OBVIOUS
      <4>. QED  BY <4>1
    <3>b. Good([t EXCEPT !.stage = "install", !.verified = TRUE])
      <4>1. t \in ApplyTask /\ TRUE \in BOOLEAN
        OBVIOUS
      <4>. QED  BY <4>1
    <3>c. candFile # None => Good([t EXCEPT !.stage = "rebuild", !.saved = repoLock[t.repo],
                                            !.installed = candFile])
      <4>1. t \in ApplyTask /\ t.repo \in Repos
        OBVIOUS
      <4>2. repoLock[t.repo] \in Lock
        BY <4>1
      <4>. QED  BY <4>1, <4>2
    <3>d. ASSUME NEW b \in BOOLEAN
          PROVE  Good([t EXCEPT !.stage = "flag", !.completed = b])
      <4>1. t \in ApplyTask
        OBVIOUS
      <4>. QED  BY <4>1
    <3>1. \E u : Good(u) /\ ApplyStep(t, u)
      <4>. HIDE DEF Good
      <4>1. CASE ApplyStatus(t) \/ ApplyError(t)
        BY <4>1, <3>a DEF ApplyStatus, ApplyError, SetStatus
      <4>2. CASE ApplyTray(t) \/ ApplyErrorTray(t)
        BY <4>2, <3>a DEF ApplyTray, ApplyErrorTray, SetTrayStatus, AfterStatus
      <4>3. CASE ApplyVerify(t)
        BY <4>3, <3>a, <3>b DEF ApplyVerify
      <4>4. CASE ApplyInstall(t)
        BY <4>4, <3>a, <3>c DEF ApplyInstall
      <4>5. CASE ApplyRebuild(t)
        BY <4>5, <3>a, <3>d DEF ApplyRebuild
      <4>6. CASE ApplyFlag(t)
        BY <4>6, <3>a DEF ApplyFlag
      <4>7. CASE ApplyFlagTray(t)
        BY <4>7, <3>a DEF ApplyFlagTray
      <4>. QED
        BY <2>11, <4>1, <4>2, <4>3, <4>4, <4>5, <4>6, <4>7 DEF ApplyTaskStep
    <3>2. repoLock' \in [Repos -> Lock]
      <4>1. CASE ApplyInstall(t)
        <5>1. t \in ApplyTask
          OBVIOUS
        <5>2. CASE /\ candFile # None
                   /\ repoLock' = [repoLock EXCEPT ![t.repo] = candFile]
          BY <5>1, <5>2
        <5>. QED  BY <4>1, <5>2 DEF ApplyInstall
      <4>2. CASE ApplyRebuild(t)
        BY <4>2 DEF ApplyRebuild
      <4>3. CASE UNCHANGED repoLock
        BY <4>3
      <4>. QED
        BY <2>11, <4>1, <4>2, <4>3
           DEF ApplyTaskStep, ApplyStatus, ApplyTray, ApplyVerify, ApplyFlag,
               ApplyFlagTray, ApplyError, ApplyErrorTray, SetStatus, SetTrayStatus
    <3>3. status' \in Statuses /\ trayStatus' \in Statuses
      BY <2>11 DEF ApplyTaskStep, ApplyStatus, ApplyTray, ApplyVerify, ApplyInstall,
                   ApplyRebuild, ApplyFlag, ApplyFlagTray, ApplyError, ApplyErrorTray,
                   SetStatus, SetTrayStatus
    <3>4. incomplete' \in BOOLEAN /\ trayIncomplete' \in BOOLEAN
      BY <2>11 DEF ApplyTaskStep, ApplyStatus, ApplyTray, ApplyVerify, ApplyInstall,
                   ApplyRebuild, ApplyFlag, ApplyFlagTray, ApplyError, ApplyErrorTray,
                   SetStatus, SetTrayStatus
    <3>. QED  BY <3>1, <3>2, <3>3, <3>4 DEF ApplyStep
  <2>12. ASSUME NEW cmd \in Commands, Send(cmd) PROVE TypeOK'
    BY <2>12 DEF Send
  <2>13. CASE SaveSettings
    BY <2>13 DEF SaveSettings
  <2>14. CASE UNCHANGED vars
    BY <2>14 DEF vars
  <2>. QED
    BY <2>1, <2>2, <2>3, <2>4, <2>5, <2>6, <2>7, <2>8, <2>9, <2>10, <2>11, <2>12,
       <2>13, <2>14 DEF Next, HandlerStep
<1>. QED  BY <1>1, <1>2, PTL DEF Spec

-----------------------------------------------------------------------------
(* One task of each kind *)

\* While a check is being started none is in flight: the loop tested the flag
\* and has handled nothing else since.
TaskInv ==
    /\ ChecksSerialized
    /\ AppliesExclusive
    /\ loop \in {"checking_tray", "spawn_check"} => checks = {}

LEMMA TaskInvHolds == Spec => []TaskInv
<1>1. Init => TaskInv
  BY DEF Init, TaskInv, ChecksSerialized, AppliesExclusive
<1>2. TypeOK /\ TaskInv /\ [Next]_vars => TaskInv'
  <2>. SUFFICES ASSUME TypeOK, TaskInv, [Next]_vars PROVE TaskInv'
    OBVIOUS
  <2>. USE DEF TaskInv, ChecksSerialized, AppliesExclusive, flags, tasks
  <2>1. CASE TickOrSignal
    BY <2>1 DEF TickOrSignal, CheckNow, Busy, AtSelect
  <2>2. CASE RecvCommand
    <3>1. /\ UNCHANGED <<checks, checking>>
          /\ loop' \in {"checking_tray", "spawn_check"} => ~checking
      BY <2>2 DEF RecvCommand, CheckNow, Busy, AtSelect
    <3>2. \/ UNCHANGED <<applies, applying>>
          \/ ~applying /\ applying' /\ \E t : applies' = applies \cup {t}
      BY <2>2 DEF RecvCommand, SpawnApply, Busy
    <3>. QED  BY <3>1, <3>2
  <2>3. CASE RecvApplyDone
    BY <2>3 DEF RecvApplyDone, AfterApply, AtSelect
  <2>4. CASE RecvCheckResult
    BY <2>4 DEF RecvCheckResult, AtSelect
  <2>5. CASE SetCheckingTray
    BY <2>5 DEF SetCheckingTray
  <2>6. CASE SpawnCheck
    BY <2>6 DEF SpawnCheck
  <2>7. CASE SetResultTray
    BY <2>7 DEF SetResultTray
  <2>8. CASE Publish
    BY <2>8 DEF Publish
  <2>9. CASE CleanUp
    BY <2>9 DEF CleanUp
  <2>10. ASSUME NEW c \in checks, CheckTaskStep(c) PROVE TaskInv'
    <3>1. PICK d : checks' = (checks \ {c}) \cup {d}
      BY <2>10 DEF CheckTaskStep, CheckBaseline, CheckUpdate, CheckSave, CheckDiff,
                   CheckFails, CheckStep
    <3>2. UNCHANGED <<loop, checking, applying, applies>>
      BY <2>10 DEF CheckTaskStep, CheckBaseline, CheckUpdate, CheckSave, CheckDiff,
                   CheckFails, CheckStep
    <3>. QED  BY <3>1, <3>2
  <2>11. ASSUME NEW t \in applies, ApplyTaskStep(t) PROVE TaskInv'
    <3>1. \E u : ApplyStep(t, u)
      BY <2>11 DEF ApplyTaskStep, ApplyStatus, ApplyTray, ApplyVerify, ApplyInstall,
                   ApplyRebuild, ApplyFlag, ApplyFlagTray, ApplyError, ApplyErrorTray,
                   SetStatus, SetTrayStatus
    <3>2. PICK u : applies' = (applies \ {t}) \cup {u}
      BY <3>1 DEF ApplyStep
    <3>3. UNCHANGED <<loop, checking, applying, checks>>
      BY <3>1 DEF ApplyStep
    <3>. QED  BY <3>2, <3>3
  <2>12. ASSUME NEW cmd \in Commands, Send(cmd) PROVE TaskInv'
    BY <2>12 DEF Send
  <2>13. CASE SaveSettings
    BY <2>13 DEF SaveSettings
  <2>14. CASE UNCHANGED vars
    BY <2>14 DEF vars
  <2>. QED
    BY <2>1, <2>2, <2>3, <2>4, <2>5, <2>6, <2>7, <2>8, <2>9, <2>10, <2>11, <2>12,
       <2>13, <2>14 DEF Next, HandlerStep
<1>. QED  BY <1>1, <1>2, TypeCorrect, PTL DEF Spec

\* Checks within the process are serialized, so that reusing the scratch
\* directory and the candidate file from one check to the next is safe.
THEOREM SerialChecks == Spec => []ChecksSerialized
<1>1. TaskInv => ChecksSerialized
  BY DEF TaskInv
<1>. QED  BY <1>1, TaskInvHolds, PTL

\* No two applies ever run at the same time.
THEOREM ExclusiveApplies == Spec => []AppliesExclusive
<1>1. TaskInv => AppliesExclusive
  BY DEF TaskInv
<1>. QED  BY <1>1, TaskInvHolds, PTL

-----------------------------------------------------------------------------
(* The tray *)

\* Why the tray's icon recovers from interleaved set_status calls: whenever it
\* disagrees with the shared status, an apply is under way (whose end asks for
\* a check), or a check is asked for, starting, in flight or being published,
\* and a check sets both.
TrayInv ==
    /\ loop = "result_tray" => status = Verdict(result) \/ applies # {}
    /\ \/ trayStatus = status
       \/ applies # {}
       \/ checks # {}
       \/ \E i \in 1 .. Len(queue) : queue[i] = "check"
       \/ loop \in {"checking_tray", "spawn_check", "result_tray", "quitting", "stopped"}

LEMMA TrayInvHolds == Spec => []TrayInv
<1>1. Init => TrayInv
  BY DEF Init, TrayInv
<1>2. TypeOK /\ TaskInv /\ TrayInv /\ [Next]_vars => TrayInv'
  <2>. SUFFICES ASSUME TypeOK, TaskInv, TrayInv, [Next]_vars PROVE TrayInv'
    OBVIOUS
  <2>. USE DEF TrayInv, flags, tasks, tray
  <2>1. CASE TickOrSignal
    BY <2>1 DEF TickOrSignal, CheckNow, Busy, AtSelect
  <2>2. CASE RecvCommand
    <3>1. CASE Head(queue) = "check"
      BY <2>2, <3>1 DEF RecvCommand, CheckNow, Busy, TaskInv, ChecksSerialized
    <3>2. CASE Head(queue) # "check"
      <4>1. /\ queue # <<>> /\ queue' = Tail(queue)
            /\ UNCHANGED <<status, trayStatus, checks>>
            /\ loop' \in {"select", "quitting"} /\ loop = "select"
        BY <2>2, <3>2 DEF RecvCommand, AtSelect
      <4>2. applies # {} => applies' # {}
        BY <2>2 DEF RecvCommand, SpawnApply
      <4>3. ASSUME NEW i \in 1 .. Len(queue), queue[i] = "check"
            PROVE  \E j \in 1 .. Len(queue') : queue'[j] = "check"
        <5>1. i # 1
          BY <3>2, <4>1, <4>3 DEF TypeOK
        <5>2. i - 1 \in 1 .. Len(queue') /\ queue'[i - 1] = "check"
          BY <4>1, <4>3, <5>1, HeadTailProperties DEF TypeOK
        <5>. QED  BY <5>2
      <4>. QED  BY <4>1, <4>2, <4>3
    <3>. QED  BY <3>1, <3>2
  <2>3. CASE RecvApplyDone
    BY <2>3 DEF RecvApplyDone, AfterApply, AtSelect
  <2>4. CASE RecvCheckResult
    BY <2>4 DEF RecvCheckResult, AtSelect
  <2>5. CASE SetCheckingTray
    BY <2>5 DEF SetCheckingTray
  <2>6. CASE SpawnCheck
    BY <2>6 DEF SpawnCheck
  <2>7. CASE SetResultTray
    BY <2>7 DEF SetResultTray
  <2>8. CASE Publish
    BY <2>8 DEF Publish
  <2>9. CASE CleanUp
    BY <2>9 DEF CleanUp
  <2>10. ASSUME NEW c \in checks, CheckTaskStep(c) PROVE TrayInv'
    BY <2>10 DEF CheckTaskStep, CheckBaseline, CheckUpdate, CheckSave, CheckDiff,
                 CheckFails, CheckStep
  <2>11. ASSUME NEW t \in applies, ApplyTaskStep(t) PROVE TrayInv'
    BY <2>11 DEF ApplyTaskStep, ApplyStatus, ApplyTray, ApplyVerify, ApplyInstall,
                 ApplyRebuild, ApplyFlag, ApplyFlagTray, ApplyError, ApplyErrorTray,
                 SetStatus, SetTrayStatus, ApplyStep
  <2>12. ASSUME NEW cmd \in Commands, Send(cmd) PROVE TrayInv'
    BY <2>12 DEF Send
  <2>13. CASE SaveSettings
    BY <2>13 DEF SaveSettings
  <2>14. CASE UNCHANGED vars
    BY <2>14 DEF vars
  <2>. QED
    BY <2>1, <2>2, <2>3, <2>4, <2>5, <2>6, <2>7, <2>8, <2>9, <2>10, <2>11, <2>12,
       <2>13, <2>14 DEF Next, HandlerStep
<1>. QED  BY <1>1, <1>2, TypeCorrect, TaskInvHolds, PTL DEF Spec

\* Why the retry item recovers: the tray's flag lags behind the daemon's only
\* while the one apply task stands between writing the two, and what that task
\* will write is what the daemon's flag says.
FlagInv ==
    /\ trayIncomplete = incomplete \/ \E t \in applies : t.stage = "flag_tray"
    /\ \A t \in applies : t.stage = "flag_tray" => incomplete = ~t.completed

LEMMA FlagInvHolds == Spec => []FlagInv
<1>1. Init => FlagInv
  BY DEF Init, FlagInv
<1>2. TypeOK /\ TaskInv /\ FlagInv /\ [Next]_vars => FlagInv'
  <2>. SUFFICES ASSUME TypeOK, TaskInv, FlagInv, [Next]_vars PROVE FlagInv'
    OBVIOUS
  <2>. USE DEF FlagInv, flags, tasks, tray
  <2>1. CASE RecvCommand
    <3>1. \/ applies' = applies
          \/ \E t : applies' = applies \cup {t} /\ t.stage # "flag_tray"
      BY <2>1 DEF RecvCommand, SpawnApply
    <3>2. UNCHANGED <<incomplete, trayIncomplete>>
      BY <2>1 DEF RecvCommand
    <3>. QED  BY <3>1, <3>2
  <2>2. CASE RecvApplyDone
    BY <2>2 DEF RecvApplyDone
  <2>3. ASSUME NEW t \in applies, ApplyTaskStep(t) PROVE FlagInv'
    <3>1. applies = {t}
      BY <2>3 DEF TaskInv, AppliesExclusive
    <3>2. CASE ApplyFlag(t)
      <4>1. PICK u : /\ u = [t EXCEPT !.stage = "flag_tray"]
                     /\ applies' = {u} /\ incomplete' = ~t.completed
        BY <3>1, <3>2 DEF ApplyFlag, ApplyStep
      <4>2. t \in ApplyTask
        BY DEF TypeOK
      <4>3. u.stage = "flag_tray" /\ u.completed = t.completed
        BY <4>1, <4>2 DEF ApplyTask
      <4>. QED  BY <4>1, <4>3
    <3>3. CASE ApplyFlagTray(t)
      <4>1. \A u \in applies' : u.stage # "flag_tray"
        BY <3>1, <3>3 DEF ApplyFlagTray, ApplyStep, TypeOK, ApplyTask
      <4>2. incomplete' = incomplete /\ trayIncomplete' = ~t.completed
        BY <3>3 DEF ApplyFlagTray
      <4>3. incomplete = ~t.completed
        BY <3>3 DEF ApplyFlagTray
      <4>. QED  BY <4>1, <4>2, <4>3
    <3>4. CASE ~ApplyFlag(t) /\ ~ApplyFlagTray(t)
      <4>1. /\ t.stage # "flag_tray"
            /\ UNCHANGED <<incomplete, trayIncomplete>>
        BY <2>3, <3>4
           DEF ApplyTaskStep, ApplyStatus, ApplyTray, ApplyVerify, ApplyInstall,
               ApplyRebuild, ApplyError, ApplyErrorTray, SetStatus, SetTrayStatus
      <4>a. ASSUME NEW s \in {"tray", "verify", "install", "rebuild", "flag", "error",
                              "error_tray", "done"},
                   NEW v, NEW l, NEW b
            PROVE  /\ [t EXCEPT !.stage = s].stage # "flag_tray"
                   /\ [t EXCEPT !.stage = s, !.verified = v].stage # "flag_tray"
                   /\ [t EXCEPT !.stage = s, !.saved = l, !.installed = v].stage # "flag_tray"
                   /\ [t EXCEPT !.stage = s, !.completed = b].stage # "flag_tray"
        BY DEF TypeOK, ApplyTask
      <4>2. \E u : ApplyStep(t, u) /\ u.stage # "flag_tray"
        <5>1. CASE ApplyStatus(t) \/ ApplyError(t)
          BY <4>a, <5>1 DEF ApplyStatus, ApplyError, SetStatus
        <5>2. CASE ApplyTray(t) \/ ApplyErrorTray(t)
          BY <4>a, <5>2 DEF ApplyTray, ApplyErrorTray, SetTrayStatus, AfterStatus
        <5>3. CASE ApplyVerify(t)
          BY <4>a, <5>3 DEF ApplyVerify
        <5>4. CASE ApplyInstall(t)
          <6>1. CASE ApplyStep(t, [t EXCEPT !.stage = "error"])
            BY <4>a, <6>1
          <6>2. CASE ApplyStep(t, [t EXCEPT !.stage = "rebuild", !.saved = repoLock[t.repo],
                                            !.installed = candFile])
            BY <4>a, <6>2, Zenon
          <6>. QED  BY <5>4, <6>1, <6>2 DEF ApplyInstall
        <5>5. CASE ApplyRebuild(t)
          BY <4>a, <5>5 DEF ApplyRebuild
        <5>. QED  BY <2>3, <3>4, <5>1, <5>2, <5>3, <5>4, <5>5 DEF ApplyTaskStep
      <4>3. \E u : applies' = {u} /\ u.stage # "flag_tray"
        BY <3>1, <4>2 DEF ApplyStep
      <4>. QED  BY <3>1, <4>1, <4>3
    <3>. QED  BY <3>2, <3>3, <3>4
  <2>4. CASE UNCHANGED <<incomplete, trayIncomplete, applies>>
    BY <2>4
  <2>5. CASE TickOrSignal
    BY <2>4, <2>5 DEF TickOrSignal
  <2>6. CASE RecvCheckResult
    BY <2>4, <2>6 DEF RecvCheckResult
  <2>7. CASE HandlerStep
    BY <2>4, <2>7 DEF HandlerStep, SetCheckingTray, SpawnCheck, SetResultTray, Publish, CleanUp
  <2>8. ASSUME NEW c \in checks, CheckTaskStep(c) PROVE FlagInv'
    BY <2>4, <2>8 DEF CheckTaskStep, CheckBaseline, CheckUpdate, CheckSave, CheckDiff,
                      CheckFails, CheckStep
  <2>9. ASSUME NEW cmd \in Commands, Send(cmd) PROVE FlagInv'
    BY <2>4, <2>9 DEF Send
  <2>10. CASE SaveSettings \/ UNCHANGED vars
    BY <2>4, <2>10 DEF SaveSettings, vars
  <2>. QED
    BY <2>1, <2>2, <2>3, <2>5, <2>6, <2>7, <2>8, <2>9, <2>10 DEF Next
<1>. QED  BY <1>1, <1>2, TypeCorrect, TaskInvHolds, PTL DEF Spec

\* Once nothing is under way the tray shows the status D-Bus clients read, and
\* once no apply is under way its retry item follows the daemon's flag.
THEOREM TrayRecovers == Spec => []TrayAgrees
<1>1. TrayInv /\ FlagInv => TrayAgrees
  BY DEF TrayInv, FlagInv, TrayAgrees, Settled
<1>. QED  BY <1>1, TrayInvHolds, FlagInvHolds, PTL

-----------------------------------------------------------------------------
(* The offer *)

\* Why an enabled apply item is never dead: what the tray shows is either being
\* published or comes with a candidate, and a check that has gone well has
\* saved a lock, which nothing but the shutdown removes.
OfferInv ==
    /\ trayStatus \in Applicable =>
          IF loop = "publish" THEN Verdict(result) \in Applicable ELSE candidate # None
    /\ Running /\ candidate # None => candFile # None
    /\ loop \in {"result_tray", "publish"} /\ result.ok => candFile # None
    /\ \A c \in checks : Running /\ c.stage \in {"diff", "done"} /\ c.ok => candFile # None

LEMMA OfferInvHolds == Spec => []OfferInv
<1>1. Init => OfferInv
  BY DEF Init, OfferInv, Applicable
<1>2. TypeOK /\ OfferInv /\ [Next]_vars => OfferInv'
  <2>. SUFFICES ASSUME TypeOK, OfferInv, [Next]_vars PROVE OfferInv'
    OBVIOUS
  <2>. USE DEF OfferInv, Running, Applicable, disk, tasks, memory, tray
  <2>1. CASE TickOrSignal
    BY <2>1 DEF TickOrSignal, CheckNow, AtSelect
  <2>2. CASE RecvCommand
    BY <2>2 DEF RecvCommand, CheckNow, AtSelect
  <2>3. CASE RecvApplyDone
    BY <2>3 DEF RecvApplyDone, AtSelect
  <2>4. CASE RecvCheckResult
    BY <2>4 DEF RecvCheckResult, AtSelect
  <2>5. CASE SetCheckingTray
    BY <2>5 DEF SetCheckingTray
  <2>6. CASE SpawnCheck
    <3>1. /\ loop = "spawn_check" /\ loop' = "select"
          /\ UNCHANGED <<trayStatus, candidate, candFile>>
      BY <2>6 DEF SpawnCheck
    <3>. DEFINE c == [id |-> NewId(checks), repo |-> cfg', stage |-> "baseline", ok |-> TRUE,
                      pkgs |-> FALSE, base |-> Unevaluated(repoLock[cfg']),
                      cand |-> Unevaluated(repoLock[cfg'])]
    <3>2. checks' = checks \cup {c}
      BY <2>6 DEF SpawnCheck
    <3>3. c.stage = "baseline"
      OBVIOUS
    <3>. HIDE DEF c
    <3>. QED  BY <3>1, <3>2, <3>3
  <2>7. CASE SetResultTray
    BY <2>7 DEF SetResultTray
  <2>8. CASE Publish
    <3>1. result \in CheckTask
      BY <2>8 DEF Publish, TypeOK
    <3>2. result.cand # None
      BY <3>1, NoneAssumption DEF CheckTask
    <3>3. Verdict(result) \in Applicable => result.ok
      BY DEF Verdict
    <3>4. /\ candidate' = KeptCandidate(result) /\ loop = "publish" /\ loop' = "select"
          /\ UNCHANGED <<trayStatus, candFile, checks>>
      BY <2>8 DEF Publish
    <3>. QED  BY <3>2, <3>3, <3>4 DEF KeptCandidate
  <2>9. CASE CleanUp
    BY <2>9 DEF CleanUp
  <2>10. ASSUME NEW c \in checks, CheckTaskStep(c) PROVE OfferInv'
    <3>1. c \in CheckTask /\ c.cand.lock # None
      BY NoneAssumption DEF TypeOK, CheckTask, Drv
    <3>2. PICK d : /\ checks' = (checks \ {c}) \cup {d}
                   /\ candFile' \in {candFile, c.cand.lock}
                   /\ d.stage \in {"diff", "done"} /\ d.ok =>
                         (c.stage = "diff" /\ c.ok) \/ candFile' = c.cand.lock
      <4>a. ASSUME NEW s \in {"update", "save", "done"}, NEW x
            PROVE  /\ [c EXCEPT !.stage = s, !.base = x].stage = s
                   /\ [c EXCEPT !.stage = s, !.cand = x].stage = s
        BY <3>1 DEF CheckTask
      <4>b. [c EXCEPT !.stage = "done", !.ok = FALSE].ok = FALSE
        BY <3>1 DEF CheckTask
      <4>1. CASE CheckBaseline(c)
        <5>1. PICK x : CheckStep(c, [c EXCEPT !.stage = "update", !.base = x])
          BY <4>1, Zenon DEF CheckBaseline
        <5>. QED  BY <4>1, <4>a, <5>1 DEF CheckBaseline, CheckStep
      <4>2. CASE CheckUpdate(c)
        <5>1. PICK x : CheckStep(c, [c EXCEPT !.stage = "save", !.cand = x])
          BY <4>2, Zenon DEF CheckUpdate
        <5>. QED  BY <4>2, <4>a, <5>1 DEF CheckUpdate, CheckStep
      <4>3. CASE CheckSave(c)
        BY <4>3 DEF CheckSave, CheckStep
      <4>4. CASE CheckDiff(c)
        <5>1. PICK moved \in BOOLEAN : CheckStep(c, [c EXCEPT !.stage = "done", !.pkgs = moved])
          BY <4>4 DEF CheckDiff
        <5>2. [c EXCEPT !.stage = "done", !.pkgs = moved].ok = c.ok
          BY <3>1 DEF CheckTask
        <5>. QED  BY <4>4, <5>1, <5>2 DEF CheckStep, CheckDiff
      <4>5. CASE CheckFails(c)
        BY <4>5, <4>b, Zenon DEF CheckFails, CheckStep
      <4>. QED  BY <2>10, <4>1, <4>2, <4>3, <4>4, <4>5 DEF CheckTaskStep
    <3>3. /\ UNCHANGED <<loop, result, trayStatus, candidate>> /\ Running
      BY <2>10 DEF CheckTaskStep, CheckBaseline, CheckUpdate, CheckSave, CheckDiff,
                   CheckFails, CheckStep
    <3>. QED  BY <3>1, <3>2, <3>3
  <2>11. ASSUME NEW t \in applies, ApplyTaskStep(t) PROVE OfferInv'
    BY <2>11 DEF ApplyTaskStep, ApplyStatus, ApplyTray, ApplyVerify, ApplyInstall,
                 ApplyRebuild, ApplyFlag, ApplyFlagTray, ApplyError, ApplyErrorTray,
                 SetStatus, SetTrayStatus, ApplyStep
  <2>12. ASSUME NEW cmd \in Commands, Send(cmd) PROVE OfferInv'
    BY <2>12 DEF Send
  <2>13. CASE SaveSettings
    BY <2>13 DEF SaveSettings
  <2>14. CASE UNCHANGED vars
    BY <2>14 DEF vars
  <2>. QED
    BY <2>1, <2>2, <2>3, <2>4, <2>5, <2>6, <2>7, <2>8, <2>9, <2>10, <2>11, <2>12,
       <2>13, <2>14 DEF Next, HandlerStep
<1>. QED  BY <1>1, <1>2, TypeCorrect, PTL DEF Spec

\* Between handlers, and with no apply under way, an enabled apply item has
\* something to apply.
THEOREM OffersAreLive == Spec => []OfferIsLive
<1>1. OfferInv /\ FlagInv => OfferIsLive
  BY DEF OfferInv, FlagInv, OfferIsLive, Running
<1>. QED  BY <1>1, OfferInvHolds, FlagInvHolds, PTL

-----------------------------------------------------------------------------
(* Notifications *)

\* Why a set is not announced again and again: the last one announced is
\* remembered, over failed checks, applies and settled states alike, so that
\* neighbours in the history differ.
NotifyInv ==
    /\ \A i \in 1 .. Len(popups) - 1 : popups[i] # popups[i + 1]
    /\ popups # <<>> => lastNotified = popups[Len(popups)]

LEMMA NotifyInvHolds == Spec => []NotifyInv
<1>1. Init => NotifyInv
  BY DEF Init, NotifyInv
<1>2. TypeOK /\ NotifyInv /\ [Next]_vars => NotifyInv'
  <2>. SUFFICES ASSUME TypeOK, NotifyInv, [Next]_vars PROVE NotifyInv'
    OBVIOUS
  <2>1. CASE UNCHANGED <<popups, lastNotified>>
    BY <2>1 DEF NotifyInv
  <2>2. CASE Publish /\ ~UNCHANGED <<popups, lastNotified>>
    <3>. DEFINE d == result.cand
    <3>1. /\ lastNotified # d /\ lastNotified' = d
          /\ popups' = Append(popups, d)
      BY <2>2 DEF Publish, Notifiable, NotifiedAfter
    <3>2. d \in Drv
      BY <2>2 DEF Publish, TypeOK, CheckTask
    <3>. HIDE DEF d
    <3>3. popups \in Seq(Drv)
      BY DEF TypeOK
    <3>4. /\ Len(popups) \in Nat /\ Len(popups') = Len(popups) + 1 /\ popups' # <<>>
          /\ \A i \in 1 .. Len(popups) : popups'[i] = popups[i]
          /\ popups'[Len(popups) + 1] = d
      BY <3>1, <3>2, <3>3
    <3>5. \A i \in 1 .. Len(popups') - 1 : popups'[i] # popups'[i + 1]
      <4>1. popups # <<>> => popups[Len(popups)] # d
        BY <3>1 DEF NotifyInv
      <4>2. popups = <<>> => Len(popups) = 0
        OBVIOUS
      <4>. QED  BY <3>4, <4>1, <4>2 DEF NotifyInv
    <3>. QED  BY <3>1, <3>4, <3>5 DEF NotifyInv
  <2>3. CASE TickOrSignal \/ RecvCommand \/ RecvApplyDone \/ RecvCheckResult
    BY <2>1, <2>3 DEF TickOrSignal, RecvCommand, RecvApplyDone, RecvCheckResult, memory
  <2>4. CASE SetCheckingTray \/ SpawnCheck \/ SetResultTray \/ CleanUp
    BY <2>1, <2>4 DEF SetCheckingTray, SpawnCheck, SetResultTray, CleanUp, memory
  <2>5. ASSUME NEW c \in checks, CheckTaskStep(c) PROVE NotifyInv'
    BY <2>1, <2>5 DEF CheckTaskStep, CheckBaseline, CheckUpdate, CheckSave, CheckDiff,
                      CheckFails, CheckStep, memory
  <2>6. ASSUME NEW t \in applies, ApplyTaskStep(t) PROVE NotifyInv'
    BY <2>1, <2>6
       DEF ApplyTaskStep, ApplyStatus, ApplyTray, ApplyVerify, ApplyInstall, ApplyRebuild,
           ApplyFlag, ApplyFlagTray, ApplyError, ApplyErrorTray, SetStatus, SetTrayStatus,
           ApplyStep, memory
  <2>7. CASE (\E cmd \in Commands : Send(cmd)) \/ SaveSettings \/ UNCHANGED vars
    BY <2>1, <2>7 DEF Send, SaveSettings, vars, memory
  <2>. QED  BY <2>1, <2>2, <2>3, <2>4, <2>5, <2>6, <2>7 DEF Next, HandlerStep
<1>. QED  BY <1>1, <1>2, TypeCorrect, PTL DEF Spec

\* Whatever inputs, remotes, trees and the configuration do, no update set is
\* announced twice unless a different one was announced in between: the one
\* announced just before the second time.
THEOREM NotificationsNotRepeated == Spec => []NotifiedOnce
<1>1. TypeOK /\ NotifyInv => NotifiedOnce
  <2>. SUFFICES ASSUME TypeOK, NotifyInv,
                       NEW i \in 1 .. Len(popups), NEW j \in 1 .. Len(popups),
                       i < j, popups[i] = popups[j]
                PROVE  \E k \in i .. j : popups[k] # popups[i]
    BY DEF NotifiedOnce
  <2>1. j - 1 \in 1 .. Len(popups) - 1 /\ j - 1 \in i .. j /\ (j - 1) + 1 = j
    BY DEF TypeOK
  <2>2. popups[j - 1] # popups[j]
    BY <2>1 DEF NotifyInv
  <2>. QED  BY <2>1, <2>2
<1>. QED  BY <1>1, NotifyInvHolds, TypeCorrect, PTL
=============================================================================
