--------------------------- MODULE Apply_proofs -----------------------------
(***************************************************************************)
(* Theorems about Apply, for every set of locks and systems, every clock   *)
(* and every number of backups kept.                                       *)
(***************************************************************************)
EXTENDS Apply, FiniteSetTheorems, TLAPS

\* Nothing but well-typed states is reachable, whatever goes wrong: in
\* particular no step unwraps a candidate or a backup that is None.  (In the
\* proof a Boolean that a step assigns gets a step of its own: it is for Zenon,
\* the other conjuncts are for the SMT solver.)
THEOREM TypeCorrect == Spec => []TypeOK
<1>. USE LocksAssumption, SystemsAssumption, BoundsAssumption
     DEF Content, Outcomes, Failures
<1>1. Init => TypeOK
  <2>. SUFFICES ASSUME Init PROVE TypeOK
    OBVIOUS
  <2>1. incomplete \in BOOLEAN /\ cancelFlag \in BOOLEAN
    BY Zenon DEF Init
  <2>2. during \in BOOLEAN /\ unfinished \in BOOLEAN
    BY Zenon DEF Init
  <2>. QED  BY <2>1, <2>2 DEF Init, TypeOK
<1>2. TypeOK /\ [Next]_vars => TypeOK'
  <2>. SUFFICES ASSUME TypeOK, [Next]_vars PROVE TypeOK'
    OBVIOUS
  <2>. USE DEF TypeOK, files, locals, task, root, systems, history
  <2>1. ASSUME NEW c \in Locks, StartApply(c) PROVE TypeOK'
    BY <2>1 DEF StartApply
  <2>2. CASE StartRetry
    BY <2>2 DEF StartRetry
  <2>3. CASE VerifyPins
    BY <2>3 DEF VerifyPins, Finish
  <2>4. CASE Backup
    BY <2>4 DEF Backup
  <2>5. CASE BackupFails
    BY <2>5 DEF BackupFails, Finish
  <2>6. CASE Prune
    BY <2>6 DEF Prune, Newest
  <2>7. CASE Install
    BY <2>7 DEF Install
  <2>8. CASE InstallFails
    BY <2>8 DEF InstallFails, Finish
  <2>9. CASE RemoveCancelFlag
    <3>1. cancelFlag' \in BOOLEAN
      BY <2>9, Zenon DEF RemoveCancelFlag
    <3>. QED  BY <2>9, <3>1 DEF RemoveCancelFlag
  <2>10. CASE SampleSystem
    BY <2>10 DEF SampleSystem, Resolved
  <2>11. CASE LaunchPkexec
    <3>1. during' \in BOOLEAN
      BY <2>11, Zenon DEF LaunchPkexec
    <3>. QED  BY <2>11, <3>1 DEF LaunchPkexec
  <2>12. CASE LaunchFails
    BY <2>12 DEF LaunchFails, RollBack, Finish
  <2>13. CASE RebuildSucceeded
    BY <2>13 DEF RebuildSucceeded, Finish
  <2>14. CASE RebuildFailed
    <3>1. incomplete' \in BOOLEAN
      BY <2>14, Zenon DEF RebuildFailed
    <3>. QED  BY <2>14, <3>1 DEF RebuildFailed, RollBack, Finish
  <2>15. CASE Restore
    BY <2>15 DEF Restore, Finish
  <2>16. CASE Authenticate
    BY <2>16 DEF Authenticate
  <2>17. CASE Deny
    BY <2>17 DEF Deny
  <2>18. CASE PollCancel
    BY <2>18 DEF PollCancel, GenerationsDiffer
  <2>19. CASE Terminate
    BY <2>19 DEF Terminate
  <2>20. CASE HelperExits
    BY <2>20 DEF HelperExits
  <2>21. CASE SetProfile
    BY <2>21 DEF SetProfile
  <2>22. CASE GoLive
    <3>1. unfinished' \in BOOLEAN
      BY <2>22, Zenon DEF GoLive
    <3>. QED  BY <2>22, <3>1 DEF GoLive
  <2>23. CASE SwitchCompletes
    <3>1. unfinished' \in BOOLEAN
      BY <2>23, Zenon DEF SwitchCompletes
    <3>. QED  BY <2>23, <3>1 DEF SwitchCompletes
  <2>24. CASE SwitchFails
    BY <2>24 DEF SwitchFails, Alive
  <2>25. CASE Cancel
    BY <2>25 DEF Cancel
  <2>26. CASE Tick
    BY <2>26 DEF Tick
  <2>27. CASE EditLock
    BY <2>27 DEF EditLock
  <2>28. CASE Restart
    <3>1. incomplete' \in BOOLEAN
      BY <2>28, Zenon DEF Restart
    <3>. QED  BY <2>28, <3>1 DEF Restart, Finish
  <2>29. CASE UNCHANGED vars
    BY <2>29 DEF vars
  <2>. QED
    BY <2>1, <2>2, <2>3, <2>4, <2>5, <2>6, <2>7, <2>8, <2>9, <2>10, <2>11,
       <2>12, <2>13, <2>14, <2>15, <2>16, <2>17, <2>18, <2>19, <2>20, <2>21,
       <2>22, <2>23, <2>24, <2>25, <2>26, <2>27, <2>28, <2>29
       DEF Next, TaskStep, RootStep, RebuildStep
<1>. QED  BY <1>1, <1>2, PTL DEF Spec

-----------------------------------------------------------------------------
(* The backup *)

\* prune_old_backups never deletes the backup with the greatest epoch.
LEMMA NewestKeepsMaximum ==
  ASSUME NEW S \in SUBSET Nat, NEW m \in S, \A e \in S : e <= m,
         NEW keep \in Nat \ {0}
  PROVE  m \in Newest(S, keep)
<1>1. {f \in S : f > m} = {}
  <2>. SUFFICES ASSUME NEW f \in S PROVE ~(f > m)
    OBVIOUS
  <2>1. f <= m /\ f \in Nat /\ m \in Nat
    OBVIOUS
  <2>. QED  BY <2>1
<1>2. Cardinality({f \in S : f > m}) = 0
  BY <1>1, FS_EmptySet
<1>. QED  BY <1>2 DEF Newest

\* Why the backup survives: with a clock that never goes back, the epoch of
\* the newest backup is the greatest, and until the candidate is installed
\* flake.lock is still the lock the apply started with.
BackupInv ==
    /\ \A e \in DOMAIN backups : e <= clock
    /\ bk # None => bk \in DOMAIN backups /\ backups[bk] = start.lock
    /\ pc = "prune" => \A e \in DOMAIN backups : e <= bk
    /\ pc \in {"verify", "backup", "prune", "install"} => repoLock = start.lock
    /\ pc # "idle" /\ bk = None => repoLock = start.lock
    /\ PreviousLockRecoverable

LEMMA BackupInvHolds ==
  ASSUME "clock_back" \notin Faults
  PROVE  Spec => []BackupInv
<1>. USE LocksAssumption, BoundsAssumption DEF Content
<1>1. Init => BackupInv
  BY DEF Init, BackupInv, PreviousLockRecoverable
<1>2. TypeOK /\ TypeOK' /\ BackupInv /\ [Next]_vars => BackupInv'
  <2>. SUFFICES ASSUME TypeOK, TypeOK', BackupInv, [Next]_vars PROVE BackupInv'
    OBVIOUS
  <2>. USE DEF TypeOK, BackupInv, PreviousLockRecoverable, files, locals, task,
               root, systems, history
  <2>1. ASSUME NEW c \in Locks, StartApply(c) PROVE BackupInv'
    BY <2>1 DEF StartApply, Startable
  <2>2. CASE StartRetry
    BY <2>2 DEF StartRetry, Startable
  <2>3. CASE VerifyPins
    BY <2>3 DEF VerifyPins, Finish
  <2>4. CASE Backup
    BY <2>4 DEF Backup
  <2>5. CASE BackupFails
    BY <2>5 DEF BackupFails, Finish
  <2>6. CASE Prune
    <3>1. PICK left \in SUBSET (DOMAIN backups \ Newest(DOMAIN backups, KEEP_BACKUPS)) :
             backups' = [e \in Newest(DOMAIN backups, KEEP_BACKUPS) \cup left |->
                            backups[e]]
      BY <2>6 DEF Prune
    <3>2. bk \in Newest(DOMAIN backups, KEEP_BACKUPS)
      BY <2>6, NewestKeepsMaximum DEF Prune
    <3>3. Newest(DOMAIN backups, KEEP_BACKUPS) \subseteq DOMAIN backups
      BY DEF Newest
    <3>4. /\ pc' = "install" /\ pc = "prune"
          /\ UNCHANGED <<repoLock, clock, bk, start, outcome>>
      BY <2>6 DEF Prune
    <3>5. DOMAIN backups' \subseteq DOMAIN backups
      BY <3>1, <3>3
    <3>6. bk \in DOMAIN backups' /\ backups'[bk] = backups[bk]
      BY <3>1, <3>2
    <3>. QED  BY <3>4, <3>5, <3>6
  <2>7. CASE Install
    BY <2>7 DEF Install
  <2>8. CASE InstallFails
    BY <2>8 DEF InstallFails, Finish
  <2>9. CASE RemoveCancelFlag
    BY <2>9 DEF RemoveCancelFlag
  <2>10. CASE SampleSystem
    BY <2>10 DEF SampleSystem
  <2>11. CASE LaunchPkexec
    BY <2>11 DEF LaunchPkexec
  <2>12. CASE LaunchFails
    BY <2>12 DEF LaunchFails, RollBack, Finish
  <2>13. CASE RebuildSucceeded
    BY <2>13 DEF RebuildSucceeded, Finish
  <2>14. CASE RebuildFailed
    BY <2>14 DEF RebuildFailed, RollBack, Finish
  <2>15. CASE Restore
    BY <2>15 DEF Restore, Finish
  <2>16. CASE Authenticate
    BY <2>16 DEF Authenticate
  <2>17. CASE Deny
    BY <2>17 DEF Deny
  <2>18. CASE PollCancel
    BY <2>18 DEF PollCancel
  <2>19. CASE Terminate
    BY <2>19 DEF Terminate
  <2>20. CASE HelperExits
    BY <2>20 DEF HelperExits
  <2>21. CASE SetProfile
    BY <2>21 DEF SetProfile
  <2>22. CASE GoLive
    BY <2>22 DEF GoLive
  <2>23. CASE SwitchCompletes
    BY <2>23 DEF SwitchCompletes
  <2>24. CASE SwitchFails
    BY <2>24 DEF SwitchFails
  <2>25. CASE Cancel
    BY <2>25 DEF Cancel
  <2>26. CASE Tick
    BY <2>26 DEF Tick
  <2>27. CASE EditLock
    BY <2>27 DEF EditLock
  <2>28. CASE Restart
    BY <2>28 DEF Restart, Finish
  <2>29. CASE UNCHANGED vars
    BY <2>29 DEF vars
  <2>. QED
    BY <2>1, <2>2, <2>3, <2>4, <2>5, <2>6, <2>7, <2>8, <2>9, <2>10, <2>11,
       <2>12, <2>13, <2>14, <2>15, <2>16, <2>17, <2>18, <2>19, <2>20, <2>21,
       <2>22, <2>23, <2>24, <2>25, <2>26, <2>27, <2>28, <2>29
       DEF Next, TaskStep, RootStep, RebuildStep
<1>. QED  BY <1>1, <1>2, TypeCorrect, PTL DEF Spec

\* Whatever else goes wrong, as long as the clock does not go back the backup
\* an apply took is there, with the right content, when it is needed.
THEOREM BackupSurvives ==
  ASSUME "clock_back" \notin Faults
  PROVE  Spec => []BackupHoldsOriginal
<1>1. BackupInv => BackupHoldsOriginal
  BY DEF BackupInv, BackupHoldsOriginal
<1>. QED  BY <1>1, BackupInvHolds, PTL

\* ... so the displaced lock can be recovered even if the daemon dies or a
\* copy tears flake.lock.
THEOREM NoLockIsLost ==
  ASSUME "clock_back" \notin Faults
  PROVE  Spec => []PreviousLockRecoverable
<1>1. BackupInv => PreviousLockRecoverable
  BY DEF BackupInv
<1>. QED  BY <1>1, BackupInvHolds, PTL

-----------------------------------------------------------------------------
(* The number of backups *)

\* Two epochs have different numbers of newer ones, so at most `keep` epochs
\* have fewer than `keep` of them: what prune_old_backups keeps is bounded.
LEMMA NewestIsFew ==
  ASSUME NEW S \in SUBSET Nat, IsFiniteSet(S), NEW keep \in Nat
  PROVE  /\ IsFiniteSet(Newest(S, keep))
         /\ Cardinality(Newest(S, keep)) <= keep
<1>. DEFINE newer(e) == {f \in S : f > e}
            rank == [e \in Newest(S, keep) |-> Cardinality(newer(e))]
<1>1. ASSUME NEW e \in S
      PROVE  IsFiniteSet(newer(e)) /\ Cardinality(newer(e)) \in Nat
  <2>1. newer(e) \in SUBSET S
    OBVIOUS
  <2>2. IsFiniteSet(newer(e))
    BY <2>1, FS_Subset
  <2>. QED  BY <2>2, FS_CardinalityType
<1>2. ASSUME NEW e \in S, NEW g \in S, e < g
      PROVE  Cardinality(newer(e)) # Cardinality(newer(g))
  <2>1. newer(g) \in SUBSET newer(e)
    <3>. SUFFICES ASSUME NEW f \in S, f > g PROVE f > e
      OBVIOUS
    <3>1. e \in Nat /\ f \in Nat /\ g \in Nat
      OBVIOUS
    <3>. QED  BY <1>2, <3>1
  <2>2. g \in newer(e) /\ g \notin newer(g)
    BY <1>2
  <2>3. newer(e) # newer(g)
    BY <2>2
  <2>4. IsFiniteSet(newer(e))
    BY <1>1
  <2>. HIDE DEF newer
  <2>. QED  BY <2>1, <2>3, <2>4, FS_Subset
<1>3. Newest(S, keep) \in SUBSET S
  BY DEF Newest
<1>4. IsFiniteSet(Newest(S, keep))
  BY <1>3, FS_Subset
<1>5. rank \in [Newest(S, keep) -> 0 .. (keep - 1)]
  <2>. SUFFICES ASSUME NEW e \in Newest(S, keep)
                PROVE  Cardinality(newer(e)) \in 0 .. (keep - 1)
    OBVIOUS
  <2>1. Cardinality(newer(e)) \in Nat
    BY <1>1, <1>3
  <2>2. Cardinality(newer(e)) < keep
    BY DEF Newest
  <2>. QED  BY <2>1, <2>2
<1>6. ASSUME NEW e \in Newest(S, keep), NEW g \in Newest(S, keep), e # g
      PROVE  rank[e] # rank[g]
  <2>1. e \in S /\ g \in S /\ e \in Nat /\ g \in Nat
    BY <1>3
  <2>2. e < g \/ g < e
    BY <1>6, <2>1
  <2>3. Cardinality(newer(e)) # Cardinality(newer(g))
    BY <1>2, <2>1, <2>2
  <2>. QED  BY <2>3
<1>7. IsFiniteSet(0 .. (keep - 1)) /\ Cardinality(0 .. (keep - 1)) = keep
  <2>1. /\ IsFiniteSet(0 .. (keep - 1))
        /\ Cardinality(0 .. (keep - 1)) =
              IF 0 > keep - 1 THEN 0 ELSE (keep - 1) - 0 + 1
    BY FS_Interval
  <2>. QED  BY <2>1
<1>8. Cardinality(Newest(S, keep)) \in Nat
  BY <1>4, FS_CardinalityType
<1>9. ~(keep < Cardinality(Newest(S, keep)))
  <2>. HIDE DEF rank
  <2>1. SUFFICES ASSUME keep < Cardinality(Newest(S, keep)) PROVE FALSE
    OBVIOUS
  <2>2. \E e, g \in Newest(S, keep) : e # g /\ rank[e] = rank[g]
    BY <1>4, <1>5, <1>7, <2>1, FS_PigeonHole
  <2>. QED  BY <1>6, <2>2
<1>. QED  BY <1>4, <1>8, <1>9

\* Between Backup and Prune there may be one backup too many, at no other time.
BoundInv ==
    /\ IsFiniteSet(DOMAIN backups)
    /\ pc # "prune" => Cardinality(DOMAIN backups) <= KEEP_BACKUPS

\* KEEP_BACKUPS is a bound as long as each old backup can be deleted and no
\* apply ends between taking its backup and pruning.
THEOREM BackupsAreBounded ==
  ASSUME Faults \cap {"prune_fails", "copy_fails", "restart"} = {}
  PROVE  Spec => []BackupsBounded
<1>. USE BoundsAssumption
<1>1. Init => BoundInv
  <2>. SUFFICES ASSUME Init PROVE BoundInv
    OBVIOUS
  <2>1. DOMAIN backups = {}
    BY DEF Init
  <2>. QED  BY <2>1, FS_EmptySet DEF BoundInv
<1>2. TypeOK /\ BoundInv /\ [Next]_vars => BoundInv'
  <2>. SUFFICES ASSUME TypeOK, BoundInv, [Next]_vars PROVE BoundInv'
    OBVIOUS
  <2>1. CASE Backup
    <3>1. DOMAIN backups' = DOMAIN backups \cup {clock} /\ pc' = "prune"
      BY <2>1 DEF Backup
    <3>. QED  BY <3>1, FS_AddElement DEF BoundInv
  <2>2. CASE Prune
    <3>1. DOMAIN backups' = Newest(DOMAIN backups, KEEP_BACKUPS)
      BY <2>2 DEF Prune
    <3>2. DOMAIN backups \in SUBSET Nat /\ IsFiniteSet(DOMAIN backups)
      BY DEF TypeOK, BoundInv
    <3>. QED  BY <3>1, <3>2, NewestIsFew DEF BoundInv
  <2>3. ASSUME UNCHANGED backups, pc # "prune" \/ UNCHANGED pc
        PROVE  BoundInv'
    BY <2>3 DEF BoundInv
  <2>4. CASE \E c \in Locks : StartApply(c)
    BY <2>3, <2>4 DEF StartApply, Startable, files
  <2>5. CASE \/ StartRetry \/ VerifyPins \/ Install \/ RemoveCancelFlag
             \/ SampleSystem \/ LaunchPkexec
    BY <2>3, <2>5 DEF StartRetry, Startable, VerifyPins, Finish, Install,
                      RemoveCancelFlag, SampleSystem, LaunchPkexec, files
  <2>6. CASE LaunchFails \/ RebuildSucceeded \/ RebuildFailed \/ Restore
    BY <2>3, <2>6 DEF LaunchFails, RebuildSucceeded, RebuildFailed, RollBack,
                      Finish, Restore, files
  <2>7. CASE Authenticate \/ Deny \/ RootStep \/ RebuildStep
    BY <2>3, <2>7 DEF Authenticate, Deny, RootStep, PollCancel, Terminate,
                      HelperExits, RebuildStep, SetProfile, GoLive,
                      SwitchCompletes, SwitchFails, files, task
  <2>8. CASE Cancel \/ Tick \/ EditLock \/ UNCHANGED vars
    BY <2>3, <2>8 DEF Cancel, Tick, EditLock, vars, files, task
  <2>9. CASE BackupFails \/ InstallFails \/ Restart
    BY <2>9 DEF BackupFails, InstallFails, Restart
  <2>. QED
    BY <2>1, <2>2, <2>4, <2>5, <2>6, <2>7, <2>8, <2>9 DEF Next, TaskStep
<1>3. BoundInv => BackupsBounded
  BY DEF BoundInv, BackupsBounded
<1>. QED  BY <1>1, <1>2, <1>3, TypeCorrect, PTL DEF Spec

-----------------------------------------------------------------------------
(* The transaction *)

\* The faults under which the promise of LockUpdate is not kept.
Undisturbed == Faults \cap {"clock_back", "copy_fails", "unreadable", "restart"} = {}

\* No rebuild runs unless the apply task waits for it, and the phase it is in
\* agrees with what the root side reports.
RebuildInv ==
    /\ pc # "wait" => Ended
    /\ Ended => ~Alive
    /\ helper \in {"none", "prompt"} => switch = "none"
    /\ pc \in {"verify", "backup", "prune", "install", "flag", "sample", "launch"} =>
          helper = "none"
    /\ pc = "wait" => helper # "none"
    /\ helper = "ok" => switch = "done"

\* Why the verdict is right: until the rebuild goes live nothing has changed
\* since the apply started; from then on the running system is the one the
\* lock in the repository builds; and system_before tells which is the case.
VerdictInv ==
    /\ pc \notin {"idle", "wait"} => current = start.sys
    /\ pc \in {"launch", "wait"} => before = start.sys
    /\ pc = "wait" /\ switch # "none" => target = repoLock
    /\ pc = "wait" /\ switch \in {"live", "done"} => current = SystemOf[target]
    /\ pc = "wait" => \/ current = start.sys
                      \/ repoLock \in Locks /\ current = SystemOf[repoLock]
    /\ NoSilentRevert
    /\ FailureRestoresLock

LEMMA RebuildInvHolds ==
  ASSUME Undisturbed
  PROVE  Spec => []RebuildInv
<1>1. Init => RebuildInv
  BY DEF Init, RebuildInv, Ended, Alive
<1>2. TypeOK /\ RebuildInv /\ [Next]_vars => RebuildInv'
  <2>. SUFFICES ASSUME TypeOK, RebuildInv, [Next]_vars PROVE RebuildInv'
    OBVIOUS
  <2>. USE Undisturbed
       DEF TypeOK, RebuildInv, Ended, Alive, files, locals, task, root, systems,
           history, Undisturbed
  <2>1. ASSUME NEW c \in Locks, StartApply(c) PROVE RebuildInv'
    BY <2>1 DEF StartApply, Startable
  <2>2. CASE StartRetry
    BY <2>2 DEF StartRetry, Startable
  <2>3. CASE VerifyPins
    BY <2>3 DEF VerifyPins, Finish
  <2>4. CASE Backup
    BY <2>4 DEF Backup
  <2>5. CASE BackupFails
    BY <2>5 DEF BackupFails, Finish
  <2>6. CASE Prune
    BY <2>6 DEF Prune
  <2>7. CASE Install
    BY <2>7 DEF Install
  <2>8. CASE InstallFails
    BY <2>8 DEF InstallFails, Finish
  <2>9. CASE RemoveCancelFlag
    BY <2>9 DEF RemoveCancelFlag
  <2>10. CASE SampleSystem
    BY <2>10 DEF SampleSystem
  <2>11. CASE LaunchPkexec
    BY <2>11 DEF LaunchPkexec
  <2>12. CASE LaunchFails
    BY <2>12 DEF LaunchFails, RollBack, Finish
  <2>13. CASE RebuildSucceeded
    BY <2>13 DEF RebuildSucceeded, Finish
  <2>14. CASE RebuildFailed
    BY <2>14 DEF RebuildFailed, RollBack, Finish
  <2>15. CASE Restore
    BY <2>15 DEF Restore, Finish
  <2>16. CASE Authenticate
    BY <2>16 DEF Authenticate
  <2>17. CASE Deny
    BY <2>17 DEF Deny
  <2>18. CASE PollCancel
    BY <2>18 DEF PollCancel
  <2>19. CASE Terminate
    BY <2>19 DEF Terminate
  <2>20. CASE HelperExits
    BY <2>20 DEF HelperExits
  <2>21. CASE SetProfile
    BY <2>21 DEF SetProfile
  <2>22. CASE GoLive
    BY <2>22 DEF GoLive
  <2>23. CASE SwitchCompletes
    BY <2>23 DEF SwitchCompletes
  <2>24. CASE SwitchFails
    BY <2>24 DEF SwitchFails
  <2>25. CASE Cancel
    BY <2>25 DEF Cancel
  <2>26. CASE Tick
    BY <2>26 DEF Tick
  <2>27. CASE EditLock
    BY <2>27 DEF EditLock
  <2>28. CASE Restart
    BY <2>28 DEF Restart, Finish
  <2>29. CASE UNCHANGED vars
    BY <2>29 DEF vars
  <2>. QED
    BY <2>1, <2>2, <2>3, <2>4, <2>5, <2>6, <2>7, <2>8, <2>9, <2>10, <2>11,
       <2>12, <2>13, <2>14, <2>15, <2>16, <2>17, <2>18, <2>19, <2>20, <2>21,
       <2>22, <2>23, <2>24, <2>25, <2>26, <2>27, <2>28, <2>29
       DEF Next, TaskStep, RootStep, RebuildStep
<1>. QED  BY <1>1, <1>2, TypeCorrect, PTL DEF Spec

LEMMA VerdictInvHolds ==
  ASSUME Undisturbed
  PROVE  Spec => []VerdictInv
<1>. USE LocksAssumption, SystemsAssumption DEF Content, Outcomes, Failures
<1>1. Init => VerdictInv
  BY DEF Init, VerdictInv, NoSilentRevert, FailureRestoresLock
<1>2. TypeOK /\ BackupInv /\ RebuildInv /\ VerdictInv /\ [Next]_vars => VerdictInv'
  <2>. SUFFICES ASSUME TypeOK, BackupInv, RebuildInv, VerdictInv, [Next]_vars
                PROVE  VerdictInv'
    OBVIOUS
  <2>. USE Undisturbed
       DEF TypeOK, BackupInv, RebuildInv, VerdictInv, NoSilentRevert,
           FailureRestoresLock, Ended, Alive, files, locals, task, root, systems,
           history, Undisturbed
  <2>1. ASSUME NEW c \in Locks, StartApply(c) PROVE VerdictInv'
    BY <2>1 DEF StartApply, Startable
  <2>2. CASE StartRetry
    BY <2>2 DEF StartRetry, Startable
  <2>3. CASE VerifyPins
    BY <2>3 DEF VerifyPins, Finish
  <2>4. CASE Backup
    BY <2>4 DEF Backup
  <2>5. CASE BackupFails
    BY <2>5 DEF BackupFails, Finish
  <2>6. CASE Prune
    BY <2>6 DEF Prune
  <2>7. CASE Install
    BY <2>7 DEF Install
  <2>8. CASE InstallFails
    BY <2>8 DEF InstallFails, Finish
  <2>9. CASE RemoveCancelFlag
    BY <2>9 DEF RemoveCancelFlag
  <2>10. CASE SampleSystem
    BY <2>10 DEF SampleSystem, Resolved
  <2>11. CASE LaunchPkexec
    BY <2>11 DEF LaunchPkexec
  <2>12. CASE LaunchFails
    BY <2>12 DEF LaunchFails, RollBack, Finish
  <2>13. CASE RebuildSucceeded
    BY <2>13 DEF RebuildSucceeded, Finish
  <2>14. CASE RebuildFailed
    BY <2>14 DEF RebuildFailed, RollBack, Finish, Resolved, Activated
  <2>15. CASE Restore
    BY <2>15 DEF Restore, Finish
  <2>16. CASE Authenticate
    BY <2>16 DEF Authenticate
  <2>17. CASE Deny
    BY <2>17 DEF Deny
  <2>18. CASE PollCancel
    BY <2>18 DEF PollCancel
  <2>19. CASE Terminate
    BY <2>19 DEF Terminate
  <2>20. CASE HelperExits
    BY <2>20 DEF HelperExits
  <2>21. CASE SetProfile
    BY <2>21 DEF SetProfile
  <2>22. CASE GoLive
    BY <2>22 DEF GoLive
  <2>23. CASE SwitchCompletes
    BY <2>23 DEF SwitchCompletes
  <2>24. CASE SwitchFails
    BY <2>24 DEF SwitchFails
  <2>25. CASE Cancel
    BY <2>25 DEF Cancel
  <2>26. CASE Tick
    BY <2>26 DEF Tick
  <2>27. CASE EditLock
    BY <2>27 DEF EditLock
  <2>28. CASE Restart
    BY <2>28 DEF Restart, Finish
  <2>29. CASE UNCHANGED vars
    BY <2>29 DEF vars
  <2>. QED
    BY <2>1, <2>2, <2>3, <2>4, <2>5, <2>6, <2>7, <2>8, <2>9, <2>10, <2>11,
       <2>12, <2>13, <2>14, <2>15, <2>16, <2>17, <2>18, <2>19, <2>20, <2>21,
       <2>22, <2>23, <2>24, <2>25, <2>26, <2>27, <2>28, <2>29
       DEF Next, TaskStep, RootStep, RebuildStep
<1>3. "clock_back" \notin Faults
  BY Undisturbed DEF Undisturbed
<1>. QED  BY <1>1, <1>2, <1>3, TypeCorrect, BackupInvHolds, RebuildInvHolds, PTL
          DEF Spec

\* An apply that reports failure has left flake.lock as it found it.
THEOREM FailureRestores ==
  ASSUME Undisturbed
  PROVE  Spec => []FailureRestoresLock
<1>1. VerdictInv => FailureRestoresLock
  BY DEF VerdictInv
<1>. QED  BY <1>1, VerdictInvHolds, PTL

\* After an apply the user's next rebuild reverts nothing: the repository's
\* lock builds the running system, or both are what they were.
THEOREM VerdictIsSound ==
  ASSUME Undisturbed
  PROVE  Spec => []NoSilentRevert
<1>1. VerdictInv => NoSilentRevert
  BY DEF VerdictInv
<1>. QED  BY <1>1, VerdictInvHolds, PTL

\* Every apply is a transaction on flake.lock and the running system: each
\* step of the code is a step of LockUpdate or leaves lock and system alone.
THEOREM ApplyIsATransaction ==
  ASSUME Undisturbed
  PROVE  Spec => ImplementsLockUpdate
<1>. USE LocksAssumption, SystemsAssumption DEF Content
<1>1. Init => Transaction!Init
  BY DEF Init, Transaction!Init
<1>2. TypeOK /\ BackupInv /\ RebuildInv /\ VerdictInv /\ [Next]_vars
         => [Transaction!Next]_(Transaction!avars)
  <2>. SUFFICES ASSUME TypeOK, BackupInv, RebuildInv, VerdictInv, [Next]_vars
                PROVE  Transaction!Next \/ UNCHANGED Transaction!avars
    BY DEF Transaction!avars
  <2>. USE Undisturbed
       DEF TypeOK, BackupInv, RebuildInv, VerdictInv, files, locals, task, root,
           systems, history, Undisturbed, Transaction!avars, Transaction!Next,
           Transaction!Open, Transaction!Stage, Transaction!Switch,
           Transaction!Close, Transaction!Committed, Transaction!Edit
  <2>1. ASSUME NEW c \in Locks, StartApply(c) PROVE Transaction!Next \/ UNCHANGED Transaction!avars
    BY <2>1 DEF StartApply, Startable
  <2>2. CASE StartRetry
    BY <2>2 DEF StartRetry, Startable
  <2>3. CASE VerifyPins
    BY <2>3 DEF VerifyPins, Finish
  <2>4. CASE Backup
    BY <2>4 DEF Backup
  <2>5. CASE BackupFails
    BY <2>5 DEF BackupFails, Finish
  <2>6. CASE Prune
    BY <2>6 DEF Prune
  <2>7. CASE Install
    BY <2>7 DEF Install
  <2>8. CASE InstallFails
    BY <2>8 DEF InstallFails, Finish
  <2>9. CASE RemoveCancelFlag
    BY <2>9 DEF RemoveCancelFlag
  <2>10. CASE SampleSystem
    BY <2>10 DEF SampleSystem, Resolved
  <2>11. CASE LaunchPkexec
    BY <2>11 DEF LaunchPkexec
  <2>12. CASE LaunchFails
    BY <2>12 DEF LaunchFails, RollBack, Finish
  <2>13. CASE RebuildSucceeded
    BY <2>13 DEF RebuildSucceeded, Finish
  <2>14. CASE RebuildFailed
    BY <2>14 DEF RebuildFailed, RollBack, Finish, Resolved, Activated
  <2>15. CASE Restore
    BY <2>15 DEF Restore, Finish
  <2>16. CASE Authenticate
    BY <2>16 DEF Authenticate
  <2>17. CASE Deny
    BY <2>17 DEF Deny
  <2>18. CASE PollCancel
    BY <2>18 DEF PollCancel
  <2>19. CASE Terminate
    BY <2>19 DEF Terminate
  <2>20. CASE HelperExits
    BY <2>20 DEF HelperExits
  <2>21. CASE SetProfile
    BY <2>21 DEF SetProfile
  <2>22. CASE GoLive
    BY <2>22 DEF GoLive, Ended, Alive
  <2>23. CASE SwitchCompletes
    BY <2>23 DEF SwitchCompletes
  <2>24. CASE SwitchFails
    BY <2>24 DEF SwitchFails
  <2>25. CASE Cancel
    BY <2>25 DEF Cancel
  <2>26. CASE Tick
    BY <2>26 DEF Tick
  <2>27. CASE EditLock
    BY <2>27 DEF EditLock
  <2>28. CASE Restart
    BY <2>28 DEF Restart, Finish
  <2>29. CASE UNCHANGED vars
    BY <2>29 DEF vars
  <2>. QED
    BY <2>1, <2>2, <2>3, <2>4, <2>5, <2>6, <2>7, <2>8, <2>9, <2>10, <2>11,
       <2>12, <2>13, <2>14, <2>15, <2>16, <2>17, <2>18, <2>19, <2>20, <2>21,
       <2>22, <2>23, <2>24, <2>25, <2>26, <2>27, <2>28, <2>29
       DEF Next, TaskStep, RootStep, RebuildStep
<1>3. "clock_back" \notin Faults
  BY Undisturbed DEF Undisturbed
<1>. QED  BY <1>1, <1>2, <1>3, TypeCorrect, BackupInvHolds, RebuildInvHolds,
             VerdictInvHolds, PTL
          DEF Spec, ImplementsLockUpdate, Transaction!Spec

-----------------------------------------------------------------------------
(* The unfinished switch *)

\* Why an unfinished switch is noticed: a candidate builds a system other than
\* the one running when the apply started, so a rebuild of it that has gone
\* live has changed /run/current-system; a retry is only started while the
\* flag is set, and nothing but a complete switch clears it.
UnfinishedInv ==
    /\ pc # "wait" /\ unfinished => incomplete
    /\ pc = "wait" /\ unfinished => incomplete \/ current # start.sys
    /\ pc # "idle" /\ cand # None => SystemOf[cand] # start.sys
    /\ pc # "idle" /\ cand = None => incomplete
    /\ pc \in {"flag", "sample", "launch", "wait", "restore"} /\ cand # None
          => repoLock = cand
    /\ pc = "wait" /\ switch = "done" => ~unfinished

\* An unfinished switch is remembered, so the tray keeps offering the retry,
\* as long as the daemon lives and no candidate builds the running system.
THEOREM UnfinishedRemembered ==
  ASSUME Undisturbed, "same_system" \notin Faults
  PROVE  Spec => []UnfinishedIsRemembered
<1>. USE LocksAssumption
<1>1. Init => UnfinishedInv
  BY DEF Init, UnfinishedInv
<1>2. TypeOK /\ RebuildInv /\ VerdictInv /\ UnfinishedInv /\ [Next]_vars
         => UnfinishedInv'
  <2>. SUFFICES ASSUME TypeOK, RebuildInv, VerdictInv, UnfinishedInv, [Next]_vars
                PROVE  UnfinishedInv'
    OBVIOUS
  <2>. USE Undisturbed
       DEF TypeOK, RebuildInv, VerdictInv, UnfinishedInv, Ended, Alive, files,
           locals, task, root, systems, history, Undisturbed
  <2>1. ASSUME NEW c \in Locks, StartApply(c) PROVE UnfinishedInv'
    BY <2>1 DEF StartApply, Startable
  <2>2. CASE StartRetry
    BY <2>2 DEF StartRetry, Startable
  <2>3. CASE VerifyPins
    BY <2>3 DEF VerifyPins, Finish
  <2>4. CASE Backup
    BY <2>4 DEF Backup
  <2>5. CASE BackupFails
    BY <2>5 DEF BackupFails, Finish
  <2>6. CASE Prune
    BY <2>6 DEF Prune
  <2>7. CASE Install
    BY <2>7 DEF Install
  <2>8. CASE InstallFails
    BY <2>8 DEF InstallFails, Finish
  <2>9. CASE RemoveCancelFlag
    BY <2>9 DEF RemoveCancelFlag
  <2>10. CASE SampleSystem
    BY <2>10 DEF SampleSystem
  <2>11. CASE LaunchPkexec
    BY <2>11 DEF LaunchPkexec
  <2>12. CASE LaunchFails
    BY <2>12 DEF LaunchFails, RollBack, Finish
  <2>13. CASE RebuildSucceeded
    BY <2>13 DEF RebuildSucceeded, Finish
  <2>14. CASE RebuildFailed
    <3>1. /\ pc = "wait" /\ before = start.sys /\ start.sys # None
          /\ UNCHANGED <<repoLock, switch, current, start, unfinished>>
      BY <2>14, SystemsAssumption DEF RebuildFailed
    <3>2. CASE pc' = "idle" /\ incomplete'
      BY <3>1, <3>2
    <3>3. CASE /\ current = before /\ RollBack /\ UNCHANGED incomplete
      BY <3>1, <3>3 DEF RollBack, Finish
    <3>. QED
      BY <2>14, <3>1, <3>2, <3>3 DEF RebuildFailed, Resolved, Activated, Finish
  <2>15. CASE Restore
    BY <2>15 DEF Restore, Finish
  <2>16. CASE Authenticate
    BY <2>16 DEF Authenticate
  <2>17. CASE Deny
    BY <2>17 DEF Deny
  <2>18. CASE PollCancel
    BY <2>18 DEF PollCancel
  <2>19. CASE Terminate
    BY <2>19 DEF Terminate
  <2>20. CASE HelperExits
    BY <2>20 DEF HelperExits
  <2>21. CASE SetProfile
    BY <2>21 DEF SetProfile
  <2>22. CASE GoLive
    BY <2>22 DEF GoLive
  <2>23. CASE SwitchCompletes
    BY <2>23 DEF SwitchCompletes
  <2>24. CASE SwitchFails
    BY <2>24 DEF SwitchFails
  <2>25. CASE Cancel
    BY <2>25 DEF Cancel
  <2>26. CASE Tick
    BY <2>26 DEF Tick
  <2>27. CASE EditLock
    BY <2>27 DEF EditLock
  <2>28. CASE Restart
    BY <2>28 DEF Restart, Finish
  <2>29. CASE UNCHANGED vars
    BY <2>29 DEF vars
  <2>. QED
    BY <2>1, <2>2, <2>3, <2>4, <2>5, <2>6, <2>7, <2>8, <2>9, <2>10, <2>11,
       <2>12, <2>13, <2>14, <2>15, <2>16, <2>17, <2>18, <2>19, <2>20, <2>21,
       <2>22, <2>23, <2>24, <2>25, <2>26, <2>27, <2>28, <2>29
       DEF Next, TaskStep, RootStep, RebuildStep
<1>3. UnfinishedInv => UnfinishedIsRemembered
  BY DEF UnfinishedInv, UnfinishedIsRemembered
<1>. QED  BY <1>1, <1>2, <1>3, TypeCorrect, RebuildInvHolds, VerdictInvHolds, PTL
          DEF Spec
=============================================================================
