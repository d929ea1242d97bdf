------------------------------ MODULE Schedule ------------------------------
(* When the daemon checks (daemon.rs): a wall-clock threshold, polled by a       *)
(* ticker that runs on the monotonic clock, in a loop that also waits for its    *)
(* other events and for the notification daemon, on a machine that is suspended  *)
(* and whose clock is set.  The unit of time is the poll, one minute.            *)
EXTENDS Integers

CONSTANTS
  Intervals,   \* what the configured interval may be, in polls
  MaxStep,     \* bound: how far one setting of the clock moves it
  MaxSteps,    \* bound: settings of the clock between two checks
  MaxAsked,    \* bound: requests waiting in the channel
  Never,       \* no last_check yet
  Horizon      \* bound: beyond it, how long ago a check was is not told apart

ASSUME ScheduleAssumption ==
  /\ Never \notin Int
  /\ Intervals # {} /\ Intervals \subseteq Nat \ {0}
  /\ MaxStep \in Nat /\ MaxSteps \in Nat /\ MaxAsked \in Nat \ {0} /\ Horizon \in Nat
  /\ \A i \in Intervals : i < Horizon - MaxSteps * MaxStep

VARIABLES
  interval,   \* cfg.interval() of the configuration the loop holds
  file,       \* the interval in the configuration file
  elapsed,    \* the wall clock minus last_check, Never before the first
  checking,   \* the flag of the loop
  task,       \* the check's task: "none", "running", "ok", "new" or "err"
  loop,       \* "select", "notifying", or "ended" by Quit
  tick,       \* the ticker has a tick for the loop: missed ones are skipped
  asked,      \* CheckNow commands in the channel, and SIGUSR1
  awake,      \* the machine is not suspended
  since,      \* history: time since a check started
  moved,      \* history: by how much the clock was set since then
  steps,      \* history: how often
  settled     \* history: minutes since anything but the ticker disturbed the loop

checkVars == <<elapsed, since, moved, steps>>
vars == <<interval, file, elapsed, checking, task, loop, tick, asked, awake, since, moved,
          steps, settled>>

Init ==
  /\ file \in Intervals /\ interval = file
  /\ elapsed = Never /\ checking = FALSE /\ task = "none"
  /\ loop = "select" /\ tick = TRUE /\ asked = 1 /\ awake = TRUE
  /\ since = Horizon /\ moved = 0 /\ steps = 0 /\ settled = 0

-----------------------------------------------------------------------------
(* Time.                                                                       *)

AtSelect == awake /\ loop = "select"
Ready == tick \/ asked > 0 \/ task \in {"ok", "new", "err"}

Pass ==
  /\ IF since = Horizon THEN UNCHANGED <<elapsed, since>>
     ELSE elapsed' = elapsed + 1 /\ since' = since + 1
  /\ UNCHANGED <<moved, steps>>

(* A minute of uptime.  The loop handles in seconds what it is not blocked on.  *)
Minute ==
  /\ awake /\ ~(loop = "select" /\ Ready)
  /\ Pass
  /\ tick' = TRUE
  /\ settled' = IF loop = "select" /\ ~checking THEN 1 ELSE 0
  /\ UNCHANGED <<interval, file, checking, task, loop, asked, awake>>

(* The monotonic clock stands still while the machine sleeps.                  *)
Asleep ==
  /\ ~awake /\ Pass
  /\ UNCHANGED <<interval, file, checking, task, loop, tick, asked, awake, settled>>

Suspend ==
  /\ awake /\ awake' = FALSE
  /\ UNCHANGED <<interval, file, checking, task, loop, tick, asked, settled, checkVars>>

Wake ==
  /\ ~awake /\ awake' = TRUE /\ settled' = 0
  /\ UNCHANGED <<interval, file, checking, task, loop, tick, asked, checkVars>>

SetClock ==
  /\ elapsed # Never /\ steps < MaxSteps
  /\ \E d \in -MaxStep..MaxStep : moved' = moved + d /\ elapsed' = elapsed + d
  /\ steps' = steps + 1 /\ settled' = 0
  /\ UNCHANGED <<interval, file, checking, task, loop, tick, asked, awake, since>>

-----------------------------------------------------------------------------
(* The loop.                                                                   *)

(* A mutant: a clock that went backwards counts as not due.                    *)
DueForward == elapsed = Never \/ elapsed >= interval

Due == elapsed = Never \/ elapsed < 0 \/ elapsed >= interval

(* A mutant: only the first check is noted.                                    *)
StampFirst == elapsed' = IF elapsed = Never THEN 0 ELSE elapsed
(* last_check, whatever comes of the check.                                    *)
Stamp == elapsed' = 0

(* CheckNow: nothing while a check is in flight; else the configuration is      *)
(* loaded, if it can be, and the check starts.                                  *)
CheckNow ==
  IF checking THEN UNCHANGED <<interval, checking, task, settled, checkVars>>
  ELSE /\ interval' \in {interval, file}
       /\ checking' = TRUE /\ task' = "running" /\ settled' = 0
       /\ Stamp
       /\ since' = 0 /\ moved' = 0 /\ steps' = 0

Tick ==
  /\ AtSelect /\ tick /\ tick' = FALSE
  /\ IF Due THEN CheckNow ELSE UNCHANGED <<interval, checking, task, settled, checkVars>>
  /\ UNCHANGED <<file, loop, asked, awake>>

Command ==
  /\ AtSelect /\ asked > 0 /\ asked' = asked - 1
  /\ CheckNow
  /\ UNCHANGED <<file, loop, tick, awake>>

(* A mutant: a check that failed leaves the flag.                              *)
ResultKeeps ==
  /\ AtSelect /\ task \in {"ok", "new", "err"}
  /\ checking' = (task = "err") /\ task' = "none"
  /\ loop' = IF task = "new" THEN "notifying" ELSE loop
  /\ settled' = 0
  /\ UNCHANGED <<interval, file, tick, asked, awake, checkVars>>

(* handle_check_result: a set of updates that is new is announced, and the loop *)
(* waits for the answer.                                                       *)
Result ==
  /\ AtSelect /\ task \in {"ok", "new", "err"}
  /\ checking' = FALSE /\ task' = "none"
  /\ loop' = IF task = "new" THEN "notifying" ELSE loop
  /\ settled' = 0
  /\ UNCHANGED <<interval, file, tick, asked, awake, checkVars>>

Quit ==
  /\ AtSelect /\ loop' = "ended"
  /\ UNCHANGED <<interval, file, checking, task, tick, asked, awake, settled, checkVars>>

-----------------------------------------------------------------------------
(* The others.                                                                 *)

CheckEnds ==
  /\ awake /\ task = "running" /\ task' \in {"ok", "new", "err"}
  /\ UNCHANGED <<interval, file, checking, loop, tick, asked, awake, settled, checkVars>>

(* Answered, or failed at once because nobody takes notifications.             *)
NotifyAnswers ==
  /\ awake /\ loop = "notifying" /\ loop' = "select"
  /\ UNCHANGED <<interval, file, checking, task, tick, asked, awake, settled, checkVars>>

(* Check now of the menu and over D-Bus, SIGUSR1, the end of an apply.          *)
Ask ==
  /\ awake /\ asked < MaxAsked /\ asked' = asked + 1
  /\ UNCHANGED <<interval, file, checking, task, loop, tick, awake, settled, checkVars>>

Configure ==
  /\ file' \in Intervals \ {file}
  /\ UNCHANGED <<interval, elapsed, checking, task, loop, tick, asked, awake, since, moved,
                 steps, settled>>

Next == \/ Minute \/ Asleep \/ Suspend \/ Wake \/ SetClock
        \/ Tick \/ Command \/ Result \/ Quit
        \/ CheckEnds \/ NotifyAnswers \/ Ask \/ Configure

Spec == Init /\ [][Next]_vars

(* The loop polls all its sources; nix ends; the notification daemon answers;   *)
(* the machine is, again and again, awake for a minute.                        *)
Fairness ==
  /\ SF_vars(Minute) /\ WF_vars(Wake)
  /\ SF_vars(Tick) /\ SF_vars(Command) /\ SF_vars(Result)
  /\ SF_vars(CheckEnds) /\ SF_vars(NotifyAnswers)

FairSpec == Spec /\ Fairness
-----------------------------------------------------------------------------
Reach == MaxSteps * MaxStep

TypeOK ==
  /\ interval \in Intervals /\ file \in Intervals
  /\ since \in 0..Horizon /\ moved \in -Reach..Reach /\ steps \in 0..MaxSteps
  /\ elapsed \in -Reach..(Horizon + Reach) \cup {Never}
  /\ task \in {"none", "running", "ok", "new", "err"}
  /\ checking = (task # "none")
  /\ loop \in {"select", "notifying", "ended"}
  /\ tick \in BOOLEAN /\ asked \in 0..MaxAsked /\ awake \in BOOLEAN /\ settled \in {0, 1}

(* By the wall clock.                                                          *)
Since == since + moved

(* Once the machine has been awake, its clock left alone and the loop free for  *)
(* one poll, no check is overdue: however long the machine slept, the checks do *)
(* not drift, and after the clock was set back the daemon does not wait until   *)
(* the old time has come round (daemon.rs, the comments on scheduling).         *)
NeverOverdue ==
  AtSelect /\ settled = 1 /\ ~tick => since < Horizon /\ Since \in 0..(interval - 1)

(* What nobody asked for does not come early: once a check has started, well or *)
(* badly as it may end, the ticker starts none until the interval is over by    *)
(* the clock, or the clock shows a time before it.                             *)
NoStorm ==
  [][checking' /\ ~checking /\ asked' = asked =>
       since = Horizon \/ Since \notin 0..(interval - 1)]_vars

(* The checks never stop while the daemon runs: a failed check, a sleep, a set  *)
(* clock, an unreadable configuration and requests at any moment leave the next *)
(* one to come.                                                                *)
ChecksGoOn == []<>(task = "running" \/ loop = "ended")
=============================================================================
