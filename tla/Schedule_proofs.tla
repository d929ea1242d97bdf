-------------------------- MODULE Schedule_proofs --------------------------
(* The invariants of the schedule, for all intervals and bounds.               *)
EXTENDS Schedule, TLAPS

\* last_check tells the truth about the clock, and the loop that was free for a
\* poll has looked at it since.
Stamped ==
  IF elapsed = Never THEN since = Horizon /\ moved = 0 ELSE elapsed = since + moved

Looked ==
  settled = 1 => /\ ~checking /\ loop # "notifying"
                 /\ AtSelect /\ ~tick => elapsed # Never /\ elapsed \in 0..(interval - 1)

\* How far the clock can have been set.
Set == moved \in -(steps * MaxStep)..(steps * MaxStep)

IInv == TypeOK /\ Stamped /\ Set /\ Looked

\* What was set in k + 1 steps, at most, was set in k and one more.
LEMMA Steps ==
  ASSUME NEW k \in Nat, NEW n \in Nat, NEW m \in Nat
  PROVE  /\ (k + 1) * m = k * m + m
         /\ k * m \in Nat
         /\ k <= n => k * m <= n * m
OBVIOUS

\* The invariant holds at the start ...
LEMMA InitIInv == Init => IInv
<1>. SUFFICES ASSUME Init PROVE IInv
  OBVIOUS
<1>1. Reach \in Nat
  BY ScheduleAssumption, Steps DEF Reach
<1>2. /\ 0 \in -Reach..Reach /\ Horizon \in 0..Horizon
      /\ 0 \in 0..MaxSteps /\ 1 \in 0..MaxAsked
  BY <1>1, ScheduleAssumption
<1>4. TypeOK
  BY <1>2 DEF Init, TypeOK
<1>3. Set
  BY ScheduleAssumption, Steps DEF Init, Set
<1>. QED  BY <1>3, <1>4 DEF Init, IInv, Stamped, Looked

\* A check that starts, or is asked for while one is in flight.
LEMMA CheckNowKeeps ==
  ASSUME IInv, CheckNow, file' = file, loop' = loop, awake' = awake,
         tick' \in BOOLEAN, asked' \in 0..MaxAsked
  PROVE  TypeOK' /\ Stamped' /\ Set' /\ (settled' = 1 => settled' = settled /\ checking' = checking)
<1>1. Reach \in Nat /\ MaxStep \in Nat
  BY ScheduleAssumption, Steps DEF Reach
<1>2. CASE checking
  BY <1>2 DEF CheckNow, checkVars, IInv, TypeOK, Stamped, Set
<1>3. CASE ~checking
  <2>1. /\ interval' \in {interval, file} /\ checking' = TRUE /\ task' = "running"
        /\ settled' = 0 /\ elapsed' = 0 /\ since' = 0 /\ moved' = 0 /\ steps' = 0
    BY <1>3 DEF CheckNow, Stamp
  <2>2. /\ elapsed' \in -Reach..(Horizon + Reach) /\ moved' \in -Reach..Reach
        /\ since' \in 0..Horizon /\ steps' \in 0..MaxSteps
    BY <1>1, <2>1, ScheduleAssumption
  <2>4. TypeOK'
    BY <2>1, <2>2 DEF IInv, TypeOK
  <2>3. Stamped' /\ Set'
    BY <1>1, <2>1, ScheduleAssumption, Steps DEF Stamped, Set
  <2>. QED  BY <2>1, <2>3, <2>4
<1>. QED  BY <1>2, <1>3

\* ... and every step keeps it.
LEMMA NextIInv == IInv /\ [Next]_vars => IInv'
<1>. SUFFICES ASSUME IInv, [Next]_vars PROVE IInv'
  OBVIOUS
<1>. USE DEF IInv
<1>1. Reach \in Nat /\ MaxStep \in Nat /\ MaxSteps \in Nat /\ Horizon \in Nat /\ MaxAsked \in Nat
  BY ScheduleAssumption, Steps DEF Reach
<1>2. ASSUME Pass PROVE /\ Stamped' /\ Set' /\ steps' = steps
                        /\ since' \in 0..Horizon /\ moved' = moved
                        /\ elapsed' \in -Reach..(Horizon + Reach) \cup {Never}
  BY <1>1, <1>2, ScheduleAssumption DEF Pass, TypeOK, Stamped, Set
<1>3. CASE Minute
  BY <1>2, <1>3 DEF Minute, TypeOK, Looked, AtSelect
<1>4. CASE Asleep
  BY <1>2, <1>4 DEF Asleep, TypeOK, Looked, AtSelect
<1>5. CASE Suspend \/ Wake
  <2>1. TypeOK' /\ Stamped' /\ Set'
    BY <1>5 DEF Suspend, Wake, checkVars, TypeOK, Stamped, Set
  <2>2. Looked'
    BY <1>5 DEF Suspend, Wake, checkVars, Looked, AtSelect
  <2>. QED  BY <2>1, <2>2
<1>6. CASE SetClock
  <2>1. PICK d \in -MaxStep..MaxStep : moved' = moved + d /\ elapsed' = elapsed + d
    BY <1>6 DEF SetClock
  <2>2. /\ elapsed # Never /\ steps < MaxSteps /\ steps' = steps + 1 /\ settled' = 0
        /\ UNCHANGED <<interval, file, checking, task, loop, tick, asked, awake, since>>
    BY <1>6 DEF SetClock
  <2>3. steps \in Nat /\ steps' \in Nat /\ steps' <= MaxSteps
    BY <1>1, <2>2 DEF TypeOK
  <2>4. /\ steps * MaxStep \in Nat /\ steps' * MaxStep = steps * MaxStep + MaxStep
        /\ steps' * MaxStep <= Reach
    BY <1>1, <2>2, <2>3, Steps DEF Reach
  <2>5. Set' /\ moved' \in -Reach..Reach
    BY <1>1, <2>1, <2>4 DEF Set
  <2>6. elapsed' = since' + moved' /\ elapsed' # Never
    BY <2>1, <2>2, ScheduleAssumption DEF Stamped, TypeOK
  <2>7. elapsed' \in -Reach..(Horizon + Reach)
    <3>1. since' \in 0..Horizon
      BY <2>2 DEF TypeOK
    <3>2. ASSUME NEW a \in 0..Horizon, NEW b \in -Reach..Reach
          PROVE  a + b \in -Reach..(Horizon + Reach)
      BY <1>1
    <3>. QED  BY <2>5, <2>6, <3>1, <3>2
  <2>8. TypeOK'
    BY <2>2, <2>3, <2>5, <2>7 DEF TypeOK
  <2>. QED  BY <2>2, <2>5, <2>6, <2>8 DEF Stamped, Looked
<1>7. CASE Tick
  <2>1. CASE Due
    <3>1. TypeOK' /\ Stamped' /\ Set' /\ (settled' = 1 => settled' = settled /\ checking' = checking)
      BY <1>7, <2>1, CheckNowKeeps DEF Tick, TypeOK, CheckNow, Looked
    <3>. QED  BY <1>7, <2>1, <3>1 DEF Tick, CheckNow, Looked
  <2>2. CASE ~Due
    <3>1. elapsed # Never /\ elapsed \in 0..(interval - 1)
      BY <1>1, <2>2, ScheduleAssumption DEF Due, TypeOK
    <3>. QED  BY <1>7, <2>2, <3>1 DEF Tick, checkVars, TypeOK, Stamped, Set, Looked, AtSelect
  <2>. QED  BY <2>1, <2>2
<1>8. CASE Command
  <2>1. TypeOK' /\ Stamped' /\ Set' /\ (settled' = 1 => settled' = settled /\ checking' = checking)
    <3>1. asked' \in 0..MaxAsked
      BY <1>1, <1>8 DEF Command, TypeOK
    <3>. QED  BY <1>8, <3>1, CheckNowKeeps DEF Command, TypeOK
  <2>. QED  BY <1>8, <2>1 DEF Command, CheckNow, Looked
<1>9. CASE Result
  BY <1>9 DEF Result, checkVars, TypeOK, Stamped, Set, Looked
<1>10. CASE Quit \/ CheckEnds \/ NotifyAnswers \/ Ask
  BY <1>1, <1>10 DEF Quit, CheckEnds, NotifyAnswers, Ask, checkVars, TypeOK, Stamped, Set, Looked, AtSelect
<1>11. CASE Configure
  BY <1>11 DEF Configure, TypeOK, Stamped, Set, Looked, AtSelect
<1>12. CASE UNCHANGED vars
  BY <1>12 DEF vars, TypeOK, Stamped, Set, Looked, AtSelect
<1>. QED  BY <1>3, <1>4, <1>5, <1>6, <1>7, <1>8, <1>9, <1>10, <1>11, <1>12 DEF Next

\* The types, and that the flag of the loop is set exactly while a check or its
\* result is on the way.
THEOREM TypeCorrect == Spec => []TypeOK
BY InitIInv, NextIInv, PTL DEF Spec, IInv

\* Within the horizon the elapsed time is told exactly.
LEMMA InHorizon == IInv /\ elapsed # Never /\ elapsed \in 0..(interval - 1) => since < Horizon
<1>. SUFFICES ASSUME IInv, elapsed # Never, elapsed \in 0..(interval - 1), since = Horizon
              PROVE  FALSE
  BY ScheduleAssumption DEF IInv, TypeOK
<1>1. interval < Horizon - Reach /\ Reach \in Nat /\ interval \in Nat
  BY ScheduleAssumption, Steps DEF IInv, TypeOK, Reach
<1>2. elapsed = Horizon + moved /\ moved \in -Reach..Reach
  BY DEF IInv, Stamped, TypeOK
<1>. QED  BY <1>1, <1>2, ScheduleAssumption

\* A check that is due starts within a poll of the machine being awake, its clock
\* left alone and the loop free.
THEOREM Punctual == Spec => []NeverOverdue
<1>1. IInv => NeverOverdue
  <2>. SUFFICES ASSUME IInv, AtSelect, settled = 1, ~tick
                PROVE  since < Horizon /\ Since \in 0..(interval - 1)
    BY DEF NeverOverdue
  <2>1. elapsed # Never /\ elapsed \in 0..(interval - 1)
    BY DEF IInv, Looked
  <2>. QED  BY <2>1, InHorizon DEF IInv, Stamped, Since
<1>. QED  BY <1>1, InitIInv, NextIInv, PTL DEF Spec

\* The ticker starts no check before the interval is over.
THEOREM NotEarly == Spec => NoStorm
<1>. DEFINE Late == checking' /\ ~checking /\ asked' = asked =>
                      since = Horizon \/ Since \notin 0..(interval - 1)
<1>1. IInv /\ [Next]_vars => [Late]_vars
  <2>. SUFFICES ASSUME IInv, Next, checking', ~checking, asked' = asked
                PROVE  since = Horizon \/ Since \notin 0..(interval - 1)
    BY DEF vars
  <2>1. CASE Tick
    <3>1. Due
      BY <2>1 DEF Tick
    <3>2. interval \in Nat /\ since \in Int /\ moved \in Int
      BY ScheduleAssumption DEF IInv, TypeOK
    <3>. QED  BY <3>1, <3>2 DEF Due, Since, IInv, Stamped
  <2>2. asked \in Nat
    BY ScheduleAssumption DEF IInv, TypeOK
  <2>3. ~Command
    BY <2>2 DEF Command
  <2>. QED  BY <2>1, <2>3 DEF Next, Minute, Asleep, Suspend, Wake, SetClock, Result, Quit,
                              CheckEnds, NotifyAnswers, Ask, Configure
<1>. QED  BY <1>1, InitIInv, NextIInv, PTL DEF Spec, NoStorm
=============================================================================
