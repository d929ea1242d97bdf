--------------------------- MODULE Progress_proofs ---------------------------
(***************************************************************************)
(* Theorems about Progress, for any number of applies, cancels and chunks.  *)
(***************************************************************************)
EXTENDS Progress, TLAPS

USE ProgressBounds

\* What is left of the channel once its head has been received.
ReceivedType ==
  /\ Head(queue) \in Commands /\ Tail(queue) \in Seq(Commands)
  /\ 1 \in 1..Len(queue) /\ Head(queue) = queue[1]
  /\ Len(Tail(queue)) = Len(queue) - 1
  /\ \A i \in 1..Len(Tail(queue)) : i + 1 \in 1..Len(queue) /\ Tail(queue)[i] = queue[i + 1]

\* Receiving the head of the channel leaves a channel of commands.
LEMMA ReceiveType == ASSUME TypeOK, queue # <<>> PROVE ReceivedType
BY DEF TypeOK, ReceivedType

\* Sending a command puts it after those that wait.
LEMMA SendType ==
  ASSUME TypeOK, NEW c \in Commands
  PROVE  /\ Append(queue, c) \in Seq(Commands)
         /\ Len(Append(queue, c)) = Len(queue) + 1
         /\ Append(queue, c)[Len(queue) + 1] = c
         /\ \A i \in 1..Len(queue) : Append(queue, c)[i] = queue[i]
BY DEF TypeOK

(***************************************************************************)
(* Types, and the age of what waits in the channel.                         *)
(***************************************************************************)
AtMost(n) == \A i \in 1..Len(queue) : queue[i].at <= n

\* What waits in the channel was not sent after now.
TypeInv == TypeOK /\ AtMost(requests)

\* The type invariant is inductive with the order of the requests.
LEMMA TypeStep == TypeInv /\ [Next]_vars => TypeInv'
<1>. SUFFICES ASSUME TypeInv, [Next]_vars PROVE TypeInv'
  OBVIOUS
<1>. USE DEF TypeInv, TypeOK, AtMost, daemon
<1>1. CASE RequestApply
  <2>1. [name |-> "apply", at |-> requests + 1] \in Commands
    BY <1>1 DEF RequestApply, Commands
  <2>. DEFINE q == Append(queue, [name |-> "apply", at |-> requests + 1])
  <2>2. queue' = q /\ requests' = requests + 1 /\ requests' \in 0..MaxRequests
    BY <1>1 DEF RequestApply
  <2>3. q \in Seq(Commands) /\ \A i \in 1..Len(q) : q[i].at <= requests + 1
    <3>1. \A i \in 1..Len(q) : i \in 1..Len(queue) \/ i = Len(queue) + 1
      BY <2>1, SendType
    <3>2. \A i \in 1..Len(queue) : queue[i].at <= requests + 1
      <4>1. \A i \in 1..Len(queue) : queue[i] \in Commands
        OBVIOUS
      <4>. QED  BY <4>1 DEF Commands
    <3>. QED  BY <2>1, <3>1, <3>2, SendType
  <2>. HIDE DEF q
  <2>4. (queue \in Seq(Commands))' /\ AtMost(requests)'
    BY <2>2, <2>3
  <2>5. TypeOK'
    BY <1>1, <2>2, <2>4 DEF RequestApply
  <2>. QED  BY <2>4, <2>5
<1>2. CASE OpenByHand
  BY <1>2 DEF OpenByHand
<1>3. CASE ClickCancel
  <2>1. [name |-> "cancel", at |-> requests] \in Commands
    BY <1>3 DEF ClickCancel, Commands
  <2>2. window \in Windows /\ window' \in Windows
    BY <1>3 DEF ClickCancel, Windows
  <2>. QED  BY <1>3, <2>1, <2>2 DEF ClickCancel, Commands
<1>4. CASE CloseWindow
  BY <1>4 DEF CloseWindow
<1>5. CASE ReceiveApply
  <2>1. ReceivedType
    BY <1>5, ReceiveType DEF ReceiveApply, ReceivedType
  <2>2. Head(queue).at \in Nat /\ Head(queue).at <= requests
    BY <2>1 DEF ReceivedType, Commands
  <2>3. (queue \in Seq(Commands))' /\ AtMost(requests)'
    BY <1>5, <2>1 DEF ReceiveApply, ReceivedType
  <2>. QED  BY <1>5, <2>2, <2>3 DEF ReceiveApply
<1>6. CASE ReceiveCancel
  <2>1. ReceivedType
    BY <1>6, ReceiveType DEF ReceiveCancel, ReceivedType
  <2>2. Head(queue).at \in 0..MaxRequests
    BY <2>1 DEF ReceivedType, Commands
  <2>3. (queue \in Seq(Commands))' /\ AtMost(requests)'
    BY <1>6, <2>1 DEF ReceiveCancel, ReceivedType
  <2>. QED  BY <1>6, <2>2, <2>3 DEF ReceiveCancel
<1>7. CASE Begin \/ RemoveFlag \/ SpawnWindow \/ Launch \/ Finish \/ ReceiveDone
  BY <1>7 DEF Begin, RemoveFlag, SpawnWindow, Launch, Finish, ReceiveDone, TaskStep
<1>8. CASE CreateLog
  BY <1>8 DEF CreateLog, TaskStep
<1>9. CASE CheckSetsStatus
  BY <1>9 DEF CheckSetsStatus
<1>10. CASE PollFlag \/ Terminate \/ Exit
  BY <1>10 DEF PollFlag, Terminate, Exit, TaskStep
<1>11. CASE Write
  BY <1>11 DEF Write
<1>12. CASE Activate
  <2>1. NewWindow \in Windows
    BY DEF NewWindow, Windows
  <2>. QED  BY <1>12, <2>1 DEF Activate
<1>13. CASE ReadLength
  <2>. DEFINE start == IF log.len < window.offset THEN 0 ELSE window.offset
              at == IF log.len = start THEN "asking" ELSE "reading"
  <2>1. /\ window \in Windows
        /\ window' = [window EXCEPT !.offset = start, !.len = log.len, !.at = at]
    BY <1>13 DEF ReadLength, WindowStep
  <2>2. log.len \in 0..MaxLog /\ start \in 0..MaxLog /\ at \in {"waiting", "reading", "asking"}
    BY <2>1 DEF Windows
  <2>. HIDE DEF start, at
  <2>3. window' \in Windows
    BY <2>1, <2>2 DEF Windows
  <2>. QED  BY <1>13, <2>3 DEF ReadLength, WindowStep
<1>14. CASE ReadText
  <2>1. window \in Windows
    BY <1>14 DEF ReadText, WindowStep
  <2>2. {log.apply} \X ((window.offset + 1)..log.len) \subseteq Chunks
    BY <2>1 DEF Windows, Chunks
  <2>3. window' \in Windows
    BY <1>14, <2>1, <2>2 DEF ReadText, WindowStep, Windows
  <2>. QED  BY <1>14, <2>3 DEF ReadText, WindowStep
<1>15. CASE AskStatus
  <2>1. window \in Windows /\ window' \in Windows
    BY <1>15 DEF AskStatus, WindowStep, Windows
  <2>. QED  BY <1>15, <2>1 DEF AskStatus, WindowStep
<1>16. CASE UNCHANGED vars
  BY <1>16 DEF vars
<1>. QED
  BY <1>1, <1>2, <1>3, <1>4, <1>5, <1>6, <1>7, <1>8, <1>9, <1>10, <1>11, <1>12, <1>13,
     <1>14, <1>15, <1>16 DEF Next, User, Daemon, Root, Gtk

\* The program starts well-typed, with nothing asked for.
LEMMA TypeInit == Init => TypeInv
<1>. SUFFICES ASSUME Init PROVE TypeInv
  OBVIOUS
<1>1. queue \in Seq(Commands) /\ Len(queue) = 0
  BY DEF Init
<1>2. log \in [apply : 0..MaxRequests, len : 0..MaxLog] /\ log.apply = 0
  BY DEF Init
<1>3. flag \in (0..MaxRequests) \cup {None} /\ window \in Windows \cup {None}
  BY DEF Init
<1>4. AtMost(requests)
  BY <1>1 DEF AtMost
<1>5. requests \in 0..MaxRequests /\ cancels \in 0..MaxCancels /\ current \in 0..requests
  BY DEF Init
<1>6. applying \in BOOLEAN /\ opening \in BOOLEAN
  BY DEF Init
<1>7. TypeOK
  BY <1>1, <1>2, <1>3, <1>5, <1>6 DEF Init, TypeOK
<1>. QED  BY <1>4, <1>7 DEF TypeInv

LEMMA TypeInvariant == Spec => []TypeInv
BY TypeInit, TypeStep, PTL DEF Spec

\* Every variable keeps its type, and the tail's offset stays within the longest log.
THEOREM TypeCorrect == Spec => []TypeOK
<1>1. TypeInv => TypeOK
  BY DEF TypeInv
<1>. QED  BY <1>1, TypeInvariant, PTL

(***************************************************************************)
(* The channel keeps the order of the clicks, and the task removes the flag  *)
(* between the request it answers and the rebuild.                          *)
(***************************************************************************)
Sorted == \A i, j \in 1..Len(queue) : i <= j => queue[i].at <= queue[j].at
AtLeast(n) == \A i \in 1..Len(queue) : queue[i].at >= n

\* What waits in the channel is no older than the apply under way; the flag,
\* once removed, can only come from there.
CancelInv ==
  /\ Sorted /\ AtLeast(current)
  /\ stage \in {"cleared", "opened", "running", "stopping"} /\ flag # None => flag >= current

\* A command sent now goes behind older ones, and is no older than the apply under way.
LEMMA SendSorted ==
  ASSUME TypeInv, Sorted, AtLeast(current), NEW c \in Commands, c.at >= requests,
         queue' = Append(queue, c), current' = current
  PROVE  Sorted' /\ AtLeast(current)'
<1>. USE DEF TypeInv, TypeOK, AtMost, Sorted, AtLeast
<1>1. /\ Len(queue') = Len(queue) + 1 /\ queue'[Len(queue) + 1] = c
      /\ \A i \in 1..Len(queue) : queue'[i] = queue[i]
  BY SendType
<1>2. \A i \in 1..Len(queue') : i \in 1..Len(queue) \/ i = Len(queue) + 1
  BY <1>1
<1>3. \A i \in 1..Len(queue) : queue[i].at \in Nat /\ queue[i].at <= c.at
  <2>1. \A i \in 1..Len(queue) : queue[i] \in Commands
    OBVIOUS
  <2>. QED  BY <2>1 DEF Commands
<1>4. c.at \in Nat /\ c.at >= current
  BY DEF Commands
<1>5. \A i \in 1..Len(queue') : queue'[i].at >= current
  BY <1>1, <1>2, <1>4
<1>6. \A i, j \in 1..Len(queue') : i <= j => queue'[i].at <= queue'[j].at
  BY <1>1, <1>2, <1>3, <1>4
<1>. QED  BY <1>5, <1>6

\* No step lets an older cancel overtake the apply.
LEMMA CancelStep == TypeInv /\ CancelInv /\ [Next]_vars => CancelInv'
<1>. SUFFICES ASSUME TypeInv, CancelInv, [Next]_vars PROVE CancelInv'
  OBVIOUS
<1>. USE DEF CancelInv, Sorted, AtLeast, TypeInv, TypeOK, AtMost, daemon
<1>1. CASE RequestApply
  <2>. DEFINE c == [name |-> "apply", at |-> requests + 1]
  <2>1. c \in Commands /\ c.at >= requests
    BY <1>1 DEF RequestApply, Commands
  <2>2. queue' = Append(queue, c)
    BY <1>1 DEF RequestApply
  <2>. HIDE DEF c
  <2>. QED  BY <1>1, <2>1, <2>2, SendSorted DEF RequestApply
<1>2. CASE ClickCancel
  <2>. DEFINE c == [name |-> "cancel", at |-> requests]
  <2>1. c \in Commands /\ c.at >= requests
    BY <1>2 DEF ClickCancel, Commands
  <2>2. queue' = Append(queue, c)
    BY <1>2 DEF ClickCancel
  <2>. HIDE DEF c
  <2>. QED  BY <1>2, <2>1, <2>2, SendSorted DEF ClickCancel
<1>3. CASE ReceiveApply
  <2>1. ReceivedType /\ queue' = Tail(queue)
    BY <1>3, ReceiveType DEF ReceiveApply
  <2>2. Head(queue).at \in Nat /\ Head(queue).at >= current
    BY <2>1 DEF ReceivedType, Commands
  <2>3. Sorted' /\ \A i \in 1..Len(queue') : queue'[i].at >= current /\ queue'[i].at >= Head(queue).at
    BY <2>1 DEF ReceivedType
  <2>. HIDE DEF Sorted
  <2>. QED  BY <1>3, <2>2, <2>3 DEF ReceiveApply
<1>4. CASE ReceiveCancel
  <2>1. ReceivedType /\ queue' = Tail(queue)
    BY <1>4, ReceiveType DEF ReceiveCancel
  <2>2. Head(queue).at \in Nat /\ Head(queue).at >= current
    BY <2>1 DEF ReceivedType, Commands
  <2>3. Sorted' /\ \A i \in 1..Len(queue') : queue'[i].at >= current /\ queue'[i].at >= Head(queue).at
    BY <2>1 DEF ReceivedType
  <2>. HIDE DEF Sorted
  <2>. QED  BY <1>4, <2>2, <2>3 DEF ReceiveCancel
<1>5. CASE Begin \/ CreateLog \/ RemoveFlag \/ SpawnWindow \/ Launch \/ Finish \/ ReceiveDone
  BY <1>5 DEF Begin, CreateLog, RemoveFlag, SpawnWindow, Launch, Finish, ReceiveDone, TaskStep
<1>6. CASE PollFlag \/ Terminate \/ Exit
  BY <1>6 DEF PollFlag, Terminate, Exit, TaskStep
<1>7. CASE OpenByHand \/ CloseWindow \/ CheckSetsStatus \/ Write \/ Activate
  BY <1>7 DEF OpenByHand, CloseWindow, CheckSetsStatus, Write, Activate
<1>8. CASE ReadLength \/ ReadText \/ AskStatus
  BY <1>8 DEF ReadLength, ReadText, AskStatus, WindowStep
<1>9. CASE UNCHANGED vars
  BY <1>9 DEF vars
<1>. QED
  BY <1>1, <1>2, <1>3, <1>4, <1>5, <1>6, <1>7, <1>8, <1>9 DEF Next, User, Daemon, Root, Gtk

\* A flag that stops a rebuild was asked for after that rebuild was.
THEOREM CancelIsFresh == Spec => []NoStaleCancel
<1>1. Init => CancelInv
  BY DEF Init, CancelInv, Sorted, AtLeast
<1>2. CancelInv => NoStaleCancel
  BY DEF CancelInv, NoStaleCancel, Rebuilding
<1>. QED  BY <1>1, <1>2, CancelStep, TypeInvariant, PTL DEF Spec

(***************************************************************************)
(* The tail.                                                                *)
(***************************************************************************)
\* The applies in the channel come after the one under way and in order, and until
\* the task creates a log, the one there is belongs to an earlier apply.
FreshLog ==
  /\ log.apply <= current
  /\ stage \in {"spawned", "staged"} => log.apply < current
  /\ \A i \in 1..Len(queue) : queue[i].name = "apply" => current < queue[i].at
  /\ \A i, j \in 1..Len(queue) :
       i < j /\ queue[j].name = "apply" => queue[i].at < queue[j].at

\* Over the log it was built on, the window has shown what it has passed, and the
\* file is no shorter than when its length was taken.
TailInv ==
  window # None =>
    /\ window.built <= log.apply
    /\ window.built = log.apply =>
         /\ {log.apply} \X (1..window.offset) \subseteq window.shown
         /\ window.offset <= log.len
         /\ window.at = "reading" => window.len <= log.len

\* A log is created by each apply once, after its request.
LEMMA FreshStep == TypeInv /\ FreshLog /\ [Next]_vars => FreshLog'
<1>. SUFFICES ASSUME TypeInv, FreshLog, [Next]_vars PROVE FreshLog'
  OBVIOUS
<1>. USE DEF FreshLog, TypeInv, TypeOK, AtMost, daemon
<1>0. \A i \in 1..Len(queue) : queue[i].at \in Nat
  <2>1. \A i \in 1..Len(queue) : queue[i] \in Commands
    OBVIOUS
  <2>. QED  BY <2>1 DEF Commands
<1>1. CASE RequestApply
  <2>. DEFINE c == [name |-> "apply", at |-> requests + 1]
  <2>1. c \in Commands /\ c.at = requests + 1 /\ c.name = "apply"
    BY <1>1 DEF RequestApply, Commands
  <2>2. queue' = Append(queue, c)
    BY <1>1 DEF RequestApply
  <2>. HIDE DEF c
  <2>3. /\ Len(queue') = Len(queue) + 1 /\ queue'[Len(queue) + 1] = c
        /\ \A i \in 1..Len(queue) : queue'[i] = queue[i]
    BY <2>1, <2>2, SendType
  <2>4. \A i \in 1..Len(queue') : i \in 1..Len(queue) \/ i = Len(queue) + 1
    BY <2>3
  <2>5. \A i \in 1..Len(queue') : queue'[i].name = "apply" => current < queue'[i].at
    BY <2>1, <2>3, <2>4
  <2>6. \A i, j \in 1..Len(queue') :
          i < j /\ queue'[j].name = "apply" => queue'[i].at < queue'[j].at
    <3>1. \A i \in 1..Len(queue) : queue[i].at < c.at
      BY <2>1, <1>0
    <3>2. SUFFICES ASSUME NEW i \in 1..Len(queue'), NEW j \in 1..Len(queue'), i < j,
                          queue'[j].name = "apply"
                   PROVE  queue'[i].at < queue'[j].at
      OBVIOUS
    <3>3. i \in 1..Len(queue) /\ queue'[i] = queue[i]
      BY <2>3, <3>2
    <3>4. CASE j \in 1..Len(queue)
      BY <2>3, <3>2, <3>3, <3>4
    <3>. QED  BY <2>3, <2>4, <3>1, <3>3, <3>4
  <2>. QED  BY <1>1, <2>5, <2>6 DEF RequestApply
<1>2. CASE ClickCancel
  <2>. DEFINE c == [name |-> "cancel", at |-> requests]
  <2>1. c \in Commands /\ c.name = "cancel"
    BY <1>2 DEF ClickCancel, Commands
  <2>2. queue' = Append(queue, c)
    BY <1>2 DEF ClickCancel
  <2>. HIDE DEF c
  <2>3. /\ Len(queue') = Len(queue) + 1 /\ queue'[Len(queue) + 1] = c
        /\ \A i \in 1..Len(queue) : queue'[i] = queue[i]
    BY <2>1, <2>2, SendType
  <2>4. \A i \in 1..Len(queue') : i \in 1..Len(queue) \/ i = Len(queue) + 1
    BY <2>3
  <2>5. \A i \in 1..Len(queue') : queue'[i].name = "apply" => current < queue'[i].at
    BY <2>1, <2>3, <2>4
  <2>6. \A i, j \in 1..Len(queue') :
          i < j /\ queue'[j].name = "apply" => queue'[i].at < queue'[j].at
    BY <2>1, <2>3, <2>4
  <2>. QED  BY <1>2, <2>5, <2>6 DEF ClickCancel
<1>3. CASE ReceiveApply
  <2>1. ReceivedType /\ queue' = Tail(queue) /\ Head(queue).name = "apply"
    BY <1>3, ReceiveType DEF ReceiveApply
  <2>2. /\ current < Head(queue).at
        /\ \A i \in 1..Len(queue') : queue'[i].name = "apply" =>
             current < queue'[i].at /\ Head(queue).at < queue'[i].at
        /\ \A i, j \in 1..Len(queue') :
             i < j /\ queue'[j].name = "apply" => queue'[i].at < queue'[j].at
    BY <2>1 DEF ReceivedType
  <2>3. Head(queue).at \in Nat /\ log.apply \in Nat
    BY <2>1 DEF ReceivedType, Commands
  <2>. QED  BY <1>3, <2>2, <2>3 DEF ReceiveApply
<1>4. CASE ReceiveCancel
  <2>1. ReceivedType /\ queue' = Tail(queue)
    BY <1>4, ReceiveType DEF ReceiveCancel
  <2>2. /\ \A i \in 1..Len(queue') : queue'[i].name = "apply" => current < queue'[i].at
        /\ \A i, j \in 1..Len(queue') :
             i < j /\ queue'[j].name = "apply" => queue'[i].at < queue'[j].at
    BY <2>1 DEF ReceivedType
  <2>. QED  BY <1>4, <2>2 DEF ReceiveCancel
<1>5. CASE CreateLog
  BY <1>5 DEF CreateLog, TaskStep
<1>10. CASE Begin \/ RemoveFlag \/ SpawnWindow \/ Launch \/ Finish \/ ReceiveDone
  BY <1>10 DEF Begin, RemoveFlag, SpawnWindow, Launch, Finish, ReceiveDone, TaskStep
<1>6. CASE PollFlag \/ Terminate \/ Exit
  BY <1>6 DEF PollFlag, Terminate, Exit, TaskStep
<1>7. CASE OpenByHand \/ CloseWindow \/ CheckSetsStatus \/ Write \/ Activate
  BY <1>7 DEF OpenByHand, CloseWindow, CheckSetsStatus, Write, Activate
<1>8. CASE ReadLength \/ ReadText \/ AskStatus
  BY <1>8 DEF ReadLength, ReadText, AskStatus, WindowStep
<1>9. CASE UNCHANGED vars
  BY <1>9 DEF vars
<1>. QED
  BY <1>1, <1>2, <1>3, <1>4, <1>5, <1>6, <1>7, <1>8, <1>9, <1>10
     DEF Next, User, Daemon, Root, Gtk

\* The window passes only what it shows; a new log is another apply's.
LEMMA TailStep == TypeInv /\ FreshLog /\ TailInv /\ [Next]_vars => TailInv'
<1>. SUFFICES ASSUME TypeInv, FreshLog, TailInv, [Next]_vars PROVE TailInv'
  OBVIOUS
<1>. USE DEF TailInv, TypeInv, TypeOK, daemon
<1>1. CASE RequestApply \/ OpenByHand \/ CloseWindow \/ ReceiveApply \/ ReceiveCancel
  BY <1>1 DEF RequestApply, OpenByHand, CloseWindow, ReceiveApply, ReceiveCancel
<1>2. CASE ClickCancel \/ AskStatus
  BY <1>2 DEF ClickCancel, AskStatus, WindowStep, Windows
<1>3. CASE CreateLog
  <2>1. window' = window /\ log.apply < current
    BY <1>3 DEF CreateLog, TaskStep, FreshLog
  <2>. QED  BY <1>3, <2>1 DEF CreateLog, Windows
<1>4. CASE Begin \/ RemoveFlag \/ SpawnWindow \/ Launch \/ Finish \/ ReceiveDone \/ CheckSetsStatus
  BY <1>4 DEF Begin, RemoveFlag, SpawnWindow, Launch, Finish, ReceiveDone, CheckSetsStatus, TaskStep
<1>5. CASE PollFlag \/ Terminate \/ Exit
  BY <1>5 DEF PollFlag, Terminate, Exit, TaskStep
<1>6. CASE Write
  BY <1>6 DEF Write, Windows
<1>7. CASE Activate
  BY <1>7 DEF Activate, NewWindow
<1>8. CASE ReadLength
  <2>. DEFINE start == IF log.len < window.offset THEN 0 ELSE window.offset
              at == IF log.len = start THEN "asking" ELSE "reading"
  <2>1. /\ window \in Windows /\ window # None /\ log' = log
        /\ window' = [window EXCEPT !.offset = start, !.len = log.len, !.at = at]
    BY <1>8 DEF ReadLength, WindowStep
  <2>2. window.built = log.apply => start = window.offset
    BY <2>1 DEF Windows
  <2>. HIDE DEF start, at
  <2>. QED  BY <2>1, <2>2 DEF Windows
<1>9. CASE ReadText
  <2>1. /\ window \in Windows /\ window # None /\ log' = log /\ window.at = "reading"
        /\ window' = [window EXCEPT !.offset = window.len, !.at = "asking",
                        !.shown = @ \cup {log.apply} \X ((window.offset + 1)..log.len)]
    BY <1>9 DEF ReadText, WindowStep
  <2>2. window'.built = window.built /\ window'.offset = window.len /\ window'.at = "asking"
    BY <2>1 DEF Windows
  <2>3. ASSUME window.built = log.apply
        PROVE  {log.apply} \X (1..window.len) \subseteq window'.shown
    <3>1. /\ window.len \in Nat /\ window.offset \in Nat /\ log.len \in Nat /\ window.len <= log.len
          /\ {log.apply} \X (1..window.offset) \subseteq window.shown
      BY <2>1, <2>3 DEF Windows
    <3>2. window'.shown = window.shown \cup {log.apply} \X ((window.offset + 1)..log.len)
      BY <2>1 DEF Windows
    <3>3. 1..window.len \subseteq (1..window.offset) \cup ((window.offset + 1)..log.len)
      BY <3>1
    <3>. QED  BY <3>1, <3>2, <3>3, Zenon
  <2>. QED  BY <2>1, <2>2, <2>3 DEF Windows
<1>10. CASE UNCHANGED vars
  BY <1>10 DEF vars
<1>. QED
  BY <1>1, <1>2, <1>3, <1>4, <1>5, <1>6, <1>7, <1>8, <1>9, <1>10
     DEF Next, User, Daemon, Root, Gtk

\* A window loses nothing of the log it was built over.
THEOREM TailIsComplete == Spec => []NothingSkipped
<1>1. Init => FreshLog /\ TailInv
  BY DEF Init, FreshLog, TailInv
<1>2. TailInv => NothingSkipped
  BY DEF TailInv, NothingSkipped
<1>. QED  BY <1>1, <1>2, FreshStep, TailStep, TypeInvariant, PTL DEF Spec
=============================================================================
