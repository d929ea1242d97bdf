------------------------------ MODULE Progress ------------------------------
(* A rebuild watched and cancelled from the progress window (gtk/ui.rs), over    *)
(* D-Bus (client.rs, dbus.rs), the command channel and the cancel flag           *)
(* (daemon.rs, apply.rs). Text of the log is counted in chunks.                  *)
EXTENDS Naturals, Sequences

CONSTANTS
  None,
  ChecksRun,    \* whether checks other than the one after an apply run meanwhile
  MaxRequests,  \* bound: how often an apply is asked for
  MaxCancels,   \* bound: how often Cancel is clicked
  MaxLog        \* bound: how many chunks one rebuild writes

(* A command is known by the number of applies asked for when it was sent.       *)
Commands == [name : {"apply", "cancel"}, at : 0..MaxRequests]
Chunks == (0..MaxRequests) \X (1..MaxLog)
Windows == [offset : 0..MaxLog, len : 0..MaxLog, at : {"waiting", "reading", "asking"},
            shown : SUBSET Chunks, sensitive : BOOLEAN, built : 0..MaxRequests]

ASSUME ProgressBounds ==
  /\ ChecksRun \in BOOLEAN
  /\ MaxRequests \in Nat /\ MaxCancels \in Nat /\ MaxLog \in Nat
  /\ None \notin Nat /\ None \notin Windows

VARIABLES
  queue,      \* the command channel
  requests, cancels,   \* how often Apply was asked for, and Cancel clicked
  stage,      \* where the apply task and the root process it waits for are
  current,    \* the request that the latest apply answers
  flag,       \* the cancel flag: when the cancel that wrote it was clicked, or None
  log,        \* apply.log: the apply that created it, and its length
  applying,   \* whether the shared status is "applying"
  opening,    \* whether a GTK process has been started and has not activated yet
  window      \* the progress window: its tail, its Cancel button, the log it was built over

daemon == <<stage, current, flag, log, applying>>
vars == <<queue, requests, cancels, daemon, opening, window>>

(* The task is in apply_rebuild; the root process runs.                          *)
Rebuilding == stage \in {"running", "stopping"}

-----------------------------------------------------------------------------
(* The user.                                                                     *)

RequestApply ==
  /\ requests < MaxRequests
  /\ requests' = requests + 1
  /\ queue' = Append(queue, [name |-> "apply", at |-> requests + 1])
  /\ UNCHANGED <<cancels, daemon, opening, window>>

(* `nixos-update-notifier-gtk progress`, run by hand at any time.                *)
OpenByHand ==
  /\ opening' = TRUE
  /\ UNCHANGED <<queue, requests, cancels, daemon, window>>

(* Clicks and timeouts share GTK's main loop: no click inside a poll.            *)
ClickCancel ==
  /\ cancels < MaxCancels /\ window # None
  /\ window.at = "waiting" /\ window.sensitive
  /\ cancels' = cancels + 1
  /\ queue' = Append(queue, [name |-> "cancel", at |-> requests])
  /\ window' = [window EXCEPT !.sensitive = FALSE]
  /\ UNCHANGED <<requests, daemon, opening>>

CloseWindow ==
  /\ window # None /\ window.at = "waiting"
  /\ window' = None
  /\ UNCHANGED <<queue, requests, cancels, daemon, opening>>

-----------------------------------------------------------------------------
(* The daemon's loop and its apply task.                                         *)

(* Without a candidate and an unfinished switch there is nothing to start.       *)
ReceiveApply ==
  /\ queue # <<>> /\ Head(queue).name = "apply"
  /\ queue' = Tail(queue)
  /\ \/ /\ stage = "idle"
        /\ stage' = "spawned" /\ current' = Head(queue).at
     \/ UNCHANGED <<stage, current>>
  /\ UNCHANGED <<requests, cancels, flag, log, applying, opening, window>>

(* Mutant: the loop awaits the apply and receives nothing meanwhile.             *)
ReceiveCancelAwaits ==
  /\ stage = "idle" /\ queue # <<>> /\ Head(queue).name = "cancel"
  /\ queue' = Tail(queue)
  /\ flag' = Head(queue).at
  /\ UNCHANGED <<requests, cancels, stage, current, log, applying, opening, window>>

ReceiveCancel ==
  /\ queue # <<>> /\ Head(queue).name = "cancel"
  /\ queue' = Tail(queue)
  /\ flag' = Head(queue).at
  /\ UNCHANGED <<requests, cancels, stage, current, log, applying, opening, window>>

(* The task does from `from` what leads it to a stage of `to`.                   *)
TaskStep(from, to) ==
  /\ stage = from /\ stage' \in to
  /\ UNCHANGED <<queue, requests, cancels, current, window>>

(* The status, then the pin check and the install, any of which may end it.      *)
Begin ==
  /\ TaskStep("spawned", {"staged", "over"})
  /\ applying' \in {TRUE, stage' = "staged"}
  /\ UNCHANGED <<flag, log, opening>>

(* A log that cannot be opened leaves the previous one, and nothing writes to it. *)
CreateLog ==
  /\ TaskStep("staged", {"logged"})
  /\ log' \in {log, [apply |-> current, len |-> 0]}
  /\ UNCHANGED <<flag, applying, opening>>

(* Mutant: the flag of the previous apply is left where it is.                   *)
RemoveFlagForgotten ==
  /\ TaskStep("logged", {"cleared"})
  /\ UNCHANGED <<flag, log, applying, opening>>

RemoveFlag ==
  /\ TaskStep("logged", {"cleared"})
  /\ flag' = None
  /\ UNCHANGED <<log, applying, opening>>

SpawnWindow ==
  /\ TaskStep("cleared", {"opened"})
  /\ opening' \in {opening, TRUE}
  /\ UNCHANGED <<flag, log, applying>>

Launch ==
  /\ TaskStep("opened", {"running", "exited"})
  /\ UNCHANGED <<flag, log, applying, opening>>

(* A success leaves the status to the check that follows it.                     *)
Finish ==
  /\ TaskStep("exited", {"over"})
  /\ applying' \in {applying, FALSE}
  /\ UNCHANGED <<flag, log, opening>>

ReceiveDone ==
  /\ TaskStep("over", {"idle"})
  /\ UNCHANGED <<flag, log, applying, opening>>

(* A check starts or ends: it sets a status of its own.                          *)
CheckSetsStatus ==
  /\ applying /\ (ChecksRun \/ stage = "idle")
  /\ applying' = FALSE
  /\ UNCHANGED <<queue, requests, cancels, stage, current, flag, log, opening, window>>

-----------------------------------------------------------------------------
(* The root process.                                                             *)

PollFlag ==
  /\ flag # None
  /\ TaskStep("running", {"stopping"})
  /\ UNCHANGED <<flag, log, applying, opening>>

Terminate ==
  /\ TaskStep("stopping", {"exited"})
  /\ UNCHANGED <<flag, log, applying, opening>>

(* Denied, failed or done.                                                       *)
Exit ==
  /\ TaskStep("running", {"exited"})
  /\ UNCHANGED <<flag, log, applying, opening>>

Write ==
  /\ Rebuilding /\ log.apply = current /\ log.len < MaxLog
  /\ log' = [log EXCEPT !.len = @ + 1]
  /\ UNCHANGED <<queue, requests, cancels, stage, current, flag, applying, opening, window>>

-----------------------------------------------------------------------------
(* The progress window. One application: a second activation presents the first  *)
(* window as it is.                                                              *)

NewWindow == [offset |-> 0, len |-> 0, at |-> "waiting", shown |-> {},
              sensitive |-> TRUE, built |-> log.apply]

Activate ==
  /\ opening /\ opening' = FALSE
  /\ window' = IF window = None THEN NewWindow ELSE window
  /\ UNCHANGED <<queue, requests, cancels, daemon>>

WindowStep(from) ==
  /\ window # None /\ window.at = from
  /\ UNCHANGED <<queue, requests, cancels, daemon, opening>>

(* Mutant: no test for a file shorter than the offset.                           *)
ReadLengthOnly ==
  /\ WindowStep("waiting")
  /\ window' = [window EXCEPT !.len = log.len,
                  !.at = IF log.len <= window.offset THEN "asking" ELSE "reading"]

(* read_new is two looks at the file: its length ...                             *)
ReadLength ==
  /\ WindowStep("waiting")
  /\ LET start == IF log.len < window.offset THEN 0 ELSE window.offset
     IN  window' = [window EXCEPT !.offset = start, !.len = log.len,
                      !.at = IF log.len = start THEN "asking" ELSE "reading"]

(* Mutant: the text is read up to the length taken before, the offset goes to the *)
(* end of the file.                                                              *)
ReadTextToLength ==
  /\ WindowStep("reading")
  /\ window' = [window EXCEPT !.offset = log.len, !.at = "asking",
                  !.shown = @ \cup {log.apply} \X ((window.offset + 1)..window.len)]

(* Mutant: the length is added to the offset, as if it were that of the new text. *)
ReadTextAdds ==
  /\ WindowStep("reading")
  /\ window' = [window EXCEPT !.offset = @ + window.len, !.at = "asking",
                  !.shown = @ \cup {log.apply} \X ((window.offset + 1)..log.len)]

(* ... and its text, to the end it has by then.                                  *)
ReadText ==
  /\ WindowStep("reading")
  /\ window' = [window EXCEPT !.offset = window.len, !.at = "asking",
                  !.shown = @ \cup {log.apply} \X ((window.offset + 1)..log.len)]

(* Anything but "applying" disables Cancel; nothing enables it again.            *)
AskStatus ==
  /\ WindowStep("asking")
  /\ window' = [window EXCEPT !.at = "waiting", !.sensitive = @ /\ applying]

-----------------------------------------------------------------------------
Init ==
  /\ queue = <<>> /\ requests = 0 /\ cancels = 0
  /\ stage = "idle" /\ current = 0 /\ flag = None
  /\ log = [apply |-> 0, len |-> 0]
  /\ applying = FALSE /\ opening = FALSE /\ window = None

User == RequestApply \/ OpenByHand \/ ClickCancel \/ CloseWindow
Daemon == \/ ReceiveApply \/ ReceiveCancel \/ ReceiveDone \/ CheckSetsStatus
          \/ Begin \/ CreateLog \/ RemoveFlag \/ SpawnWindow \/ Launch \/ Finish
Root == PollFlag \/ Terminate \/ Exit \/ Write
Gtk == Activate \/ ReadLength \/ ReadText \/ AskStatus

Next == User \/ Daemon \/ Root \/ Gtk

Spec == Init /\ [][Next]_vars

(* The loop, its task, the root process's polling and the window's timer go on.  *)
(* Nothing is assumed of the user or of the rebuild.                             *)
Fairness ==
  /\ WF_vars(ReceiveApply \/ ReceiveCancel) /\ WF_vars(ReceiveDone)
  /\ WF_vars(Begin \/ CreateLog \/ RemoveFlag \/ SpawnWindow \/ Launch \/ Finish)
  /\ WF_vars(PollFlag) /\ WF_vars(Terminate)
  /\ WF_vars(Activate) /\ WF_vars(ReadLength \/ ReadText \/ AskStatus)

FairSpec == Spec /\ Fairness

-----------------------------------------------------------------------------
(* Every variable has its type: the tail's offset never passes the longest log.  *)
TypeOK ==
  /\ queue \in Seq(Commands)
  /\ requests \in 0..MaxRequests /\ cancels \in 0..MaxCancels
  /\ stage \in {"idle", "spawned", "staged", "logged", "cleared", "opened",
                "running", "stopping", "exited", "over"}
  /\ current \in 0..requests
  /\ flag \in (0..MaxRequests) \cup {None}
  /\ log \in [apply : 0..MaxRequests, len : 0..MaxLog]
  /\ applying \in BOOLEAN /\ opening \in BOOLEAN
  /\ window \in Windows \cup {None}

(* A flag that stops a rebuild was asked for after that rebuild was: "any stale   *)
(* one from a previous run must not abort this apply" (daemon.rs:503). The flag is *)
(* a file that outlives its apply, the cancel may wait in the channel, and an      *)
(* apply is only removed from it when the previous one is over.                   *)
NoStaleCancel == Rebuilding /\ flag # None => flag >= current

(* A cancel clicked during a rebuild ends it, however long the rebuild would take  *)
(* (daemon.rs:172-175: "Cancel unreachable for the entire time").                 *)
CancelWaits == \E i \in 1..Len(queue) : queue[i].name = "cancel"
CancelIsHeard == stage = "running" /\ CancelWaits ~> ~Rebuilding

(* What the tail has passed has been shown: a window loses no output of the log    *)
(* it was built over (ui.rs:736-738), however the log grows while it is read.     *)
NothingSkipped ==
  window # None /\ window.built = log.apply =>
    {log.apply} \X (1..window.offset) \subseteq window.shown

(* A window left open when an apply ends comes to show its whole log, even one    *)
(* built over an earlier log, if the new log is the shorter (ui.rs:787-788: "A     *)
(* truncated file ... resets the offset"). A longer one is read from the middle.   *)
TailCatchesUp ==
  /\ stage = "idle" /\ window # None
  /\ window.built = log.apply \/ log.len < window.offset
  ~> \/ stage # "idle" \/ window = None
     \/ {log.apply} \X (1..log.len) \subseteq window.shown

(* While a rebuild runs, an open progress window offers Cancel or a cancel is on   *)
(* its way: the window is shown "so the user can see the operation and reach       *)
(* Cancel" (daemon.rs:507-508).                                                   *)
CancelReachable ==
  stage = "running" /\ window # None =>
    window.sensitive \/ CancelWaits \/ flag # None
=============================================================================
