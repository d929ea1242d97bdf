----------------------------- MODULE Artifacts -----------------------------
(* What checks keep in the cache directory (check.rs): every process has a       *)
(* working copy and a candidate lock named after its PID, and every check        *)
(* removes those of processes that are gone.  The daemon checks again and again, *)
(* `check` on the command line checks once beside it, processes crash, and PIDs  *)
(* are used again.                                                              *)
EXTENDS Naturals, FiniteSets

CONSTANTS Pids

VARIABLES
  kind,    \* who runs under a PID: "daemon", "cli" or "none"
  pc,      \* the step of its check, how the check has ended, or "idle"
  dir,     \* <pid>/: itself, as ".", and its files
  lock,    \* <pid>.flake.lock: "absent", "torn" or "whole"
  sweep,   \* the entries this process has yet to look at
  offer,   \* the daemon's candidate_lock is Some
  quit,    \* the daemon's shutdown: "no", "dir", "lock" or "over"
  clean    \* history: the last daemon under this PID quit with no check in flight

vars == <<kind, pc, dir, lock, sweep, offer, quit, clean>>

Steps == {"sweep", "create", "copy nix", "copy lock", "advance", "candidate", "save",
          "write", "discard", "report"}

(* How the daemon's check task has ended, until the loop takes its result from   *)
(* the channel: with updates, without, or with an error.                        *)
Ended == {"found", "nothing", "failed"}

Init ==
  /\ kind = [p \in Pids |-> "none"]
  /\ pc = [p \in Pids |-> "idle"]
  /\ dir = [p \in Pids |-> {}] /\ lock = [p \in Pids |-> "absent"]
  /\ sweep = [p \in Pids |-> {}]
  /\ offer = [p \in Pids |-> FALSE] /\ quit = [p \in Pids |-> "no"]
  /\ clean = [p \in Pids |-> FALSE]

-----------------------------------------------------------------------------
(* Processes.                                                                  *)

Running(p) == kind[p] # "none"
InFlight(p) == pc[p] \in Steps

(* One daemon: the second finds the D-Bus name taken.  A command-line process   *)
(* that never gets to its check stands for any other program with that PID.     *)
Start(p, k) ==
  /\ kind[p] = "none"
  /\ k = "daemon" => \A q \in Pids : kind[q] # "daemon"
  /\ kind' = [kind EXCEPT ![p] = k]
  /\ clean' = [clean EXCEPT ![p] = FALSE]
  /\ UNCHANGED <<pc, dir, lock, sweep, offer, quit>>

(* A process that ends, in order or not, leaves what is on disk.  To be         *)
(* terminated by a signal, as systemctl stop does, is to crash: the daemon      *)
(* handles only the Quit command.                                              *)
Gone(p) ==
  /\ kind' = [kind EXCEPT ![p] = "none"]
  /\ pc' = [pc EXCEPT ![p] = "idle"]
  /\ sweep' = [sweep EXCEPT ![p] = {}]
  /\ offer' = [offer EXCEPT ![p] = FALSE]
  /\ quit' = [quit EXCEPT ![p] = "no"]
  /\ UNCHANGED <<dir, lock>>

Crash(p) == Running(p) /\ Gone(p) /\ clean' = [clean EXCEPT ![p] = FALSE]

-----------------------------------------------------------------------------
(* A check.                                                                    *)

At(p, step) == Running(p) /\ pc[p] = step
GoTo(p, step) == pc' = [pc EXCEPT ![p] = step]
Others == <<kind, offer, quit, clean>>

Entries == {<<q, "dir">> : q \in {r \in Pids : dir[r] # {}}}
             \cup {<<q, "lock">> : q \in {r \in Pids : lock[r] # "absent"}}

(* A check that gets to its working copy.  The listing is read at the start.   *)
BeginCheck(p) ==
  /\ At(p, "idle") /\ quit[p] = "no"
  /\ GoTo(p, "sweep")
  /\ sweep' = [sweep EXCEPT ![p] = Entries]
  /\ UNCHANGED <<dir, lock, Others>>

(* Mutants: only its own PID is spared; a saved candidate is not recognised.    *)
SparedOnlyOwn(p, e) == e[1] = p
SparedLocks(p, e) == e[1] = p \/ e[2] = "lock" \/ kind[e[1]] # "none"

(* A PID in use keeps its entries, whoever uses it.                            *)
Spared(p, e) == e[1] = p \/ kind[e[1]] # "none"

(* cleanup_stale_workdirs, one entry.  It is judged and removed at once: PIDs   *)
(* are handed out in turn, and do not come round in between.                   *)
Sweep(p) ==
  /\ At(p, "sweep") /\ sweep[p] # {}
  /\ \E e \in sweep[p] :
       /\ sweep' = [sweep EXCEPT ![p] = @ \ {e}]
       /\ IF Spared(p, e) THEN UNCHANGED <<dir, lock>>
          ELSE IF e[2] = "dir"
          THEN dir' = [dir EXCEPT ![e[1]] = {}] /\ UNCHANGED lock
          ELSE lock' = [lock EXCEPT ![e[1]] = "absent"] /\ UNCHANGED dir
  /\ UNCHANGED <<pc, Others>>

(* The rest of scratch_flake.                                                  *)
Clear(p) ==
  /\ At(p, "sweep") /\ sweep[p] = {} /\ GoTo(p, "create")
  /\ dir' = [dir EXCEPT ![p] = {}]
  /\ UNCHANGED <<lock, sweep, Others>>

Create(p) ==
  /\ At(p, "create") /\ GoTo(p, "copy nix")
  /\ dir' = [dir EXCEPT ![p] = @ \cup {"."}]
  /\ UNCHANGED <<lock, sweep, Others>>

(* Each file operation of a check fails where its directory is gone.           *)
Put(p, step, file, next) ==
  /\ At(p, step) /\ dir[p] # {} /\ GoTo(p, next)
  /\ dir' = [dir EXCEPT ![p] = @ \cup {file}]
  /\ UNCHANGED <<lock, sweep, Others>>

CopyNix(p) == Put(p, "copy nix", "flake.nix", "copy lock")
CopyLock(p) == Put(p, "copy lock", "flake.lock", "advance")

(* nix flake update in the working copy: its lock is the candidate from here.   *)
Advance(p) ==
  /\ {"flake.nix", "flake.lock"} \subseteq dir[p]
  /\ Put(p, "advance", "advanced", "candidate")

Candidate(p) ==
  /\ At(p, "candidate") /\ dir[p] # {} /\ GoTo(p, "save")
  /\ UNCHANGED <<dir, lock, sweep, Others>>

(* save_candidate_lock: the copy opens the file anew, then writes it.          *)
Save(p) ==
  /\ At(p, "save") /\ dir[p] # {} /\ GoTo(p, "write")
  /\ lock' = [lock EXCEPT ![p] = "torn"]
  /\ UNCHANGED <<dir, sweep, Others>>

Write(p) ==
  /\ At(p, "write") /\ GoTo(p, "discard")
  /\ lock' = [lock EXCEPT ![p] = IF @ = "absent" THEN @ ELSE "whole"]
  /\ UNCHANGED <<dir, sweep, Others>>

(* The working copy goes; if it cannot be removed, the check goes on.          *)
Discard(p) ==
  /\ At(p, "discard") /\ GoTo(p, "report")
  /\ \/ dir' = [dir EXCEPT ![p] = {}]
     \/ UNCHANGED dir
  /\ UNCHANGED <<lock, sweep, Others>>

(* The command line prints the outcome and leaves its candidate; the daemon's   *)
(* task sends it to the loop, and ends.                                        *)
Finish(p, outcome) ==
  \/ kind[p] = "cli" /\ Gone(p) /\ UNCHANGED clean
  \/ /\ kind[p] = "daemon" /\ GoTo(p, outcome)
     /\ UNCHANGED <<dir, lock, sweep, Others>>

Report(p) == At(p, "report") /\ \E outcome \in {"found", "nothing"} : Finish(p, outcome)

(* Any step may fail and ends the check, with what it has written on disk.       *)
Fail(p) ==
  /\ InFlight(p) /\ pc[p] # "discard" /\ sweep[p] = {}
  /\ Finish(p, "failed")

(* The command loop gets to the result, after whatever it does before, unless   *)
(* the daemon is quitting by then.                                             *)
TakesResult(p) ==
  /\ kind[p] = "daemon" /\ quit[p] = "no" /\ pc[p] \in Ended
  /\ GoTo(p, "idle")
  /\ UNCHANGED <<kind, dir, lock, sweep, quit, clean>>

(* A mutant: a failed check leaves the offer of the last one.                  *)
HandleResultKeeps(p) ==
  /\ TakesResult(p)
  /\ offer' = [offer EXCEPT ![p] = IF pc[p] = "failed" THEN @ ELSE pc[p] = "found"]

(* handle_check_result: an offer if there are updates, and none after an error. *)
HandleResult(p) ==
  /\ TakesResult(p)
  /\ offer' = [offer EXCEPT ![p] = pc[p] = "found"]

-----------------------------------------------------------------------------
(* Quit: the check in flight runs on while the daemon cleans up, until the      *)
(* process ends.                                                               *)

Quit(p) ==
  /\ kind[p] = "daemon" /\ quit[p] = "no"
  /\ quit' = [quit EXCEPT ![p] = "dir"]
  /\ clean' = [clean EXCEPT ![p] = ~InFlight(p)]
  /\ offer' = [offer EXCEPT ![p] = FALSE]
  /\ UNCHANGED <<kind, pc, dir, lock, sweep>>

RemoveOwnDir(p) ==
  /\ quit[p] = "dir" /\ quit' = [quit EXCEPT ![p] = "lock"]
  /\ dir' = [dir EXCEPT ![p] = {}]
  /\ UNCHANGED <<kind, pc, lock, sweep, offer, clean>>

(* A mutant: only the working copy goes.                                       *)
RemoveOwnLockNot(p) ==
  /\ quit[p] = "lock" /\ quit' = [quit EXCEPT ![p] = "over"]
  /\ UNCHANGED <<kind, pc, dir, lock, sweep, offer, clean>>

RemoveOwnLock(p) ==
  /\ quit[p] = "lock" /\ quit' = [quit EXCEPT ![p] = "over"]
  /\ lock' = [lock EXCEPT ![p] = "absent"]
  /\ UNCHANGED <<kind, pc, dir, sweep, offer, clean>>

Exit(p) == quit[p] = "over" /\ Gone(p) /\ UNCHANGED clean

-----------------------------------------------------------------------------
Step(p) ==
  \/ Sweep(p) \/ Clear(p) \/ Create(p) \/ CopyNix(p) \/ CopyLock(p)
  \/ Advance(p) \/ Candidate(p) \/ Save(p) \/ Write(p) \/ Discard(p) \/ Report(p)

Next == \E p \in Pids :
  \/ \E k \in {"daemon", "cli"} : Start(p, k)
  \/ Crash(p) \/ BeginCheck(p) \/ Step(p) \/ Fail(p) \/ HandleResult(p)
  \/ Quit(p) \/ RemoveOwnDir(p) \/ RemoveOwnLock(p) \/ Exit(p)

(* A check's steps end, the loop gets to its result, and a daemon's checks get  *)
(* to their working copy again and again (Schedule); one that finds no flake or *)
(* no inputs sweeps nothing.                                                   *)
Fairness == \A p \in Pids :
  /\ WF_vars(Step(p)) /\ WF_vars(HandleResult(p))
  /\ WF_vars(kind[p] = "daemon" /\ BeginCheck(p))

Spec == Init /\ [][Next]_vars /\ Fairness
-----------------------------------------------------------------------------
TypeOK ==
  /\ kind \in [Pids -> {"none", "daemon", "cli"}]
  /\ pc \in [Pids -> Steps \cup Ended \cup {"idle"}]
  /\ dir \in [Pids -> SUBSET {".", "flake.nix", "flake.lock", "advanced"}]
  /\ lock \in [Pids -> {"absent", "torn", "whole"}]
  /\ sweep \in [Pids -> SUBSET (Pids \X {"dir", "lock"})]
  /\ offer \in [Pids -> BOOLEAN] /\ clean \in [Pids -> BOOLEAN]
  /\ quit \in [Pids -> {"no", "dir", "lock", "over"}]
  /\ \A p \in Pids :
       /\ InFlight(p) => Running(p)
       /\ pc[p] \in Ended => kind[p] = "daemon"
       /\ sweep[p] # {} => pc[p] = "sweep"
       /\ offer[p] \/ quit[p] # "no" => kind[p] = "daemon"

(* What a step of a check must find in its working copy.                       *)
Written == [step \in Steps \ {"sweep", "create", "report"} |->
  CASE step = "copy nix" -> {"."}
    [] step = "copy lock" -> {".", "flake.nix"}
    [] step = "advance" -> {".", "flake.nix", "flake.lock"}
    [] OTHER -> {".", "flake.nix", "flake.lock", "advanced"}]

(* Overlapping checks of different processes never take each other's working    *)
(* copy, and none reads what an earlier process of its PID, or an earlier check *)
(* that failed, left there (check.rs: never delete each other's working copy).  *)
WorkingCopy ==
  \A p \in Pids : quit[p] = "no" /\ pc[p] \in DOMAIN Written =>
    dir[p] = Written[pc[p]]

(* What the daemon offers to apply is on disk and whole, but while its next     *)
(* check writes over it, and after a check that failed, which may have been at  *)
(* that, until the loop has taken its result.                                  *)
OfferKept ==
  \A p \in Pids : offer[p] => lock[p] = "whole" \/ pc[p] \in {"write", "failed"}

(* A daemon that quits with no check in flight leaves nothing behind, not even  *)
(* what a crashed process of its PID had left.                                 *)
CleanExit ==
  \A p \in Pids : clean[p] /\ kind[p] = "none" => dir[p] = {} /\ lock[p] = "absent"

Litter(p) == kind[p] = "none" /\ (dir[p] # {} \/ lock[p] # "absent")

(* What dead processes leave goes while a daemon runs, unless their PID is used *)
(* again.                                                                      *)
LitterGoes ==
  \A p \in Pids : Litter(p) ~> ~Litter(p) \/ \A q \in Pids : kind[q] # "daemon" \/ quit[q] # "no"
=============================================================================
