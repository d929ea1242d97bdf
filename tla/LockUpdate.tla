----------------------------- MODULE LockUpdate -----------------------------
(***************************************************************************)
(* What an apply promises the user about `flake.lock` and the running      *)
(* system, without any of its mechanism: an update of the lock is a        *)
(* transaction.  When it closes, either the repository is exactly as it    *)
(* was and nothing was activated, or the lock in the repository is the one *)
(* the running system was built from.  `Apply` is shown to implement this. *)
(***************************************************************************)
CONSTANTS
    Locks,        \* contents a flake.lock can have
    Systems,      \* system generations
    SystemOf      \* the system a lock builds

VARIABLES
    lock,         \* the repository's flake.lock
    running,      \* the system /run/current-system points at
    open,         \* is a transaction open?
    base          \* lock and system when the transaction opened

avars == <<lock, running, open, base>>

Init == /\ lock \in Locks
        /\ running \in Systems
        /\ open = FALSE
        /\ base = [lock |-> lock, sys |-> running]

\* The user edits the lock by hand, between transactions.
Edit == /\ ~open
        /\ lock' \in Locks
        /\ UNCHANGED <<running, open, base>>

Open == /\ ~open
        /\ open' = TRUE
        /\ base' = [lock |-> lock, sys |-> running]
        /\ UNCHANGED <<lock, running>>

\* A new lock is put in place while nothing has been activated.
Stage == /\ open
         /\ lock = base.lock
         /\ running = base.sys
         /\ lock' \in Locks
         /\ UNCHANGED <<running, open, base>>

\* The system built from the lock in the repository becomes the running one.
Switch == /\ open
          /\ lock \in Locks
          /\ running' = SystemOf[lock]
          /\ UNCHANGED <<lock, open, base>>

Committed == lock \in Locks /\ running = SystemOf[lock]

\* The transaction closes: committed, or rolled back with nothing activated.
Close == /\ open
         /\ open' = FALSE
         /\ \/ Committed /\ lock' = lock
            \/ running = base.sys /\ lock' = base.lock
         /\ UNCHANGED <<running, base>>

Next == Edit \/ Open \/ Stage \/ Switch \/ Close

Spec == Init /\ [][Next]_avars
=============================================================================
