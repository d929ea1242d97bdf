------------------------------ MODULE MCDaemon ------------------------------
(* Small instances of Daemon: one repository, or two to switch between, whose  *)
(* locks agree at the start.  The repositories are alike, so that the daemon    *)
(* may as well start with the first; so are an input's versions.               *)
EXTENDS Daemon

CONSTANTS r1, r2, i1, i2, t1, t2

OneRepo == {r1}
TwoRepos == {r1, r2}
OneInput == {i1}
TwoInputs == {i1, i2}
OneTree == {t1}
TwoTrees == {t1, t2}
OldAndNew == {"old", "new"}

MCInit ==
    /\ Init
    /\ savedCfg = r1
    /\ \A r \in Repos, i \in Inputs : repoLock[r].pins[i] = "old"

MCSpec == MCInit /\ [][Next]_vars /\ Fairness
=============================================================================
