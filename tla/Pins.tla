-------------------------------- MODULE Pins --------------------------------
(* The lock graph and the pinned inputs: which inputs a check advances         *)
(* (config.rs, check.rs), what it leaves in the candidate lock, what           *)
(* verify_pins lets an apply install (daemon.rs, lock.rs), and which nixpkgs    *)
(* the changelogs are read from. A node's `locked` entry is a revision number.  *)
EXTENDS Naturals, Sequences, SequencesExt

CONSTANTS
  Names,          \* names of flake inputs
  Keys, Root,     \* node keys of a flake.lock, and the root node's
  Owner,          \* the top-level input whose fetch brings a node in
  Graphs,         \* the `inputs` edges a flake.lock may have
  Configs,        \* the values of update_inputs and exclude_inputs
  Nixpkgs,        \* NIXPKGS_INPUT of changelog.rs
  MaxDepth,       \* how many follows resolve_ref goes through (16 in the code)
  None,
  MaxRev,         \* bound: revisions a node may be locked at
  MaxEdits,       \* bound: how often the user edits the repository's lock
  MaxChecks       \* bound: how many checks are made

(* An edge leads to a node, or `follows` a path of inputs from the root.       *)
Refs == Keys \cup Seq(Names)
Revs == 0..MaxRev
LockFiles == [inputs : Graphs, rev : [Keys -> Revs]]
(* A candidate lock, with what the check that made it worked from.             *)
Candidates == [lock : LockFiles, base : LockFiles, exclude : SUBSET Names,
               inputs : SUBSET Names, failed : SUBSET Names, offered : BOOLEAN]
InputSets == [update : SUBSET Names, exclude : SUBSET Names]

(* nix locks every top-level input in a node of its own, and what it fetches   *)
(* for one input it hangs below that node.                                     *)
ASSUME KeysAssumption ==
  /\ Root \in Keys
  /\ Owner \in [Keys -> Names \cup {None}]
  /\ None \notin Names /\ None \notin Keys /\ None \notin Revs
  /\ None \notin LockFiles /\ None \notin Candidates

ASSUME GraphsAssumption ==
  /\ \A g \in Graphs : /\ g = [k \in Keys |-> g[k]]
                       /\ \A k \in Keys : \E D \in SUBSET Names : g[k] \in [D -> Refs]
  /\ \A g \in Graphs : \A n \in DOMAIN g[Root] :
       g[Root][n] \in Keys => Owner[g[Root][n]] = n

ASSUME PinBounds == /\ Configs \subseteq InputSets /\ Nixpkgs \in Names
                    /\ MaxDepth \in Nat /\ MaxRev \in Nat /\ MaxEdits \in Nat /\ MaxChecks \in Nat

VARIABLES
  repo,       \* <repo>/flake.lock
  cfg,        \* the daemon's configuration
  check,      \* the check under way: where it is, its inputs, its scratch flake
  candidate,  \* the saved candidate lock, and the check it comes from
  links,      \* the nixpkgs revision its changelogs were read from
  apply,      \* the apply under way: where it is, its configuration, what it verified
  edits, checks   \* bounded counts of the user's edits and of the checks

vars == <<repo, cfg, check, candidate, links, apply, edits, checks>>

-----------------------------------------------------------------------------
(* Reading a lock.                                                             *)

Inputs(lock) == lock.inputs[Root]
InputNames(lock) == DOMAIN Inputs(lock)

LockedOf(lock, n) ==
  IF n \in InputNames(lock) /\ Inputs(lock)[n] \in Keys
  THEN lock.rev[Inputs(lock)[n]] ELSE None

(* A mutant: the path is taken to name the top-level input of its last step.   *)
ResolveRefOnce(graph, ref) ==
  IF ref \in Keys THEN ref
  ELSE LET n == Last(ref) IN
       IF n \in DOMAIN graph[Root] /\ graph[Root][n] \in Keys THEN graph[Root][n] ELSE None

(* A follows path is walked from the root; next says what each edge leads to.  *)
Walk(graph, next, path) ==
  FoldLeft(LAMBDA cur, seg : IF cur = None \/ seg \notin DOMAIN graph[cur] THEN None
                             ELSE next[graph[cur][seg]],
           Root, path)

(* Each edge on the way may be a follows again, `left` levels deep.            *)
ResolveRef(graph, ref) ==
  LET Follow[left \in 0..MaxDepth] ==
        [r \in Refs |-> IF r \in Keys THEN r
                        ELSE Walk(graph, IF left = 0 THEN [x \in Refs |-> None] ELSE Follow[left - 1], r)]
  IN  Follow[MaxDepth][ref]

(* input_flake_ref, up to the rendering of the node's `locked` entry, which    *)
(* the root has not.                                                           *)
InputRev(lock, n) ==
  IF n \in InputNames(lock) /\ ResolveRef(lock.inputs, Inputs(lock)[n]) \in Keys \ {Root}
  THEN lock.rev[ResolveRef(lock.inputs, Inputs(lock)[n])] ELSE None

(* A mutant: only the inputs of the current lock are compared.                 *)
ChangedInputsBefore(before, after) ==
  {n \in InputNames(before) \cap InputNames(after) :
     LockedOf(before, n) # LockedOf(after, n)}

ChangedInputs(before, after) ==
  {n \in InputNames(before) \cup InputNames(after) :
     LockedOf(before, n) # LockedOf(after, n)}

(* A mutant: the exclude list is only read when there is no allow-list.        *)
EffectiveUnlessListed(c, available) ==
  IF c.update = {} THEN available \ c.exclude ELSE c.update \cap available

EffectiveUpdateInputs(c, available) ==
  (IF c.update = {} THEN available ELSE c.update \cap available) \ c.exclude

-----------------------------------------------------------------------------
(* What nix does to a lock (external).                                         *)

(* `nix flake update <n>`: fetch n, and with it the nodes below it, which are  *)
(* then at r; an input that follows another, or is not there, stays as it is.  *)
Advance(lock, n, r) ==
  IF n \in InputNames(lock) /\ Inputs(lock)[n] \in Keys
  THEN [lock EXCEPT !.rev = [k \in Keys |-> IF Owner[k] = n THEN r ELSE @[k]]]
  ELSE lock

InLock(graph) == {k \in Keys : \E j \in Keys : \E n \in DOMAIN graph[j] : graph[j][n] = k}

(* Locking a flake.nix whose inputs were edited: what is new is fetched.       *)
Relock(lock, graph, r) ==
  [inputs |-> graph,
   rev |-> [k \in Keys |-> IF k \in InLock(lock.inputs) THEN lock.rev[k] ELSE r]]

-----------------------------------------------------------------------------
Init ==
  /\ \E g \in Graphs : repo = [inputs |-> g, rev |-> [k \in Keys |-> 0]]
  /\ cfg \in Configs
  /\ check = None /\ candidate = None /\ links = None /\ apply = None
  /\ edits = 0 /\ checks = 0

(* Each check reloads the configuration and lists the inputs of the repository.*)
ListInputs ==
  /\ check = None
  /\ checks < MaxChecks /\ checks' = checks + 1
  /\ \E c \in Configs :
       LET inputs == EffectiveUpdateInputs(c, InputNames(repo)) IN
       /\ cfg' = c
       /\ check' = [inputs |-> inputs, todo |-> inputs, failed |-> {},
                    exclude |-> c.exclude, scratch |-> None, base |-> None]
  /\ UNCHANGED <<repo, candidate, links, apply, edits>>

ScratchFlake ==
  /\ check # None /\ check.scratch = None /\ check.inputs # {}
  /\ check' = [check EXCEPT !.scratch = repo, !.base = repo]
  /\ UNCHANGED <<repo, cfg, candidate, links, apply, edits, checks>>

(* A mutant: an input whose update fails has been written to the lock.         *)
UpdateInputReportsLate ==
  /\ check # None /\ check.scratch # None /\ check.todo # {}
  /\ LET n == CHOOSE m \in check.todo : TRUE IN
     \E r \in Revs : \E failed \in SUBSET {n} :
       check' = [check EXCEPT !.todo = @ \ {n}, !.scratch = Advance(@, n, r),
                              !.failed = @ \cup failed]
  /\ UNCHANGED <<repo, cfg, candidate, links, apply, edits, checks>>

(* flake_update_inputs: one invocation per input, in the order of a list, and  *)
(* one that fails changes nothing.                                             *)
UpdateInput ==
  /\ check # None /\ check.scratch # None /\ check.todo # {}
  /\ LET n == CHOOSE m \in check.todo : TRUE IN
     \/ \E r \in Revs :
          check' = [check EXCEPT !.todo = @ \ {n}, !.scratch = Advance(@, n, r)]
     \/ check' = [check EXCEPT !.todo = @ \ {n}, !.failed = @ \cup {n}]
  /\ UNCHANGED <<repo, cfg, candidate, links, apply, edits, checks>>

(* The candidate is evaluated and saved, unless no input could be advanced; it *)
(* is offered, with changelogs, if it builds another system.                   *)
EndCheck ==
  /\ check # None /\ check.scratch # None /\ check.todo = {}
  /\ check.failed # check.inputs
  /\ \E offered \in BOOLEAN :
       /\ candidate' = [lock |-> check.scratch, base |-> check.base,
                        exclude |-> check.exclude, inputs |-> check.inputs,
                        failed |-> check.failed, offered |-> offered]
       /\ links' = IF offered THEN InputRev(check.scratch, Nixpkgs) ELSE links
  /\ check' = None
  /\ UNCHANGED <<repo, cfg, apply, edits, checks>>

(* A check fails at any step, an evaluation or a copy: the earlier offer is    *)
(* withdrawn, its file stays.                                                  *)
FailCheck ==
  /\ check # None
  /\ check' = None
  /\ candidate' = IF candidate = None THEN None ELSE [candidate EXCEPT !.offered = FALSE]
  /\ UNCHANGED <<repo, cfg, links, apply, edits, checks>>

(* verify_pins, with ensure_pinned_unchanged of what it reads.                 *)
VerifyPins ==
  /\ apply = None
  /\ candidate # None /\ candidate.offered
  /\ apply' = [refused |-> ChangedInputs(repo, candidate.lock) \cap cfg.exclude # {},
               exclude |-> cfg.exclude, repo |-> repo, cand |-> candidate]
  /\ UNCHANGED <<repo, cfg, check, candidate, links, edits, checks>>

(* install_candidate_lock copies the file as it is by then.                    *)
Install ==
  /\ apply # None /\ ~apply.refused
  /\ repo' = candidate.lock
  /\ apply' = None
  /\ UNCHANGED <<cfg, check, candidate, links, edits, checks>>

Refuse ==
  /\ apply # None /\ apply.refused
  /\ apply' = None
  /\ UNCHANGED <<repo, cfg, check, candidate, links, edits, checks>>

(* The user advances an input by hand, or edits the inputs of flake.nix.        *)
UserEdits ==
  /\ edits < MaxEdits
  /\ edits' = edits + 1
  /\ \E r \in Revs :
       \/ \E n \in InputNames(repo) : repo' = Advance(repo, n, r)
       \/ \E g \in Graphs : repo' = Relock(repo, g, r)
  /\ UNCHANGED <<cfg, check, candidate, links, apply, checks>>

Next ==
  \/ ListInputs \/ ScratchFlake \/ UpdateInput \/ EndCheck \/ FailCheck
  \/ VerifyPins \/ Install \/ Refuse
  \/ UserEdits

Spec == Init /\ [][Next]_vars

-----------------------------------------------------------------------------
(* Properties.                                                                 *)

(* The values the check, the candidate and the apply may hold; a check has     *)
(* listed no excluded input, and has inputs to do or failed only of its list.  *)
TypeOK ==
  /\ repo \in LockFiles
  /\ cfg \in Configs
  /\ check \in {None} \cup
       [inputs : SUBSET Names, todo : SUBSET Names, failed : SUBSET Names,
        exclude : SUBSET Names, scratch : LockFiles \cup {None},
        base : LockFiles \cup {None}]
  /\ check # None => /\ check.scratch = None <=> check.base = None
                     /\ check.inputs \cap check.exclude = {}
                     /\ check.todo \cup check.failed \subseteq check.inputs
  /\ candidate \in {None} \cup Candidates
  /\ links \in Revs \cup {None}
  /\ apply \in {None} \cup [refused : BOOLEAN, exclude : SUBSET Names,
                            repo : LockFiles, cand : Candidates]
  /\ apply # None => candidate # None
  /\ edits \in 0..MaxEdits /\ checks \in 0..MaxChecks

(* A candidate moves only inputs the check set out to advance and did not      *)
(* report as failed: neither a pinned input nor one that could not be fetched  *)
(* changes on the way from listing to saving.                                  *)
OnlyAdvancedMove ==
  candidate # None =>
    ChangedInputs(candidate.base, candidate.lock)
      \subseteq (candidate.inputs \ candidate.failed) \ candidate.exclude

(* The two nets agree: an apply is refused only if the repository's lock or    *)
(* the exclude list is no longer the one the check worked from.                *)
RefusalIsJustified ==
  apply # None /\ apply.refused =>
    \E n \in apply.exclude :
      \/ n \notin apply.cand.exclude
      \/ LockedOf(apply.repo, n) # LockedOf(apply.cand.base, n)

(* Installing a lock that passed verify_pins leaves every pinned input that is *)
(* locked in a node of its own where it is, unless the repository or the file  *)
(* changed since.                                                              *)
PinsSurvive ==
  [][Install /\ repo = apply.repo /\ candidate = apply.cand =>
       \A n \in apply.exclude : LockedOf(repo', n) = LockedOf(repo, n)]_vars

(* What a pinned input resolves to changes in a candidate only if it follows   *)
(* a node of an input that was advanced.                                       *)
MovedPinFollows ==
  candidate # None =>
    \A n \in candidate.exclude \cap InputNames(candidate.base) :
      InputRev(candidate.lock, n) # InputRev(candidate.base, n) =>
        Owner[ResolveRef(candidate.lock.inputs, Inputs(candidate.lock)[n])]
          \in candidate.inputs \ candidate.failed

(* Node k is what the path p of inputs leads to from the root.                 *)
LeadsTo(lock, p, k) ==
  \E w \in [0..Len(p) -> Keys] :
    /\ w[0] = Root /\ w[Len(p)] = k
    /\ \A i \in 1..Len(p) :
         /\ p[i] \in DOMAIN lock.inputs[w[i - 1]]
         /\ w[i] = ResolveRef(lock.inputs, lock.inputs[w[i - 1]][p[i]])

(* Every edge of the graph leads to a node, `res`, and where it is a path, over *)
(* edges that are less deep: no edge dangles, none follows itself, and resolve_ *)
(* ref's guard is deep enough.  nix writes no other lock, but for the guard.    *)
Edges(g) == UNION {{g[k][n] : n \in DOMAIN g[k]} : k \in Keys}
FollowsLead(g, res, rank) ==
  /\ res \in [Edges(g) -> Keys] /\ rank \in [Edges(g) -> 0..MaxDepth]
  /\ \A r \in Edges(g) :
       IF r \in Keys THEN res[r] = r
       ELSE \E w \in [0..Len(r) -> Keys] :
              /\ w[0] = Root /\ w[Len(r)] = res[r]
              /\ \A i \in 1..Len(r) :
                   /\ r[i] \in DOMAIN g[w[i - 1]]
                   /\ w[i] = res[g[w[i - 1]][r[i]]]
                   /\ rank[g[w[i - 1]][r[i]]] < rank[r]
NixpkgsLeads(g) ==
  \E res, rank : /\ FollowsLead(g, res, rank)
                 /\ Nixpkgs \in DOMAIN g[Root] => res[g[Root][Nixpkgs]] # Root

(* The changelogs of an offered update are read from the nixpkgs it installs,  *)
(* whether the flake locks it itself or follows another input's.               *)
LinksDescribeUpdate ==
  candidate # None /\ candidate.offered /\ Nixpkgs \in InputNames(candidate.lock) =>
    \E k \in Keys : /\ LeadsTo(candidate.lock, <<Nixpkgs>>, k)
                    /\ \/ Inputs(candidate.lock)[Nixpkgs] = k
                       \/ LeadsTo(candidate.lock, Inputs(candidate.lock)[Nixpkgs], k)
                    /\ links = candidate.lock.rev[k]

(* README.md: pinned inputs are never advanced; lock.rs: an excluded input     *)
(* must never move, whatever follows edges there are.                          *)
PinsNeverMove ==
  [][Install /\ repo = apply.repo /\ candidate = apply.cand =>
       \A n \in apply.exclude : InputRev(repo', n) = InputRev(repo, n)]_vars
=============================================================================
