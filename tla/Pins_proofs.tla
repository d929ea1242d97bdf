---------------------------- MODULE Pins_proofs -----------------------------
(***************************************************************************)
(* Theorems about Pins, for every flake graph that gives each top-level     *)
(* input a node of its own, every configuration and every number of checks. *)
(***************************************************************************)
EXTENDS Pins, FoldTheorems

\* A locked entry is a revision, for an input that has a node of its own.
LEMMA LockedOfType ==
  ASSUME NEW lock \in LockFiles, NEW n
  PROVE  LockedOf(lock, n) \in Revs \cup {None}
BY DEF LockedOf, LockFiles

\* Advancing an input keeps a lock a lock and its graph as it is, and moves
\* only nodes that belong to that input.
LEMMA AdvanceMovesOwn ==
  ASSUME NEW lock \in LockFiles, NEW n \in Names, NEW r \in Revs
  PROVE  /\ Advance(lock, n, r) \in LockFiles
         /\ Advance(lock, n, r).inputs = lock.inputs
         /\ \A k \in Keys : Owner[k] # n => Advance(lock, n, r).rev[k] = lock.rev[k]
BY DEF Advance, LockFiles

\* Relocking an edited flake gives a lock of the new graph.
LEMMA RelockType ==
  ASSUME NEW lock \in LockFiles, NEW g \in Graphs, NEW r \in Revs
  PROVE  Relock(lock, g, r) \in LockFiles
BY DEF Relock, LockFiles

\* The inputs of a lock are names.
LEMMA InputNamesType ==
  ASSUME NEW lock \in LockFiles
  PROVE  InputNames(lock) \subseteq Names
<1>1. PICK D \in SUBSET Names : lock.inputs[Root] \in [D -> Refs]
  BY KeysAssumption, GraphsAssumption DEF LockFiles
<1>. QED  BY <1>1 DEF InputNames, Inputs

\* Only well-typed states are reachable, and no check lists an input that its
\* configuration excludes.
THEOREM TypeCorrect == Spec => []TypeOK
<1>. USE KeysAssumption, PinBounds
<1>1. Init => TypeOK
  <2>. SUFFICES ASSUME Init PROVE TypeOK
    OBVIOUS
  <2>1. PICK g \in Graphs : repo = [inputs |-> g, rev |-> [k \in Keys |-> 0]]
    BY DEF Init
  <2>2. repo \in LockFiles
    BY <2>1 DEF LockFiles, Revs
  <2>. QED  BY <2>2 DEF Init, TypeOK
<1>2. TypeOK /\ [Next]_vars => TypeOK'
  <2>. SUFFICES ASSUME TypeOK, [Next]_vars PROVE TypeOK'
    OBVIOUS
  <2>. USE DEF TypeOK
  <2>1. CASE ListInputs
    <3>1. InputNames(repo) \subseteq Names
      BY InputNamesType
    <3>2. PICK c \in Configs :
            /\ cfg' = c
            /\ check' = [inputs |-> EffectiveUpdateInputs(c, InputNames(repo)),
                         todo |-> EffectiveUpdateInputs(c, InputNames(repo)),
                         failed |-> {}, exclude |-> c.exclude,
                         scratch |-> None, base |-> None]
      BY <2>1 DEF ListInputs
    <3>3. /\ c.exclude \in SUBSET Names
          /\ EffectiveUpdateInputs(c, InputNames(repo)) \in SUBSET Names
          /\ EffectiveUpdateInputs(c, InputNames(repo)) \cap c.exclude = {}
      BY <3>1 DEF EffectiveUpdateInputs, InputSets
    <3>. QED  BY <2>1, <3>2, <3>3 DEF ListInputs
  <2>2. CASE ScratchFlake
    BY <2>2 DEF ScratchFlake
  <2>3. CASE UpdateInput
    <3>. DEFINE n == CHOOSE m \in check.todo : TRUE
    <3>1. n \in check.todo /\ n \in Names /\ check.scratch \in LockFiles
      BY <2>3 DEF UpdateInput
    <3>2. \A r \in Revs : Advance(check.scratch, n, r) \in LockFiles
      BY <3>1, AdvanceMovesOwn
    <3>3. \/ \E r \in Revs : check' = [check EXCEPT !.todo = @ \ {n},
                                           !.scratch = Advance(check.scratch, n, r)]
          \/ check' = [check EXCEPT !.todo = @ \ {n}, !.failed = @ \cup {n}]
      BY <2>3 DEF UpdateInput
    <3>. HIDE DEF n
    <3>4. CASE \E r \in Revs : check' = [check EXCEPT !.todo = @ \ {n},
                                           !.scratch = Advance(check.scratch, n, r)]
      <4>0. PICK r \in Revs : check' = [check EXCEPT !.todo = @ \ {n},
                                           !.scratch = Advance(check.scratch, n, r)]
        BY <3>4
      <4>. DEFINE s == Advance(check.scratch, n, r)
      <4>1. s \in LockFiles
        BY <3>2
      <4>. HIDE DEF s
      <4>. QED  BY <2>3, <3>1, <4>0, <4>1 DEF UpdateInput, s
    <3>5. CASE check' = [check EXCEPT !.todo = @ \ {n}, !.failed = @ \cup {n}]
      BY <2>3, <3>1, <3>5, ZenonT(60) DEF UpdateInput
    <3>. QED  BY <3>3, <3>4, <3>5
  <2>4. CASE EndCheck
    <3>1. check.scratch \in LockFiles
      BY <2>4 DEF EndCheck
    <3>2. InputRev(check.scratch, Nixpkgs) \in Revs \cup {None}
      BY <3>1 DEF InputRev, LockFiles
    <3>3. check.base \in LockFiles
      BY <2>4 DEF EndCheck
    <3>4. PICK offered \in BOOLEAN :
            /\ candidate' = [lock |-> check.scratch, base |-> check.base,
                             exclude |-> check.exclude, inputs |-> check.inputs,
                             failed |-> check.failed, offered |-> offered]
            /\ links' = IF offered THEN InputRev(check.scratch, Nixpkgs) ELSE links
      BY <2>4 DEF EndCheck
    <3>5. candidate' \in Candidates
      BY <2>4, <3>1, <3>3, <3>4 DEF EndCheck, Candidates
    <3>6. links' \in Revs \cup {None}
      BY <3>2, <3>4
    <3>. QED  BY <2>4, <3>5, <3>6 DEF EndCheck
  <2>10. CASE FailCheck
    <3>1. CASE candidate = None
      BY <2>10, <3>1 DEF FailCheck
    <3>2. CASE candidate # None
      <4>1. /\ candidate \in Candidates
            /\ candidate' = [candidate EXCEPT !.offered = FALSE]
        BY <2>10, <3>2 DEF FailCheck
      <4>2. candidate' \in Candidates
        BY <4>1 DEF Candidates
      <4>. QED  BY <2>10, <4>2 DEF FailCheck
    <3>. QED  BY <3>1, <3>2
  <2>5. CASE VerifyPins
    BY <2>5 DEF VerifyPins, InputSets, Candidates
  <2>6. CASE Install
    BY <2>6 DEF Install, Candidates
  <2>7. CASE Refuse
    BY <2>7 DEF Refuse
  <2>8. CASE UserEdits
    <3>1. repo' \in LockFiles
      BY <2>8, AdvanceMovesOwn, RelockType, InputNamesType DEF UserEdits
    <3>. QED  BY <2>8, <3>1 DEF UserEdits
  <2>9. CASE UNCHANGED vars
    BY <2>9 DEF vars
  <2>. QED  BY <2>1, <2>2, <2>3, <2>4, <2>5, <2>6, <2>7, <2>8, <2>9, <2>10 DEF Next
<1>. QED  BY <1>1, <1>2, PTL DEF Spec

-----------------------------------------------------------------------------
(* What a check keeps true of its scratch flake, and with it of the lock it    *)
(* saves: the graph is the one it copied, and only nodes of the inputs that    *)
(* have been advanced are somewhere else.                                      *)

MovedOnly(lock, base, inputs) ==
  /\ lock.inputs = base.inputs
  /\ \A k \in Keys : lock.rev[k] # base.rev[k] => Owner[k] \in inputs

Sound(cand) ==
  /\ MovedOnly(cand.lock, cand.base, cand.inputs \ cand.failed)
  /\ cand.inputs \cap cand.exclude = {}

ScratchInv ==
  check # None /\ check.scratch # None =>
    /\ MovedOnly(check.scratch, check.base, (check.inputs \ check.todo) \ check.failed)
    /\ check.todo \cap check.failed = {}

UntouchedInv == check # None /\ check.scratch = None => check.failed = {}

CandidateInv == candidate # None => Sound(candidate)

ApplyInv ==
  apply # None =>
    /\ Sound(apply.cand)
    /\ apply.refused <=>
         ChangedInputs(apply.repo, apply.cand.lock) \cap apply.exclude # {}

PinInv == ScratchInv /\ UntouchedInv /\ CandidateInv /\ ApplyInv

\* The invariant is inductive.
LEMMA PinsInvariant == Spec => []PinInv
<1>. USE KeysAssumption, PinBounds
<1>1. Init => PinInv
  BY DEF Init, PinInv, ScratchInv, UntouchedInv, CandidateInv, ApplyInv
<1>2. TypeOK /\ PinInv /\ [Next]_vars => PinInv'
  <2>. SUFFICES ASSUME TypeOK, PinInv, [Next]_vars PROVE PinInv'
    OBVIOUS
  <2>1. CASE ListInputs
    <3>1. /\ check' # None => check'.scratch = None /\ check'.failed = {}
          /\ UNCHANGED <<candidate, apply>>
      BY <2>1 DEF ListInputs
    <3>. QED  BY <3>1 DEF PinInv, ScratchInv, UntouchedInv, CandidateInv, ApplyInv
  <2>2. CASE ScratchFlake
    <3>1. check'.scratch # None => /\ check'.scratch = check'.base
                                   /\ check'.failed = {}
      BY <2>2 DEF ScratchFlake, TypeOK, PinInv, UntouchedInv
    <3>2. check'.scratch # None
      BY <2>2 DEF ScratchFlake, TypeOK
    <3>3. ScratchInv' /\ UntouchedInv'
      BY <3>1, <3>2 DEF ScratchInv, UntouchedInv, MovedOnly
    <3>4. UNCHANGED <<candidate, apply>>
      BY <2>2 DEF ScratchFlake
    <3>. QED  BY <3>3, <3>4 DEF PinInv, CandidateInv, ApplyInv
  <2>3. CASE UpdateInput
    <3>. DEFINE n == CHOOSE m \in check.todo : TRUE
    <3>1. /\ n \in check.todo /\ n \in Names
          /\ check # None /\ check.scratch \in LockFiles /\ check.scratch # None
          /\ check.todo \subseteq check.inputs
      BY <2>3 DEF UpdateInput, TypeOK
    <3>2. \/ \E r \in Revs : check' = [check EXCEPT !.todo = @ \ {n},
                                           !.scratch = Advance(check.scratch, n, r)]
          \/ check' = [check EXCEPT !.todo = @ \ {n}, !.failed = @ \cup {n}]
      BY <2>3 DEF UpdateInput
    <3>. HIDE DEF n
    <3>3. /\ MovedOnly(check.scratch, check.base,
                       (check.inputs \ check.todo) \ check.failed)
          /\ check.todo \cap check.failed = {}
      BY <3>1 DEF PinInv, ScratchInv
    <3>4. ASSUME NEW r \in Revs,
                 check' = [check EXCEPT !.todo = @ \ {n},
                                        !.scratch = Advance(check.scratch, n, r)]
          PROVE  ScratchInv' /\ UntouchedInv'
      <4>. DEFINE s == Advance(check.scratch, n, r)
      <4>1. /\ s \in LockFiles
            /\ s.inputs = check.scratch.inputs
            /\ \A k \in Keys : Owner[k] # n => s.rev[k] = check.scratch.rev[k]
        BY <3>1, AdvanceMovesOwn
      <4>. HIDE DEF s
      <4>2. /\ check'.todo = check.todo \ {n} /\ check'.failed = check.failed
            /\ check'.inputs = check.inputs /\ check'.base = check.base
            /\ check'.scratch = s
        BY <3>1, <3>4 DEF TypeOK, s
      <4>3. MovedOnly(s, check.base, (check.inputs \ (check.todo \ {n})) \ check.failed)
        BY <3>1, <3>3, <4>1 DEF MovedOnly
      <4>. QED  BY <3>3, <4>1, <4>2, <4>3 DEF ScratchInv, UntouchedInv
    <3>5. ASSUME check' = [check EXCEPT !.todo = @ \ {n}, !.failed = @ \cup {n}]
          PROVE  ScratchInv' /\ UntouchedInv'
      <4>1. /\ check'.todo = check.todo \ {n} /\ check'.failed = check.failed \cup {n}
            /\ check'.inputs = check.inputs /\ check'.base = check.base
            /\ check'.scratch = check.scratch
        BY <3>1, <3>5 DEF TypeOK
      <4>2. (check.inputs \ (check.todo \ {n})) \ (check.failed \cup {n})
              = (check.inputs \ check.todo) \ check.failed
        BY <3>1
      <4>. QED  BY <3>1, <3>3, <4>1, <4>2 DEF ScratchInv, UntouchedInv
    <3>6. UNCHANGED <<candidate, apply>>
      BY <2>3 DEF UpdateInput
    <3>. QED  BY <3>2, <3>4, <3>5, <3>6 DEF PinInv, CandidateInv, ApplyInv
  <2>4. CASE EndCheck
    <3>1. /\ MovedOnly(check.scratch, check.base, check.inputs \ check.failed)
          /\ check.inputs \cap check.exclude = {}
      BY <2>4 DEF EndCheck, PinInv, ScratchInv, TypeOK
    <3>2. CandidateInv'
      BY <2>4, <3>1 DEF EndCheck, CandidateInv, Sound
    <3>3. check' = None /\ UNCHANGED apply
      BY <2>4 DEF EndCheck
    <3>. QED  BY <3>2, <3>3 DEF PinInv, ScratchInv, UntouchedInv, ApplyInv
  <2>8. CASE FailCheck
    <3>1. CandidateInv'
      <4>1. CASE candidate = None
        BY <2>8, <4>1 DEF FailCheck, CandidateInv
      <4>2. CASE candidate # None
        <5>1. candidate \in Candidates /\ Sound(candidate)
          BY <4>2 DEF TypeOK, PinInv, CandidateInv
        <5>2. candidate' = [candidate EXCEPT !.offered = FALSE]
          BY <2>8, <4>2 DEF FailCheck
        <5>. QED  BY <5>1, <5>2 DEF CandidateInv, Sound, Candidates
      <4>. QED  BY <4>1, <4>2
    <3>2. check' = None /\ UNCHANGED apply
      BY <2>8 DEF FailCheck
    <3>. QED  BY <3>1, <3>2 DEF PinInv, ScratchInv, UntouchedInv, ApplyInv
  <2>5. CASE VerifyPins
    <3>1. ApplyInv'
      BY <2>5 DEF VerifyPins, PinInv, CandidateInv, ApplyInv
    <3>2. UNCHANGED <<check, candidate>>
      BY <2>5 DEF VerifyPins
    <3>. QED  BY <3>1, <3>2 DEF PinInv, ScratchInv, UntouchedInv, CandidateInv
  <2>6. CASE Install \/ Refuse
    <3>1. apply' = None /\ UNCHANGED <<check, candidate>>
      BY <2>6 DEF Install, Refuse
    <3>. QED  BY <3>1 DEF PinInv, ScratchInv, UntouchedInv, CandidateInv, ApplyInv
  <2>7. CASE UserEdits \/ UNCHANGED vars
    <3>1. UNCHANGED <<check, candidate, apply>>
      BY <2>7 DEF UserEdits, vars
    <3>. QED  BY <3>1 DEF PinInv, ScratchInv, UntouchedInv, CandidateInv, ApplyInv
  <2>. QED  BY <2>1, <2>2, <2>3, <2>4, <2>5, <2>6, <2>7, <2>8 DEF Next
<1>. QED  BY <1>1, <1>2, TypeCorrect, PTL DEF Spec

-----------------------------------------------------------------------------
\* An input of an unmoved graph whose locked entry differs has a node of its
\* own, which belongs to it and has moved.
LEMMA ChangedIsMoved ==
  ASSUME NEW lock \in LockFiles, NEW base \in LockFiles, NEW inputs,
         MovedOnly(lock, base, inputs), NEW n,
         LockedOf(base, n) # LockedOf(lock, n)
  PROVE  n \in inputs
<1>1. lock.inputs = base.inputs /\ lock.inputs \in Graphs
  BY DEF MovedOnly, LockFiles
<1>2. /\ n \in DOMAIN lock.inputs[Root] /\ lock.inputs[Root][n] \in Keys
      /\ base.rev[lock.inputs[Root][n]] # lock.rev[lock.inputs[Root][n]]
  BY <1>1 DEF LockedOf, InputNames, Inputs
<1>3. Owner[lock.inputs[Root][n]] = n
  BY <1>1, <1>2, GraphsAssumption
<1>. QED  BY <1>2, <1>3 DEF MovedOnly

\* Two locks in which an input has not changed have the same entry for it.
LEMMA UnchangedIsSame ==
  ASSUME NEW a \in LockFiles, NEW b \in LockFiles, NEW n, n \notin ChangedInputs(a, b)
  PROVE  LockedOf(a, n) = LockedOf(b, n)
BY DEF ChangedInputs, LockedOf

\* A candidate differs from the lock it was made from only in inputs the check
\* set out to advance, which are never excluded ones, and did not fail on.
THEOREM CandidateMovesAdvanced == Spec => []OnlyAdvancedMove
<1>1. TypeOK /\ PinInv => OnlyAdvancedMove
  <2>. SUFFICES ASSUME TypeOK, PinInv, candidate # None,
                       NEW n \in ChangedInputs(candidate.base, candidate.lock)
                PROVE  n \in (candidate.inputs \ candidate.failed) \ candidate.exclude
    BY DEF OnlyAdvancedMove
  <2>1. /\ candidate.lock \in LockFiles /\ candidate.base \in LockFiles
        /\ Sound(candidate)
    BY DEF TypeOK, Candidates, PinInv, CandidateInv
  <2>2. LockedOf(candidate.base, n) # LockedOf(candidate.lock, n)
    BY DEF ChangedInputs
  <2>3. n \in candidate.inputs \ candidate.failed
    BY <2>1, <2>2, ChangedIsMoved DEF Sound
  <2>. QED  BY <2>1, <2>3 DEF Sound
<1>. QED  BY <1>1, TypeCorrect, PinsInvariant, PTL

\* verify_pins refuses only what the check could not have known: the lock or
\* the exclude list has changed since.
THEOREM RefusalsAreJustified == Spec => []RefusalIsJustified
<1>1. TypeOK /\ PinInv => RefusalIsJustified
  <2>. SUFFICES ASSUME TypeOK, PinInv, apply # None, apply.refused
                PROVE  \E n \in apply.exclude :
                         \/ n \notin apply.cand.exclude
                         \/ LockedOf(apply.repo, n) # LockedOf(apply.cand.base, n)
    BY DEF RefusalIsJustified
  <2>1. /\ apply.cand.lock \in LockFiles /\ apply.cand.base \in LockFiles
        /\ Sound(apply.cand)
        /\ ChangedInputs(apply.repo, apply.cand.lock) \cap apply.exclude # {}
    BY DEF TypeOK, Candidates, PinInv, ApplyInv
  <2>2. PICK n \in apply.exclude : n \in ChangedInputs(apply.repo, apply.cand.lock)
    BY <2>1
  <2>3. LockedOf(apply.repo, n) # LockedOf(apply.cand.lock, n)
    BY <2>2 DEF ChangedInputs
  <2>4. n \in apply.cand.exclude =>
          LockedOf(apply.cand.base, n) = LockedOf(apply.cand.lock, n)
    BY <2>1, ChangedIsMoved DEF Sound
  <2>. QED  BY <2>2, <2>3, <2>4
<1>. QED  BY <1>1, TypeCorrect, PinsInvariant, PTL

\* Installing what was verified moves no pinned input that is locked in a node
\* of its own, however the graph looks and whoever made the candidate.
THEOREM PinnedInputsSurvive == Spec => PinsSurvive
<1>1. TypeOK /\ PinInv /\ [Next]_vars =>
        [Install /\ repo = apply.repo /\ candidate = apply.cand =>
           \A n \in apply.exclude : LockedOf(repo', n) = LockedOf(repo, n)]_vars
  <2>. SUFFICES ASSUME TypeOK, PinInv, Install,
                       repo = apply.repo, candidate = apply.cand,
                       NEW n \in apply.exclude
                PROVE  LockedOf(repo', n) = LockedOf(repo, n)
    OBVIOUS
  <2>1. /\ apply # None /\ ~apply.refused /\ repo' = apply.cand.lock
        /\ repo \in LockFiles /\ apply.cand.lock \in LockFiles
    BY DEF Install, TypeOK, Candidates
  <2>2. n \notin ChangedInputs(repo, apply.cand.lock)
    BY <2>1 DEF PinInv, ApplyInv
  <2>3. LockedOf(repo, n) = LockedOf(apply.cand.lock, n)
    BY <2>1, <2>2, UnchangedIsSame
  <2>. QED  BY <2>1, <2>3
<1>. QED  BY <1>1, TypeCorrect, PinsInvariant, PTL DEF Spec, PinsSurvive

\* A pinned input that resolves to something else in a candidate follows a node
\* of an input that was advanced: this is all that the pins do not cover.
THEOREM OnlyFollowersMove == Spec => []MovedPinFollows
<1>1. TypeOK /\ PinInv => MovedPinFollows
  <2>. SUFFICES ASSUME TypeOK, PinInv, candidate # None,
                       NEW n \in candidate.exclude \cap InputNames(candidate.base),
                       InputRev(candidate.lock, n) # InputRev(candidate.base, n)
                PROVE  Owner[ResolveRef(candidate.lock.inputs, Inputs(candidate.lock)[n])]
                         \in candidate.inputs \ candidate.failed
    BY DEF MovedPinFollows
  <2>1. MovedOnly(candidate.lock, candidate.base, candidate.inputs \ candidate.failed)
    BY DEF PinInv, CandidateInv, Sound
  <2>. DEFINE k == ResolveRef(candidate.lock.inputs, Inputs(candidate.lock)[n])
  <2>2. k \in Keys /\ candidate.lock.rev[k] # candidate.base.rev[k]
    BY <2>1 DEF InputRev, MovedOnly, Inputs, InputNames
  <2>. QED  BY <2>1, <2>2 DEF MovedOnly
<1>. QED  BY <1>1, TypeCorrect, PinsInvariant, PTL

-----------------------------------------------------------------------------
(* What a follows resolves to.                                                 *)

Resolved == Keys \cup {None}

\* The walk along a path goes from the root over one edge per name.
LEMMA WalkSteps ==
  ASSUME NEW g \in Graphs, NEW next \in [Refs -> Resolved], NEW path \in Seq(Names)
  PROVE  \E at : /\ at[0] = Root /\ Walk(g, next, path) = at[Len(path)]
                 /\ \A k \in 1 .. Len(path) :
                      at[k] = IF at[k - 1] = None \/ path[k] \notin DOMAIN g[at[k - 1]]
                              THEN None ELSE next[g[at[k - 1]][path[k]]]
<1>. DEFINE N == Len(path)
            step(cur, seg) == IF cur = None \/ seg \notin DOMAIN g[cur]
                              THEN None ELSE next[g[cur][seg]]
            F == [i \in 1 .. N |-> [cur \in Resolved |-> step(cur, path[i])]]
            Folds(f) == f = [s \in SUBSET (1 .. N) |->
                               IF s = {} THEN Root
                               ELSE step(f[s \ {Max(s)}], path[Max(s)])]
            G == CHOOSE f : Folds(f)
            at == [k \in 0 .. N |-> G[1 .. k]]
<1>1. N \in Nat /\ DOMAIN path = 1 .. N
  OBVIOUS
<1>2. Walk(g, next, path) = G[1 .. N]
  BY <1>1, Zenon DEF Walk, FoldLeft, MapThenFoldSet
<1>3. ASSUME NEW cur \in Resolved, NEW seg PROVE step(cur, seg) \in Resolved
  <2>. SUFFICES ASSUME cur \in Keys, seg \in DOMAIN g[cur] PROVE next[g[cur][seg]] \in Resolved
    BY KeysAssumption DEF Resolved
  <2>1. g[cur][seg] \in Refs
    BY GraphsAssumption
  <2>. QED  BY <2>1
<1>4. Folds(G)
  <2>1. PICK f : IsFold(f, Resolved, Root, N, F)
    <3>1. \A i \in 1 .. N : \A cur \in Resolved : F[i][cur] \in Resolved
      BY <1>3
    <3>2. Root \in Resolved
      BY KeysAssumption DEF Resolved
    <3>. HIDE DEF F
    <3>. QED  BY <3>1, <3>2, <1>1, FoldExists
  <2>2. ASSUME NEW s \in SUBSET (1 .. N), s # {}
        PROVE  F[Max(s)][f[s \ {Max(s)}]] = step(f[s \ {Max(s)}], path[Max(s)])
    <3>1. Max(s) \in 1 .. N
      BY <1>1, <2>2, MaxIsElement
    <3>2. f[s \ {Max(s)}] \in Resolved
      BY <1>1, <2>1 DEF IsFold
    <3>. HIDE DEF step
    <3>. QED  BY <3>1, <3>2
  <2>3. Folds(f)
    <3>. HIDE DEF F, step
    <3>. QED  BY <2>1, <2>2 DEF IsFold
  <2>. HIDE DEF Folds
  <2>. QED  BY <2>3, Zenon
<1>. HIDE DEF G
<1>5. at[0] = Root
  BY <1>1, <1>4, FoldDomains
<1>6. ASSUME NEW k \in 1 .. N PROVE at[k] = step(at[k - 1], path[k])
  <2>1. G[1 .. k] = step(G[(1 .. k) \ {k}], path[k])
    <3>1. 1 .. k \in SUBSET (1 .. N) /\ 1 .. k # {} /\ Max(1 .. k) = k
      BY <1>1, FoldDomains
    <3>. HIDE DEF step
    <3>. QED  BY <1>4, <3>1, Zenon
  <2>2. k \in 0 .. N /\ k - 1 \in 0 .. N
    BY <1>1
  <2>3. at[k] = G[1 .. k] /\ at[k - 1] = G[(1 .. k) \ {k}]
    BY <1>1, <2>2, FoldDomains
  <2>. HIDE DEF at, step
  <2>. QED  BY <2>1, <2>3
<1>7. at[N] = G[1 .. N]
  BY <1>1
<1>. HIDE DEF at
<1>. QED  BY <1>2, <1>5, <1>6, <1>7

\* Whatever its edges lead to, a walk leads to a node or nowhere.
LEMMA WalkType ==
  ASSUME NEW g \in Graphs, NEW next \in [Refs -> Resolved], NEW path \in Seq(Names)
  PROVE  Walk(g, next, path) \in Resolved
<1>1. PICK at : /\ at[0] = Root /\ Walk(g, next, path) = at[Len(path)]
                /\ \A k \in 1 .. Len(path) :
                     at[k] = IF at[k - 1] = None \/ path[k] \notin DOMAIN g[at[k - 1]]
                             THEN None ELSE next[g[at[k - 1]][path[k]]]
  BY WalkSteps, Zenon
<1>. DEFINE S == {k \in 0 .. Len(path) : at[k] \in Resolved}
<1>2. 0 \in S
  BY <1>1, KeysAssumption DEF Resolved
<1>3. ASSUME NEW k \in 1 .. Len(path), k - 1 \in S PROVE k \in S
  <2>1. CASE at[k - 1] = None \/ path[k] \notin DOMAIN g[at[k - 1]]
    BY <1>1, <2>1 DEF Resolved
  <2>2. CASE ~(at[k - 1] = None \/ path[k] \notin DOMAIN g[at[k - 1]])
    <3>1. at[k - 1] \in Keys /\ path[k] \in DOMAIN g[at[k - 1]]
      BY <1>3, <2>2 DEF Resolved
    <3>2. g[at[k - 1]][path[k]] \in Refs
      BY <3>1, GraphsAssumption
    <3>. QED  BY <1>1, <2>2, <3>2
  <2>. QED  BY <2>1, <2>2
<1>. HIDE DEF S
<1>4. Len(path) \in Nat /\ Len(path) \in 0 .. Len(path)
  OBVIOUS
<1>5. Len(path) \in S
  BY <1>2, <1>3, <1>4, IntervalInduction
<1>. QED  BY <1>1, <1>5 DEF S

\* One level of resolve_ref, from what the level below it leads to.
Level(g, next) == [r \in Refs |-> IF r \in Keys THEN r ELSE Walk(g, next, r)]

\* resolve_ref is the last of MaxDepth + 1 levels, above one that leads nowhere.
LEMMA ResolveLevels ==
  ASSUME NEW g \in Graphs
  PROVE  \E f \in [0 .. MaxDepth -> [Refs -> Resolved]] :
           /\ f[0] = Level(g, [r \in Refs |-> None])
           /\ \A n \in 1 .. MaxDepth : f[n] = Level(g, f[n - 1])
           /\ \A r : ResolveRef(g, r) = f[MaxDepth][r]
<1>. USE PinBounds
<1>. DEFINE none == [r \in Refs |-> None]
            Levels(f) == f = [left \in 0 .. MaxDepth |->
                               [r \in Refs |-> IF r \in Keys THEN r
                                 ELSE Walk(g, IF left = 0 THEN [x \in Refs |-> None]
                                              ELSE f[left - 1], r)]]
            G == CHOOSE f : Levels(f)
            A == [Refs -> Resolved]
            F == [i \in 1 .. MaxDepth |-> [next \in A |-> Level(g, next)]]
<1>1. \A r : ResolveRef(g, r) = G[MaxDepth][r]
  BY Zenon DEF ResolveRef
<1>2. ASSUME NEW next \in A PROVE Level(g, next) \in A
  <2>1. ASSUME NEW r \in Refs
        PROVE  (IF r \in Keys THEN r ELSE Walk(g, next, r)) \in Resolved
    <3>1. r \in Keys \/ r \in Seq(Names)
      BY DEF Refs
    <3>. QED  BY <3>1, WalkType DEF Resolved
  <2>. QED  BY <2>1 DEF Level
<1>3. none \in A
  BY DEF Resolved
<1>4. PICK f \in [0 .. MaxDepth -> A] :
        f[0] = Level(g, none) /\ \A i \in 1 .. MaxDepth : f[i] = Level(g, f[i - 1])
  <2>1. \A i \in 1 .. MaxDepth : \A next \in A : F[i][next] = Level(g, next)
    OBVIOUS
  <2>. HIDE DEF A, F, none
  <2>2. PICK f \in [0 .. MaxDepth -> A] :
          f[0] = Level(g, none) /\ \A i \in 1 .. MaxDepth : f[i] = F[i][f[i - 1]]
    <3>1. Level(g, none) \in A /\ \A i \in 1 .. MaxDepth : \A a \in A : F[i][a] \in A
      BY <1>2, <1>3, <2>1
    <3>. DEFINE base == Level(g, none)
    <3>. HIDE DEF base
    <3>2. base \in A
      BY <3>1 DEF base
    <3>3. \E f : IsRecursion(f, A, base, MaxDepth, F)
      BY <3>1, <3>2, RecursionExists
    <3>. QED  BY <3>3 DEF base, IsRecursion
  <2>3. ASSUME NEW i \in 1 .. MaxDepth PROVE f[i] = Level(g, f[i - 1])
    <3>1. i - 1 \in 0 .. MaxDepth
      OBVIOUS
    <3>. QED  BY <2>1, <2>2, <3>1
  <2>. QED  BY <2>2, <2>3
<1>. HIDE DEF A
<1>5. Levels(f)
  <2>1. ASSUME NEW left \in 0 .. MaxDepth
        PROVE  f[left] = [r \in Refs |-> IF r \in Keys THEN r
                           ELSE Walk(g, IF left = 0 THEN [x \in Refs |-> None]
                                        ELSE f[left - 1], r)]
    <3>1. CASE left = 0
      BY <1>4, <3>1 DEF Level
    <3>2. CASE left # 0
      <4>1. left \in 1 .. MaxDepth
        BY <3>2
      <4>. QED  BY <1>4, <3>2, <4>1 DEF Level
    <3>. QED  BY <3>1, <3>2
  <2>. QED  BY <1>4, <2>1
<1>. HIDE DEF Levels
<1>6. Levels(G)
  BY <1>5, Zenon
<1>. HIDE DEF G
<1>7. /\ G[0] = Level(g, none)
      /\ \A n \in 1 .. MaxDepth : G[n] = Level(g, G[n - 1])
      /\ G = [left \in 0 .. MaxDepth |-> G[left]]
  <2>1. G[0] = Level(g, none)
    BY <1>6 DEF Levels, Level
  <2>2. ASSUME NEW n \in 1 .. MaxDepth PROVE G[n] = Level(g, G[n - 1])
    <3>1. n \in 0 .. MaxDepth /\ n # 0
      OBVIOUS
    <3>. QED  BY <1>6, <3>1 DEF Levels, Level
  <2>3. G = [left \in 0 .. MaxDepth |-> G[left]]
    BY <1>6 DEF Levels
  <2>. QED  BY <2>1, <2>2, <2>3
<1>. DEFINE S == {n \in 0 .. MaxDepth : G[n] \in A}
<1>8. 0 .. MaxDepth \subseteq S
  <2>. HIDE DEF none
  <2>1. 0 \in S
    BY <1>2, <1>3, <1>7
  <2>2. \A n \in 1 .. MaxDepth : n - 1 \in S => n \in S
    BY <1>2, <1>7
  <2>. HIDE DEF S
  <2>. QED  BY <2>1, <2>2, IntervalInduction
<1>9. G \in [0 .. MaxDepth -> A]
  BY <1>7, <1>8
<1>. QED  BY <1>1, <1>7, <1>9 DEF A

\* In a graph whose edges all lead somewhere within the depth, resolve_ref
\* finds where: the depth guard cuts none of them off.
LEMMA ResolveFollows ==
  ASSUME NEW g \in Graphs, NEW res, NEW rank, FollowsLead(g, res, rank),
         NEW r \in Edges(g)
  PROVE  ResolveRef(g, r) = res[r]
<1>. USE PinBounds
<1>1. PICK f \in [0 .. MaxDepth -> [Refs -> Resolved]] :
        /\ f[0] = Level(g, [x \in Refs |-> None])
        /\ \A n \in 1 .. MaxDepth : f[n] = Level(g, f[n - 1])
        /\ \A x : ResolveRef(g, x) = f[MaxDepth][x]
  BY ResolveLevels
<1>2. Edges(g) \subseteq Refs
  BY GraphsAssumption DEF Edges
<1>3. /\ res \in [Edges(g) -> Keys] /\ rank \in [Edges(g) -> 0 .. MaxDepth]
      /\ \A x \in Edges(g) \cap Keys : res[x] = x
  BY DEF FollowsLead
<1>. DEFINE S == {n \in 0 .. MaxDepth :
                    \A x \in Edges(g) : rank[x] <= n => f[n][x] = res[x]}
<1>4. ASSUME NEW n \in 0 .. MaxDepth, NEW next \in [Refs -> Resolved],
             f[n] = Level(g, next),
             \A x \in Edges(g) : rank[x] < n => next[x] = res[x]
      PROVE  n \in S
  <2>. SUFFICES ASSUME NEW x \in Edges(g), rank[x] <= n PROVE f[n][x] = res[x]
    OBVIOUS
  <2>1. CASE x \in Keys
    BY <1>2, <1>3, <1>4, <2>1 DEF Level
  <2>2. CASE x \notin Keys
    <3>1. x \in Seq(Names) /\ f[n][x] = Walk(g, next, x)
      BY <1>2, <1>4, <2>2 DEF Level, Refs
    <3>2. PICK w \in [0 .. Len(x) -> Keys] :
            /\ w[0] = Root /\ w[Len(x)] = res[x]
            /\ \A i \in 1 .. Len(x) :
                 /\ x[i] \in DOMAIN g[w[i - 1]]
                 /\ w[i] = res[g[w[i - 1]][x[i]]]
                 /\ rank[g[w[i - 1]][x[i]]] < rank[x]
      BY <2>2, Zenon DEF FollowsLead
    <3>3. PICK at : /\ at[0] = Root /\ Walk(g, next, x) = at[Len(x)]
                    /\ \A k \in 1 .. Len(x) :
                         at[k] = IF at[k - 1] = None \/ x[k] \notin DOMAIN g[at[k - 1]]
                                 THEN None ELSE next[g[at[k - 1]][x[k]]]
      BY <3>1, WalkSteps, Zenon
    <3>. DEFINE T == {k \in 0 .. Len(x) : at[k] = w[k]}
    <3>4. 0 \in T
      BY <3>1, <3>2, <3>3
    <3>5. ASSUME NEW k \in 1 .. Len(x), k - 1 \in T PROVE k \in T
      <4>1. k - 1 \in 0 .. Len(x) /\ k \in 0 .. Len(x)
        BY <3>1
      <4>2. w[k - 1] \in Keys /\ w[k - 1] # None /\ at[k - 1] = w[k - 1]
        BY <3>2, <3>5, <4>1, KeysAssumption
      <4>. DEFINE e == g[w[k - 1]][x[k]]
      <4>3. x[k] \in DOMAIN g[w[k - 1]] /\ w[k] = res[e] /\ rank[e] < rank[x]
        BY <3>2
      <4>4. e \in Edges(g)
        BY <4>2, <4>3 DEF Edges
      <4>5. rank[e] < n
        BY <4>3, <4>4, <1>3
      <4>6. next[e] = res[e]
        BY <1>4, <4>4, <4>5
      <4>7. at[k] = next[e]
        BY <3>3, <4>2, <4>3
      <4>. HIDE DEF e
      <4>. QED  BY <4>1, <4>3, <4>6, <4>7
    <3>. HIDE DEF T
    <3>6. Len(x) \in Nat /\ Len(x) \in 0 .. Len(x)
      BY <3>1
    <3>7. 0 .. Len(x) \subseteq T
      BY <3>4, <3>5, <3>6, IntervalInduction
    <3>. QED  BY <3>1, <3>2, <3>3, <3>6, <3>7 DEF T
  <2>. QED  BY <2>1, <2>2
<1>. HIDE DEF S
<1>5. 0 \in S
  <2>1. [x \in Refs |-> None] \in [Refs -> Resolved]
    BY DEF Resolved
  <2>2. \A x \in Edges(g) : ~(rank[x] < 0)
    BY <1>3
  <2>. QED  BY <1>1, <1>4, <2>1, <2>2
<1>6. ASSUME NEW n \in 1 .. MaxDepth, n - 1 \in S PROVE n \in S
  <2>1. n \in 0 .. MaxDepth /\ n - 1 \in 0 .. MaxDepth
    OBVIOUS
  <2>2. \A x \in Edges(g) : rank[x] < n => rank[x] <= n - 1
    BY <1>3
  <2>3. \A x \in Edges(g) : rank[x] < n => f[n - 1][x] = res[x]
    BY <1>6, <2>2 DEF S
  <2>. QED  BY <1>1, <1>4, <2>1, <2>3
<1>7. MaxDepth \in S
  <2>1. 0 .. MaxDepth \subseteq S
    BY <1>5, <1>6, IntervalInduction
  <2>. QED  BY <2>1
<1>8. f[MaxDepth][r] = res[r]
  BY <1>3, <1>7 DEF S
<1>. QED  BY <1>1, <1>8

LinkInv ==
  candidate # None /\ candidate.offered => links = InputRev(candidate.lock, Nixpkgs)

\* What an offer's changelogs were read from is the candidate's nixpkgs: both
\* are set when a check ends, and only then.
LEMMA LinksFromCandidate == Spec => []LinkInv
<1>1. Init => LinkInv
  BY DEF Init, LinkInv
<1>2. TypeOK /\ LinkInv /\ [Next]_vars => LinkInv'
  <2>. SUFFICES ASSUME TypeOK, LinkInv, [Next]_vars PROVE LinkInv'
    OBVIOUS
  <2>1. CASE EndCheck
    BY <2>1 DEF EndCheck, LinkInv
  <2>2. CASE FailCheck
    <3>1. CASE candidate = None
      BY <2>2, <3>1 DEF FailCheck, LinkInv
    <3>2. CASE candidate # None
      BY <2>2, <3>2 DEF FailCheck, LinkInv, TypeOK, Candidates
    <3>. QED  BY <3>1, <3>2
  <2>3. CASE ListInputs \/ ScratchFlake \/ UpdateInput \/ VerifyPins \/ Install \/ Refuse
             \/ UserEdits \/ UNCHANGED vars
    <3>1. UNCHANGED <<candidate, links>>
      BY <2>3 DEF ListInputs, ScratchFlake, UpdateInput, VerifyPins, Install, Refuse,
                  UserEdits, vars
    <3>. QED  BY <3>1 DEF LinkInv
  <2>. QED  BY <2>1, <2>2, <2>3 DEF Next
<1>. QED  BY <1>1, <1>2, TypeCorrect, PTL DEF Spec

\* In every flake whose edges lead somewhere, and whose nixpkgs is not the
\* flake itself, the changelogs of an offered update describe the nixpkgs it
\* installs, however many follows lead there.
THEOREM LinksAreRight ==
  ASSUME \A g \in Graphs : NixpkgsLeads(g)
  PROVE  Spec => []LinksDescribeUpdate
<1>. USE KeysAssumption, PinBounds
<1>1. TypeOK /\ LinkInv => LinksDescribeUpdate
  <2>. SUFFICES ASSUME TypeOK, LinkInv, candidate # None, candidate.offered,
                       Nixpkgs \in InputNames(candidate.lock)
                PROVE  \E k \in Keys :
                         /\ LeadsTo(candidate.lock, <<Nixpkgs>>, k)
                         /\ \/ Inputs(candidate.lock)[Nixpkgs] = k
                            \/ LeadsTo(candidate.lock, Inputs(candidate.lock)[Nixpkgs], k)
                         /\ links = candidate.lock.rev[k]
    BY DEF LinksDescribeUpdate
  <2>. DEFINE lock == candidate.lock
              g == lock.inputs
              ref == Inputs(lock)[Nixpkgs]
  <2>1. lock \in LockFiles /\ g \in Graphs
    BY DEF TypeOK, Candidates, LockFiles
  <2>2. /\ Nixpkgs \in DOMAIN g[Root] /\ ref = g[Root][Nixpkgs]
        /\ Nixpkgs \in InputNames(lock)
    BY DEF InputNames, Inputs
  <2>3. links = InputRev(lock, Nixpkgs)
    BY DEF LinkInv
  <2>. HIDE DEF lock
  <2>4. PICK res, rank : FollowsLead(g, res, rank) /\ res[ref] # Root
    BY <2>1, <2>2 DEF NixpkgsLeads
  <2>5. ref \in Edges(g) /\ res[ref] \in Keys
    BY <2>2, <2>4 DEF Edges, FollowsLead
  <2>6. \A e \in Edges(g) : ResolveRef(g, e) = res[e]
    BY <2>1, <2>4, ResolveFollows
  <2>7. links = lock.rev[res[ref]]
    <3>1. ResolveRef(g, ref) = res[ref] /\ res[ref] \in Keys \ {Root}
      BY <2>4, <2>5, <2>6
    <3>. HIDE DEF ref
    <3>2. InputRev(lock, Nixpkgs) = lock.rev[ResolveRef(g, ref)]
      BY <2>2, <3>1, Zenon DEF InputRev, ref
    <3>. QED  BY <2>3, <3>1, <3>2
  <2>8. LeadsTo(lock, <<Nixpkgs>>, res[ref])
    <3>. DEFINE w == [i \in 0 .. 1 |-> IF i = 0 THEN Root ELSE res[ref]]
                p == <<Nixpkgs>>
    <3>1. w \in [0 .. Len(p) -> Keys] /\ w[0] = Root /\ w[Len(p)] = res[ref]
      BY <2>5
    <3>2. ASSUME NEW i \in 1 .. Len(p)
          PROVE  p[i] \in DOMAIN g[w[i - 1]] /\ w[i] = ResolveRef(g, g[w[i - 1]][p[i]])
      <4>1. i = 1 /\ p[i] = Nixpkgs /\ w[i - 1] = Root /\ w[i] = res[ref]
        OBVIOUS
      <4>. QED  BY <2>2, <2>5, <2>6, <4>1
    <3>. HIDE DEF w, p
    <3>3. LeadsTo(lock, p, res[ref])
      BY <3>1, <3>2, Zenon DEF LeadsTo
    <3>. QED  BY <3>3 DEF p
  <2>9. ref = res[ref] \/ LeadsTo(lock, ref, res[ref])
    <3>1. CASE ref \in Keys
      BY <2>4, <2>5, <3>1, Zenon DEF FollowsLead
    <3>2. CASE ref \notin Keys
      <4>1. PICK w \in [0 .. Len(ref) -> Keys] :
              /\ w[0] = Root /\ w[Len(ref)] = res[ref]
              /\ \A i \in 1 .. Len(ref) :
                   /\ ref[i] \in DOMAIN g[w[i - 1]]
                   /\ w[i] = res[g[w[i - 1]][ref[i]]]
                   /\ rank[g[w[i - 1]][ref[i]]] < rank[ref]
        <5>. HIDE DEF g, ref
        <5>. QED  BY <2>4, <2>5, <3>2, Zenon DEF FollowsLead
      <4>2. ref \in Seq(Names)
        <5>1. ref \in Refs
          BY <2>1, <2>2, GraphsAssumption
        <5>. QED  BY <5>1, <3>2 DEF Refs
      <4>3. ASSUME NEW i \in 1 .. Len(ref)
            PROVE  w[i] = ResolveRef(g, g[w[i - 1]][ref[i]])
        <5>1. i - 1 \in 0 .. Len(ref) /\ w[i - 1] \in Keys
          BY <4>2
        <5>2. g[w[i - 1]][ref[i]] \in Edges(g)
          BY <4>1, <5>1 DEF Edges
        <5>. QED  BY <2>6, <4>1, <5>2
      <4>. QED  BY <4>1, <4>3, Zenon DEF LeadsTo
    <3>. QED  BY <3>1, <3>2
  <2>. HIDE DEF ref
  <2>. QED  BY <2>5, <2>7, <2>8, <2>9 DEF lock, ref
<1>. QED  BY <1>1, TypeCorrect, LinksFromCandidate, PTL
=============================================================================
