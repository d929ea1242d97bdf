-------------------------- MODULE Artifacts_proofs --------------------------
(* The invariants of the cache directory, for any number of processes.         *)
EXTENDS Artifacts, TLAPS

\* Which of its variables go together, for one process.
Related(p) ==
  /\ pc[p] # "idle" => kind[p] # "none"
  /\ pc[p] \in {"found", "nothing", "failed"} => kind[p] = "daemon"
  /\ sweep[p] # {} => pc[p] = "sweep"
  /\ offer[p] \/ quit[p] # "no" => kind[p] = "daemon"

\* What a process may rely on between its steps.
Held(p) ==
  /\ pc[p] = "create" /\ quit[p] = "no" => dir[p] = {}
  /\ quit[p] = "no" /\ pc[p] \in DOMAIN Written => dir[p] = Written[pc[p]]
  /\ quit[p] = "no" /\ pc[p] = "write" => lock[p] = "torn"
  /\ quit[p] = "no" /\ pc[p] \in {"discard", "report", "found", "nothing"} => lock[p] = "whole"
  /\ offer[p] => quit[p] = "no" /\ (lock[p] = "whole" \/ pc[p] \in {"write", "failed"})

\* What a shutdown has removed stays removed.
Emptied(p) ==
  /\ clean[p] => pc[p] \in {"idle", "found", "nothing", "failed"}
  /\ clean[p] => kind[p] = "none" \/ quit[p] # "no"
  /\ clean[p] /\ (kind[p] = "none" \/ quit[p] \in {"lock", "over"}) => dir[p] = {}
  /\ clean[p] /\ (kind[p] = "none" \/ quit[p] = "over") => lock[p] = "absent"

Own(p) == Related(p) /\ Held(p) /\ Emptied(p)

Spaces ==
  /\ kind \in [Pids -> {"none", "daemon", "cli"}]
  /\ pc \in [Pids -> Steps \cup Ended \cup {"idle"}]
  /\ dir \in [Pids -> SUBSET {".", "flake.nix", "flake.lock", "advanced"}]
  /\ lock \in [Pids -> {"absent", "torn", "whole"}]
  /\ sweep \in [Pids -> SUBSET (Pids \X {"dir", "lock"})]
  /\ offer \in [Pids -> BOOLEAN] /\ clean \in [Pids -> BOOLEAN]
  /\ quit \in [Pids -> {"no", "dir", "lock", "over"}]

IInv == Spaces /\ \A p \in Pids : Own(p)

\* A check that runs has neither ended nor never begun.
LEMMA FlightIs ==
  ASSUME NEW p \in Pids
  PROVE  /\ InFlight(p) => pc[p] \notin {"idle", "found", "nothing", "failed"}
         /\ Spaces /\ ~InFlight(p) => pc[p] \in {"idle", "found", "nothing", "failed"}
         /\ Ended = {"found", "nothing", "failed"}
  BY DEF InFlight, Steps, Ended, Spaces

\* What each step writes, step by step.
LEMMA WrittenIs ==
  /\ DOMAIN Written = {"copy nix", "copy lock", "advance", "candidate", "save", "write", "discard"}
  /\ Written["copy nix"] = {"."}
  /\ Written["copy lock"] = {".", "flake.nix"}
  /\ Written["advance"] = {".", "flake.nix", "flake.lock"}
  /\ Written["candidate"] = {".", "flake.nix", "flake.lock", "advanced"}
  /\ Written["save"] = {".", "flake.nix", "flake.lock", "advanced"}
  /\ Written["write"] = {".", "flake.nix", "flake.lock", "advanced"}
  /\ Written["discard"] = {".", "flake.nix", "flake.lock", "advanced"}
<1>. DEFINE D == {"copy nix", "copy lock", "advance", "candidate", "save", "write", "discard"}
            F(step) == CASE step = "copy nix" -> {"."}
                         [] step = "copy lock" -> {".", "flake.nix"}
                         [] step = "advance" -> {".", "flake.nix", "flake.lock"}
                         [] OTHER -> {".", "flake.nix", "flake.lock", "advanced"}
<1>1. Steps \ {"sweep", "create", "report"} = D
  BY DEF Steps
<1>2. Written = [step \in D |-> F(step)]
  BY <1>1, Zenon DEF Written
<1>3. DOMAIN Written = D /\ \A step \in D : Written[step] = F(step)
  <2>. HIDE DEF D, F
  <2>. QED  BY <1>2
<1>. QED  BY <1>3

\* The invariant holds at the start.
LEMMA InitIInv == Init => IInv
<1>. SUFFICES ASSUME Init PROVE IInv
  OBVIOUS
<1>1. Spaces
  BY DEF Init, Spaces
<1>2. ASSUME NEW p \in Pids PROVE Own(p)
  <2>1. /\ kind[p] = "none" /\ pc[p] = "idle" /\ sweep[p] = {} /\ quit[p] = "no"
        /\ offer[p] = FALSE /\ clean[p] = FALSE
    BY DEF Init
  <2>. QED  BY <2>1, WrittenIs DEF Own, Related, Held, Emptied
<1>. QED  BY <1>1, <1>2 DEF IInv

\* A step of one process that leaves what belongs to the others.
LEMMA OwnStep ==
  ASSUME IInv, NEW p \in Pids, Spaces', Own(p)',
         \A q \in Pids \ {p} :
           /\ pc'[q] = pc[q] /\ quit'[q] = quit[q] /\ offer'[q] = offer[q] /\ kind'[q] = kind[q]
           /\ clean'[q] = clean[q] /\ dir'[q] = dir[q] /\ lock'[q] = lock[q] /\ sweep'[q] = sweep[q]
  PROVE  IInv'
<1>1. ASSUME NEW q \in Pids \ {p} PROVE Own(q)'
  BY <1>1 DEF IInv, Own, Related, Held, Emptied
<1>. QED  BY <1>1 DEF IInv

LEMMA StartKeeps ==
  ASSUME IInv, NEW p \in Pids, NEW k \in {"daemon", "cli"}, Start(p, k) PROVE IInv'
<1>1. Spaces'
  BY DEF IInv, Spaces, Start
<1>2. /\ kind'[p] = k /\ ~clean'[p]
      /\ pc[p] = "idle" /\ ~offer[p] /\ quit[p] = "no" /\ sweep[p] = {}
  BY DEF IInv, Spaces, Own, Related, Start
<1>3. Own(p)'
  BY <1>2, WrittenIs DEF Start, Own, Related, Held, Emptied
<1>4. \A q \in Pids \ {p} : kind'[q] = kind[q] /\ clean'[q] = clean[q]
  BY DEF IInv, Spaces, Start
<1>. QED  BY <1>1, <1>3, <1>4, OwnStep DEF Start

\* The end of a process.
LEMMA GoneKeeps ==
  ASSUME IInv, NEW p \in Pids, Gone(p), clean' \in [Pids -> BOOLEAN],
         \A q \in Pids \ {p} : clean'[q] = clean[q],
         clean'[p] => clean[p] /\ quit[p] = "over"
  PROVE  IInv'
<1>1. Spaces'
  BY DEF IInv, Spaces, Gone
<1>2. /\ kind'[p] = "none" /\ pc'[p] = "idle" /\ sweep'[p] = {} /\ ~offer'[p] /\ quit'[p] = "no"
      /\ dir' = dir /\ lock' = lock
  BY DEF IInv, Spaces, Gone
<1>3. clean'[p] => dir[p] = {} /\ lock[p] = "absent"
  BY DEF IInv, Own, Emptied
<1>4. Own(p)'
  BY <1>2, <1>3, WrittenIs DEF Own, Related, Held, Emptied
<1>5. \A q \in Pids \ {p} : /\ kind'[q] = kind[q] /\ pc'[q] = pc[q] /\ sweep'[q] = sweep[q]
                            /\ offer'[q] = offer[q] /\ quit'[q] = quit[q]
  BY DEF IInv, Spaces, Gone
<1>. QED  BY <1>1, <1>2, <1>4, <1>5, OwnStep

\* A sweep takes from the dead.
LEMMA SweepKeeps == ASSUME IInv, NEW p \in Pids, Sweep(p) PROVE IInv'
<1>1. PICK e \in sweep[p] :
        /\ sweep' = [sweep EXCEPT ![p] = @ \ {e}]
        /\ IF Spared(p, e) THEN UNCHANGED <<dir, lock>>
           ELSE IF e[2] = "dir"
           THEN dir' = [dir EXCEPT ![e[1]] = {}] /\ UNCHANGED lock
           ELSE lock' = [lock EXCEPT ![e[1]] = "absent"] /\ UNCHANGED dir
  BY DEF Sweep
<1>2. e[1] \in Pids /\ UNCHANGED <<pc, kind, offer, quit, clean>> /\ pc[p] = "sweep"
  BY <1>1 DEF Sweep, Others, IInv, Spaces, At
<1>3. Spaces'
  BY <1>1, <1>2 DEF IInv, Spaces
<1>4. ASSUME NEW q \in Pids PROVE Own(q)'
  <2>1. sweep'[q] # {} => sweep[q] # {}
    BY <1>1 DEF IInv, Spaces
  <2>2. CASE dir'[q] = dir[q] /\ lock'[q] = lock[q]
    BY <1>2, <2>1, <2>2 DEF IInv, Own, Related, Held, Emptied
  <2>3. CASE ~(dir'[q] = dir[q] /\ lock'[q] = lock[q])
    <3>1. q = e[1] /\ kind[q] = "none"
      BY <1>1, <1>2, <2>3 DEF Spared, IInv, Spaces
    <3>2. pc[q] = "idle" /\ ~offer[q] /\ quit[q] = "no"
      BY <3>1 DEF IInv, Spaces, Own, Related
    <3>3. dir'[q] \in {dir[q], {}} /\ lock'[q] \in {lock[q], "absent"}
      BY <1>1, <1>2, <3>1 DEF IInv, Spaces
    <3>. QED  BY <1>2, <2>1, <3>1, <3>2, <3>3, WrittenIs DEF IInv, Own, Related, Held, Emptied
  <2>. QED  BY <2>2, <2>3
<1>. QED  BY <1>3, <1>4 DEF IInv

\* A step of a check on its own files.
LEMMA CheckStep ==
  ASSUME IInv, NEW p \in Pids, Spaces', kind[p] # "none", ~clean[p],
         pc'[p] \notin {"found", "nothing", "failed"},
         UNCHANGED <<kind, offer, quit, clean>>, sweep'[p] # {} => pc'[p] = "sweep", Held(p)',
         \A q \in Pids \ {p} : /\ pc'[q] = pc[q] /\ dir'[q] = dir[q] /\ lock'[q] = lock[q]
                               /\ sweep'[q] = sweep[q]
  PROVE  IInv'
<1>1. Own(p)'
  BY DEF IInv, Own, Related, Emptied
<1>. QED  BY <1>1, OwnStep

\* The steps of a check that touch only its own files.
LEMMA FileStepKeeps ==
  ASSUME IInv, NEW p \in Pids,
         BeginCheck(p) \/ Clear(p) \/ Create(p) \/ CopyNix(p) \/ CopyLock(p) \/ Advance(p)
           \/ Candidate(p) \/ Save(p) \/ Write(p) \/ Discard(p)
  PROVE  IInv'
<1>. USE DEF IInv
<1>1. UNCHANGED <<kind, offer, quit, clean>> /\ kind[p] # "none"
  BY DEF BeginCheck, Clear, Create, CopyNix, CopyLock, Advance, Candidate, Save, Write, Discard,
         Put, Others, At, Running
<1>2. Held(p) /\ (pc[p] # "sweep" => sweep[p] = {})
  BY DEF Own, Related
<1>3. ASSUME NEW step \in Steps \cup {"idle"}, At(p, step), step # "idle" \/ quit[p] = "no"
      PROVE  ~clean[p] /\ pc[p] = step
  <2>1. pc[p] = step /\ (step # "idle" => pc[p] \notin {"idle", "found", "nothing", "failed"})
    BY <1>3 DEF At, Steps
  <2>. QED  BY <1>1, <1>3, <2>1 DEF Own, Emptied
<1>4. CASE BeginCheck(p)
  <2>1. /\ pc' = [pc EXCEPT ![p] = "sweep"] /\ sweep' = [sweep EXCEPT ![p] = Entries]
        /\ dir' = dir /\ lock' = lock /\ ~clean[p] /\ pc[p] = "idle"
    BY <1>3, <1>4 DEF BeginCheck, GoTo
  <2>2. Entries \in SUBSET (Pids \X {"dir", "lock"})
    BY DEF Entries
  <2>3. Spaces'
    BY <1>1, <2>1, <2>2 DEF Spaces, Steps
  <2>4. pc'[p] = "sweep" /\ (offer[p] => quit[p] = "no" /\ lock[p] = "whole")
    BY <1>2, <2>1 DEF Spaces, Held
  <2>5. Held(p)'
    BY <1>1, <2>1, <2>4, WrittenIs DEF Held
  <2>. QED  BY <1>1, <2>1, <2>3, <2>4, <2>5, CheckStep DEF Spaces
\* The others: what each does to its own files.
<1>5. ASSUME NEW from \in Steps, NEW to \in Steps,
             NEW d \in SUBSET {".", "flake.nix", "flake.lock", "advanced"},
             NEW l \in {"absent", "torn", "whole"},
             At(p, from), pc' = [pc EXCEPT ![p] = to],
             dir' = [dir EXCEPT ![p] = d], lock' = [lock EXCEPT ![p] = l],
             sweep' = sweep, sweep[p] = {},
             quit[p] = "no" => /\ to = "create" => d = {}
                               /\ to \in DOMAIN Written => d = Written[to]
                               /\ to = "write" => l = "torn"
                               /\ to \in {"discard", "report"} => l = "whole",
             offer[p] => l = "whole" \/ to = "write"
      PROVE  IInv'
  <2>1. ~clean[p]
    BY <1>3, <1>5 DEF Steps
  <2>2. Spaces'
    BY <1>1, <1>5 DEF Spaces
  <2>3. pc'[p] = to /\ dir'[p] = d /\ lock'[p] = l /\ (offer[p] => quit[p] = "no")
    BY <1>2, <1>5 DEF Spaces, Held
  <2>4. Held(p)' /\ pc'[p] \notin {"found", "nothing", "failed"}
    <3>1. to \notin {"found", "nothing", "failed"}
      BY DEF Steps
    <3>. QED  BY <1>1, <1>5, <2>3, <3>1 DEF Held
  <2>5. \A q \in Pids \ {p} : pc'[q] = pc[q] /\ dir'[q] = dir[q] /\ lock'[q] = lock[q]
    BY <1>5 DEF Spaces
  <2>. QED  BY <1>1, <1>5, <2>1, <2>2, <2>4, <2>5, CheckStep
<1>6. dir = [dir EXCEPT ![p] = dir[p]] /\ lock = [lock EXCEPT ![p] = lock[p]]
  BY DEF Spaces
<1>7. /\ dir[p] \in SUBSET {".", "flake.nix", "flake.lock", "advanced"}
      /\ lock[p] \in {"absent", "torn", "whole"}
  BY DEF Spaces
<1>8. CASE Clear(p)
  <2>1. /\ At(p, "sweep") /\ pc' = [pc EXCEPT ![p] = "create"] /\ sweep[p] = {}
        /\ dir' = [dir EXCEPT ![p] = {}] /\ lock' = lock /\ sweep' = sweep
    BY <1>8 DEF Clear, GoTo
  <2>2. offer[p] => lock[p] = "whole"
    BY <1>2, <2>1 DEF Held, At
  <2>3. "sweep" \in Steps /\ "create" \in Steps \ DOMAIN Written
    BY WrittenIs DEF Steps
  <2>4. lock' = [lock EXCEPT ![p] = lock[p]]
    BY <1>6, <2>1
  <2>. QED  BY <1>5, <1>7, <2>1, <2>2, <2>3, <2>4
<1>9. CASE Create(p)
  <2>1. /\ At(p, "create") /\ pc' = [pc EXCEPT ![p] = "copy nix"]
        /\ dir' = [dir EXCEPT ![p] = dir[p] \cup {"."}] /\ lock' = lock /\ sweep' = sweep
    BY <1>9 DEF Create, GoTo
  <2>2. sweep[p] = {} /\ (offer[p] => lock[p] = "whole") /\ (quit[p] = "no" => dir[p] = {})
    BY <1>2, <2>1 DEF Held, At
  <2>3. "create" \in Steps /\ "copy nix" \in Steps
    BY DEF Steps
  <2>4. /\ lock' = [lock EXCEPT ![p] = lock[p]]
        /\ dir[p] \cup {"."} \in SUBSET {".", "flake.nix", "flake.lock", "advanced"}
    BY <1>6, <1>7, <2>1
  <2>5. quit[p] = "no" => dir[p] \cup {"."} = Written["copy nix"]
    BY <2>2, WrittenIs
  <2>. QED  BY <1>5, <1>7, <2>1, <2>2, <2>3, <2>4, <2>5
<1>10. ASSUME NEW from \in {"copy nix", "copy lock", "advance"}, NEW file, NEW to,
              Put(p, from, file, to),
              <<from, file, to>> \in {<<"copy nix", "flake.nix", "copy lock">>,
                                      <<"copy lock", "flake.lock", "advance">>,
                                      <<"advance", "advanced", "candidate">>}
       PROVE  IInv'
  <2>1. /\ At(p, from) /\ pc' = [pc EXCEPT ![p] = to]
        /\ dir' = [dir EXCEPT ![p] = dir[p] \cup {file}] /\ lock' = lock /\ sweep' = sweep
    BY <1>10 DEF Put, GoTo
  <2>2. /\ sweep[p] = {} /\ (offer[p] => lock[p] = "whole")
        /\ quit[p] = "no" => dir[p] = Written[from]
    BY <1>2, <1>10, <2>1, WrittenIs DEF Held, At
  <2>3. Written[to] = Written[from] \cup {file}
    BY <1>10, WrittenIs
  <2>4. from \in Steps /\ to \in Steps /\ to \notin {"create", "write", "discard", "report"}
    BY <1>10 DEF Steps
  <2>5. /\ lock' = [lock EXCEPT ![p] = lock[p]]
        /\ dir[p] \cup {file} \in SUBSET {".", "flake.nix", "flake.lock", "advanced"}
    BY <1>6, <1>7, <1>10, <2>1
  <2>. QED  BY <1>5, <1>7, <2>1, <2>2, <2>3, <2>4, <2>5
<1>11. CASE Candidate(p)
  <2>1. /\ At(p, "candidate") /\ pc' = [pc EXCEPT ![p] = "save"]
        /\ dir' = dir /\ lock' = lock /\ sweep' = sweep
    BY <1>11 DEF Candidate, GoTo
  <2>2. /\ sweep[p] = {} /\ (offer[p] => lock[p] = "whole")
        /\ quit[p] = "no" => dir[p] = Written["candidate"]
    BY <1>2, <2>1, WrittenIs DEF Held, At
  <2>3. "candidate" \in Steps /\ "save" \in Steps /\ Written["save"] = Written["candidate"]
    BY WrittenIs DEF Steps
  <2>4. lock' = [lock EXCEPT ![p] = lock[p]] /\ dir' = [dir EXCEPT ![p] = dir[p]]
    BY <1>6, <2>1
  <2>. QED  BY <1>5, <1>7, <2>1, <2>2, <2>3, <2>4
<1>12. CASE Save(p)
  <2>1. /\ At(p, "save") /\ pc' = [pc EXCEPT ![p] = "write"]
        /\ dir' = dir /\ lock' = [lock EXCEPT ![p] = "torn"] /\ sweep' = sweep
    BY <1>12 DEF Save, GoTo
  <2>2. sweep[p] = {} /\ (quit[p] = "no" => dir[p] = Written["save"])
    BY <1>2, <2>1, WrittenIs DEF Held, At
  <2>3. "save" \in Steps /\ "write" \in Steps /\ Written["write"] = Written["save"]
    BY WrittenIs DEF Steps
  <2>4. dir' = [dir EXCEPT ![p] = dir[p]]
    BY <1>6, <2>1
  <2>. QED  BY <1>5, <1>7, <2>1, <2>2, <2>3, <2>4
<1>13. CASE Write(p)
  <2>1. /\ At(p, "write") /\ pc' = [pc EXCEPT ![p] = "discard"]
        /\ dir' = dir /\ sweep' = sweep
        /\ lock' = [lock EXCEPT ![p] = IF lock[p] = "absent" THEN lock[p] ELSE "whole"]
    BY <1>13 DEF Write, GoTo
  <2>2. /\ sweep[p] = {} /\ (offer[p] => quit[p] = "no")
        /\ quit[p] = "no" => dir[p] = Written["write"] /\ lock[p] = "torn"
    BY <1>2, <2>1, WrittenIs DEF Held, At
  <2>. DEFINE l == IF lock[p] = "absent" THEN lock[p] ELSE "whole"
  <2>3. /\ "write" \in Steps /\ "discard" \in Steps /\ Written["discard"] = Written["write"]
        /\ "discard" \in DOMAIN Written
    BY WrittenIs DEF Steps
  <2>4. /\ dir' = [dir EXCEPT ![p] = dir[p]] /\ lock' = [lock EXCEPT ![p] = l]
        /\ l \in {"absent", "torn", "whole"} /\ (quit[p] = "no" => l = "whole")
    BY <1>6, <1>7, <2>1, <2>2
  <2>. HIDE DEF l
  <2>. QED  BY <1>5, <1>7, <2>1, <2>2, <2>3, <2>4
<1>14. CASE Discard(p)
  <2>1. /\ At(p, "discard") /\ pc' = [pc EXCEPT ![p] = "report"] /\ lock' = lock /\ sweep' = sweep
        /\ dir' = [dir EXCEPT ![p] = {}] \/ dir' = dir
    BY <1>14 DEF Discard, GoTo
  <2>2. /\ sweep[p] = {} /\ (offer[p] => lock[p] = "whole")
        /\ quit[p] = "no" => lock[p] = "whole"
    BY <1>2, <2>1 DEF Held, At
  <2>3. "discard" \in Steps /\ "report" \in Steps \ DOMAIN Written
    BY WrittenIs DEF Steps
  <2>4. PICK d \in SUBSET {".", "flake.nix", "flake.lock", "advanced"} : dir' = [dir EXCEPT ![p] = d]
    BY <1>6, <1>7, <2>1
  <2>5. lock' = [lock EXCEPT ![p] = lock[p]]
    BY <1>6, <2>1
  <2>. QED  BY <1>5, <1>7, <2>1, <2>2, <2>3, <2>4, <2>5
<1>15. CASE CopyNix(p) \/ CopyLock(p) \/ Advance(p)
  BY <1>10, <1>15 DEF CopyNix, CopyLock, Advance
<1>. QED  BY <1>4, <1>8, <1>9, <1>11, <1>12, <1>13, <1>14, <1>15

\* The end of a check: the process ends with it, or it waits for the loop.
LEMMA FinishKeeps ==
  ASSUME IInv, NEW p \in Pids, NEW outcome \in Ended, Finish(p, outcome), InFlight(p),
         sweep[p] = {}, outcome # "failed" => pc[p] = "report"
  PROVE  IInv'
<1>1. ~clean[p] /\ outcome \in {"found", "nothing", "failed"}
  BY FlightIs DEF IInv, Own, Emptied
<1>2. CASE kind[p] = "cli" /\ Gone(p) /\ UNCHANGED clean
  BY <1>1, <1>2, GoneKeeps DEF IInv, Spaces
<1>3. CASE /\ kind[p] = "daemon" /\ GoTo(p, outcome)
           /\ UNCHANGED <<dir, lock, sweep, Others>>
  <2>1. UNCHANGED <<kind, dir, lock, sweep, offer, quit, clean>>
    BY <1>3 DEF Others
  <2>2. Spaces'
    BY <1>3, <2>1 DEF IInv, Spaces, GoTo
  <2>3. pc'[p] = outcome /\ \A q \in Pids \ {p} : pc'[q] = pc[q]
    BY <1>3 DEF IInv, Spaces, GoTo
  <2>4. offer[p] => quit[p] = "no" /\ (lock[p] = "whole" \/ outcome = "failed")
    BY DEF IInv, Own, Held
  <2>5. quit[p] = "no" /\ outcome # "failed" => lock[p] = "whole"
    BY DEF IInv, Own, Held
  <2>6. Held(p)'
    BY <1>1, <2>1, <2>3, <2>4, <2>5, WrittenIs DEF Held
  <2>7. Own(p)'
    BY <1>1, <1>3, <2>1, <2>3, <2>6 DEF Own, Related, Emptied
  <2>. QED  BY <2>1, <2>2, <2>3, <2>7, OwnStep
<1>. QED  BY <1>2, <1>3 DEF Finish

\* The loop takes the result: what it offers, the check has written.
LEMMA HandleResultKeepsIInv ==
  ASSUME IInv, NEW p \in Pids, HandleResult(p) PROVE IInv'
<1>1. /\ kind[p] = "daemon" /\ quit[p] = "no" /\ pc[p] \in Ended
      /\ pc' = [pc EXCEPT ![p] = "idle"]
      /\ offer' = [offer EXCEPT ![p] = pc[p] = "found"]
      /\ UNCHANGED <<kind, dir, lock, sweep, quit, clean>>
  BY DEF HandleResult, TakesResult, GoTo
<1>2. (pc[p] = "found") \in BOOLEAN
  OBVIOUS
<1>3. Spaces'
  BY <1>1, <1>2 DEF IInv, Spaces
<1>4. /\ pc'[p] = "idle" /\ (offer'[p] <=> pc[p] = "found")
      /\ \A q \in Pids \ {p} : pc'[q] = pc[q] /\ offer'[q] = offer[q]
  BY <1>1 DEF IInv, Spaces
<1>5. pc[p] = "found" => lock[p] = "whole"
  BY <1>1 DEF IInv, Own, Held
<1>6. ~clean[p] /\ sweep[p] = {}
  BY <1>1, FlightIs DEF IInv, Own, Emptied, Related
<1>7. Own(p)'
  BY <1>1, <1>4, <1>5, <1>6, WrittenIs DEF Own, Related, Held, Emptied
<1>. QED  BY <1>1, <1>3, <1>4, <1>7, OwnStep

\* Shutdown.
LEMMA QuitKeeps ==
  ASSUME IInv, NEW p \in Pids, Quit(p) \/ RemoveOwnDir(p) \/ RemoveOwnLock(p)
  PROVE  IInv'
<1>. USE DEF IInv
<1>1. Own(p)
  OBVIOUS
<1>2. CASE Quit(p)
  <2>1. /\ kind[p] = "daemon" /\ UNCHANGED <<kind, pc, dir, lock, sweep>>
        /\ quit' = [quit EXCEPT ![p] = "dir"] /\ offer' = [offer EXCEPT ![p] = FALSE]
        /\ clean' = [clean EXCEPT ![p] = ~InFlight(p)]
    BY <1>2 DEF Quit
  <2>2. Spaces'
    BY <2>1 DEF Spaces
  <2>3. /\ quit'[p] = "dir" /\ ~offer'[p] /\ (clean'[p] => pc[p] \in {"idle", "found", "nothing", "failed"})
        /\ \A q \in Pids \ {p} : quit'[q] = quit[q] /\ offer'[q] = offer[q] /\ clean'[q] = clean[q]
    BY <2>1, FlightIs DEF Spaces
  <2>4. Own(p)'
    BY <1>1, <2>1, <2>3 DEF Own, Related, Held, Emptied
  <2>. QED  BY <2>1, <2>2, <2>3, <2>4, OwnStep
<1>3. CASE RemoveOwnDir(p)
  <2>1. /\ quit[p] = "dir" /\ quit' = [quit EXCEPT ![p] = "lock"] /\ dir' = [dir EXCEPT ![p] = {}]
        /\ UNCHANGED <<kind, pc, lock, sweep, offer, clean>>
    BY <1>3 DEF RemoveOwnDir
  <2>2. Spaces'
    BY <2>1 DEF Spaces
  <2>3. /\ quit'[p] = "lock" /\ dir'[p] = {}
        /\ \A q \in Pids \ {p} : quit'[q] = quit[q] /\ dir'[q] = dir[q]
    BY <2>1 DEF Spaces
  <2>4. Own(p)'
    BY <1>1, <2>1, <2>3 DEF Own, Related, Held, Emptied
  <2>. QED  BY <2>1, <2>2, <2>3, <2>4, OwnStep
<1>4. CASE RemoveOwnLock(p)
  <2>1. /\ quit[p] = "lock" /\ quit' = [quit EXCEPT ![p] = "over"]
        /\ lock' = [lock EXCEPT ![p] = "absent"]
        /\ UNCHANGED <<kind, pc, dir, sweep, offer, clean>>
    BY <1>4 DEF RemoveOwnLock
  <2>2. Spaces'
    BY <2>1 DEF Spaces
  <2>3. /\ quit'[p] = "over" /\ lock'[p] = "absent"
        /\ \A q \in Pids \ {p} : quit'[q] = quit[q] /\ lock'[q] = lock[q]
    BY <2>1 DEF Spaces
  <2>4. Own(p)'
    BY <1>1, <2>1, <2>3 DEF Own, Related, Held, Emptied
  <2>. QED  BY <2>1, <2>2, <2>3, <2>4, OwnStep
<1>. QED  BY <1>2, <1>3, <1>4

\* Every step keeps the invariant.
LEMMA NextIInv == IInv /\ [Next]_vars => IInv'
<1>. SUFFICES ASSUME IInv, [Next]_vars PROVE IInv'
  OBVIOUS
<1>1. ASSUME NEW p \in Pids, NEW k \in {"daemon", "cli"}, Start(p, k) PROVE IInv'
  BY <1>1, StartKeeps
<1>2. ASSUME NEW p \in Pids, Crash(p) \/ Exit(p) PROVE IInv'
  BY <1>2, GoneKeeps DEF Crash, Exit, IInv, Spaces
<1>3. ASSUME NEW p \in Pids, Sweep(p) PROVE IInv'
  BY <1>3, SweepKeeps
<1>4. ASSUME NEW p \in Pids, BeginCheck(p) \/ Step(p), ~Sweep(p), ~Report(p) PROVE IInv'
  BY <1>4, FileStepKeeps DEF Step
<1>5. ASSUME NEW p \in Pids, Report(p) PROVE IInv'
  <2>1. PICK outcome \in Ended : Finish(p, outcome)
    BY <1>5 DEF Report, Ended
  <2>2. pc[p] = "report" /\ sweep[p] = {} /\ InFlight(p)
    BY <1>5 DEF Report, At, IInv, Own, Related, InFlight, Steps
  <2>. QED  BY <2>1, <2>2, FinishKeeps
<1>6. ASSUME NEW p \in Pids, Fail(p) PROVE IInv'
  BY <1>6, FinishKeeps, FlightIs DEF Fail
<1>9. ASSUME NEW p \in Pids, HandleResult(p) PROVE IInv'
  BY <1>9, HandleResultKeepsIInv
<1>7. ASSUME NEW p \in Pids, Quit(p) \/ RemoveOwnDir(p) \/ RemoveOwnLock(p) PROVE IInv'
  BY <1>7, QuitKeeps
<1>8. CASE UNCHANGED vars
  BY <1>8 DEF vars, IInv, Spaces, Own, Related, Held, Emptied
<1>. QED  BY <1>1, <1>2, <1>3, <1>4, <1>5, <1>6, <1>7, <1>8, <1>9 DEF Next

\* A check finds its working copy as it left it, whatever other processes run,
\* sweep, crash and take over.
THEOREM WorkingCopySafe == Spec => []WorkingCopy
<1>1. IInv => WorkingCopy
  BY DEF IInv, Own, Held, WorkingCopy
<1>. QED  BY <1>1, InitIInv, NextIInv, PTL DEF Spec

\* The candidate the daemon offers is there.
THEOREM OfferSafe == Spec => []OfferKept
<1>1. IInv => OfferKept
  BY DEF IInv, Own, Held, OfferKept
<1>. QED  BY <1>1, InitIInv, NextIInv, PTL DEF Spec

\* A quiet exit leaves nothing.
THEOREM ExitSafe == Spec => []CleanExit
<1>1. IInv => CleanExit
  BY DEF IInv, Own, Emptied, CleanExit
<1>. QED  BY <1>1, InitIInv, NextIInv, PTL DEF Spec

THEOREM TypeCorrect == Spec => []TypeOK
<1>1. IInv => TypeOK
  BY FlightIs DEF IInv, Spaces, Own, Related, TypeOK, Running
<1>. QED  BY <1>1, InitIInv, NextIInv, PTL DEF Spec
=============================================================================
