------------------------------- MODULE Report -------------------------------
(* What a check reports, from the two toplevel derivations on: the inventories  *)
(* (pkgs.rs), the mark of what is installed (check.rs), the changelog links     *)
(* (changelog.rs, nix.rs) and the status the daemon shows for it (daemon.rs).   *)
(* What the check finds on the machine is one of Inputs; what may fail on the   *)
(* way fails in the steps.                                                     *)
EXTENDS Inventory, FlakeRef

CONSTANTS
  Inputs,     \* what a check may find
  Outputs,    \* how the name of an installed output may end
  Order,      \* the names looked up, sorted
  Meta,       \* [names -> lists of URLs]: meta.changelog; "" is an empty one
  Bad,        \* names whose evaluation fails past what tryEval catches
  Bytes,      \* [names -> Nat]: what a name adds to the expression
  Budget      \* MAX_EXPR_BYTES

-----------------------------------------------------------------------------
(* nix and nixpkgs, as pkgs.rs knows them.  A package keeps its name and        *)
(* version in its environment, its structured attributes, or only its name;     *)
(* the other derivations of a closure look like packages more or less.          *)

SplitHomes == {"name", "half", "blank", "spoof"}
PackageHomes == SplitHomes \cup {"env", "attrs", "json"}
OtherHomes == {"fetch", "builder", "numeric", "helper"}
Source == [home : PackageHomes \cup OtherHomes, pname : Text, version : Text]

NoAttrs == [pname |-> None, version |-> None]
Foreign == [pname |-> <<"foreign">>, version |-> <<"foreign">>]

(* The derivation nix shows: an older nix embeds structured attributes in       *)
(* `__json`; an ordinary derivation may have an attribute of that name.         *)
Shown(s) ==
  LET full == s.pname \o s.version
      attrs == [pname |-> s.pname, version |-> s.version]
  IN [fixed |-> s.home = "fetch",
      attrs |-> CASE s.home = "attrs" -> attrs
                  [] s.home = "numeric" -> [NoAttrs EXCEPT !.pname = s.pname]
                  [] s.home = "builder" -> NoAttrs
                  [] OTHER -> None,
      env |-> [pname |-> CASE s.home \in {"env", "half"} -> s.pname
                           [] s.home = "blank" -> <<>>
                           [] OTHER -> None,
               version |-> CASE s.home = "env" -> s.version
                             [] s.home = "blank" -> <<>>
                             [] OTHER -> None,
               name |-> CASE s.home \in SplitHomes \cup {"env", "fetch"} -> full
                          [] s.home = "helper" -> s.pname
                          [] OTHER -> None,
               json |-> CASE s.home = "json" -> attrs
                          [] s.home = "spoof" -> Foreign
                          [] OTHER -> None]]

(* nixpkgs' convention for a name that must be split.                           *)
Conventional(s) ==
  /\ s.home \in PackageHomes =>
       s.pname # <<>> /\ s.version # <<>> /\ s.version[1] \in Digits
  /\ s.home \in SplitHomes \cup {"helper"} =>
       \A i \in 2..Len(s.pname) : s.pname[i] \notin Digits

ASSUME InputsAssumption ==
  \A i \in Inputs :
    /\ i.before \subseteq Source /\ i.after \subseteq Source /\ i.running \subseteq Source
    /\ \A s \in i.before \cup i.after : Conventional(s)
    /\ ~i.moved => i.before = i.after
    /\ i.moved \in BOOLEAN /\ i.explicit \in BOOLEAN

Builds(s) == IF s.home \in PackageHomes THEN {<<s.pname, s.version>>} ELSE {}
Packages(sources) == UNION {Builds(s) : s \in sources}

(* A derivation object of a later nix, with nothing where it is looked for.     *)
Opaque == [fixed |-> FALSE, attrs |-> None,
           env |-> [pname |-> None, version |-> None, name |-> None, json |-> None]]

Shapes == {"loose", "wrapped", "both", "empty", "renamed", "restructured"}
DocumentOf(shape, drvs) ==
  [wrapped |-> CASE shape \in {"loose", "renamed"} -> None
                 [] shape \in {"wrapped", "both"} -> drvs
                 [] shape = "empty" -> {}
                 [] shape = "restructured" -> {Opaque},
   loose |-> IF shape \in {"loose", "both"} THEN drvs ELSE {}]

(* Store entries of what is installed: <hash>-<name>[-<output>].               *)
NameOf(s, out) == s.pname \o s.version \o out
Entries(sources) == {<<"hash">> \o NameOf(s, out) : s \in sources, out \in Outputs}
ASSUME OutputsAssumption == <<>> \in Outputs /\ Outputs \subseteq Text

-----------------------------------------------------------------------------
VARIABLES
  input,      \* what this check finds
  pc,         \* where the check is
  inv,        \* the inventories of the two sides, None before they are read
  changes,    \* CheckOutcome::changes
  installed,  \* the names read from the running system's closure
  todo,       \* the batches still to be looked up
  found,      \* the links found: pairs of a name and a URL
  lost,       \* history: the names that were not looked up, or in vain
  status      \* what the daemon shows

vars == <<input, pc, inv, changes, installed, todo, found, lost, status>>

Sides == {"before", "after"}
Init ==
  /\ input \in Inputs
  /\ pc = "start"
  /\ inv = [side \in Sides |-> None]
  /\ changes = {} /\ installed = {}
  /\ todo = <<>> /\ found = {} /\ lost = {}
  /\ status = "checking"

(* The same derivation on both sides: nothing to diff.                         *)
UpToDate ==
  /\ pc = "start" /\ ~input.moved
  /\ pc' = "done" /\ status' = "idle"
  /\ UNCHANGED <<input, inv, changes, installed, todo, found, lost>>

Fail ==
  /\ pc' = "done" /\ status' = "error" /\ changes' = {}
  /\ UNCHANGED <<input, inv, installed, todo, found, lost>>

(* One of the two readers, in either order; the first error is the diff's.      *)
Read(side) ==
  /\ pc = "start" /\ input.moved /\ inv[side] = None
  /\ \E exitOk \in BOOLEAN, shape \in Shapes :
       LET read == ReadInventory(exitOk, DocumentOf(shape, {Shown(s) : s \in input[side]})) IN
       IF read = None THEN Fail
       ELSE /\ inv' = [inv EXCEPT ![side] = read]
            /\ UNCHANGED <<input, pc, changes, installed, todo, found, lost, status>>

WithDefaults(c) == [name |-> c.name, old |-> c.old, new |-> c.new, kind |-> c.kind,
                    runtime |-> TRUE, changelog |-> None]

Diff ==
  /\ pc = "start" /\ None \notin {inv[side] : side \in Sides}
  /\ IF ~Checkable(inv["before"], inv["after"]) THEN Fail
     ELSE /\ changes' = {WithDefaults(c) : c \in DiffInventories(inv["before"], inv["after"])}
          /\ pc' = "annotate"
          /\ UNCHANGED <<input, inv, installed, todo, found, lost, status>>

(* A closure that cannot be read, or reads as empty, leaves the marks alone.    *)
Annotate ==
  /\ pc = "annotate"
  /\ \E names \in {ClosureNames(Entries(input.running)), {}} :
       IF names = {} THEN UNCHANGED <<installed, changes>>
       ELSE /\ installed' = names
            /\ changes' = {[c EXCEPT !.runtime = ContainsPackage(names, c.name)] : c \in changes}
  /\ pc' = "enrich"
  /\ UNCHANGED <<input, inv, todo, found, lost, status>>

-----------------------------------------------------------------------------
(* Changelog links.                                                            *)

(* The name, and the name without a trailing version.                          *)
AttrCandidates(name) ==
  IF Len(name) > 1 /\ Last(name) \in Digits THEN <<name, Front(name)>> ELSE <<name>>

Candidates(c) == Range(AttrCandidates(c.name))
Arrivals == {c \in changes : c.kind # "removed"}
Wanted == UNION {Candidates(c) : c \in Arrivals}

(* The sorted names hold every name a package may be looked up by.             *)
ASSUME NamesAssumption ==
  /\ Order \in Seq(DOMAIN Bytes) /\ Bytes \in [DOMAIN Bytes -> Nat] /\ Budget \in Nat
  /\ Meta \in [DOMAIN Bytes -> Seq(STRING)]
  /\ \A i \in Inputs : \A p \in PackageNames(Packages(i.before \cup i.after)) :
       Range(AttrCandidates(p)) \subseteq Range(Order)

(* What nixpkgs the links are read from: None is the configured one.           *)
NixpkgsRef == IF input.explicit THEN None ELSE FlakeRefOf(input.locked)

(* A mutant: the size is compared before the name is added.                    *)
PutLate(b, n) ==
  IF b.cur # <<>> /\ b.size > Budget
  THEN [out |-> Append(b.out, b.cur), cur |-> <<n>>, size |-> Bytes[n]]
  ELSE [out |-> b.out, cur |-> Append(b.cur, n), size |-> b.size + Bytes[n]]

(* A batch is cut before the name that would take it over the budget.          *)
Put(b, n) ==
  IF b.cur # <<>> /\ b.size + Bytes[n] > Budget
  THEN [out |-> Append(b.out, b.cur), cur |-> <<n>>, size |-> Bytes[n]]
  ELSE [out |-> b.out, cur |-> Append(b.cur, n), size |-> b.size + Bytes[n]]

NoBatch == [out |-> <<>>, cur |-> <<>>, size |-> 0]
Closed(b) == IF b.cur = <<>> THEN b.out ELSE Append(b.out, b.cur)
Batches(names) == Closed(FoldLeft(Put, NoBatch, names))

(* Nothing to ask, no nixpkgs to ask, or no system to ask for: no links.        *)
PlanLookups ==
  /\ pc = "enrich"
  /\ \/ pc' = "fold" /\ lost' = Wanted /\ UNCHANGED todo
     \/ /\ Wanted # {} /\ NixpkgsRef # Absent
        /\ todo' = Batches(Kept(Order, Wanted))
        /\ pc' = "lookup" /\ UNCHANGED lost
  /\ UNCHANGED <<input, inv, changes, installed, found, status>>

(* A string or a list of them; the first that is not empty.                    *)
UsableUrls(n) == {i \in DOMAIN Meta[n] : Meta[n][i] # ""}
UrlOf(n) == Meta[n][CHOOSE i \in UsableUrls(n) : \A j \in UsableUrls(n) : i <= j]

(* A mutant: a batch that fails ends the lookup.                               *)
AfterFailureStops(batches) == <<>>
(* A batch that fails is skipped.                                              *)
AfterFailure(batches) == Tail(batches)

LookUp ==
  /\ pc = "lookup" /\ todo # <<>>
  /\ LET batch == {Head(todo)[i] : i \in DOMAIN Head(todo)} IN
     \/ /\ batch \cap Bad = {}
        /\ found' = found \cup {<<n, UrlOf(n)>> : n \in {b \in batch : UsableUrls(b) # {}}}
        /\ todo' = Tail(todo) /\ UNCHANGED lost
     \/ /\ lost' = lost \cup batch
        /\ todo' = AfterFailure(todo) /\ UNCHANGED found
  /\ UNCHANGED <<input, pc, inv, changes, installed, status>>

(* The first candidate that has a link gives it.                               *)
LinkFor(c) ==
  LET names == AttrCandidates(c.name)
      hits == {i \in DOMAIN names : \E url \in {f[2] : f \in found} : <<names[i], url>> \in found}
  IN IF hits = {} THEN None
     ELSE LET n == names[CHOOSE i \in hits : \A j \in hits : i <= j]
          IN [attr |-> n, url |-> CHOOSE u \in {f[2] : f \in found} : <<n, u>> \in found,
              source |-> IF NixpkgsRef = None THEN None ELSE NixReads(NixpkgsRef)]

ASSUME LocksAssumption == \A i \in Inputs : WellFormed(i.locked)

(* No link is taken for none, and no ref for the configured nixpkgs.           *)
Sources == {NixReads(FlakeRefOf(i.locked)) : i \in {j \in Inputs : FlakeRefOf(j.locked) # Absent}}
ASSUME LinksAssumption ==
  /\ None \notin [attr : DOMAIN Bytes, url : STRING, source : Sources \cup {None}]
  /\ None \notin Seq(Letters) \cup {Absent}

Attach ==
  /\ pc = "lookup" /\ todo = <<>>
  /\ changes' = {[c EXCEPT !.changelog = LinkFor(c)] : c \in changes}
  /\ pc' = "fold"
  /\ UNCHANGED <<input, inv, installed, todo, found, lost, status>>

(* Mutant of Counted: removals count.                                          *)
CountedAll(cs) == cs
(* What CheckOutcome::count counts.                                            *)
Counted(cs) == {c \in cs : c.kind # "removed"}

(* handle_check_result, as far as the status goes.                             *)
Fold ==
  /\ pc = "fold"
  /\ pc' = "done" /\ status' = IF Counted(changes) = {} THEN "system" ELSE "updates"
  /\ UNCHANGED <<input, inv, changes, installed, todo, found, lost>>

Next == \/ UpToDate \/ Diff \/ Annotate \/ PlanLookups \/ LookUp \/ Attach \/ Fold
        \/ \E side \in Sides : Read(side)

Spec == Init /\ [][Next]_vars
-----------------------------------------------------------------------------
Reported == pc = "done" /\ status # "error"
TrueVersions(side, p) == Versions(Packages(input[side]), p)

(* Whatever home each package of the two closures has, in whichever document    *)
(* nix prints and whether or not the readers fail: a check that reports reports *)
(* exactly the packages whose versions differ, with both sides' versions, and   *)
(* otherwise it is an error (pkgs.rs: an inventory this code cannot understand  *)
(* must be loud, not empty).                                                   *)
ReportIsExact ==
  Reported =>
    /\ \A c \in changes : /\ c.old = TrueVersions("before", c.name)
                          /\ c.new = TrueVersions("after", c.name)
                          /\ c.old # c.new
    /\ \A p \in PackageNames(Packages(input.before) \cup Packages(input.after)) :
         TrueVersions("before", p) # TrueVersions("after", p) => \E c \in changes : c.name = p

(* The tray says updates when a package arrives or moves, and the quiet         *)
(* configuration-only status when the system changed without that.             *)
StatusTellsArrivals ==
  Reported =>
    status = IF ~input.moved THEN "idle"
             ELSE IF \E p \in PackageNames(Packages(input.after)) :
                       TrueVersions("after", p) # TrueVersions("before", p)
                  THEN "updates" ELSE "system"

(* A package that is installed, in whatever outputs, is never set apart as      *)
(* build-time, nothing is when the running system cannot be read, and what is   *)
(* shown as installed has at least its whole name in some installed name.       *)
RuntimeTellsInstalled ==
  Reported => \A c \in changes :
    /\ (\E s \in input.running : s.pname = c.name) \/ installed = {} => c.runtime
    /\ c.runtime /\ installed # {} =>
         \E s \in input.running, out \in Outputs : IsPrefix(c.name, NameOf(s, out))

(* Each link is what the nixpkgs of the candidate lock, fetched from the very   *)
(* source that lock pins, says of the package of that name, or the nixpkgs the  *)
(* user configured: never another server, branch, directory or revision.       *)
LinksFollowCandidate ==
  Reported => \A c \in changes : c.changelog # None =>
    /\ c.changelog.source = IF input.explicit THEN None ELSE PinnedSource(input.locked)
    /\ \/ c.changelog.attr = c.name
       \/ c.name # <<>> /\ c.changelog.attr = Front(c.name) /\ Last(c.name) \in Digits
    /\ c.changelog.url # "" /\ \E i \in DOMAIN Meta[c.changelog.attr] :
                                  Meta[c.changelog.attr][i] = c.changelog.url

(* One batch that fails costs its own names: every other package that arrives   *)
(* and has a changelog gets its link, under its own name where that has one.    *)
OneBatchCosts ==
  Reported /\ input.moved => \A c \in Arrivals :
    /\ UsableUrls(c.name) # {} /\ c.name \notin lost =>
         c.changelog # None /\ c.changelog.attr = c.name
    /\ c.changelog = None =>
         \A n \in Candidates(c) : UsableUrls(n) = {} \/ n \in lost

Size(batch) == FoldLeft(LAMBDA sum, n : sum + Bytes[n], 0, batch)

(* The batches stay within the limit of one argument, but for a name that is    *)
(* over it alone, and none is cut before it must be.                           *)
BatchesFit ==
  /\ \A i \in DOMAIN todo : todo[i] # <<>> /\ (Len(todo[i]) = 1 \/ Size(todo[i]) <= Budget)
  /\ \A i \in 1..(Len(todo) - 1) : Size(todo[i]) + Bytes[Head(todo[i + 1])] > Budget
=============================================================================
