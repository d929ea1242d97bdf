----------------------------- MODULE Inventory -----------------------------
(* The package inventory of a derivation closure and the difference of two     *)
(* (pkgs.rs), and what the running system's closure says of a name (nix.rs).    *)
(* A text is the sequence of its parts between hyphens: that is all the code    *)
(* looks at when it splits a name, so "curl-8.20.0" is <<"curl", "8.20.0">>.    *)
(* An inventory is a relation: the pairs of a package and a version.           *)
EXTENDS Naturals, Sequences

CONSTANTS
  Parts,      \* what a text has between hyphens
  Digits,     \* the parts that begin with a digit
  None        \* an absent attribute, an unread document

ASSUME PartsAssumption == Digits \subseteq Parts

Text == Seq(Parts)      \* <<>> is the empty string
ASSUME NoneAssumption == None \notin Text /\ None \notin [pname : Text, version : Text]

OptText == Text \cup {None}

(* pname and version as far as they are strings; None also for a `__json` that  *)
(* does not parse.                                                             *)
Attrs == [pname : OptText, version : OptText] \cup {None}
Env == [pname : OptText, version : OptText, name : OptText, json : Attrs]
Drv == [fixed : BOOLEAN, env : Env, attrs : Attrs]

-----------------------------------------------------------------------------
(* Which package a derivation builds: a set of at most one pair.               *)

OrElse(A, B) == IF A # {} THEN A ELSE B

Named(pname, version) ==
  IF pname \in {None, <<>>} \/ version \in {None, <<>>} THEN {} ELSE {<<pname, version>>}

FromAttrs(a) == IF a = None THEN {} ELSE Named(a.pname, a.version)

(* A mutant: only the field nix has today is read.                             *)
StructuredPackageNew(d) == FromAttrs(d.attrs)

(* The embedded JSON of an older nix counts only where the environment itself   *)
(* names nothing.                                                              *)
StructuredPackage(d) ==
  OrElse(FromAttrs(d.attrs),
         IF {d.env.pname, d.env.version, d.env.name} = {None} THEN FromAttrs(d.env.json) ELSE {})

(* Split at the first hyphen before a digit.                                   *)
SplitName(n) ==
  {<<SubSeq(n, 1, i - 1), SubSeq(n, i, Len(n))>> :
     i \in {j \in 2..Len(n) : n[j] \in Digits /\ \A k \in 2..(j - 1) : n[k] \notin Digits}}

(* A fetch is a source, not a package.                                         *)
PackageOf(d) ==
  IF d.fixed THEN {}
  ELSE OrElse(Named(d.env.pname, d.env.version),
         OrElse(StructuredPackage(d), IF d.env.name = None THEN {} ELSE SplitName(d.env.name)))

InventoryFrom(drvs) == UNION {PackageOf(d) : d \in drvs}

-----------------------------------------------------------------------------
(* Reading `nix derivation show`: derivations in a wrapper, or loose; fields    *)
(* that are neither are skipped, and a document that leaves nothing is an error. *)

Parse(doc) ==
  IF doc.wrapped = None
  THEN IF doc.loose # {} THEN doc.loose ELSE None
  ELSE IF doc.loose = {} /\ doc.wrapped # {} THEN doc.wrapped ELSE None

(* The exit status is weighed with the parse: both must be good.               *)
ReadInventory(exitOk, doc) ==
  IF exitOk /\ Parse(doc) # None THEN InventoryFrom(Parse(doc)) ELSE None

-----------------------------------------------------------------------------
(* The difference of two inventories.                                          *)

PackageNames(inv) == {pair[1] : pair \in inv}
Versions(inv, p) == {pair[2] : pair \in {q \in inv : q[1] = p}}

Differs(before, after, p) == Versions(before, p) # Versions(after, p)

KindOf(old, new) ==
  IF old = {} THEN "added" ELSE IF new = {} THEN "removed" ELSE "changed"

(* The changes of the package names whose version sets differ.                 *)
DiffInventories(before, after) ==
  {[name |-> p, old |-> Versions(before, p), new |-> Versions(after, p),
    kind |-> KindOf(Versions(before, p), Versions(after, p))] :
     p \in {q \in PackageNames(before) \cup PackageNames(after) : Differs(before, after, q)}}

(* diff_checked: an inventory without packages was misread.                    *)
Checkable(before, after) == before # {} /\ after # {}

-----------------------------------------------------------------------------
(* The running system: its store entries are <hash>-<name>.                    *)

StripHash(entry) == Tail(entry)
ClosureNames(entries) == {StripHash(e) : e \in {s \in entries : Len(s) > 1}}

(* A mutant: the name of an entry is all that stands before its last hyphen.   *)
ContainsPackageExact(names, p) == \E e \in names : e = p \/ SubSeq(e, 1, Len(e) - 1) = p

(* The entry is the name, or begins with it and a hyphen.                      *)
ContainsPackage(names, p) ==
  \E e \in names : Len(p) <= Len(e) /\ SubSeq(e, 1, Len(p)) = p
=============================================================================
