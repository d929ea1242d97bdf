---------------------------- MODULE Report_proofs ---------------------------
(***************************************************************************)
(* Theorems about Report, for all closures, documents and failing readers.  *)
(***************************************************************************)
EXTENDS Report, FoldTheorems, SequenceTheorems

\* A name that follows nixpkgs' convention is split into the package and the
\* version it was put together from, whatever hyphens either contains.
LEMMA SplitNameExact ==
  ASSUME NEW p \in Text, NEW v \in Text, p # <<>>, v # <<>>, v[1] \in Digits,
         \A i \in 2..Len(p) : p[i] \notin Digits
  PROVE  SplitName(p \o v) = {<<p, v>>}
<1>. DEFINE n == p \o v
            at == Len(p) + 1
            cuts == {j \in 2..Len(n) : n[j] \in Digits /\ \A k \in 2..(j - 1) : n[k] \notin Digits}
<1>1. /\ Len(p) \in Nat \ {0} /\ Len(v) \in Nat \ {0} /\ Len(n) = Len(p) + Len(v)
      /\ \A i \in 1..Len(p) : n[i] = p[i]
      /\ n[at] = v[1]
  BY DEF Text
<1>2. cuts = {at}
  <2>1. at \in cuts
    BY <1>1
  <2>2. ASSUME NEW j \in cuts PROVE j = at
    <3>1. CASE j < at
      BY <3>1, <1>1
    <3>2. CASE j > at
      BY <3>2, <1>1
    <3>. QED  BY <3>1, <3>2, <1>1
  <2>. QED  BY <2>1, <2>2
<1>3. SubSeq(n, 1, at - 1) = p
  <2>1. SubSeq(n, 1, Len(p)) = SubSeq(p, 1, Len(p))
    BY <1>1, SubSeqOfConcat1 DEF Text
  <2>2. SubSeq(p, 1, Len(p)) = p
    BY SubSeqFull DEF Text
  <2>. QED  BY <2>1, <2>2, <1>1
<1>4. SubSeq(n, at, Len(n)) = v
  <2>1. SubSeq(n, at, Len(n)) = SubSeq(v, at - Len(p), Len(n) - Len(p))
    BY <1>1, SubSeqOfConcat2 DEF Text
  <2>2. SubSeq(v, 1, Len(v)) = v
    BY SubSeqFull DEF Text
  <2>. QED  BY <2>1, <2>2, <1>1
<1>. HIDE DEF cuts
<1>5. {<<SubSeq(n, 1, i - 1), SubSeq(n, i, Len(n))>> : i \in cuts} = {<<p, v>>}
  BY <1>2, <1>3, <1>4
<1>. QED  BY <1>5 DEF SplitName, cuts

\* A name without a part that begins with a digit names no package.
LEMMA SplitNameNone ==
  ASSUME NEW p \in Text, \A i \in 2..Len(p) : p[i] \notin Digits
  PROVE  SplitName(p) = {}
BY DEF SplitName, Text

\* An inventory with the changes made to it, and with them taken back.
Untouched(r, diff) == {pair \in r : \A c \in diff : c.name # pair[1]}
Changed(r, diff) == Untouched(r, diff) \cup UNION {{c.name} \X c.new : c \in diff}
Reverted(r, diff) == Untouched(r, diff) \cup UNION {{c.name} \X c.old : c \in diff}

\* A relation; what a difference tells of one side; that it misses no package.
Pairs(r) == \A pair \in r : pair = <<pair[1], pair[2]>>
Tells(told, diff, side) ==
  \A p, v : <<p, v>> \in told <=> (\E c \in diff : c.name = p) /\ v \in Versions(side, p)
Covers(diff, one, two) ==
  \A p \in PackageNames(one) \cup PackageNames(two) :
    Versions(one, p) = Versions(two, p) \/ \E c \in diff : c.name = p

\* The versions of a package are those it has a pair with.
LEMMA VersionsOf ==
  ASSUME NEW r, Pairs(r), NEW p
  PROVE  /\ \A v : v \in Versions(r, p) <=> <<p, v>> \in r
         /\ Versions(r, p) = {} <=> p \notin PackageNames(r)
<1>. USE DEF Pairs
<1>1. ASSUME NEW v PROVE v \in Versions(r, p) <=> <<p, v>> \in r
  BY DEF Versions
<1>2. p \in PackageNames(r) <=> \E v : <<p, v>> \in r
  BY DEF PackageNames
<1>. QED  BY <1>1, <1>2

\* What a difference tells of one side, put to the other.
LEMMA OtherSide ==
  ASSUME NEW one, NEW two, NEW diff, NEW told, Pairs(one), Pairs(two), Pairs(told),
         Tells(told, diff, two), Covers(diff, one, two)
  PROVE  two = Untouched(one, diff) \cup told
<1>. USE DEF Pairs, Tells, Covers
<1>1. /\ \A p, v : v \in Versions(one, p) <=> <<p, v>> \in one
      /\ \A p, v : v \in Versions(two, p) <=> <<p, v>> \in two
  BY VersionsOf
<1>2. ASSUME NEW p, NEW v PROVE <<p, v>> \in two <=> <<p, v>> \in Untouched(one, diff) \cup told
  <2>1. CASE \E c \in diff : c.name = p
    BY <1>1, <2>1 DEF Untouched
  <2>2. CASE ~\E c \in diff : c.name = p
    <3>1. <<p, v>> \in one \cup two => p \in PackageNames(one) \cup PackageNames(two)
      BY DEF PackageNames
    <3>2. <<p, v>> \in Untouched(one, diff) <=> <<p, v>> \in one
      BY <2>2 DEF Untouched
    <3>. QED  BY <1>1, <2>2, <3>1, <3>2
  <2>. QED  BY <2>1, <2>2
<1>3. \A pair \in two \cup Untouched(one, diff) \cup told : pair = <<pair[1], pair[2]>>
  BY DEF Untouched
<1>. QED  BY <1>2, <1>3

\* The report of a difference is complete and exact, for any two inventories:
\* the changes made to the one give the other, and taken back give the first
\* again; no package has two; and each is of the kind that says on which side
\* its package is.
THEOREM DiffExact ==
  ASSUME NEW Names, NEW Numbers, NEW before \in SUBSET (Names \X Numbers),
         NEW after \in SUBSET (Names \X Numbers)
  PROVE  /\ Changed(before, DiffInventories(before, after)) = after
         /\ Reverted(after, DiffInventories(before, after)) = before
         /\ \A c, d \in DiffInventories(before, after) : c.name = d.name => c = d
         /\ \A c \in DiffInventories(before, after) :
              /\ c.kind = "added" <=> c.name \in PackageNames(after) \ PackageNames(before)
              /\ c.kind = "removed" <=> c.name \in PackageNames(before) \ PackageNames(after)
              /\ c.kind = "changed" <=> c.name \in PackageNames(before) \cap PackageNames(after)
<1>. DEFINE diff == DiffInventories(before, after)
            One(p) == [name |-> p, old |-> Versions(before, p), new |-> Versions(after, p),
                       kind |-> KindOf(Versions(before, p), Versions(after, p))]
<1>1. ASSUME NEW c \in diff
      PROVE  /\ c = One(c.name) /\ Differs(before, after, c.name)
             /\ c.name \in PackageNames(before) \cup PackageNames(after)
             /\ c.old = Versions(before, c.name) /\ c.new = Versions(after, c.name)
             /\ c.kind = KindOf(Versions(before, c.name), Versions(after, c.name))
  <2>1. PICK p \in PackageNames(before) \cup PackageNames(after) :
               Differs(before, after, p) /\ c = One(p)
    BY DEF DiffInventories
  <2>2. c.name = p
    BY <2>1
  <2>. QED  BY <2>1, <2>2
<1>2. ASSUME NEW p \in PackageNames(before) \cup PackageNames(after),
             Versions(before, p) # Versions(after, p)
      PROVE  \E c \in diff : c.name = p
  <2>1. One(p) \in diff
    BY <1>2 DEF DiffInventories, Differs
  <2>2. One(p).name = p
    OBVIOUS
  <2>. HIDE DEF One
  <2>. QED  BY <2>1, <2>2
<1>. HIDE DEF diff, One
<1>pairs. Pairs(before) /\ Pairs(after)
  BY DEF Pairs
<1>3. Changed(before, diff) = after
  <2>. DEFINE told == UNION {{c.name} \X c.new : c \in diff}
  <2>1. Tells(told, diff, after)
    BY <1>1 DEF Tells
  <2>2. Pairs(told)
    BY DEF Pairs
  <2>3. Changed(before, diff) = Untouched(before, diff) \cup told
    BY DEF Changed
  <2>4. Covers(diff, before, after)
    BY <1>2 DEF Covers
  <2>. HIDE DEF told
  <2>5. after = Untouched(before, diff) \cup told
    BY <1>pairs, <2>1, <2>2, <2>4, OtherSide
  <2>. QED  BY <2>3, <2>5
<1>4. Reverted(after, diff) = before
  <2>. DEFINE told == UNION {{c.name} \X c.old : c \in diff}
  <2>1. Tells(told, diff, before)
    BY <1>1 DEF Tells
  <2>2. Pairs(told)
    BY DEF Pairs
  <2>3. Reverted(after, diff) = Untouched(after, diff) \cup told
    BY DEF Reverted
  <2>4. Covers(diff, after, before)
    BY <1>2 DEF Covers
  <2>. HIDE DEF told
  <2>5. before = Untouched(after, diff) \cup told
    BY <1>pairs, <2>1, <2>2, <2>4, OtherSide
  <2>. QED  BY <2>3, <2>5
<1>5. \A c, d \in diff : c.name = d.name => c = d
  BY <1>1
<1>6. ASSUME NEW c \in diff
      PROVE  /\ c.kind = "added" <=> c.name \in PackageNames(after) \ PackageNames(before)
             /\ c.kind = "removed" <=> c.name \in PackageNames(before) \ PackageNames(after)
             /\ c.kind = "changed" <=> c.name \in PackageNames(before) \cap PackageNames(after)
  <2>1. /\ Versions(before, c.name) = {} <=> c.name \notin PackageNames(before)
        /\ Versions(after, c.name) = {} <=> c.name \notin PackageNames(after)
    BY <1>pairs, VersionsOf
  <2>. QED  BY <1>1, <2>1 DEF KindOf
<1>. QED  BY <1>3, <1>4, <1>5, <1>6 DEF diff

-----------------------------------------------------------------------------
\* The reader finds in each derivation the package it builds, in whichever
\* home that keeps its name and version, and none in any other derivation.
LEMMA PackageOfShown ==
  ASSUME NEW s \in Source, Conventional(s)
  PROVE  PackageOf(Shown(s)) = Builds(s)
<1>. DEFINE full == s.pname \o s.version
            attrs == [pname |-> s.pname, version |-> s.version]
            d == Shown(s)
<1>1. s.pname \in Text /\ s.version \in Text /\ full \in Text
  BY DEF Source, Text
<1>2. None \notin Text /\ <<>> \in Text
  BY NoneAssumption DEF Text
<1>. USE DEF PackageOf, OrElse, Named, FromAttrs, StructuredPackage
<1>3. CASE s.home \in SplitHomes
  <2>1. SplitName(full) = {<<s.pname, s.version>>}
    BY <1>1, <1>3, SplitNameExact DEF Conventional, PackageHomes
  <2>2. /\ ~d.fixed /\ d.attrs = None /\ d.env.name = full
        /\ d.env.pname \in {None, <<>>} \/ d.env.version \in {None, <<>>}
    BY <1>3 DEF Shown, SplitHomes
  <2>3. {d.env.pname, d.env.version, d.env.name} # {None}
    BY <2>2, <1>1, <1>2
  <2>4. Named(d.env.pname, d.env.version) = {} /\ StructuredPackage(d) = {}
    BY <2>2, <2>3
  <2>5. PackageOf(d) = SplitName(full)
    BY <2>2, <2>4, <1>1, <1>2
  <2>. QED  BY <2>1, <2>5, <1>3 DEF Builds, PackageHomes
<1>4. CASE s.home = "env"
  <2>1. ~d.fixed /\ d.env.pname = s.pname /\ d.env.version = s.version
    BY <1>4 DEF Shown, SplitHomes
  <2>2. {s.pname, s.version} \cap {None, <<>>} = {}
    BY <1>1, <1>2, <1>4 DEF Conventional, PackageHomes
  <2>3. PackageOf(d) = {<<s.pname, s.version>>}
    BY <2>1, <2>2
  <2>. QED  BY <2>3, <1>4 DEF Builds, PackageHomes
<1>5. CASE s.home \in {"attrs", "json"}
  <2>1. /\ ~d.fixed /\ d.env.pname = None /\ d.env.version = None /\ d.env.name = None
        /\ \/ d.attrs = attrs
           \/ d.attrs = None /\ d.env.json = attrs
    BY <1>5 DEF Shown, SplitHomes
  <2>2. /\ {s.pname, s.version} \cap {None, <<>>} = {}
        /\ attrs.pname = s.pname /\ attrs.version = s.version /\ attrs # None
    BY <1>1, <1>2, <1>5, NoneAssumption DEF Conventional, PackageHomes
  <2>3. FromAttrs(attrs) = {<<s.pname, s.version>>}
    BY <2>2
  <2>4. Named(d.env.pname, d.env.version) = {}
    BY <2>1
  <2>5. StructuredPackage(d) = FromAttrs(attrs)
    BY <2>1, <2>3
  <2>6. PackageOf(d) = FromAttrs(attrs)
    BY <2>1, <2>3, <2>4, <2>5
  <2>. QED  BY <2>3, <2>6, <1>5 DEF Builds, PackageHomes
<1>6. CASE s.home \in OtherHomes
  <2>1. Builds(s) = {}
    BY <1>6 DEF OtherHomes, Builds, PackageHomes, SplitHomes
  <2>2. CASE s.home = "fetch"
    <3>1. d.fixed
      BY <2>2 DEF Shown
    <3>. QED  BY <3>1, <2>1
  <2>3. CASE s.home # "fetch"
    <3>1. /\ ~d.fixed /\ d.env.pname = None /\ d.env.version = None /\ d.env.json = None
          /\ d.env.name = None \/ (s.home = "helper" /\ d.env.name = s.pname)
          /\ d.attrs = None \/ d.attrs.version = None
      BY <1>6, <2>3 DEF Shown, OtherHomes, SplitHomes, NoAttrs
    <3>2. s.home = "helper" => SplitName(s.pname) = {}
      BY <1>1, SplitNameNone DEF Conventional
    <3>3. Named(d.env.pname, d.env.version) = {} /\ StructuredPackage(d) = {}
      BY <3>1
    <3>4. PackageOf(d) = {}
      BY <3>1, <3>2, <3>3
    <3>. QED  BY <3>4, <2>1
  <2>. QED  BY <2>2, <2>3
<1>. QED  BY <1>3, <1>4, <1>5, <1>6 DEF Source, PackageHomes

\* The inventory read from the derivations of a closure is what it builds.
LEMMA InventoryOfShown ==
  ASSUME NEW S \in SUBSET Source, \A s \in S : Conventional(s)
  PROVE  InventoryFrom({Shown(s) : s \in S}) = Packages(S)
<1>1. \A s \in S : PackageOf(Shown(s)) = Builds(s)
  BY PackageOfShown
<1>. QED  BY <1>1 DEF InventoryFrom, Packages

\* Whatever document nix prints and however it ends, a reader gives an error,
\* nothing, or exactly the packages of its closure.
LEMMA ReadIsExact ==
  ASSUME NEW S \in SUBSET Source, \A s \in S : Conventional(s),
         NEW exitOk \in BOOLEAN, NEW shape \in Shapes
  PROVE  ReadInventory(exitOk, DocumentOf(shape, {Shown(s) : s \in S})) \in {None, {}, Packages(S)}
<1>. DEFINE drvs == {Shown(s) : s \in S}
            doc == DocumentOf(shape, drvs)
<1>1. Parse(doc) \in {None, drvs, {Opaque}}
  BY DEF Parse, DocumentOf, Shapes
<1>2. InventoryFrom(drvs) = Packages(S)
  BY InventoryOfShown
<1>3. InventoryFrom({Opaque}) = {}
  <2>1. PackageOf(Opaque) = {}
    BY DEF PackageOf, Opaque, Named, OrElse, StructuredPackage, FromAttrs
  <2>. QED  BY <2>1 DEF InventoryFrom
<1>. HIDE DEF drvs, doc
<1>4. ReadInventory(exitOk, doc) \in {None, {}, Packages(S)}
  BY <1>1, <1>2, <1>3 DEF ReadInventory
<1>. QED  BY <1>4 DEF doc, drvs
-----------------------------------------------------------------------------

\* A change has the fields of a PackageChange, the two sides' versions of its
\* name, and they differ; no package that differs is missing.
ChangeRecords ==
  \A c \in changes : c = [name |-> c.name, old |-> c.old, new |-> c.new, kind |-> c.kind,
                         runtime |-> c.runtime, changelog |-> c.changelog]
Exact ==
  /\ \A c \in changes : /\ c.old = TrueVersions("before", c.name)
                        /\ c.new = TrueVersions("after", c.name)
                        /\ c.old # c.new
  /\ \A p \in PackageNames(Packages(input.before) \cup Packages(input.after)) :
       TrueVersions("before", p) # TrueVersions("after", p) => \E c \in changes : c.name = p

\* The inductive invariant: what has been read is right or empty, and from the
\* diff on the changes stay exact, until the check ends in an error.
ExactInv ==
  /\ input \in Inputs
  /\ \A side \in Sides : inv[side] \in {None, {}, Packages(input[side])}
  /\ DOMAIN inv = Sides
  /\ pc \in {"start", "annotate", "enrich", "lookup", "fold", "done"}
  /\ ChangeRecords
  /\ pc = "start" => changes = {}
  /\ status = "error" => pc = "done"
  /\ pc # "start" /\ status # "error" => Exact

\* Of packages that have not been read, and of none, nothing has been said.
LEMMA ExactInvInit == Init => ExactInv
BY DEF Init, ExactInv, ChangeRecords

\* A step that ends in an error keeps the invariant.
LEMMA FailKeeps == ExactInv /\ Fail => ExactInv'
BY DEF ExactInv, Fail, ChangeRecords

\* Writing the mark or the link of a change leaves its other fields.
LEMMA RewriteFields ==
  ASSUME ChangeRecords, NEW c \in changes, NEW x
  PROVE  /\ [c EXCEPT !.runtime = x] =
              [name |-> c.name, old |-> c.old, new |-> c.new, kind |-> c.kind,
               runtime |-> x, changelog |-> c.changelog]
         /\ [c EXCEPT !.changelog = x] =
              [name |-> c.name, old |-> c.old, new |-> c.new, kind |-> c.kind,
               runtime |-> c.runtime, changelog |-> x]
<1>. DEFINE r == [name |-> c.name, old |-> c.old, new |-> c.new, kind |-> c.kind,
                  runtime |-> c.runtime, changelog |-> c.changelog]
<1>1. c = r
  BY DEF ChangeRecords
<1>2. /\ [r EXCEPT !.runtime = x] =
            [name |-> c.name, old |-> c.old, new |-> c.new, kind |-> c.kind,
             runtime |-> x, changelog |-> c.changelog]
      /\ [r EXCEPT !.changelog = x] =
            [name |-> c.name, old |-> c.old, new |-> c.new, kind |-> c.kind,
             runtime |-> c.runtime, changelog |-> x]
  OBVIOUS
<1>. QED  BY <1>1, <1>2

\* A step that only rewrites a change's mark or link keeps it.
LEMMA RewriteKeeps ==
  ASSUME ExactInv, Exact, UNCHANGED <<input, inv, status>>, pc' \in {"enrich", "fold"}, pc # "done",
         \A c \in changes' : \E b \in changes :
           c = [name |-> b.name, old |-> b.old, new |-> b.new, kind |-> b.kind,
                runtime |-> c.runtime, changelog |-> c.changelog],
         \A b \in changes : \E c \in changes' : c.name = b.name
  PROVE  ExactInv'
<1>1. ChangeRecords'
  BY DEF ChangeRecords
<1>2. Exact'
  <2>1. ASSUME NEW c \in changes'
        PROVE  (/\ c.old = TrueVersions("before", c.name)
                /\ c.new = TrueVersions("after", c.name)
                /\ c.old # c.new)'
    BY <2>1 DEF Exact, TrueVersions
  <2>2. ASSUME NEW p \in PackageNames(Packages(input.before) \cup Packages(input.after)),
               TrueVersions("before", p) # TrueVersions("after", p)
        PROVE  \E c \in changes' : c.name = p
    BY <2>2 DEF Exact
  <2>. QED  BY <2>1, <2>2 DEF Exact, TrueVersions
<1>. QED  BY <1>1, <1>2 DEF ExactInv

\* Every step keeps the inventories exact and the changes their difference.
LEMMA ExactInvNext == ExactInv /\ [Next]_vars => ExactInv'
<1>. SUFFICES ASSUME ExactInv, [Next]_vars PROVE ExactInv'
  OBVIOUS
<1>1. CASE UpToDate
  <2>1. input.before = input.after
    BY <1>1, InputsAssumption DEF UpToDate, ExactInv
  <2>2. \A p : TrueVersions("before", p) = TrueVersions("after", p)
    BY <2>1 DEF TrueVersions
  <2>3. Exact'
    BY <1>1, <2>2 DEF UpToDate, ExactInv, Exact, TrueVersions
  <2>. QED  BY <1>1, <2>3 DEF UpToDate, ExactInv, ChangeRecords
<1>2. ASSUME NEW side \in Sides, Read(side) PROVE ExactInv'
  <2>1. PICK exitOk \in BOOLEAN, shape \in Shapes :
          LET read == ReadInventory(exitOk, DocumentOf(shape, {Shown(s) : s \in input[side]})) IN
          IF read = None THEN Fail
          ELSE /\ inv' = [inv EXCEPT ![side] = read]
               /\ UNCHANGED <<input, pc, changes, installed, todo, found, lost, status>>
    BY <1>2 DEF Read
  <2>. DEFINE read == ReadInventory(exitOk, DocumentOf(shape, {Shown(s) : s \in input[side]}))
  <2>2. read \in {None, {}, Packages(input[side])}
    <3>1. input[side] \in SUBSET Source /\ \A s \in input[side] : Conventional(s)
      BY InputsAssumption DEF ExactInv, Sides
    <3>. QED  BY <3>1, ReadIsExact
  <2>3. CASE read = None
    BY <2>1, <2>3, FailKeeps
  <2>4. CASE read # None
    <3>. HIDE DEF read
    <3>1. inv' = [inv EXCEPT ![side] = read]
          /\ UNCHANGED <<input, pc, changes, installed, todo, found, lost, status>>
      BY <2>1, <2>4 DEF read
    <3>2. pc = "start"
      BY <1>2 DEF Read
    <3>. QED  BY <3>1, <3>2, <2>2 DEF ExactInv, ChangeRecords, Exact
  <2>. QED  BY <2>3, <2>4
<1>3. CASE Diff
  <2>1. CASE ~Checkable(inv["before"], inv["after"])
    BY <1>3, <2>1, FailKeeps DEF Diff
  <2>2. CASE Checkable(inv["before"], inv["after"])
    <3>. DEFINE before == Packages(input.before)
                after == Packages(input.after)
    <3>1. inv["before"] = before /\ inv["after"] = after
      BY <1>3, <2>2 DEF Diff, ExactInv, Sides, Checkable
    <3>2. changes' = {WithDefaults(c) : c \in DiffInventories(before, after)}
      BY <1>3, <2>2, <3>1 DEF Diff
    <3>3. /\ pc = "start" /\ pc' = "annotate" /\ input' = input /\ inv' = inv /\ status' = status
      BY <1>3, <2>2 DEF Diff
    <3>. HIDE DEF before, after
    <3>4. ChangeRecords'
      BY <3>2 DEF ChangeRecords, WithDefaults
    <3>5. \A p : /\ TrueVersions("before", p)' = Versions(before, p)
                 /\ TrueVersions("after", p)' = Versions(after, p)
      BY <3>3 DEF TrueVersions, before, after
    <3>6. Exact'
      <4>1. ASSUME NEW c \in changes'
            PROVE  /\ c.old = Versions(before, c.name) /\ c.new = Versions(after, c.name)
                   /\ c.old # c.new
        <5>1. PICK b \in DiffInventories(before, after) : c = WithDefaults(b)
          BY <3>2
        <5>. QED  BY <5>1 DEF WithDefaults, DiffInventories, Differs
      <4>2. ASSUME NEW p \in PackageNames(before \cup after),
                   Versions(before, p) # Versions(after, p)
            PROVE  \E c \in changes' : c.name = p
        <5>1. p \in PackageNames(before) \cup PackageNames(after)
          BY DEF PackageNames
        <5>. DEFINE d == [name |-> p, old |-> Versions(before, p), new |-> Versions(after, p),
                          kind |-> KindOf(Versions(before, p), Versions(after, p))]
        <5>4. d \in DiffInventories(before, after) /\ d.name = p
          BY <4>2, <5>1, Zenon DEF DiffInventories, Differs
        <5>2. PICK b \in DiffInventories(before, after) : b.name = p
          <6>. HIDE DEF d
          <6>. QED  BY <5>4
        <5>3. WithDefaults(b) \in changes'
          BY <3>2
        <5>. QED  BY <5>2, <5>3 DEF WithDefaults
      <4>. QED  BY <3>3, <3>5, <4>1, <4>2 DEF Exact, before, after
    <3>. QED  BY <3>3, <3>4, <3>6 DEF ExactInv
  <2>. QED  BY <2>1, <2>2
<1>4. CASE Annotate
  <2>1. Exact /\ pc = "annotate" /\ pc' = "enrich" /\ UNCHANGED <<input, inv, status>>
    BY <1>4 DEF Annotate, ExactInv
  <2>2. CASE changes' = changes
    BY <2>1, <2>2 DEF ExactInv, ChangeRecords, Exact, TrueVersions
  <2>3. ASSUME NEW names,
               changes' = {[c EXCEPT !.runtime = ContainsPackage(names, c.name)] : c \in changes}
        PROVE  ExactInv'
    <3>1. ASSUME NEW b \in changes
          PROVE  LET c == [b EXCEPT !.runtime = ContainsPackage(names, b.name)] IN
                 /\ c = [name |-> b.name, old |-> b.old, new |-> b.new, kind |-> b.kind,
                         runtime |-> c.runtime, changelog |-> c.changelog]
                 /\ c.name = b.name
      <4>1. [b EXCEPT !.runtime = ContainsPackage(names, b.name)] =
              [name |-> b.name, old |-> b.old, new |-> b.new, kind |-> b.kind,
               runtime |-> ContainsPackage(names, b.name), changelog |-> b.changelog]
        BY RewriteFields DEF ExactInv
      <4>. QED  BY <4>1
    <3>. DEFINE marked(b) == [b EXCEPT !.runtime = ContainsPackage(names, b.name)]
    <3>2. changes' = {marked(b) : b \in changes}
      BY <2>3
    <3>3. \A b \in changes :
            /\ marked(b) = [name |-> b.name, old |-> b.old, new |-> b.new, kind |-> b.kind,
                            runtime |-> marked(b).runtime, changelog |-> marked(b).changelog]
            /\ marked(b).name = b.name
      BY <3>1
    <3>. HIDE DEF marked
    <3>. QED  BY <2>1, <3>2, <3>3, RewriteKeeps
  <2>. QED  BY <1>4, <2>2, <2>3 DEF Annotate
<1>5. CASE PlanLookups \/ LookUp
  BY <1>5 DEF PlanLookups, LookUp, ExactInv, ChangeRecords, Exact, TrueVersions
<1>6. CASE Attach
  <2>1. Exact /\ pc = "lookup" /\ pc' = "fold" /\ UNCHANGED <<input, inv, status>>
    BY <1>6 DEF Attach, ExactInv
  <2>2. changes' = {[c EXCEPT !.changelog = LinkFor(c)] : c \in changes}
    BY <1>6 DEF Attach
  <2>3. ASSUME NEW b \in changes
        PROVE  LET c == [b EXCEPT !.changelog = LinkFor(b)] IN
               /\ c = [name |-> b.name, old |-> b.old, new |-> b.new, kind |-> b.kind,
                       runtime |-> c.runtime, changelog |-> c.changelog]
               /\ c.name = b.name
    <3>1. [b EXCEPT !.changelog = LinkFor(b)] =
            [name |-> b.name, old |-> b.old, new |-> b.new, kind |-> b.kind,
             runtime |-> b.runtime, changelog |-> LinkFor(b)]
      BY RewriteFields DEF ExactInv
    <3>. QED  BY <3>1
  <2>. QED  BY <2>1, <2>2, <2>3, RewriteKeeps
<1>7. CASE Fold
  BY <1>7 DEF Fold, ExactInv, ChangeRecords, Exact, TrueVersions
<1>8. CASE UNCHANGED vars
  BY <1>8 DEF vars, ExactInv, ChangeRecords, Exact, TrueVersions
<1>. QED  BY <1>1, <1>2, <1>3, <1>4, <1>5, <1>6, <1>7, <1>8 DEF Next

\* What a check reports is exact, whatever the closures hold and however the
\* readers fail (ReportIsExact of Report, checked by TLC on small closures).
THEOREM ReportExact == Spec => []ReportIsExact
<1>1. ExactInv => ReportIsExact
  BY DEF ExactInv, ReportIsExact, Reported, Exact
<1>. QED  BY <1>1, ExactInvInit, ExactInvNext, PTL DEF Spec
-----------------------------------------------------------------------------

\* The inductive invariant of the status: the kind of a change follows from its
\* versions, and the status of an ended check from the kinds.
KindInv ==
  /\ ExactInv
  /\ \A c \in changes : c.kind = KindOf(c.old, c.new)
  /\ \A side \in Sides : inv[side] # None => input.moved
  /\ pc = "start" => status = "checking"
  /\ pc \in {"annotate", "enrich", "lookup", "fold"} => input.moved /\ status = "checking"
  /\ pc = "done" /\ status # "error" =>
       status = IF ~input.moved THEN "idle"
                ELSE IF Counted(changes) = {} THEN "system" ELSE "updates"

\* Rewriting a mark or a link keeps the kinds.
LEMMA RewriteKinds ==
  ASSUME KindInv, ExactInv', pc \in {"annotate", "lookup"}, pc' \in {"enrich", "fold"},
         UNCHANGED <<input, inv, status>>,
         \A c \in changes' : \E b \in changes :
           c.old = b.old /\ c.new = b.new /\ c.kind = b.kind
  PROVE  KindInv'
BY DEF KindInv

\* Every step keeps kinds and status right.
LEMMA KindInvNext == KindInv /\ [Next]_vars => KindInv'
<1>. SUFFICES ASSUME KindInv, [Next]_vars PROVE KindInv'
  OBVIOUS
<1>1. ExactInv'
  BY ExactInvNext DEF KindInv
<1>2. CASE Fail
  BY <1>1, <1>2 DEF KindInv, Fail
<1>3. CASE UpToDate
  BY <1>1, <1>3 DEF KindInv, ExactInv, UpToDate
<1>4. ASSUME NEW side \in Sides, Read(side) PROVE KindInv'
  <2>1. Fail \/ UNCHANGED <<input, pc, changes, status>>
    BY <1>4 DEF Read
  <2>2. input.moved
    BY <1>4 DEF Read
  <2>. QED  BY <1>1, <1>2, <2>1, <2>2 DEF KindInv, Counted
<1>5. CASE Diff
  <2>1. CASE ~Checkable(inv["before"], inv["after"])
    BY <1>2, <1>5, <2>1 DEF Diff
  <2>2. CASE Checkable(inv["before"], inv["after"])
    <3>1. \A c \in DiffInventories(inv["before"], inv["after"]) : c.kind = KindOf(c.old, c.new)
      BY DEF DiffInventories
    <3>2. /\ changes' = {WithDefaults(c) : c \in DiffInventories(inv["before"], inv["after"])}
          /\ pc' = "annotate" /\ UNCHANGED <<input, inv, status>> /\ pc = "start"
      BY <1>5, <2>2 DEF Diff
    <3>3. input.moved
      BY <1>5 DEF Diff, KindInv, Sides
    <3>4. \A c \in changes' : c.kind = KindOf(c.old, c.new)
      BY <3>1, <3>2 DEF WithDefaults
    <3>. QED  BY <1>1, <3>2, <3>3, <3>4 DEF KindInv
  <2>. QED  BY <2>1, <2>2
<1>6. CASE Annotate
  <2>1. /\ pc = "annotate" /\ pc' = "enrich" /\ UNCHANGED <<input, inv, status>>
    BY <1>6 DEF Annotate
  <2>2. CASE UNCHANGED changes
    BY <1>1, <2>1, <2>2, RewriteKinds
  <2>3. ASSUME NEW names,
               changes' = {[c EXCEPT !.runtime = ContainsPackage(names, c.name)] : c \in changes}
        PROVE  KindInv'
    <3>. DEFINE marked(b) == [b EXCEPT !.runtime = ContainsPackage(names, b.name)]
    <3>1. ASSUME NEW b \in changes
          PROVE  /\ marked(b).old = b.old /\ marked(b).new = b.new /\ marked(b).kind = b.kind
      <4>1. marked(b) = [name |-> b.name, old |-> b.old, new |-> b.new, kind |-> b.kind,
                         runtime |-> ContainsPackage(names, b.name), changelog |-> b.changelog]
        BY RewriteFields DEF KindInv, ExactInv
      <4>. QED  BY <4>1
    <3>2. changes' = {marked(b) : b \in changes}
      BY <2>3
    <3>. HIDE DEF marked
    <3>. QED  BY <1>1, <2>1, <3>1, <3>2, RewriteKinds
  <2>. QED  BY <1>6, <2>2, <2>3 DEF Annotate
<1>7. CASE PlanLookups
  BY <1>1, <1>7 DEF KindInv, PlanLookups
<1>8. CASE LookUp
  BY <1>1, <1>8 DEF KindInv, LookUp
<1>9. CASE Attach
  <2>. DEFINE linked(b) == [b EXCEPT !.changelog = LinkFor(b)]
  <2>1. ASSUME NEW b \in changes
        PROVE  /\ linked(b).old = b.old /\ linked(b).new = b.new /\ linked(b).kind = b.kind
    <3>1. linked(b) = [name |-> b.name, old |-> b.old, new |-> b.new, kind |-> b.kind,
                       runtime |-> b.runtime, changelog |-> LinkFor(b)]
      BY RewriteFields DEF KindInv, ExactInv
    <3>. QED  BY <3>1
  <2>2. changes' = {linked(b) : b \in changes}
    BY <1>9 DEF Attach
  <2>3. /\ pc = "lookup" /\ pc' = "fold" /\ UNCHANGED <<input, inv, status>>
    BY <1>9 DEF Attach
  <2>. HIDE DEF linked
  <2>. QED  BY <1>1, <2>1, <2>2, <2>3, RewriteKinds
<1>10. CASE Fold
  BY <1>1, <1>10 DEF KindInv, Fold, Counted
<1>11. CASE UNCHANGED vars
  BY <1>1, <1>11 DEF vars, KindInv, Counted
<1>. QED
  BY <1>3, <1>4, <1>5, <1>6, <1>7, <1>8, <1>9, <1>10, <1>11 DEF Next

\* The tray says updates exactly when a package arrives or moves, whatever the
\* closures hold (StatusTellsArrivals of Report).
THEOREM StatusRight == Spec => []StatusTellsArrivals
<1>1. Init => KindInv
  BY ExactInvInit DEF Init, KindInv
<1>2. ASSUME KindInv PROVE StatusTellsArrivals
  <2>. SUFFICES ASSUME Reported, input.moved
                PROVE  Counted(changes) # {} <=>
                         \E p \in PackageNames(Packages(input.after)) :
                           TrueVersions("after", p) # TrueVersions("before", p)
    BY <1>2 DEF StatusTellsArrivals, KindInv, Reported
  <2>1. Exact
    BY <1>2 DEF KindInv, ExactInv, Reported
  <2>2. \A p : TrueVersions("after", p) # {} <=> p \in PackageNames(Packages(input.after))
    BY DEF TrueVersions, Versions, PackageNames
  <2>3. ASSUME NEW c \in Counted(changes)
        PROVE  /\ c.name \in PackageNames(Packages(input.after))
               /\ TrueVersions("after", c.name) # TrueVersions("before", c.name)
    <3>1. c \in changes /\ KindOf(c.old, c.new) # "removed"
      BY <1>2 DEF Counted, KindInv
    <3>2. c.old # c.new /\ c.new = TrueVersions("after", c.name)
          /\ c.old = TrueVersions("before", c.name)
      BY <2>1, <3>1 DEF Exact
    <3>. QED  BY <2>2, <3>1, <3>2 DEF KindOf
  <2>4. ASSUME NEW p \in PackageNames(Packages(input.after)),
               TrueVersions("after", p) # TrueVersions("before", p)
        PROVE  Counted(changes) # {}
    <3>1. p \in PackageNames(Packages(input.before) \cup Packages(input.after))
      BY DEF PackageNames
    <3>2. PICK c \in changes : c.name = p
      BY <2>1, <2>4, <3>1 DEF Exact
    <3>3. c.new # {} /\ c.kind = KindOf(c.old, c.new)
      BY <1>2, <2>1, <2>2, <3>2 DEF Exact, KindInv
    <3>. QED  BY <3>2, <3>3 DEF Counted, KindOf
  <2>. QED  BY <2>3, <2>4
<1>. QED  BY <1>1, <1>2, KindInvNext, PTL DEF Spec
-----------------------------------------------------------------------------

\* The names in a closure are those of what is installed in it.
LEMMA ClosureNamesOfEntries ==
  ASSUME NEW R \in SUBSET Source
  PROVE  /\ \A e \in ClosureNames(Entries(R)) : \E s \in R, out \in Outputs : e = NameOf(s, out)
         /\ \A s \in R, out \in Outputs :
              s.pname # <<>> => NameOf(s, out) \in ClosureNames(Entries(R))
<1>1. ASSUME NEW s \in R, NEW out \in Outputs
      PROVE  /\ Tail(<<"hash">> \o NameOf(s, out)) = NameOf(s, out)
             /\ s.pname # <<>> => Len(<<"hash">> \o NameOf(s, out)) > 1
  <2>. DEFINE T == Parts \cup {"hash"}
  <2>1. /\ s.pname \in Text /\ s.version \in Text /\ out \in Text
        /\ NameOf(s, out) \in Seq(T)
    BY OutputsAssumption DEF Source, Text, NameOf
  <2>2. ASSUME s.pname # <<>> PROVE Len(<<"hash">> \o NameOf(s, out)) > 1
    <3>1. Len(s.pname) > 0
      BY <2>1, <2>2 DEF Text
    <3>2. Len(NameOf(s, out)) = Len(s.pname) + Len(s.version) + Len(out)
      BY <2>1 DEF Text, NameOf
    <3>3. Len(s.pname) \in Nat /\ Len(s.version) \in Nat /\ Len(out) \in Nat
      BY <2>1 DEF Text
    <3>4. Len(<<"hash">> \o NameOf(s, out)) = 1 + Len(NameOf(s, out))
      BY <2>1
    <3>5. ASSUME NEW a \in Nat, NEW b \in Nat, NEW c \in Nat, a > 0 PROVE 1 + (a + b + c) > 1
      BY <3>5
    <3>. QED  BY <3>1, <3>2, <3>3, <3>4, <3>5
  <2>3. Tail(<<"hash">> \o NameOf(s, out)) = NameOf(s, out)
    BY <2>1
  <2>. QED  BY <2>2, <2>3
<1>. DEFINE entry(s, out) == <<"hash">> \o NameOf(s, out)
<1>2. Entries(R) = {entry(s, out) : s \in R, out \in Outputs}
  BY DEF Entries
<1>3. ClosureNames(Entries(R)) = {Tail(e) : e \in {t \in Entries(R) : Len(t) > 1}}
  BY DEF ClosureNames, StripHash
<1>4. ASSUME NEW n \in ClosureNames(Entries(R))
      PROVE  \E s \in R, out \in Outputs : n = NameOf(s, out)
  <2>1. PICK s \in R, out \in Outputs : n = Tail(entry(s, out))
    <3>. HIDE DEF entry
    <3>. QED  BY <1>2, <1>3
  <2>. QED  BY <1>1, <2>1
<1>5. ASSUME NEW s \in R, NEW out \in Outputs, s.pname # <<>>
      PROVE  NameOf(s, out) \in ClosureNames(Entries(R))
  <2>1. entry(s, out) \in {t \in Entries(R) : Len(t) > 1}
    BY <1>1, <1>2, <1>5
  <2>. QED  BY <1>1, <1>3, <2>1
<1>. QED  BY <1>4, <1>5

\* A package with an output in the closure is found there, and what is found
\* there begins an installed name.
LEMMA ContainsInstalled ==
  ASSUME NEW R \in SUBSET Source, NEW p \in Text, p # <<>>
  PROVE  LET names == ClosureNames(Entries(R)) IN
         /\ (\E s \in R : s.pname = p) => ContainsPackage(names, p)
         /\ ContainsPackage(names, p) => \E s \in R, out \in Outputs : IsPrefix(p, NameOf(s, out))
<1>. DEFINE names == ClosureNames(Entries(R))
<1>1. ASSUME NEW s \in R, s.pname = p PROVE ContainsPackage(names, p)
  <2>1. NameOf(s, <<>>) \in names
    BY <1>1, ClosureNamesOfEntries, OutputsAssumption
  <2>2. s.version \in Text /\ NameOf(s, <<>>) = p \o (s.version \o <<>>)
    BY <1>1 DEF Source, Text, NameOf
  <2>3. /\ Len(p) <= Len(NameOf(s, <<>>))
        /\ SubSeq(NameOf(s, <<>>), 1, Len(p)) = SubSeq(p, 1, Len(p))
    BY <2>2, SubSeqOfConcat1 DEF Text
  <2>4. SubSeq(p, 1, Len(p)) = p
    BY SubSeqFull DEF Text
  <2>. QED  BY <2>1, <2>3, <2>4 DEF ContainsPackage
<1>2. ASSUME ContainsPackage(names, p)
      PROVE  \E s \in R, out \in Outputs : IsPrefix(p, NameOf(s, out))
  BY <1>2, ClosureNamesOfEntries DEF ContainsPackage, IsPrefix
<1>. QED  BY <1>1, <1>2

\* The inductive invariant: a mark is the default until the closure has been
\* read, and from then on what that closure says.
MarkInv ==
  /\ ExactInv
  /\ pc \in {"start", "annotate"} => installed = {}
  /\ installed = {} => \A c \in changes : c.runtime = TRUE
  /\ installed # {} =>
       /\ installed = ClosureNames(Entries(input.running))
       /\ \A c \in changes : c.runtime = ContainsPackage(installed, c.name)

\* The marks are right at the start ...
LEMMA MarkInvInit == Init => MarkInv
BY ExactInvInit DEF Init, MarkInv

\* ... and every step keeps them right.
LEMMA MarkInvNext == MarkInv /\ [Next]_vars => MarkInv'
<1>. SUFFICES ASSUME MarkInv, [Next]_vars PROVE MarkInv'
  OBVIOUS
<1>1. ExactInv'
  BY ExactInvNext DEF MarkInv
<1>2. CASE Fail
  BY <1>1, <1>2 DEF MarkInv, Fail
<1>3. CASE UNCHANGED <<input, changes, installed>> /\ (pc' = pc \/ pc' \notin {"start", "annotate"})
  BY <1>1, <1>3 DEF MarkInv
<1>4. CASE Diff
  <2>1. CASE ~Checkable(inv["before"], inv["after"])
    BY <1>2, <1>4, <2>1 DEF Diff
  <2>2. CASE Checkable(inv["before"], inv["after"])
    BY <1>1, <1>4, <2>2 DEF Diff, MarkInv, WithDefaults
  <2>. QED  BY <2>1, <2>2
<1>5. CASE Annotate
  <2>1. CASE UNCHANGED <<installed, changes>>
    BY <1>3, <1>5, <2>1 DEF Annotate
  <2>2. ASSUME NEW names \in {ClosureNames(Entries(input.running)), {}}, names # {},
               installed' = names,
               changes' = {[c EXCEPT !.runtime = ContainsPackage(names, c.name)] : c \in changes}
        PROVE  MarkInv'
    <3>. DEFINE marked(b) == [b EXCEPT !.runtime = ContainsPackage(names, b.name)]
    <3>1. \A b \in changes : marked(b).name = b.name
                            /\ marked(b).runtime = ContainsPackage(names, b.name)
      <4>1. ASSUME NEW b \in changes
            PROVE  marked(b) = [name |-> b.name, old |-> b.old, new |-> b.new, kind |-> b.kind,
                                runtime |-> ContainsPackage(names, b.name),
                                changelog |-> b.changelog]
        BY RewriteFields DEF MarkInv, ExactInv
      <4>. QED  BY <4>1
    <3>2. changes' = {marked(b) : b \in changes}
      BY <2>2
    <3>3. pc' = "enrich" /\ input' = input
      BY <1>5 DEF Annotate
    <3>. HIDE DEF marked
    <3>. QED  BY <1>1, <2>2, <3>1, <3>2, <3>3 DEF MarkInv
  <2>. QED  BY <1>5, <2>1, <2>2 DEF Annotate
<1>6. CASE Attach
  <2>1. changes' = {[c EXCEPT !.changelog = LinkFor(c)] : c \in changes}
        /\ pc' = "fold" /\ input' = input /\ installed' = installed
    BY <1>6 DEF Attach
  <2>. DEFINE linked(b) == [b EXCEPT !.changelog = LinkFor(b)]
  <2>2. \A b \in changes : linked(b).name = b.name /\ linked(b).runtime = b.runtime
    <3>1. ASSUME NEW b \in changes
          PROVE  linked(b) = [name |-> b.name, old |-> b.old, new |-> b.new, kind |-> b.kind,
                              runtime |-> b.runtime, changelog |-> LinkFor(b)]
      BY RewriteFields DEF MarkInv, ExactInv
    <3>. QED  BY <3>1
  <2>3. changes' = {linked(b) : b \in changes}
    BY <2>1
  <2>. HIDE DEF linked
  <2>. QED  BY <1>1, <2>1, <2>2, <2>3 DEF MarkInv
<1>7. ASSUME NEW side \in Sides, Read(side) PROVE MarkInv'
  <2>1. Fail \/ UNCHANGED <<input, pc, changes, installed>>
    BY <1>7 DEF Read
  <2>. QED  BY <1>2, <1>3, <2>1
<1>8. CASE UpToDate \/ PlanLookups \/ LookUp \/ Fold \/ UNCHANGED vars
  BY <1>3, <1>8 DEF UpToDate, PlanLookups, LookUp, Fold, vars
<1>. QED  BY <1>4, <1>5, <1>6, <1>7, <1>8 DEF Next

\* The mark of a reported package tells what is installed, whatever the running
\* system holds (RuntimeTellsInstalled of Report).
THEOREM MarksTellInstalled == Spec => []RuntimeTellsInstalled
<1>1. ASSUME MarkInv PROVE RuntimeTellsInstalled
  <2>. SUFFICES ASSUME Reported, NEW c \in changes
                PROVE  /\ (\E s \in input.running : s.pname = c.name) \/ installed = {} => c.runtime
                       /\ c.runtime /\ installed # {} =>
                            \E s \in input.running, out \in Outputs :
                              IsPrefix(c.name, NameOf(s, out))
    BY DEF RuntimeTellsInstalled
  <2>1. input.running \in SUBSET Source /\ input.before \in SUBSET Source
        /\ input.after \in SUBSET Source
        /\ \A s \in input.before \cup input.after : Conventional(s)
    BY <1>1, InputsAssumption DEF MarkInv, ExactInv
  <2>2. c.name \in Text /\ c.name # <<>>
    <3>1. TrueVersions("before", c.name) # TrueVersions("after", c.name)
      BY <1>1 DEF MarkInv, ExactInv, Exact, Reported
    <3>2. PICK s \in input.before \cup input.after : s.home \in PackageHomes /\ s.pname = c.name
      BY <3>1 DEF TrueVersions, Versions, Packages, Builds
    <3>. QED  BY <2>1, <3>2 DEF Source, Conventional
  <2>. QED  BY <1>1, <2>1, <2>2, ContainsInstalled DEF MarkInv
<1>. QED  BY <1>1, MarkInvInit, MarkInvNext, PTL DEF Spec

-----------------------------------------------------------------------------
(* The batches.  Each fold takes one step per element; what its value is after *)
(* k of them is at[k].                                                         *)

KeptStep(S, out, x) == IF x \in S THEN Append(out, x) ELSE out

\* Filtering a list appends, one by one, the elements that are kept.
LEMMA KeptSteps ==
  ASSUME NEW X, NEW seq \in Seq(X), NEW S
  PROVE  \E at : /\ at[0] = <<>> /\ Kept(seq, S) = at[Len(seq)]
                 /\ \A k \in 1 .. Len(seq) :
                      at[k] = KeptStep(S, at[k - 1], seq[k])
<1>. DEFINE N == Len(seq)
            A == Seq(X)
            step(out, x) == KeptStep(S, out, x)
            F == [i \in 1 .. N |-> [out \in A |-> step(out, seq[i])]]
            Folds(f) == f = [s \in SUBSET (1 .. N) |->
                               IF s = {} THEN <<>> ELSE step(f[s \ {Max(s)}], seq[Max(s)])]
            G == CHOOSE f : Folds(f)
            at == [k \in 0 .. N |-> G[1 .. k]]
<1>1. N \in Nat /\ DOMAIN seq = 1 .. N /\ \A i \in 1 .. N : seq[i] \in X
  OBVIOUS
<1>2. Kept(seq, S) = G[1 .. N]
  BY <1>1, Zenon DEF Kept, KeptStep, FoldLeft, MapThenFoldSet
<1>3. ASSUME NEW out \in A, NEW x \in X PROVE step(out, x) \in A
  BY <1>3 DEF KeptStep
<1>4. Folds(G)
  <2>1. PICK f : IsFold(f, A, <<>>, N, F)
    <3>1. \A i \in 1 .. N : \A out \in A : F[i][out] \in A
      <4>. HIDE DEF A, step
      <4>. QED  BY <1>1, <1>3
    <3>2. <<>> \in A
    OBVIOUS
    <3>. HIDE DEF F, A
    <3>. QED  BY <3>1, <3>2, <1>1, FoldExists
  <2>2. ASSUME NEW s \in SUBSET (1 .. N), s # {}
        PROVE  F[Max(s)][f[s \ {Max(s)}]] = step(f[s \ {Max(s)}], seq[Max(s)])
    <3>1. Max(s) \in 1 .. N
      BY <1>1, <2>2, MaxIsElement
    <3>2. f[s \ {Max(s)}] \in A
      BY <1>1, <2>1 DEF IsFold
    <3>. HIDE DEF step, A
    <3>. QED  BY <3>1, <3>2
  <2>3. Folds(f)
    <3>. HIDE DEF F, step, A
    <3>. QED  BY <2>1, <2>2 DEF IsFold
  <2>. HIDE DEF Folds
  <2>. QED  BY <2>3, Zenon
<1>. HIDE DEF G
<1>5. at[0] = <<>>
  BY <1>1, <1>4, FoldDomains
<1>6. ASSUME NEW k \in 1 .. N PROVE at[k] = step(at[k - 1], seq[k])
  <2>1. G[1 .. k] = step(G[(1 .. k) \ {k}], seq[k])
    <3>1. 1 .. k \in SUBSET (1 .. N) /\ 1 .. k # {} /\ Max(1 .. k) = k
      BY <1>1, FoldDomains
    <3>. HIDE DEF step
    <3>. QED  BY <1>4, <3>1, Zenon
  <2>2. k \in 0 .. N /\ k - 1 \in 0 .. N
    BY <1>1
  <2>3. at[k] = G[1 .. k] /\ at[k - 1] = G[(1 .. k) \ {k}]
    BY <1>1, <2>2, FoldDomains
  <2>. HIDE DEF at, step
  <2>. QED  BY <2>1, <2>3
<1>7. at[N] = G[1 .. N]
  BY <1>1
<1>. HIDE DEF at
<1>. QED  BY <1>2, <1>5, <1>6, <1>7

\* One more element in a list is one more in its range.
LEMMA RangeOfAppend ==
  ASSUME NEW X, NEW s \in Seq(X), NEW x
  PROVE  Range(Append(s, x)) = Range(s) \cup {x}
<1>. DEFINE t == Append(s, x)
            n == Len(s)
<1>1. /\ n \in Nat /\ DOMAIN s = 1 .. n /\ DOMAIN t = 1 .. n + 1 /\ t[n + 1] = x
      /\ \A i \in 1 .. n : t[i] = s[i]
  OBVIOUS
<1>2. 1 .. n + 1 = (1 .. n) \cup {n + 1}
  BY <1>1
<1>. HIDE DEF n, t
<1>3. Range(t) = Range(s) \cup {x}
  BY <1>1, <1>2 DEF Range
<1>. QED  BY <1>3 DEF t

\* What is kept of a list are its elements that are in the set.
LEMMA KeptElements ==
  ASSUME NEW X, NEW seq \in Seq(X), NEW S
  PROVE  /\ Kept(seq, S) \in Seq(X)
         /\ Range(Kept(seq, S)) = Range(seq) \cap S
<1>1. PICK at : /\ at[0] = <<>> /\ Kept(seq, S) = at[Len(seq)]
                /\ \A k \in 1 .. Len(seq) : at[k] = KeptStep(S, at[k - 1], seq[k])
  BY KeptSteps
<1>. DEFINE T == {k \in 0 .. Len(seq) :
                    at[k] \in Seq(X) /\ Range(at[k]) = {seq[i] : i \in 1 .. k} \cap S}
<1>2. 0 \in T
  <2>1. Range(<<>>) = {} /\ <<>> \in Seq(X) /\ {seq[i] : i \in 1 .. 0} = {}
    BY DEF Range
  <2>2. 0 \in 0 .. Len(seq) /\ {seq[i] : i \in 1 .. 0} \cap S = {}
    BY <2>1
  <2>. QED  BY <1>1, <2>1, <2>2
<1>3. ASSUME NEW k \in 1 .. Len(seq), k - 1 \in T PROVE k \in T
  <2>1. seq[k] \in X /\ at[k - 1] \in Seq(X)
        /\ Range(at[k - 1]) = {seq[i] : i \in 1 .. (k - 1)} \cap S
    BY <1>3
  <2>2. {seq[i] : i \in 1 .. k} = {seq[i] : i \in 1 .. (k - 1)} \cup {seq[k]}
    OBVIOUS
  <2>3. CASE seq[k] \in S
    <3>1. at[k] = Append(at[k - 1], seq[k])
      BY <1>1, <2>3 DEF KeptStep
    <3>2. Range(Append(at[k - 1], seq[k])) = Range(at[k - 1]) \cup {seq[k]}
      BY <2>1, RangeOfAppend
    <3>3. at[k] \in Seq(X)
      BY <2>1, <3>1
    <3>4. Range(at[k]) = {seq[i] : i \in 1 .. k} \cap S
      BY <2>1, <2>2, <2>3, <3>1, <3>2
    <3>. QED  BY <3>3, <3>4
  <2>4. CASE seq[k] \notin S
    BY <1>1, <2>1, <2>2, <2>4 DEF KeptStep
  <2>. QED  BY <2>3, <2>4
<1>. HIDE DEF T
<1>4. Len(seq) \in Nat /\ Len(seq) \in 0 .. Len(seq)
  OBVIOUS
<1>5. 0 .. Len(seq) \subseteq T
  BY <1>2, <1>3, <1>4, IntervalInduction
<1>6. {seq[i] : i \in 1 .. Len(seq)} = Range(seq)
  BY DEF Range
<1>. QED  BY <1>1, <1>4, <1>5, <1>6 DEF T
Lookups == DOMAIN Bytes

\* The size of a batch adds up what its names take.
LEMMA SizeSteps ==
  ASSUME NEW batch \in Seq(Lookups)
  PROVE  \E at : /\ at[0] = 0 /\ Size(batch) = at[Len(batch)]
                 /\ \A k \in 1 .. Len(batch) :
                      at[k] = at[k - 1] + Bytes[batch[k]]
<1>. DEFINE N == Len(batch)
            A == Nat
            step(sum, n) == sum + Bytes[n]
            F == [i \in 1 .. N |-> [sum \in A |-> step(sum, batch[i])]]
            Folds(f) == f = [s \in SUBSET (1 .. N) |->
                               IF s = {} THEN 0 ELSE step(f[s \ {Max(s)}], batch[Max(s)])]
            G == CHOOSE f : Folds(f)
            at == [k \in 0 .. N |-> G[1 .. k]]
<1>1. N \in Nat /\ DOMAIN batch = 1 .. N /\ \A i \in 1 .. N : batch[i] \in Lookups
  OBVIOUS
<1>2. Size(batch) = G[1 .. N]
  BY <1>1, Zenon DEF Size, FoldLeft, MapThenFoldSet
<1>3. ASSUME NEW sum \in A, NEW n \in Lookups PROVE step(sum, n) \in A
  BY NamesAssumption DEF Lookups
<1>4. Folds(G)
  <2>1. PICK f : IsFold(f, A, 0, N, F)
    <3>1. \A i \in 1 .. N : \A sum \in A : F[i][sum] \in A
      <4>. HIDE DEF A, step
      <4>. QED  BY <1>1, <1>3
    <3>2. 0 \in A
    OBVIOUS
    <3>. HIDE DEF F, A
    <3>. QED  BY <3>1, <3>2, <1>1, FoldExists
  <2>2. ASSUME NEW s \in SUBSET (1 .. N), s # {}
        PROVE  F[Max(s)][f[s \ {Max(s)}]] = step(f[s \ {Max(s)}], batch[Max(s)])
    <3>1. Max(s) \in 1 .. N
      BY <1>1, <2>2, MaxIsElement
    <3>2. f[s \ {Max(s)}] \in A
      BY <1>1, <2>1 DEF IsFold
    <3>. HIDE DEF step, A
    <3>. QED  BY <3>1, <3>2
  <2>3. Folds(f)
    <3>. HIDE DEF F, step, A
    <3>. QED  BY <2>1, <2>2 DEF IsFold
  <2>. HIDE DEF Folds
  <2>. QED  BY <2>3, Zenon
<1>. HIDE DEF G
<1>5. at[0] = 0
  BY <1>1, <1>4, FoldDomains
<1>6. ASSUME NEW k \in 1 .. N PROVE at[k] = step(at[k - 1], batch[k])
  <2>1. G[1 .. k] = step(G[(1 .. k) \ {k}], batch[k])
    <3>1. 1 .. k \in SUBSET (1 .. N) /\ 1 .. k # {} /\ Max(1 .. k) = k
      BY <1>1, FoldDomains
    <3>. HIDE DEF step
    <3>. QED  BY <1>4, <3>1, Zenon
  <2>2. k \in 0 .. N /\ k - 1 \in 0 .. N
    BY <1>1
  <2>3. at[k] = G[1 .. k] /\ at[k - 1] = G[(1 .. k) \ {k}]
    BY <1>1, <2>2, FoldDomains
  <2>. HIDE DEF at, step
  <2>. QED  BY <2>1, <2>3
<1>7. at[N] = G[1 .. N]
  BY <1>1
<1>. HIDE DEF at
<1>. QED  BY <1>2, <1>5, <1>6, <1>7

\* A batch without names asks for nothing.
LEMMA SizeOfEmpty == Size(<<>>) = 0
<1>1. <<>> \in Seq(Lookups) /\ Len(<<>>) = 0
  OBVIOUS
<1>2. \E at : at[0] = 0 /\ Size(<<>>) = at[Len(<<>>)]
  BY <1>1, SizeSteps
<1>. QED  BY <1>1, <1>2

\* A size is a number, and grows by what a name takes when it is appended.
LEMMA SizeOfAppend ==
  ASSUME NEW b \in Seq(Lookups), NEW n \in Lookups
  PROVE  /\ Size(b) \in Nat /\ Size(<<>>) = 0
         /\ Size(Append(b, n)) = Size(b) + Bytes[n]
<1>. DEFINE c == Append(b, n)
<1>1. PICK at : /\ at[0] = 0 /\ Size(b) = at[Len(b)]
                /\ \A k \in 1 .. Len(b) : at[k] = at[k - 1] + Bytes[b[k]]
  BY SizeSteps
<1>2. /\ c \in Seq(Lookups) /\ Len(b) \in Nat /\ Len(c) = Len(b) + 1 /\ c[Len(c)] = n
      /\ \A i \in 1 .. Len(b) : c[i] = b[i]
  OBVIOUS
<1>. HIDE DEF c
<1>3. PICK bt : /\ bt[0] = 0 /\ Size(c) = bt[Len(c)]
                /\ \A k \in 1 .. Len(c) : bt[k] = bt[k - 1] + Bytes[c[k]]
  BY <1>2, SizeSteps
<1>. DEFINE S == {k \in 0 .. Len(b) : at[k] \in Nat /\ bt[k] = at[k]}
<1>4. 0 \in S
  BY <1>1, <1>2, <1>3
<1>5. ASSUME NEW k \in 1 .. Len(b), k - 1 \in S PROVE k \in S
  <2>1. k \in 1 .. Len(c) /\ c[k] = b[k] /\ b[k] \in Lookups
    BY <1>2
  <2>2. Bytes[b[k]] \in Nat
    BY <2>1, NamesAssumption DEF Lookups
  <2>3. at[k] = at[k - 1] + Bytes[b[k]] /\ bt[k] = bt[k - 1] + Bytes[b[k]]
    BY <1>1, <1>3, <2>1
  <2>. QED  BY <1>5, <2>2, <2>3
<1>. HIDE DEF S
<1>6. 0 .. Len(b) \subseteq S
  BY <1>2, <1>4, <1>5, IntervalInduction
<1>7. at[Len(b)] \in Nat /\ bt[Len(b)] = at[Len(b)]
  BY <1>2, <1>6 DEF S
<1>8. Len(c) \in 1 .. Len(c) /\ Len(c) - 1 = Len(b)
  BY <1>2
<1>9. Size(c) = Size(b) + Bytes[n]
  BY <1>1, <1>2, <1>3, <1>7, <1>8
<1>. QED  BY <1>1, <1>7, <1>9, SizeOfEmpty DEF c

\* Cutting the batches puts one name after the other.
LEMMA PutSteps ==
  ASSUME NEW names \in Seq(Lookups)
  PROVE  \E at : /\ at[0] = NoBatch /\ FoldLeft(Put, NoBatch, names) = at[Len(names)]
                 /\ \A k \in 1 .. Len(names) :
                      at[k] = Put(at[k - 1], names[k])
<1>. DEFINE N == Len(names)
            A == [out : Seq(Seq(Lookups)), cur : Seq(Lookups), size : Nat]
            step(b, n) == Put(b, n)
            F == [i \in 1 .. N |-> [b \in A |-> step(b, names[i])]]
            Folds(f) == f = [s \in SUBSET (1 .. N) |->
                               IF s = {} THEN NoBatch ELSE step(f[s \ {Max(s)}], names[Max(s)])]
            G == CHOOSE f : Folds(f)
            at == [k \in 0 .. N |-> G[1 .. k]]
<1>1. N \in Nat /\ DOMAIN names = 1 .. N /\ \A i \in 1 .. N : names[i] \in Lookups
  OBVIOUS
<1>2. FoldLeft(Put, NoBatch, names) = G[1 .. N]
  BY <1>1, Zenon DEF FoldLeft, MapThenFoldSet
<1>3. ASSUME NEW b \in A, NEW n \in Lookups PROVE step(b, n) \in A
  BY NamesAssumption DEF Lookups, Put
<1>4. Folds(G)
  <2>1. PICK f : IsFold(f, A, NoBatch, N, F)
    <3>1. \A i \in 1 .. N : \A b \in A : F[i][b] \in A
      <4>. HIDE DEF A, step
      <4>. QED  BY <1>1, <1>3
    <3>2. NoBatch \in A
      BY DEF NoBatch
    <3>. HIDE DEF F, A
    <3>. QED  BY <3>1, <3>2, <1>1, FoldExists
  <2>2. ASSUME NEW s \in SUBSET (1 .. N), s # {}
        PROVE  F[Max(s)][f[s \ {Max(s)}]] = step(f[s \ {Max(s)}], names[Max(s)])
    <3>1. Max(s) \in 1 .. N
      BY <1>1, <2>2, MaxIsElement
    <3>2. f[s \ {Max(s)}] \in A
      BY <1>1, <2>1 DEF IsFold
    <3>. HIDE DEF step, A
    <3>. QED  BY <3>1, <3>2
  <2>3. Folds(f)
    <3>. HIDE DEF F, step, A
    <3>. QED  BY <2>1, <2>2 DEF IsFold
  <2>. HIDE DEF Folds
  <2>. QED  BY <2>3, Zenon
<1>. HIDE DEF G
<1>5. at[0] = NoBatch
  BY <1>1, <1>4, FoldDomains
<1>6. ASSUME NEW k \in 1 .. N PROVE at[k] = step(at[k - 1], names[k])
  <2>1. G[1 .. k] = step(G[(1 .. k) \ {k}], names[k])
    <3>1. 1 .. k \in SUBSET (1 .. N) /\ 1 .. k # {} /\ Max(1 .. k) = k
      BY <1>1, FoldDomains
    <3>. HIDE DEF step
    <3>. QED  BY <1>4, <3>1, Zenon
  <2>2. k \in 0 .. N /\ k - 1 \in 0 .. N
    BY <1>1
  <2>3. at[k] = G[1 .. k] /\ at[k - 1] = G[(1 .. k) \ {k}]
    BY <1>1, <2>2, FoldDomains
  <2>. HIDE DEF at, step
  <2>. QED  BY <2>1, <2>3
<1>7. at[N] = G[1 .. N]
  BY <1>1
<1>. HIDE DEF at
<1>. QED  BY <1>2, <1>5, <1>6, <1>7

Fits(batch) == batch # <<>> /\ (Len(batch) = 1 \/ Size(batch) <= Budget)
Follows(batches, batch) ==
  batches # <<>> => Size(batches[Len(batches)]) + Bytes[Head(batch)] > Budget
WellCut(batches) ==
  /\ batches \in Seq(Seq(Lookups))
  /\ \A i \in DOMAIN batches : Fits(batches[i])
  /\ \A i \in 1 .. Len(batches) - 1 : Size(batches[i]) + Bytes[Head(batches[i + 1])] > Budget
NamesIn(batches) == UNION {Range(batches[i]) : i \in DOMAIN batches}

\* One more batch, which begins with a name that did not fit.
LEMMA WellCutAppend ==
  ASSUME NEW batches, WellCut(batches), NEW batch \in Seq(Lookups),
         Fits(batch), Follows(batches, batch)
  PROVE  /\ WellCut(Append(batches, batch))
         /\ NamesIn(Append(batches, batch)) = NamesIn(batches) \cup Range(batch)
<1>. DEFINE c == Append(batches, batch)
            N == Len(batches)
<1>1. /\ c \in Seq(Seq(Lookups)) /\ N \in Nat /\ Len(c) = N + 1 /\ c[N + 1] = batch
      /\ \A i \in 1 .. N : c[i] = batches[i]
      /\ DOMAIN c = 1 .. N + 1 /\ DOMAIN batches = 1 .. N
      /\ N # 0 => batches # <<>>
  BY DEF WellCut
<1>2. 1 .. N + 1 = (1 .. N) \cup {N + 1}
  BY <1>1
<1>. HIDE DEF c, N
<1>3. \A i \in DOMAIN c : Fits(c[i])
  BY <1>1, <1>2 DEF WellCut
<1>4. ASSUME NEW i \in 1 .. Len(c) - 1 PROVE Size(c[i]) + Bytes[Head(c[i + 1])] > Budget
  <2>1. CASE i = N
    BY <1>1, <2>1 DEF Follows, N
  <2>2. CASE i # N
    <3>1. i \in 1 .. N - 1 /\ i \in 1 .. N /\ i + 1 \in 1 .. N
      BY <1>1, <2>2
    <3>. QED  BY <1>1, <3>1 DEF WellCut, N
  <2>. QED  BY <2>1, <2>2
<1>5. WellCut(c)
  BY <1>1, <1>3, <1>4 DEF WellCut
<1>6. NamesIn(c) = NamesIn(batches) \cup Range(batch)
  BY <1>1, <1>2 DEF NamesIn
<1>. QED  BY <1>5, <1>6 DEF c

\* The state of the cutting: closed batches, and one that is being filled.
CutState(b) ==
  /\ b.cur \in Seq(Lookups)
  /\ WellCut(b.out)
  /\ b.size = Size(b.cur)
  /\ IF b.cur = <<>> THEN b.out = <<>> ELSE Fits(b.cur) /\ Follows(b.out, b.cur)

\* One more name leaves the batches well cut, and is in one of them.
LEMMA PutKeeps ==
  ASSUME NEW b, CutState(b), NEW n \in Lookups
  PROVE  /\ CutState(Put(b, n))
         /\ NamesIn(Put(b, n).out) \cup Range(Put(b, n).cur)
              = NamesIn(b.out) \cup Range(b.cur) \cup {n}
<1>1. Bytes[n] \in Nat /\ Size(b.cur) \in Nat /\ Budget \in Nat
  BY NamesAssumption, SizeOfAppend DEF Lookups, CutState
<1>2. <<n>> \in Seq(Lookups) /\ <<n>> # <<>> /\ Len(<<n>>) = 1 /\ Head(<<n>>) = n
      /\ Range(<<n>>) = {n} /\ <<n>> = Append(<<>>, n)
  BY DEF Range
<1>3. Size(<<n>>) = Bytes[n]
  <2>1. <<>> \in Seq(Lookups)
    OBVIOUS
  <2>2. Size(Append(<<>>, n)) = Size(<<>>) + Bytes[n] /\ Size(<<>>) = 0
    BY <2>1, SizeOfAppend
  <2>. QED  BY <1>1, <1>2, <2>2
<1>4. CASE b.cur # <<>> /\ b.size + Bytes[n] > Budget
  <2>1. /\ Put(b, n).out = Append(b.out, b.cur) /\ Put(b, n).cur = <<n>>
        /\ Put(b, n).size = Bytes[n]
    BY <1>4 DEF Put
  <2>2. /\ WellCut(Append(b.out, b.cur))
        /\ NamesIn(Append(b.out, b.cur)) = NamesIn(b.out) \cup Range(b.cur)
    BY <1>4, WellCutAppend DEF CutState
  <2>3. Follows(Append(b.out, b.cur), <<n>>)
    <3>1. /\ Append(b.out, b.cur)[Len(Append(b.out, b.cur))] = b.cur
      BY DEF CutState, WellCut
    <3>. QED  BY <1>2, <1>4, <3>1 DEF Follows, CutState
  <2>4. Fits(<<n>>)
    BY <1>2 DEF Fits
  <2>5. CutState(Put(b, n))
    BY <1>2, <1>3, <2>1, <2>2, <2>3, <2>4 DEF CutState
  <2>. QED  BY <1>2, <2>1, <2>2, <2>5
<1>5. CASE ~(b.cur # <<>> /\ b.size + Bytes[n] > Budget)
  <2>. DEFINE c == Append(b.cur, n)
  <2>1. Put(b, n).out = b.out /\ Put(b, n).cur = c /\ Put(b, n).size = b.size + Bytes[n]
    BY <1>5 DEF Put
  <2>2. /\ c \in Seq(Lookups) /\ c # <<>> /\ Size(c) = Size(b.cur) + Bytes[n]
        /\ Range(c) = Range(b.cur) \cup {n}
    BY SizeOfAppend, RangeOfAppend DEF CutState
  <2>3. Fits(c) /\ Follows(b.out, c)
    <3>1. CASE b.cur = <<>>
      BY <2>2, <3>1 DEF Fits, Follows, CutState
    <3>2. CASE b.cur # <<>>
      <4>1. Head(c) = Head(b.cur)
        BY <3>2 DEF CutState
      <4>2. Size(c) <= Budget
        BY <1>1, <1>5, <2>2, <3>2 DEF CutState
      <4>. HIDE DEF c
      <4>. QED  BY <2>2, <3>2, <4>1, <4>2 DEF Fits, Follows, CutState
    <3>. QED  BY <3>1, <3>2
  <2>. HIDE DEF c
  <2>4. CutState(Put(b, n))
    BY <2>1, <2>2, <2>3 DEF CutState
  <2>. QED  BY <2>1, <2>2, <2>4
<1>. QED  BY <1>4, <1>5

\* The batches of a list hold its names, within the budget, and none is cut
\* early.
LEMMA BatchesWellCut ==
  ASSUME NEW names \in Seq(Lookups)
  PROVE  WellCut(Batches(names)) /\ NamesIn(Batches(names)) = Range(names)
<1>1. PICK at : /\ at[0] = NoBatch /\ FoldLeft(Put, NoBatch, names) = at[Len(names)]
                /\ \A k \in 1 .. Len(names) : at[k] = Put(at[k - 1], names[k])
  BY PutSteps
<1>. DEFINE upTo(k) == {names[i] : i \in 1 .. k}
            S == {k \in 0 .. Len(names) :
                    /\ CutState(at[k])
                    /\ NamesIn(at[k].out) \cup Range(at[k].cur) = upTo(k)}
<1>2. Len(names) \in Nat /\ 0 \in 0 .. Len(names) /\ Len(names) \in 0 .. Len(names)
  OBVIOUS
<1>3. 0 \in S
  <2>1. WellCut(<<>>) /\ NamesIn(<<>>) = {} /\ Range(<<>>) = {} /\ upTo(0) = {}
    BY DEF WellCut, NamesIn, Range
  <2>2. <<>> \in Seq(Lookups) /\ Size(<<>>) = 0
    BY SizeOfEmpty
  <2>3. at[0].out = <<>> /\ at[0].cur = <<>> /\ at[0].size = 0
    BY <1>1 DEF NoBatch
  <2>. HIDE DEF upTo
  <2>. QED  BY <1>2, <2>1, <2>2, <2>3 DEF CutState
<1>4. ASSUME NEW k \in 1 .. Len(names), k - 1 \in S PROVE k \in S
  <2>1. names[k] \in Lookups /\ k \in 0 .. Len(names) /\ at[k] = Put(at[k - 1], names[k])
    BY <1>1
  <2>2. upTo(k) = upTo(k - 1) \cup {names[k]}
    OBVIOUS
  <2>. HIDE DEF upTo
  <2>3. CutState(at[k - 1]) /\ NamesIn(at[k - 1].out) \cup Range(at[k - 1].cur) = upTo(k - 1)
    BY <1>4
  <2>4. /\ CutState(at[k])
        /\ NamesIn(at[k].out) \cup Range(at[k].cur)
             = NamesIn(at[k - 1].out) \cup Range(at[k - 1].cur) \cup {names[k]}
    BY <2>1, <2>3, PutKeeps
  <2>5. NamesIn(at[k].out) \cup Range(at[k].cur) = upTo(k)
    BY <2>2, <2>3, <2>4
  <2>. QED  BY <2>1, <2>4, <2>5
<1>. HIDE DEF S
<1>5. 0 .. Len(names) \subseteq S
  BY <1>2, <1>3, <1>4, IntervalInduction
<1>. DEFINE e == at[Len(names)]
<1>6. CutState(e) /\ NamesIn(e.out) \cup Range(e.cur) = Range(names)
  <2>1. upTo(Len(names)) = Range(names)
    BY DEF Range
  <2>. HIDE DEF upTo
  <2>. QED  BY <1>2, <1>5, <2>1 DEF S
<1>. HIDE DEF e
<1>7. Batches(names) = Closed(e)
  BY <1>1 DEF Batches, e
<1>8. CASE e.cur = <<>>
  BY <1>6, <1>7, <1>8 DEF Closed, CutState, Range
<1>9. CASE e.cur # <<>>
  BY <1>6, <1>7, <1>9, WellCutAppend DEF Closed, CutState
<1>. QED  BY <1>8, <1>9

-----------------------------------------------------------------------------
\* What is left to look up is well cut, too.
LEMMA WellCutTail ==
  ASSUME NEW batches, WellCut(batches), batches # <<>>
  PROVE  /\ WellCut(Tail(batches))
         /\ NamesIn(batches) = Range(Head(batches)) \cup NamesIn(Tail(batches))
         /\ Head(batches) \in Seq(Lookups)
<1>. DEFINE t == Tail(batches)
            N == Len(batches)
<1>1. /\ t \in Seq(Seq(Lookups)) /\ N \in Nat /\ N # 0 /\ Len(t) = N - 1
      /\ \A i \in 1 .. N - 1 : t[i] = batches[i + 1]
      /\ DOMAIN t = 1 .. N - 1 /\ DOMAIN batches = 1 .. N
      /\ Head(batches) = batches[1] /\ batches[1] \in Seq(Lookups)
  BY DEF WellCut
<1>. HIDE DEF t, N
<1>2. \A i \in DOMAIN t : Fits(t[i])
  <2>. SUFFICES ASSUME NEW i \in 1 .. N - 1 PROVE Fits(t[i])
    BY <1>1
  <2>1. i + 1 \in 1 .. N
    BY <1>1
  <2>. QED  BY <1>1, <2>1 DEF WellCut
<1>3. ASSUME NEW i \in 1 .. Len(t) - 1 PROVE Size(t[i]) + Bytes[Head(t[i + 1])] > Budget
  <2>1. i \in 1 .. N - 1 /\ i + 1 \in 1 .. N - 1 /\ (i + 1) + 1 \in 1 .. N
    BY <1>1
  <2>. QED  BY <1>1, <2>1 DEF WellCut, N
<1>4. WellCut(t)
  BY <1>1, <1>2, <1>3 DEF WellCut
<1>5. NamesIn(batches) = Range(batches[1]) \cup NamesIn(t)
  <2>1. 1 .. N = {1} \cup {i + 1 : i \in 1 .. N - 1}
    <3>1. ASSUME NEW j \in 1 .. N, j # 1 PROVE \E i \in 1 .. N - 1 : j = i + 1
      <4>1. j - 1 \in 1 .. N - 1 /\ j = (j - 1) + 1
        BY <1>1, <3>1
      <4>. QED  BY <4>1
    <3>2. \A i \in 1 .. N - 1 : i + 1 \in 1 .. N
      BY <1>1
    <3>3. 1 \in 1 .. N
      BY <1>1
    <3>. QED  BY <3>1, <3>2, <3>3
  <2>2. NamesIn(t) = UNION {Range(batches[i + 1]) : i \in 1 .. N - 1}
    BY <1>1 DEF NamesIn
  <2>3. NamesIn(batches) = UNION {Range(batches[j]) : j \in 1 .. N}
    BY <1>1 DEF NamesIn
  <2>4. {Range(batches[j]) : j \in 1 .. N}
          = {Range(batches[1])} \cup {Range(batches[i + 1]) : i \in 1 .. N - 1}
    BY <2>1
  <2>. QED  BY <2>2, <2>3, <2>4
<1>. QED  BY <1>1, <1>4, <1>5 DEF t

\* The batches that are still to be looked up are well cut.
LEMMA TodoWellCut == Spec => []WellCut(todo)
<1>1. Init => WellCut(todo)
  BY DEF Init, WellCut
<1>2. WellCut(todo) /\ [Next]_vars => WellCut(todo)'
  <2>. SUFFICES ASSUME WellCut(todo), [Next]_vars PROVE WellCut(todo')
    BY DEF WellCut, Fits
  <2>1. CASE PlanLookups
    <3>1. todo' = todo \/ todo' = Batches(Kept(Order, Wanted))
      BY <2>1 DEF PlanLookups
    <3>2. Kept(Order, Wanted) \in Seq(Lookups)
      BY NamesAssumption, KeptElements DEF Lookups
    <3>. QED  BY <3>1, <3>2, BatchesWellCut
  <2>2. CASE LookUp
    BY <2>2, WellCutTail DEF LookUp, AfterFailure
  <2>3. CASE UpToDate \/ Diff \/ Annotate \/ Attach \/ Fold \/ UNCHANGED vars
             \/ \E side \in Sides : Read(side)
    BY <2>3 DEF UpToDate, Diff, Annotate, Attach, Fold, vars, Read, Fail
  <2>. QED  BY <2>1, <2>2, <2>3 DEF Next
<1>. QED  BY <1>1, <1>2, PTL DEF Spec

\* For every list of names and every budget: the batches fit, and none is cut
\* before it must be.
THEOREM BatchesAlwaysFit == Spec => []BatchesFit
<1>1. WellCut(todo) => BatchesFit
  BY DEF WellCut, Fits, BatchesFit
<1>. QED  BY <1>1, TodoWellCut, PTL

-----------------------------------------------------------------------------
(* The changelog links.                                                        *)

\* The first name a package is looked up by is its own.
LEMMA CandidateNames ==
  ASSUME NEW name
  PROVE  /\ DOMAIN AttrCandidates(name) \in {1 .. 1, 1 .. 2}
         /\ AttrCandidates(name)[1] = name
         /\ name \in Range(AttrCandidates(name))
<1>1. /\ DOMAIN AttrCandidates(name) \in {1 .. 1, 1 .. 2}
      /\ AttrCandidates(name)[1] = name
  BY DEF AttrCandidates
<1>2. 1 \in DOMAIN AttrCandidates(name)
  BY <1>1
<1>. QED  BY <1>1, <1>2, Zenon DEF Range

\* A link that is found for a name is one nixpkgs has, and not an empty one.
LEMMA UrlIsUsable ==
  ASSUME NEW n \in Lookups, UsableUrls(n) # {}
  PROVE  UrlOf(n) \in Range(Meta[n]) /\ UrlOf(n) # "" /\ UrlOf(n) \in STRING
<1>1. Meta[n] \in Seq(STRING)
  BY NamesAssumption DEF Lookups
<1>. DEFINE urls == Meta[n]
<1>2. UsableUrls(n) \in SUBSET Nat
  <2>1. DOMAIN urls \in SUBSET Nat
    <3>. HIDE DEF urls
    <3>1. urls \in Seq(STRING)
      BY <1>1 DEF urls
    <3>. QED  BY <3>1
  <2>. QED  BY <2>1 DEF UsableUrls
<1>3. \E i \in UsableUrls(n) : \A j \in UsableUrls(n) : i <= j
  BY <1>2, LeastExists
<1>4. PICK i \in UsableUrls(n) : UrlOf(n) = urls[i]
  BY <1>3, Zenon DEF UrlOf
<1>5. i \in DOMAIN urls
  BY DEF UsableUrls
<1>6. urls[i] \in STRING /\ urls[i] \in Range(urls)
  <2>1. urls \in Seq(STRING)
    BY <1>1
  <2>. HIDE DEF urls
  <2>2. urls[i] \in STRING
    <3>1. i \in 1 .. Len(urls)
      BY <1>5, <2>1
    <3>. QED  BY <2>1, <3>1, ElementOfSeq
  <2>. QED  BY <1>5, <2>2, Zenon DEF Range
<1>. QED  BY <1>4, <1>6 DEF UsableUrls

\* What has been found are links of names that have one.
FoundRight == \A f \in found : \E n \in Lookups : UsableUrls(n) # {} /\ f = <<n, UrlOf(n)>>

FoundFor(n) == \E url \in {f[2] : f \in found} : <<n, url>> \in found
LinkSource == IF NixpkgsRef = None THEN None ELSE NixReads(NixpkgsRef)

\* The link of a package is one that was found for the first of its names that
\* has one, and if none of them has, there is none.
LEMMA LinkForFound ==
  ASSUME NEW c, FoundRight, LinkSource \in Sources \cup {None}
  PROVE  /\ LinkFor(c) = None <=> \A n \in Candidates(c) : ~FoundFor(n)
         /\ LinkFor(c) # None =>
              /\ LinkFor(c).attr \in Candidates(c) /\ LinkFor(c).attr \in Lookups
              /\ UsableUrls(LinkFor(c).attr) # {}
              /\ LinkFor(c).url = UrlOf(LinkFor(c).attr)
              /\ LinkFor(c).source = LinkSource
         /\ FoundFor(c.name) => LinkFor(c).attr = c.name
<1>. DEFINE names == AttrCandidates(c.name)
            hits == {i \in DOMAIN names : FoundFor(names[i])}
            m == CHOOSE i \in hits : \A j \in hits : i <= j
            n == names[m]
            u == CHOOSE u \in {f[2] : f \in found} : <<n, u>> \in found
            link == [attr |-> n, url |-> u, source |-> LinkSource]
<1>1. DOMAIN names \in {1 .. 1, 1 .. 2} /\ names[1] = c.name
  BY CandidateNames
<1>. HIDE DEF names
<1>2. LinkFor(c) = IF hits = {} THEN None ELSE link
  BY Zenon DEF LinkFor, names, FoundFor, LinkSource
<1>3. Candidates(c) = {names[i] : i \in DOMAIN names}
  BY DEF Candidates, Range, names
<1>4. hits = {} <=> \A x \in Candidates(c) : ~FoundFor(x)
  BY <1>3
<1>5. CASE hits = {}
  <2>1. LinkFor(c) = None
    BY <1>2, <1>5
  <2>2. ~FoundFor(c.name)
    BY <1>1, <1>5
  <2>. QED  BY <1>4, <1>5, <2>1, <2>2
<1>6. CASE hits # {}
  <2>1. hits \in SUBSET Nat
    BY <1>1
  <2>2. m \in hits /\ \A j \in hits : m <= j
    <3>. HIDE DEF hits
    <3>1. \E i \in hits : \A j \in hits : i <= j
      BY <1>6, <2>1, LeastExists
    <3>. QED  BY <3>1, Zenon
  <2>. HIDE DEF m
  <2>3. FoundFor(n) /\ n \in Candidates(c)
    BY <1>3, <2>2
  <2>. HIDE DEF n
  <2>4. <<n, u>> \in found
    BY <2>3, Zenon DEF FoundFor
  <2>. HIDE DEF u
  <2>5. n \in Lookups /\ UsableUrls(n) # {} /\ u = UrlOf(n)
    BY <2>4 DEF FoundRight
  <2>6. link # None
    <3>1. n \in DOMAIN Bytes /\ u \in STRING
      BY <2>5, UrlIsUsable DEF Lookups
    <3>2. link \in [attr : DOMAIN Bytes, url : STRING, source : Sources \cup {None}]
      BY <3>1
    <3>. QED  BY <3>2, LinksAssumption
  <2>7. FoundFor(c.name) => n = c.name
    <3>1. FoundFor(c.name) => 1 \in hits
      BY <1>1
    <3>2. 1 \in hits => m = 1
      BY <1>1, <2>2
    <3>. QED  BY <1>1, <3>1, <3>2 DEF n
  <2>. QED  BY <1>2, <1>4, <1>6, <2>3, <2>5, <2>6, <2>7
<1>. QED  BY <1>5, <1>6

\* What is settled of a name: it was lost, has no link, or its link is found.
Settled(n) == n \in lost \/ UsableUrls(n) = {} \/ <<n, UrlOf(n)>> \in found
NoLinks == \A c \in changes : c.changelog = None

\* The inductive invariant: until the links are attached there are none, every
\* name that is wanted is settled or still to be looked up, and in the end each
\* package has the link that was found, unless the lookup never took place.
LinkInv ==
  /\ ExactInv /\ WellCut(todo) /\ FoundRight
  /\ pc \in {"start", "annotate", "enrich", "lookup"} => NoLinks
  /\ pc = "lookup" =>
       NixpkgsRef # Absent /\ \A n \in Wanted : n \in NamesIn(todo) \/ Settled(n)
  /\ pc \in {"fold", "done"} /\ status # "error" /\ input.moved =>
       \/ NoLinks /\ Wanted \subseteq lost
       \/ /\ NixpkgsRef # Absent
          /\ \A c \in changes : c.changelog = LinkFor(c)
          /\ \A n \in Wanted : Settled(n)
  /\ ~input.moved => pc \in {"start", "done"} /\ \A side \in Sides : inv[side] = None

\* Nothing is found, and nothing lost, before the lookup.
LEMMA LinkInvInit == Init => LinkInv
<1>. SUFFICES ASSUME Init PROVE LinkInv
  OBVIOUS
<1>1. ExactInv /\ WellCut(todo)
  BY ExactInvInit DEF Init, WellCut
<1>. QED  BY <1>1 DEF Init, LinkInv, FoundRight, NoLinks

\* A package whose changelog is looked up is one of the two closures'.
LEMMA WantedAreNames ==
  ASSUME ExactInv, pc # "start", status # "error"
  PROVE  Wanted \subseteq Range(Order)
<1>. SUFFICES ASSUME NEW c \in changes PROVE Candidates(c) \subseteq Range(Order)
  BY DEF Wanted, Arrivals
<1>1. c.old # c.new /\ c.old = TrueVersions("before", c.name)
      /\ c.new = TrueVersions("after", c.name)
  BY DEF ExactInv, Exact
<1>2. c.name \in PackageNames(Packages(input.before \cup input.after))
  BY <1>1 DEF TrueVersions, Versions, Packages, PackageNames
<1>. QED  BY <1>2, NamesAssumption DEF ExactInv, Candidates

\* What is wanted depends on the names and kinds of the changes alone.
LEMMA RewriteWanted ==
  ASSUME \A c \in changes' : \E b \in changes : c.name = b.name /\ c.kind = b.kind
  PROVE  Wanted' \subseteq Wanted
BY DEF Wanted, Arrivals, Candidates

\* Every step keeps the names that are wanted accounted for.
LEMMA LinkInvNext == LinkInv /\ [Next]_vars => LinkInv'
<1>. SUFFICES ASSUME LinkInv, [Next]_vars PROVE LinkInv'
  OBVIOUS
<1>1. ExactInv'
  BY ExactInvNext DEF LinkInv
<1>2. CASE Fail
  <2>1. WellCut(todo)' /\ FoundRight'
    BY <1>2 DEF Fail, LinkInv, WellCut, Fits, FoundRight
  <2>. QED  BY <1>1, <1>2, <2>1 DEF LinkInv, Fail
<1>3. ASSUME UNCHANGED <<input, changes, todo, found, lost>>,
             \/ pc' = pc /\ status' = status
             \/ pc' = "done" /\ ~input.moved
             \/ pc' = "done" /\ pc = "fold",
             ~input.moved => UNCHANGED inv
      PROVE  LinkInv'
  <2>1. WellCut(todo)' /\ FoundRight' /\ (NoLinks' <=> NoLinks)
    BY <1>3 DEF LinkInv, WellCut, Fits, FoundRight, NoLinks
  <2>2. \A n : Settled(n)' <=> Settled(n)
    BY <1>3 DEF Settled
  <2>3. NixpkgsRef' = NixpkgsRef
    BY <1>3 DEF NixpkgsRef
  <2>4. \A c : LinkFor(c)' = LinkFor(c)
    BY <1>3, <2>3 DEF LinkFor
  <2>5. Wanted' = Wanted
    BY <1>3 DEF Wanted, Arrivals
  <2>6. pc = "fold" => status # "error"
    BY DEF LinkInv, ExactInv
  <2>7. (pc \in {"start", "annotate", "enrich", "lookup"} => NoLinks)'
    <3>1. pc' \in {"start", "annotate", "enrich", "lookup"}
            => pc \in {"start", "annotate", "enrich", "lookup"}
      BY <1>3
    <3>2. pc \in {"start", "annotate", "enrich", "lookup"} => NoLinks
      BY DEF LinkInv
    <3>. QED  BY <2>1, <3>1, <3>2
  <2>8. (pc = "lookup" =>
           NixpkgsRef # Absent /\ \A n \in Wanted : n \in NamesIn(todo) \/ Settled(n))'
    BY <1>3, <2>2, <2>3, <2>5 DEF LinkInv
  <2>9. (pc \in {"fold", "done"} /\ status # "error" /\ input.moved =>
           \/ NoLinks /\ Wanted \subseteq lost
           \/ /\ NixpkgsRef # Absent
              /\ \A c \in changes : c.changelog = LinkFor(c)
              /\ \A n \in Wanted : Settled(n))'
    <3>1. pc' \in {"fold", "done"} /\ status' # "error" /\ input'.moved
            => pc \in {"fold", "done"} /\ status # "error" /\ input.moved
      BY <1>3, <2>6
    <3>. QED  BY <1>3, <2>1, <2>2, <2>3, <2>4, <2>5, <3>1 DEF LinkInv
  <2>10. (~input.moved => pc \in {"start", "done"} /\ \A side \in Sides : inv[side] = None)'
    BY <1>3 DEF LinkInv
  <2>. QED  BY <1>1, <2>1, <2>7, <2>8, <2>9, <2>10 DEF LinkInv
<1>4. CASE UpToDate \/ Fold \/ UNCHANGED vars
  BY <1>3, <1>4 DEF UpToDate, Fold, vars
<1>5. ASSUME NEW side \in Sides, Read(side) PROVE LinkInv'
  <2>1. Fail \/ UNCHANGED <<input, pc, changes, todo, found, lost, status>>
    BY <1>5 DEF Read
  <2>2. input.moved
    BY <1>5 DEF Read
  <2>. QED  BY <1>2, <1>3, <2>1, <2>2
<1>6. CASE Diff
  <2>1. CASE ~Checkable(inv["before"], inv["after"])
    BY <1>2, <1>6, <2>1 DEF Diff
  <2>2. CASE Checkable(inv["before"], inv["after"])
    <3>1. NoLinks' /\ pc' = "annotate" /\ UNCHANGED <<input, todo, found, lost>>
      BY <1>6, <2>2 DEF Diff, NoLinks, WithDefaults
    <3>2. WellCut(todo)' /\ FoundRight'
      BY <3>1 DEF LinkInv, WellCut, Fits, FoundRight
    <3>3. input.moved
      BY <1>6 DEF Diff, LinkInv, Sides
    <3>. QED  BY <1>1, <3>1, <3>2, <3>3 DEF LinkInv
  <2>. QED  BY <2>1, <2>2
<1>7. CASE Annotate
  <2>1. pc = "annotate" /\ pc' = "enrich" /\ UNCHANGED <<input, inv, todo, found, lost>>
    BY <1>7 DEF Annotate
  <2>2. WellCut(todo)' /\ FoundRight'
    BY <2>1 DEF LinkInv, WellCut, Fits, FoundRight
  <2>3. NoLinks
    BY <2>1 DEF LinkInv
  <2>4. NoLinks'
    <3>1. CASE UNCHANGED changes
      BY <2>3, <3>1 DEF NoLinks
    <3>2. ASSUME NEW names,
                 changes' = {[c EXCEPT !.runtime = ContainsPackage(names, c.name)] : c \in changes}
          PROVE  NoLinks'
      <4>1. \A c \in changes : [c EXCEPT !.runtime = ContainsPackage(names, c.name)].changelog = None
        BY <2>3, RewriteFields DEF NoLinks, LinkInv, ExactInv
      <4>. QED  BY <3>2, <4>1 DEF NoLinks
    <3>. QED  BY <1>7, <3>1, <3>2 DEF Annotate
  <2>. QED  BY <1>1, <2>1, <2>2, <2>4 DEF LinkInv
<1>8. CASE PlanLookups
  <2>1. pc = "enrich" /\ UNCHANGED <<input, inv, changes, found, status>>
    BY <1>8 DEF PlanLookups
  <2>2. FoundRight' /\ NoLinks' /\ Wanted' = Wanted /\ NixpkgsRef' = NixpkgsRef
    BY <2>1 DEF LinkInv, FoundRight, NoLinks, Wanted, Arrivals, NixpkgsRef
  <2>3. input.moved
    BY <2>1 DEF LinkInv
  <2>4. CASE pc' = "fold" /\ lost' = Wanted /\ UNCHANGED todo
    <3>1. WellCut(todo)'
      BY <2>4 DEF LinkInv, WellCut, Fits
    <3>. QED  BY <1>1, <2>1, <2>2, <2>3, <2>4, <3>1 DEF LinkInv
  <2>5. CASE NixpkgsRef # Absent /\ todo' = Batches(Kept(Order, Wanted)) /\ pc' = "lookup"
    <3>. DEFINE names == Kept(Order, Wanted)
    <3>1. names \in Seq(Lookups) /\ Range(names) = Range(Order) \cap Wanted
      BY NamesAssumption, KeptElements DEF Lookups
    <3>2. Wanted \subseteq Range(Order)
      <4>1. ExactInv /\ pc # "start" /\ status # "error"
        BY <2>1 DEF LinkInv, ExactInv
      <4>. QED  BY <4>1, WantedAreNames
    <3>. HIDE DEF names
    <3>3. WellCut(todo') /\ NamesIn(todo') = Wanted
      BY <2>5, <3>1, <3>2, BatchesWellCut DEF names
    <3>4. WellCut(todo)'
      BY <3>3 DEF WellCut, Fits
    <3>5. (NixpkgsRef # Absent /\ \A n \in Wanted : n \in NamesIn(todo) \/ Settled(n))'
      BY <2>2, <2>5, <3>3
    <3>. QED  BY <1>1, <2>1, <2>2, <2>3, <2>5, <3>4, <3>5 DEF LinkInv
  <2>. QED  BY <1>8, <2>4, <2>5 DEF PlanLookups
<1>9. CASE LookUp
  <2>. DEFINE batch == Range(Head(todo))
  <2>1. /\ pc = "lookup" /\ todo # <<>> /\ todo' = Tail(todo)
        /\ UNCHANGED <<input, pc, inv, changes, status>>
    BY <1>9 DEF LookUp, AfterFailure
  <2>2. \/ /\ found' = found \cup {<<n, UrlOf(n)>> : n \in {b \in batch : UsableUrls(b) # {}}}
           /\ UNCHANGED lost
        \/ lost' = lost \cup batch /\ UNCHANGED found
    BY <1>9, Zenon DEF LookUp, Range
  <2>3. /\ WellCut(todo') /\ NamesIn(todo) = batch \cup NamesIn(todo')
        /\ batch \subseteq Lookups
    <3>1. Head(todo) \in Seq(Lookups)
      BY <2>1, WellCutTail DEF LinkInv
    <3>2. Range(Head(todo)) \subseteq Lookups
      BY <3>1 DEF Range
    <3>. QED  BY <2>1, <3>2, WellCutTail DEF LinkInv
  <2>. HIDE DEF batch
  <2>4. WellCut(todo)'
    BY <2>3 DEF WellCut, Fits
  <2>5. FoundRight'
    BY <2>2, <2>3 DEF LinkInv, FoundRight
  <2>6. NoLinks' /\ Wanted' = Wanted /\ NixpkgsRef' = NixpkgsRef
    BY <2>1 DEF LinkInv, NoLinks, Wanted, Arrivals, NixpkgsRef
  <2>7. ASSUME NEW n \in Wanted PROVE n \in NamesIn(todo') \/ Settled(n)'
    <3>1. n \in batch \cup NamesIn(todo') \/ Settled(n)
      BY <2>1, <2>3 DEF LinkInv
    <3>2. n \in batch \/ Settled(n) => Settled(n)'
      BY <2>2 DEF Settled
    <3>. QED  BY <3>1, <3>2
  <2>8. (\A n \in Wanted : n \in NamesIn(todo) \/ Settled(n))'
    BY <2>6, <2>7
  <2>. QED  BY <1>1, <2>1, <2>4, <2>5, <2>6, <2>8 DEF LinkInv
<1>10. CASE Attach
  <2>1. /\ pc = "lookup" /\ todo = <<>> /\ pc' = "fold"
        /\ UNCHANGED <<input, inv, todo, found, lost, status>>
        /\ changes' = {[c EXCEPT !.changelog = LinkFor(c)] : c \in changes}
    BY <1>10 DEF Attach
  <2>2. WellCut(todo)' /\ FoundRight' /\ NixpkgsRef' = NixpkgsRef
    BY <2>1 DEF LinkInv, WellCut, Fits, FoundRight, NixpkgsRef
  <2>3. \A c : LinkFor(c)' = LinkFor(c)
    BY <2>1, <2>2 DEF LinkFor
  <2>4. ASSUME NEW c \in changes'
        PROVE  /\ \E b \in changes : c.name = b.name /\ c.kind = b.kind
               /\ c.changelog = LinkFor(c)
    <3>1. PICK b \in changes : c = [b EXCEPT !.changelog = LinkFor(b)]
      BY <2>1
    <3>2. c.name = b.name /\ c.kind = b.kind /\ c.changelog = LinkFor(b)
      <4>1. c = [name |-> b.name, old |-> b.old, new |-> b.new, kind |-> b.kind,
                 runtime |-> b.runtime, changelog |-> LinkFor(b)]
        BY <3>1, RewriteFields DEF LinkInv, ExactInv
      <4>. HIDE <3>1
      <4>. QED  BY <4>1
    <3>3. LinkFor(b) = LinkFor(c)
      BY <3>2 DEF LinkFor
    <3>. QED  BY <3>2, <3>3
  <2>5. Wanted' \subseteq Wanted
    BY <2>4, RewriteWanted
  <2>6. \A n \in Wanted : Settled(n)
    BY <2>1 DEF LinkInv, NamesIn
  <2>7. (\A n \in Wanted : Settled(n))'
    BY <2>1, <2>5, <2>6 DEF Settled
  <2>8. (\A c \in changes : c.changelog = LinkFor(c))'
    BY <2>3, <2>4
  <2>9. NixpkgsRef # Absent /\ input.moved
    BY <2>1 DEF LinkInv
  <2>. QED  BY <1>1, <2>1, <2>2, <2>7, <2>8, <2>9 DEF LinkInv
<1>. QED  BY <1>4, <1>5, <1>6, <1>7, <1>8, <1>9, <1>10 DEF Next

\* However the batches are cut and whichever of them fail: a package that
\* arrives has its link, unless its own names were lost.
THEOREM FailedBatchCostsItself == Spec => []OneBatchCosts
<1>1. ASSUME LinkInv PROVE OneBatchCosts
  <2>. SUFFICES ASSUME Reported, input.moved, NEW c \in Arrivals
                PROVE  /\ UsableUrls(c.name) # {} /\ c.name \notin lost =>
                            c.changelog # None /\ c.changelog.attr = c.name
                       /\ c.changelog = None =>
                            \A n \in Candidates(c) : UsableUrls(n) = {} \/ n \in lost
    BY DEF OneBatchCosts
  <2>1. c \in changes /\ Candidates(c) \subseteq Wanted /\ c.name \in Candidates(c)
    BY CandidateNames DEF Arrivals, Wanted, Candidates
  <2>2. CASE NoLinks /\ Wanted \subseteq lost
    BY <2>1, <2>2 DEF NoLinks
  <2>3. CASE /\ NixpkgsRef # Absent
             /\ \A b \in changes : b.changelog = LinkFor(b)
             /\ \A n \in Wanted : Settled(n)
    <3>1. FoundRight /\ LinkSource \in Sources \cup {None}
      BY <1>1, <2>3 DEF LinkInv, ExactInv, LinkSource, Sources, NixpkgsRef
    <3>2. \A n \in Candidates(c) : UsableUrls(n) = {} \/ n \in lost \/ FoundFor(n)
      <4>1. ASSUME NEW n, <<n, UrlOf(n)>> \in found PROVE FoundFor(n)
        <5>1. UrlOf(n) \in {f[2] : f \in found}
          BY <4>1
        <5>. QED  BY <4>1, <5>1 DEF FoundFor
      <4>. QED  BY <2>1, <2>3, <4>1 DEF Settled
    <3>. QED  BY <2>1, <2>3, <3>1, <3>2, LinkForFound
  <2>. QED  BY <1>1, <2>2, <2>3 DEF LinkInv, Reported
<1>. QED  BY <1>1, LinkInvInit, LinkInvNext, PTL DEF Spec

-----------------------------------------------------------------------------
(* Flake refs: reading one gives back what was written.                        *)

SplitStep(sep, acc, c) ==
  IF c = sep THEN Append(acc, <<>>) ELSE [acc EXCEPT ![Len(acc)] = Append(@, c)]
ParamStep(out, p) == out \o <<IF Contains(out, "?") THEN "&" ELSE "?">> \o p
Splits == Seq(Seq(Letters)) \ {<<>>}

\* Filtering a list, element by element.
LEMMA KeptAppend ==
  ASSUME NEW X, NEW P, NEW seq \in Seq(X), NEW x \in X
  PROVE  Kept(Append(seq, x), P) = KeptStep(P, Kept(seq, P), x)
<1>. DEFINE longer == Append(seq, x)
<1>1. PICK at : /\ at[0] = <<>> /\ Kept(seq, P) = at[Len(seq)]
                /\ \A k \in 1 .. Len(seq) : at[k] = KeptStep(P, at[k - 1], seq[k])
  BY KeptSteps
<1>2. /\ longer \in Seq(X) /\ Len(seq) \in Nat /\ Len(longer) = Len(seq) + 1 /\ longer[Len(longer)] = x
      /\ \A i \in 1 .. Len(seq) : longer[i] = seq[i]
  OBVIOUS
<1>. HIDE DEF longer
<1>3. PICK bt : /\ bt[0] = <<>> /\ Kept(longer, P) = bt[Len(longer)]
                /\ \A k \in 1 .. Len(longer) : bt[k] = KeptStep(P, bt[k - 1], longer[k])
  <2>1. longer \in Seq(X)
    BY <1>2
  <2>. QED  BY ONLY <2>1, KeptSteps
<1>. DEFINE agree == {k \in 0 .. Len(seq) : bt[k] = at[k]}
<1>4. 0 \in agree
  <2>1. bt[0] = at[0]
    BY <1>1, <1>3, Zenon
  <2>2. 0 \in 0 .. Len(seq)
    BY <1>2
  <2>. QED  BY <2>1, <2>2
<1>5. ASSUME NEW k \in 1 .. Len(seq), k - 1 \in agree PROVE k \in agree
  <2>1. k \in 1 .. Len(longer) /\ longer[k] = seq[k] /\ bt[k - 1] = at[k - 1]
    BY <1>2, <1>5
  <2>2. bt[k] = KeptStep(P, bt[k - 1], longer[k]) /\ at[k] = KeptStep(P, at[k - 1], seq[k])
    BY <1>1, <1>3, <2>1
  <2>. QED  BY <2>1, <2>2
<1>. HIDE DEF agree
<1>6. 0 .. Len(seq) \subseteq agree
  BY <1>2, <1>4, <1>5, IntervalInduction
<1>7. bt[Len(seq)] = at[Len(seq)]
  <2>1. Len(seq) \in 0 .. Len(seq)
    BY <1>2
  <2>. QED  BY <1>6, <2>1, Zenon DEF agree
<1>8. Len(longer) \in 1 .. Len(longer) /\ Len(longer) - 1 = Len(seq)
  BY <1>2
<1>. QED  BY <1>1, <1>2, <1>3, <1>7, <1>8 DEF longer

\* Extending the last piece of a text that has been split.
LEMMA LastExtends ==
  ASSUME NEW acc \in Splits, NEW c \in Letters
  PROVE  /\ [acc EXCEPT ![Len(acc)] = Append(@, c)] \in Splits
         /\ Len([acc EXCEPT ![Len(acc)] = Append(@, c)]) = Len(acc)
<1>1. acc \in Seq(Seq(Letters)) /\ Len(acc) \in 1 .. Len(acc)
  BY DEF Splits
<1>2. acc[Len(acc)] \in Seq(Letters)
  BY <1>1, ElementOfSeq
<1>3. Append(acc[Len(acc)], c) \in Seq(Letters)
  BY <1>2
<1>. DEFINE d == [acc EXCEPT ![Len(acc)] = Append(acc[Len(acc)], c)]
<1>4. d \in Seq(Seq(Letters))
  BY <1>1, <1>3, ExceptSeq
<1>5. Len(d) = Len(acc)
  BY <1>1
<1>6. d # <<>>
  BY <1>1, <1>5
<1>. QED  BY <1>4, <1>5, <1>6 DEF Splits

\* Splitting a text closes the last piece at each separator.
LEMMA SplitSteps ==
  ASSUME NEW t \in Seq(Letters), NEW sep
  PROVE  \E at : /\ at[0] = << <<>> >> /\ Split(t, sep) = at[Len(t)]
                 /\ \A k \in 1 .. Len(t) :
                      at[k] = SplitStep(sep, at[k - 1], t[k])
<1>. DEFINE N == Len(t)
            A == Splits
            step(acc, c) == SplitStep(sep, acc, c)
            F == [i \in 1 .. N |-> [acc \in A |-> step(acc, t[i])]]
            Folds(f) == f = [s \in SUBSET (1 .. N) |->
                               IF s = {} THEN << <<>> >> ELSE step(f[s \ {Max(s)}], t[Max(s)])]
            G == CHOOSE f : Folds(f)
            at == [k \in 0 .. N |-> G[1 .. k]]
<1>1. N \in Nat /\ DOMAIN t = 1 .. N /\ \A i \in 1 .. N : t[i] \in Letters
  OBVIOUS
<1>2. Split(t, sep) = G[1 .. N]
  BY <1>1, Zenon DEF Split, SplitStep, FoldLeft, MapThenFoldSet
<1>3. ASSUME NEW acc \in A, NEW c \in Letters PROVE step(acc, c) \in A
  <2>1. Append(acc, <<>>) \in Splits
    BY <1>3 DEF Splits
  <2>2. [acc EXCEPT ![Len(acc)] = Append(@, c)] \in Splits
    BY <1>3, LastExtends
  <2>. QED  BY <2>1, <2>2 DEF SplitStep
<1>4. Folds(G)
  <2>1. PICK f : IsFold(f, A, << <<>> >>, N, F)
    <3>1. \A i \in 1 .. N : \A acc \in A : F[i][acc] \in A
      <4>. HIDE DEF A, step
      <4>. QED  BY <1>1, <1>3
    <3>2. << <<>> >> \in A
      BY DEF Splits
    <3>. HIDE DEF F, A
    <3>. QED  BY <3>1, <3>2, <1>1, FoldExists
  <2>2. ASSUME NEW s \in SUBSET (1 .. N), s # {}
        PROVE  F[Max(s)][f[s \ {Max(s)}]] = step(f[s \ {Max(s)}], t[Max(s)])
    <3>1. Max(s) \in 1 .. N
      BY <1>1, <2>2, MaxIsElement
    <3>2. f[s \ {Max(s)}] \in A
      BY <1>1, <2>1 DEF IsFold
    <3>. HIDE DEF step, A
    <3>. QED  BY <3>1, <3>2
  <2>3. Folds(f)
    <3>. HIDE DEF F, step, A
    <3>. QED  BY <2>1, <2>2 DEF IsFold
  <2>. HIDE DEF Folds
  <2>. QED  BY <2>3, Zenon
<1>. HIDE DEF G
<1>5. at[0] = << <<>> >>
  BY <1>1, <1>4, FoldDomains
<1>6. ASSUME NEW k \in 1 .. N PROVE at[k] = step(at[k - 1], t[k])
  <2>1. G[1 .. k] = step(G[(1 .. k) \ {k}], t[k])
    <3>1. 1 .. k \in SUBSET (1 .. N) /\ 1 .. k # {} /\ Max(1 .. k) = k
      BY <1>1, FoldDomains
    <3>. HIDE DEF step
    <3>. QED  BY <1>4, <3>1, Zenon
  <2>2. k \in 0 .. N /\ k - 1 \in 0 .. N
    BY <1>1
  <2>3. at[k] = G[1 .. k] /\ at[k - 1] = G[(1 .. k) \ {k}]
    BY <1>1, <2>2, FoldDomains
  <2>. HIDE DEF at, step
  <2>. QED  BY <2>1, <2>3
<1>7. at[N] = G[1 .. N]
  BY <1>1
<1>. HIDE DEF at
<1>. QED  BY <1>2, <1>5, <1>6, <1>7

\* The split of no text has one part, which is empty.
LEMMA SplitNone ==
  ASSUME NEW sep
  PROVE  Split(<<>>, sep) = << <<>> >>
<1>1. <<>> \in Seq(Letters) /\ Len(<<>>) = 0
  OBVIOUS
<1>2. \E at : at[0] = << <<>> >> /\ Split(<<>>, sep) = at[Len(<<>>)]
  BY <1>1, SplitSteps
<1>. QED  BY <1>1, <1>2

\* One more character is one more step of the split.
LEMMA SplitAppend ==
  ASSUME NEW sep, NEW t \in Seq(Letters), NEW x \in Letters
  PROVE  Split(Append(t, x), sep) = SplitStep(sep, Split(t, sep), x)
<1>. DEFINE longer == Append(t, x)
<1>1. PICK at : /\ at[0] = << <<>> >> /\ Split(t, sep) = at[Len(t)]
                /\ \A k \in 1 .. Len(t) : at[k] = SplitStep(sep, at[k - 1], t[k])
  BY SplitSteps, ZenonT(60)
<1>2. /\ longer \in Seq(Letters) /\ Len(t) \in Nat /\ Len(longer) = Len(t) + 1 /\ longer[Len(longer)] = x
      /\ \A i \in 1 .. Len(t) : longer[i] = t[i]
  OBVIOUS
<1>. HIDE DEF longer
<1>3. PICK bt : /\ bt[0] = << <<>> >> /\ Split(longer, sep) = bt[Len(longer)]
                /\ \A k \in 1 .. Len(longer) : bt[k] = SplitStep(sep, bt[k - 1], longer[k])
  <2>1. longer \in Seq(Letters)
    BY <1>2
  <2>. QED  BY ONLY <2>1, SplitSteps, ZenonT(90)
<1>. DEFINE agree == {k \in 0 .. Len(t) : bt[k] = at[k]}
<1>4. 0 \in agree
  <2>1. bt[0] = at[0]
    BY <1>1, <1>3, Zenon
  <2>2. 0 \in 0 .. Len(t)
    BY <1>2
  <2>. QED  BY <2>1, <2>2
<1>5. ASSUME NEW k \in 1 .. Len(t), k - 1 \in agree PROVE k \in agree
  <2>1. k \in 1 .. Len(longer) /\ longer[k] = t[k] /\ bt[k - 1] = at[k - 1]
    BY <1>2, <1>5
  <2>2. bt[k] = SplitStep(sep, bt[k - 1], longer[k]) /\ at[k] = SplitStep(sep, at[k - 1], t[k])
    BY <1>1, <1>3, <2>1
  <2>. QED  BY <2>1, <2>2
<1>. HIDE DEF agree
<1>6. 0 .. Len(t) \subseteq agree
  BY <1>2, <1>4, <1>5, IntervalInduction
<1>7. bt[Len(t)] = at[Len(t)]
  <2>1. Len(t) \in 0 .. Len(t)
    BY <1>2
  <2>. QED  BY <1>6, <2>1, Zenon DEF agree
<1>8. Len(longer) \in 1 .. Len(longer) /\ Len(longer) - 1 = Len(t)
  BY <1>2
<1>. QED  BY <1>1, <1>2, <1>3, <1>7, <1>8 DEF longer

\* The marks of a query and of a path are characters of a ref.
LEMMA MarksAreLetters == {"?", "&", "/"} \subseteq Letters
BY CharsAssumption DEF Letters

\* Parameters are added one after the other.
LEMMA WithParamsSteps ==
  ASSUME NEW base \in Seq(Letters), NEW params \in Seq(Seq(Letters))
  PROVE  \E at : /\ at[0] = base /\ WithParams(base, params) = at[Len(params)]
                 /\ \A k \in 1 .. Len(params) :
                      at[k] = ParamStep(at[k - 1], params[k])
<1>. DEFINE N == Len(params)
            A == Seq(Letters)
            step(out, p) == ParamStep(out, p)
            F == [i \in 1 .. N |-> [out \in A |-> step(out, params[i])]]
            Folds(f) == f = [s \in SUBSET (1 .. N) |->
                               IF s = {} THEN base ELSE step(f[s \ {Max(s)}], params[Max(s)])]
            G == CHOOSE f : Folds(f)
            at == [k \in 0 .. N |-> G[1 .. k]]
<1>1. N \in Nat /\ DOMAIN params = 1 .. N /\ \A i \in 1 .. N : params[i] \in Seq(Letters)
  OBVIOUS
<1>2. WithParams(base, params) = G[1 .. N]
  BY <1>1, Zenon DEF WithParams, ParamStep, FoldLeft, MapThenFoldSet
<1>3. ASSUME NEW out \in A, NEW p \in Seq(Letters) PROVE step(out, p) \in A
  <2>1. <<IF Contains(out, "?") THEN "&" ELSE "?">> \in Seq(Letters)
    BY MarksAreLetters
  <2>. QED  BY <1>3, <2>1, ConcatProperties DEF ParamStep
<1>4. Folds(G)
  <2>1. PICK f : IsFold(f, A, base, N, F)
    <3>1. \A i \in 1 .. N : \A out \in A : F[i][out] \in A
      <4>. HIDE DEF A, step
      <4>. QED  BY <1>1, <1>3
    <3>2. base \in A
    OBVIOUS
    <3>. HIDE DEF F, A
    <3>. QED  BY <3>1, <3>2, <1>1, FoldExists
  <2>2. ASSUME NEW s \in SUBSET (1 .. N), s # {}
        PROVE  F[Max(s)][f[s \ {Max(s)}]] = step(f[s \ {Max(s)}], params[Max(s)])
    <3>1. Max(s) \in 1 .. N
      BY <1>1, <2>2, MaxIsElement
    <3>2. f[s \ {Max(s)}] \in A
      BY <1>1, <2>1 DEF IsFold
    <3>. HIDE DEF step, A
    <3>. QED  BY <3>1, <3>2
  <2>3. Folds(f)
    <3>. HIDE DEF F, step, A
    <3>. QED  BY <2>1, <2>2 DEF IsFold
  <2>. HIDE DEF Folds
  <2>. QED  BY <2>3, Zenon
<1>. HIDE DEF G
<1>5. at[0] = base
  BY <1>1, <1>4, FoldDomains
<1>6. ASSUME NEW k \in 1 .. N PROVE at[k] = step(at[k - 1], params[k])
  <2>1. G[1 .. k] = step(G[(1 .. k) \ {k}], params[k])
    <3>1. 1 .. k \in SUBSET (1 .. N) /\ 1 .. k # {} /\ Max(1 .. k) = k
      BY <1>1, FoldDomains
    <3>. HIDE DEF step
    <3>. QED  BY <1>4, <3>1, Zenon
  <2>2. k \in 0 .. N /\ k - 1 \in 0 .. N
    BY <1>1
  <2>3. at[k] = G[1 .. k] /\ at[k - 1] = G[(1 .. k) \ {k}]
    BY <1>1, <2>2, FoldDomains
  <2>. HIDE DEF at, step
  <2>. QED  BY <2>1, <2>3
<1>7. at[N] = G[1 .. N]
  BY <1>1
<1>. HIDE DEF at
<1>. QED  BY <1>2, <1>5, <1>6, <1>7

\* A ref that is given no parameter stays as it is.
LEMMA WithParamsNone ==
  ASSUME NEW base \in Seq(Letters)
  PROVE  WithParams(base, <<>>) = base
<1>1. /\ <<>> \in Seq(Seq(Letters)) /\ Len(<<>>) = 0
  OBVIOUS
<1>2. PICK at : at[0] = base /\ WithParams(base, <<>>) = at[Len(<<>>)]
  <2>. DEFINE none == <<>>
  <2>1. none \in Seq(Seq(Letters))
    OBVIOUS
  <2>. HIDE DEF none
  <2>2. \E at : at[0] = base /\ WithParams(base, none) = at[Len(none)]
    BY <2>1, WithParamsSteps
  <2>. QED  BY <2>2 DEF none
<1>. QED  BY <1>1, <1>2

\* One more parameter is one more step.
LEMMA WithParamsAppend ==
  ASSUME NEW base \in Seq(Letters), NEW params \in Seq(Seq(Letters)), NEW p \in Seq(Letters)
  PROVE  WithParams(base, Append(params, p)) = ParamStep(WithParams(base, params), p)
<1>. DEFINE longer == Append(params, p)
<1>1. PICK at : /\ at[0] = base /\ WithParams(base, params) = at[Len(params)]
                /\ \A k \in 1 .. Len(params) : at[k] = ParamStep(at[k - 1], params[k])
  BY WithParamsSteps
<1>2. /\ longer \in Seq(Seq(Letters)) /\ Len(params) \in Nat /\ Len(longer) = Len(params) + 1 /\ longer[Len(longer)] = p
      /\ \A i \in 1 .. Len(params) : longer[i] = params[i]
  OBVIOUS
<1>. HIDE DEF longer
<1>3. PICK bt : /\ bt[0] = base /\ WithParams(base, longer) = bt[Len(longer)]
                /\ \A k \in 1 .. Len(longer) : bt[k] = ParamStep(bt[k - 1], longer[k])
  <2>1. longer \in Seq(Seq(Letters))
    BY <1>2
  <2>. QED  BY ONLY <2>1, WithParamsSteps
<1>. DEFINE agree == {k \in 0 .. Len(params) : bt[k] = at[k]}
<1>4. 0 \in agree
  <2>1. bt[0] = at[0]
    BY <1>1, <1>3, Zenon
  <2>2. 0 \in 0 .. Len(params)
    BY <1>2
  <2>. QED  BY <2>1, <2>2
<1>5. ASSUME NEW k \in 1 .. Len(params), k - 1 \in agree PROVE k \in agree
  <2>1. k \in 1 .. Len(longer) /\ longer[k] = params[k] /\ bt[k - 1] = at[k - 1]
    BY <1>2, <1>5
  <2>2. bt[k] = ParamStep(bt[k - 1], longer[k]) /\ at[k] = ParamStep(at[k - 1], params[k])
    BY <1>1, <1>3, <2>1
  <2>. QED  BY <2>1, <2>2
<1>. HIDE DEF agree
<1>6. 0 .. Len(params) \subseteq agree
  BY <1>2, <1>4, <1>5, IntervalInduction
<1>7. bt[Len(params)] = at[Len(params)]
  <2>1. Len(params) \in 0 .. Len(params)
    BY <1>2
  <2>. QED  BY <1>6, <2>1, Zenon DEF agree
<1>8. Len(longer) \in 1 .. Len(longer) /\ Len(longer) - 1 = Len(params)
  BY <1>2
<1>. QED  BY <1>1, <1>2, <1>3, <1>7, <1>8 DEF longer

\* Where the parts of a text that is put together have a character.
LEMMA ContainsParts ==
  ASSUME NEW X, NEW s \in Seq(X), NEW t \in Seq(X), NEW e
  PROVE  Contains(s \o t, e) <=> Contains(s, e) \/ Contains(t, e)
<1>1. /\ s \o t \in Seq(X) /\ Len(s \o t) = Len(s) + Len(t) /\ Len(s) \in Nat /\ Len(t) \in Nat
      /\ \A i \in 1 .. Len(s) + Len(t) :
           (s \o t)[i] = IF i <= Len(s) THEN s[i] ELSE t[i - Len(s)]
  BY ConcatProperties
<1>2. ASSUME NEW i \in 1 .. Len(s \o t), (s \o t)[i] = e PROVE Contains(s, e) \/ Contains(t, e)
  <2>1. CASE i <= Len(s)
    BY <1>1, <1>2, <2>1 DEF Contains
  <2>2. CASE i > Len(s)
    <3>1. i - Len(s) \in 1 .. Len(t) /\ t[i - Len(s)] = e
      BY <1>1, <1>2, <2>2
    <3>. QED  BY <3>1 DEF Contains
  <2>. QED  BY <1>1, <2>1, <2>2
<1>3. ASSUME NEW i \in 1 .. Len(s), s[i] = e PROVE Contains(s \o t, e)
  <2>1. i \in 1 .. Len(s \o t) /\ (s \o t)[i] = e
    BY <1>1, <1>3
  <2>. QED  BY <2>1 DEF Contains
<1>4. ASSUME NEW i \in 1 .. Len(t), t[i] = e PROVE Contains(s \o t, e)
  <2>1. Len(s) + i \in 1 .. Len(s \o t) /\ (s \o t)[Len(s) + i] = e
    BY <1>1, <1>4
  <2>. QED  BY <2>1 DEF Contains
<1>. QED  BY <1>2, <1>3, <1>4 DEF Contains

\* A text of one character, and one that is longer by one.
LEMMA ContainsOne ==
  ASSUME NEW x, NEW e
  PROVE  /\ Contains(<<x>>, e) <=> x = e
         /\ ~Contains(<<>>, e)
         /\ \A X : \A s \in Seq(X) : x \in X => (Contains(Append(s, x), e) <=> Contains(s, e) \/ x = e)
<1>1. Contains(<<x>>, e) <=> x = e
  BY DEF Contains
<1>2. ~Contains(<<>>, e)
  BY DEF Contains
<1>3. ASSUME NEW X, NEW s \in Seq(X), x \in X
      PROVE  Contains(Append(s, x), e) <=> Contains(s, e) \/ x = e
  <2>1. Append(s, x) = s \o <<x>> /\ <<x>> \in Seq(X)
    BY <1>3, AppendIsConcat
  <2>2. Contains(s \o <<x>>, e) <=> Contains(s, e) \/ Contains(<<x>>, e)
    BY <2>1, ContainsParts
  <2>. QED  BY <1>1, <2>1, <2>2, Zenon
<1>. QED  BY <1>1, <1>2, <1>3

\* The last piece is open until the next separator.
LEMMA SplitOnce ==
  ASSUME NEW sep, NEW p \in Seq(Seq(Letters)), NEW l \in Seq(Letters), NEW x \in Letters
  PROVE  /\ Append(p, l) \in Splits
         /\ x = sep => SplitStep(sep, Append(p, l), x) = Append(Append(p, l), <<>>)
         /\ x # sep => SplitStep(sep, Append(p, l), x) = Append(p, Append(l, x))
<1>. DEFINE acc == Append(p, l)
<1>1. /\ acc \in Seq(Seq(Letters)) /\ acc # <<>> /\ Len(acc) = Len(p) + 1 /\ Len(p) \in Nat
      /\ acc[Len(acc)] = l /\ \A i \in 1 .. Len(p) : acc[i] = p[i]
  BY AppendProperties
<1>2. Append(l, x) \in Seq(Letters)
  BY AppendProperties
<1>. DEFINE longer == Append(p, Append(l, x))
<1>3. /\ longer \in Seq(Seq(Letters)) /\ Len(longer) = Len(p) + 1
      /\ longer[Len(p) + 1] = Append(l, x) /\ \A i \in 1 .. Len(p) : longer[i] = p[i]
  BY <1>2, AppendProperties
<1>. HIDE DEF acc, longer
<1>4. [acc EXCEPT ![Len(acc)] = Append(acc[Len(acc)], x)] = longer
  <2>. DEFINE e == [acc EXCEPT ![Len(acc)] = Append(l, x)]
  <2>1. Len(acc) \in 1 .. Len(acc)
    BY <1>1
  <2>2. /\ e \in Seq(Seq(Letters)) /\ Len(e) = Len(acc)
        /\ \A j \in 1 .. Len(acc) : e[j] = IF j = Len(acc) THEN Append(l, x) ELSE acc[j]
    BY <1>1, <1>2, <2>1, ExceptSeq
  <2>. HIDE DEF e
  <2>3. ASSUME NEW j \in 1 .. Len(e) PROVE e[j] = longer[j]
    <3>1. CASE j = Len(p) + 1
      BY <1>1, <1>3, <2>2, <3>1
    <3>2. CASE j # Len(p) + 1
      <4>1. j \in 1 .. Len(p) /\ j # Len(acc) /\ j \in 1 .. Len(acc)
        BY <1>1, <2>2, <3>2
      <4>2. e[j] = acc[j]
        BY <2>2, <4>1
      <4>. QED  BY <1>1, <1>3, <4>1, <4>2
    <3>. QED  BY <3>1, <3>2
  <2>4. e = longer
    <3>1. e \in Seq(Seq(Letters)) /\ longer \in Seq(Seq(Letters)) /\ Len(e) = Len(longer)
      BY <1>1, <1>3, <2>2
    <3>. QED  BY <2>3, <3>1, SeqEqual, Zenon
  <2>. QED  BY <1>1, <2>4 DEF e
<1>. QED  BY <1>1, <1>4 DEF acc, longer, SplitStep, Splits

\* A separator closes the last piece.
LEMMA SplitCloses ==
  ASSUME NEW sep, NEW p, NEW l
  PROVE  SplitStep(sep, Append(p, l), sep) = Append(Append(p, l), <<>>)
BY DEF SplitStep

\* Any other character is added to it.
LEMMA SplitContinues ==
  ASSUME NEW sep, NEW p \in Seq(Seq(Letters)), NEW l \in Seq(Letters), NEW x \in Letters, x # sep
  PROVE  SplitStep(sep, Append(p, l), x) = Append(p, Append(l, x))
BY SplitOnce

\* A split text has a last piece.
LEMMA SplitHasLast ==
  ASSUME NEW sep, NEW t \in Seq(Letters)
  PROVE  \E p \in Seq(Seq(Letters)), l \in Seq(Letters) : Split(t, sep) = Append(p, l)
<1>. DEFINE T == {s \in Seq(Letters) : \E p \in Seq(Seq(Letters)), l \in Seq(Letters) :
                                        Split(s, sep) = Append(p, l)}
<1>1. <<>> \in T
  <2>1. Split(<<>>, sep) = Append(<<>>, <<>>)
    BY SplitNone
  <2>2. <<>> \in Seq(Seq(Letters)) /\ <<>> \in Seq(Letters)
    OBVIOUS
  <2>. QED  BY <2>1, <2>2
<1>2. ASSUME NEW s \in Seq(Letters), s \in T, NEW x \in Letters PROVE Append(s, x) \in T
  <2>1. PICK p \in Seq(Seq(Letters)), l \in Seq(Letters) : Split(s, sep) = Append(p, l)
    BY <1>2
  <2>2. \/ Split(Append(s, x), sep) = Append(Append(p, l), <<>>)
        \/ Split(Append(s, x), sep) = Append(p, Append(l, x))
    <3>1. Split(Append(s, x), sep) = SplitStep(sep, Append(p, l), x)
      BY <2>1, SplitAppend
    <3>. QED  BY <3>1, SplitOnce, ZenonT(60)
  <2>3. /\ Append(p, l) \in Seq(Seq(Letters)) /\ <<>> \in Seq(Letters)
        /\ Append(l, x) \in Seq(Letters) /\ Append(s, x) \in Seq(Letters)
    BY AppendProperties
  <2>. QED  BY <2>2, <2>3
<1>. HIDE DEF T
<1>3. Seq(Letters) \subseteq T
  BY <1>1, <1>2, SequenceInduction
<1>. QED  BY <1>3 DEF T

\* What follows a separator is the last piece.
LEMMA SplitNew ==
  ASSUME NEW sep, NEW t \in Seq(Letters), NEW u \in Seq(Letters), ~Contains(u, sep),
         NEW q \in Seq(Seq(Letters)), Split(t, sep) = Append(q, <<>>)
  PROVE  Split(t \o u, sep) = Append(q, u)
<1>. DEFINE T == {s \in Seq(Letters) : ~Contains(s, sep) => Split(t \o s, sep) = Append(q, s)}
<1>1. <<>> \in T
  <2>1. t \o <<>> = t
    BY ConcatEmptySeq
  <2>. QED  BY <2>1
<1>2. ASSUME NEW s \in Seq(Letters), s \in T, NEW x \in Letters PROVE Append(s, x) \in T
  <2>. SUFFICES ASSUME ~Contains(Append(s, x), sep)
                PROVE  Split(t \o Append(s, x), sep) = Append(q, Append(s, x))
    BY AppendProperties
  <2>1. x # sep /\ ~Contains(s, sep)
    BY ContainsOne
  <2>2. Split(t \o s, sep) = Append(q, s)
    BY <1>2, <2>1
  <2>3. t \o s \in Seq(Letters) /\ t \o Append(s, x) = Append(t \o s, x)
    BY ConcatProperties
  <2>4. Split(Append(t \o s, x), sep) = SplitStep(sep, Append(q, s), x)
    BY <2>2, <2>3, SplitAppend
  <2>5. SplitStep(sep, Append(q, s), x) = Append(q, Append(s, x))
    BY <2>1, SplitContinues
  <2>. QED  BY <2>3, <2>4, <2>5
<1>. HIDE DEF T
<1>3. Seq(Letters) \subseteq T
  BY <1>1, <1>2, SequenceInduction
<1>. QED  BY <1>3 DEF T

\* A text without the separator is one piece.
LEMMA SplitWhole ==
  ASSUME NEW sep, NEW u \in Seq(Letters), ~Contains(u, sep)
  PROVE  Split(u, sep) = <<u>>
<1>. DEFINE none == <<>>
<1>1. /\ none \in Seq(Letters) /\ none \in Seq(Seq(Letters)) /\ none \o u = u
      /\ Split(none, sep) = Append(none, <<>>) /\ Append(none, u) = <<u>>
  BY SplitNone, ConcatEmptySeq
<1>. HIDE DEF none
<1>2. Split(none \o u, sep) = Append(none, u)
  BY <1>1, SplitNew
<1>. QED  BY <1>1, <1>2

\* What is added behind a separator is a piece of its own.
LEMMA SplitAdds ==
  ASSUME NEW sep \in Letters, NEW t \in Seq(Letters), NEW u \in Seq(Letters), ~Contains(u, sep)
  PROVE  Split(t \o <<sep>> \o u, sep) = Append(Split(t, sep), u)
<1>. DEFINE acc == Split(t, sep)
            ts == Append(t, sep)
<1>1. ts = t \o <<sep>> /\ ts \in Seq(Letters)
  BY AppendIsConcat, AppendProperties
<1>2. acc \in Seq(Seq(Letters)) /\ Split(ts, sep) = Append(acc, <<>>)
  <2>1. PICK p \in Seq(Seq(Letters)), l \in Seq(Letters) : acc = Append(p, l)
    BY SplitHasLast
  <2>2. Split(ts, sep) = SplitStep(sep, Append(p, l), sep)
    BY <2>1, SplitAppend
  <2>. QED  BY <2>1, <2>2, SplitCloses, AppendProperties
<1>. HIDE DEF acc, ts
<1>3. Split(ts \o u, sep) = Append(acc, u)
  BY <1>1, <1>2, SplitNew
<1>. QED  BY <1>1, <1>3 DEF acc

\* Once there are two pieces, the first stays.
LEMMA SplitKeepsFirst ==
  ASSUME NEW sep, NEW acc \in Splits, Len(acc) > 1, NEW x \in Letters
  PROVE  LET longer == SplitStep(sep, acc, x) IN
         longer \in Splits /\ Len(longer) > 1 /\ longer[1] = acc[1]
<1>1. acc \in Seq(Seq(Letters)) /\ 1 \in 1 .. Len(acc) /\ Len(acc) # 1
  <2>1. acc \in Seq(Seq(Letters))
    BY DEF Splits
  <2>. DEFINE n == Len(acc)
  <2>2. n \in Nat /\ n > 1
    BY <2>1
  <2>. HIDE DEF n
  <2>3. 1 \in 1 .. n /\ n # 1
    BY <2>2
  <2>. QED  BY <2>1, <2>3 DEF n
<1>2. CASE x = sep
  <2>1. SplitStep(sep, acc, x) = Append(acc, <<>>) /\ <<>> \in Seq(Letters)
    BY <1>2 DEF SplitStep
  <2>2. /\ Append(acc, <<>>) \in Seq(Seq(Letters)) /\ Append(acc, <<>>) # <<>>
        /\ Len(Append(acc, <<>>)) = Len(acc) + 1 /\ Append(acc, <<>>)[1] = acc[1]
    BY <1>1, <2>1, AppendProperties
  <2>. QED  BY <1>1, <2>1, <2>2 DEF Splits
<1>3. CASE x # sep
  <2>. DEFINE longer == [acc EXCEPT ![Len(acc)] = Append(@, x)]
  <2>1. SplitStep(sep, acc, x) = longer
    BY <1>3 DEF SplitStep
  <2>2. longer \in Splits /\ Len(longer) = Len(acc)
    BY LastExtends
  <2>3. longer[1] = acc[1]
    BY <1>1
  <2>. QED  BY <2>1, <2>2, <2>3
<1>. QED  BY <1>2, <1>3

\* What stands before the first separator is the first piece.
LEMMA SplitFirst ==
  ASSUME NEW sep \in Letters, NEW t \in Seq(Letters), ~Contains(t, sep), NEW u \in Seq(Letters)
  PROVE  Split(t \o <<sep>> \o u, sep)[1] = t
<1>. DEFINE b == t \o <<sep>>
            Fine(acc) == acc \in Splits /\ Len(acc) > 1 /\ acc[1] = t
            T == {s \in Seq(Letters) : Fine(Split(b \o s, sep))}
<1>1. b \in Seq(Letters)
  BY ConcatProperties
<1>2. <<>> \in T
  <2>1. Split(b, sep) = Append(<<t>>, <<>>)
    <3>1. <<>> \in Seq(Letters) /\ b \o <<>> = b
      BY <1>1, ConcatEmptySeq
    <3>2. ~Contains(<<>>, sep)
      BY ContainsOne, Zenon
    <3>3. Split(b \o <<>>, sep) = Append(Split(t, sep), <<>>)
      BY <3>1, <3>2, SplitAdds
    <3>. QED  BY <3>1, <3>3, SplitWhole
  <2>2. b \o <<>> = b /\ <<t>> \in Seq(Seq(Letters)) /\ <<>> \in Seq(Letters)
    BY <1>1, ConcatEmptySeq
  <2>3. /\ Append(<<t>>, <<>>) \in Splits /\ Len(Append(<<t>>, <<>>)) > 1
        /\ Append(<<t>>, <<>>)[1] = t
    BY <2>2 DEF Splits
  <2>. QED  BY <2>1, <2>2, <2>3
<1>3. ASSUME NEW s \in Seq(Letters), s \in T, NEW x \in Letters PROVE Append(s, x) \in T
  <2>1. b \o s \in Seq(Letters) /\ b \o Append(s, x) = Append(b \o s, x)
    BY <1>1, ConcatProperties
  <2>. DEFINE acc == Split(b \o s, sep)
  <2>2. Split(b \o Append(s, x), sep) = SplitStep(sep, acc, x)
    BY <2>1, SplitAppend
  <2>3. Fine(acc)
    BY <1>3
  <2>. HIDE DEF acc
  <2>4. Fine(SplitStep(sep, acc, x))
    BY <2>3, SplitKeepsFirst
  <2>5. Append(s, x) \in Seq(Letters)
    BY AppendProperties
  <2>. HIDE DEF Fine
  <2>. QED  BY <2>2, <2>4, <2>5
<1>. HIDE DEF T
<1>4. Seq(Letters) \subseteq T
  BY <1>2, <1>3, SequenceInduction
<1>. QED  BY <1>4 DEF T

-----------------------------------------------------------------------------
(* Asks(ref, a, ps): the ref is the address a followed by the parameters ps.    *)

Pieces == {p \in Seq(Letters) : ~Contains(p, "&")}
Asks(ref, a, ps) ==
  /\ a \in Seq(Letters) /\ ~Contains(a, "?")
  /\ \/ ref = a /\ ps = <<>>
     \/ \E q \in Seq(Letters) : ref = a \o <<"?">> \o q /\ ps = Split(q, "&")

\* What is added to a text that is put together is added to its last part.
LEMMA AppendJoined ==
  ASSUME NEW s \in Seq(Letters), NEW t \in Seq(Letters), NEW x \in Letters
  PROVE  Append(s \o t, x) = s \o Append(t, x)
OBVIOUS

\* The length of a text that is put together.
LEMMA Joined ==
  ASSUME NEW X, NEW s \in Seq(X), NEW t \in Seq(X)
  PROVE  s \o t \in Seq(X) /\ Len(s \o t) = Len(s) + Len(t)
BY ConcatProperties

\* A ref that asks for something has its "?" after the address.
LEMMA AskingRefs ==
  ASSUME NEW a \in Seq(Letters), ~Contains(a, "?"), NEW q \in Seq(Letters)
  PROVE  /\ a \o <<"?">> \o q \in Seq(Letters) /\ Contains(a \o <<"?">> \o q, "?")
         /\ Len(a \o <<"?">> \o q) = Len(a) + 1 + Len(q)
<1>. DEFINE mark == <<"?">>
            aq == a \o mark
<1>1. mark \in Seq(Letters) /\ Len(mark) = 1 /\ Contains(mark, "?")
  BY MarksAreLetters DEF Contains
<1>. HIDE DEF mark
<1>2. aq \in Seq(Letters) /\ Len(aq) = Len(a) + 1
  <2>1. aq \in Seq(Letters) /\ Len(aq) = Len(a) + Len(mark)
    BY <1>1, Joined
  <2>. QED  BY <1>1, <2>1
<1>3. Contains(aq, "?")
  BY <1>1, ContainsParts
<1>. HIDE DEF aq
<1>4. Contains(aq \o q, "?")
  BY <1>2, <1>3, ContainsParts
<1>5. aq \o q \in Seq(Letters) /\ Len(aq \o q) = Len(a) + 1 + Len(q)
  <2>1. aq \o q \in Seq(Letters) /\ Len(aq \o q) = Len(aq) + Len(q)
    BY <1>2, Joined
  <2>. QED  BY <1>2, <2>1
<1>. QED  BY <1>4, <1>5 DEF aq, mark

\* Its last parameter may be extended.
LEMMA AskingGrows ==
  ASSUME NEW a \in Seq(Letters), NEW q \in Seq(Letters), NEW x \in Letters
  PROVE  Append(a \o <<"?">> \o q, x) = a \o <<"?">> \o Append(q, x)
<1>1. a \o <<"?">> \in Seq(Letters)
  BY MarksAreLetters, ConcatProperties
<1>. QED  BY <1>1, AppendJoined, Zenon

\* nix reads the address and the parameters of a ref.
LEMMA AskedIsRead ==
  ASSUME NEW ref, NEW a, NEW ps, Asks(ref, a, ps)
  PROVE  ref \in Seq(Letters) /\ BeforeQuery(ref) = a /\ QueryOf(ref) = ps
<1>1. a \in Seq(Letters) /\ ~Contains(a, "?") /\ "?" \in Letters
  BY MarksAreLetters DEF Asks
<1>2. CASE ref = a /\ ps = <<>>
  <2>1. Split(a, "?") = <<a>>
    BY <1>1, SplitWhole
  <2>. QED  BY <1>1, <1>2, <2>1 DEF BeforeQuery, QueryOf
<1>3. ASSUME NEW q \in Seq(Letters), ref = a \o <<"?">> \o q, ps = Split(q, "&")
      PROVE  ref \in Seq(Letters) /\ BeforeQuery(ref) = a /\ QueryOf(ref) = ps
  <2>1. BeforeQuery(ref) = a
    BY <1>1, <1>3, SplitFirst DEF BeforeQuery
  <2>2. ref \in Seq(Letters) /\ Len(ref) = Len(a) + 1 + Len(q)
    BY <1>1, <1>3, AskingRefs
  <2>. DEFINE aq == a \o <<"?">>
  <2>3. aq \in Seq(Letters) /\ Len(aq) = Len(a) + 1 /\ ref = aq \o q
    BY <1>1, <1>3, ConcatProperties
  <2>4. SubSeq(ref, Len(a) + 2, Len(ref)) = q
    <3>. HIDE DEF aq
    <3>1. CASE q = <<>>
      BY <1>1, <2>2, <2>3, <3>1, SubSeqEmpty
    <3>2. CASE q # <<>>
      <4>1. /\ Len(aq) + 1 \in Len(aq) + 1 .. Len(aq) + Len(q)
            /\ Len(aq) + Len(q) \in Len(aq) + 1 .. Len(aq) + Len(q)
        BY <2>3, <3>2
      <4>2. SubSeq(aq \o q, Len(aq) + 1, Len(aq) + Len(q))
              = SubSeq(q, Len(aq) + 1 - Len(aq), Len(aq) + Len(q) - Len(aq))
        BY <2>3, <4>1, SubSeqOfConcat2, SMTT(30)
      <4>3. /\ Len(aq) + 1 - Len(aq) = 1 /\ Len(aq) + Len(q) - Len(aq) = Len(q)
            /\ Len(aq) + 1 = Len(a) + 2 /\ Len(aq) + Len(q) = Len(ref)
        BY <1>1, <2>2, <2>3
      <4>4. SubSeq(q, 1, Len(q)) = q
        BY SubSeqFull
      <4>. QED  BY <2>3, <4>2, <4>3, <4>4
    <3>. QED  BY <3>1, <3>2
  <2>5. Len(a) # Len(ref)
    BY <1>1, <2>2
  <2>. QED  BY <1>3, <2>1, <2>2, <2>4, <2>5 DEF QueryOf
<1>. QED  BY <1>2, <1>3 DEF Asks

\* Every text asks for something of some address.
LEMMA EveryTextAsks ==
  ASSUME NEW t \in Seq(Letters)
  PROVE  \E a, ps : Asks(t, a, ps)
<1>. DEFINE T == {s \in Seq(Letters) : \E a, ps : Asks(s, a, ps)}
<1>1. <<>> \in T
  <2>1. Asks(<<>>, <<>>, <<>>)
    <3>1. ~Contains(<<>>, "?")
      BY ContainsOne, Zenon
    <3>. QED  BY <3>1 DEF Asks
  <2>. QED  BY <2>1
<1>2. ASSUME NEW s \in Seq(Letters), s \in T, NEW x \in Letters PROVE Append(s, x) \in T
  <2>. SUFFICES \E a, ps : Asks(Append(s, x), a, ps)
    BY AppendProperties
  <2>1. PICK a, ps : Asks(s, a, ps)
    BY <1>2
  <2>2. a \in Seq(Letters) /\ ~Contains(a, "?")
    BY <2>1 DEF Asks
  <2>3. CASE s = a /\ x = "?"
    <3>. DEFINE none == <<>>
    <3>1. none \in Seq(Letters) /\ Append(s, x) = a \o <<"?">> \o none
      BY <2>2, <2>3, AppendIsConcat, ConcatEmptySeq
    <3>. HIDE DEF none
    <3>2. Asks(Append(s, x), a, Split(none, "&"))
      BY <2>2, <3>1 DEF Asks
    <3>. QED  BY <3>2
  <2>4. CASE s = a /\ x # "?"
    <3>1. Append(s, x) \in Seq(Letters) /\ ~Contains(Append(s, x), "?")
      BY <2>2, <2>4, AppendProperties, ContainsOne
    <3>2. Asks(Append(s, x), Append(s, x), <<>>)
      BY <3>1 DEF Asks
    <3>. QED  BY <3>2
  <2>5. CASE s # a
    <3>1. PICK q \in Seq(Letters) : s = a \o <<"?">> \o q
      BY <2>1, <2>5 DEF Asks
    <3>2. Append(q, x) \in Seq(Letters) /\ Append(s, x) = a \o <<"?">> \o Append(q, x)
      <4>1. Append(a \o <<"?">> \o q, x) = a \o <<"?">> \o Append(q, x)
        BY <2>2, AskingGrows
      <4>. QED  BY <3>1, <4>1, AppendProperties
    <3>3. Asks(Append(s, x), a, Split(Append(q, x), "&"))
      BY <2>2, <3>2 DEF Asks
    <3>. QED  BY <3>3
  <2>. QED  BY <2>3, <2>4, <2>5
<1>. HIDE DEF T
<1>3. Seq(Letters) \subseteq T
  BY <1>1, <1>2, SequenceInduction
<1>. QED  BY <1>3 DEF T

\* A parameter is added behind those a ref has.
LEMMA AskingAdds ==
  ASSUME NEW ref, NEW a, NEW ps, Asks(ref, a, ps), NEW p \in Pieces
  PROVE  Asks(ParamStep(ref, p), a, Append(ps, p))
<1>1. a \in Seq(Letters) /\ ~Contains(a, "?") /\ {"?", "&"} \subseteq Letters
  BY MarksAreLetters DEF Asks
<1>2. p \in Seq(Letters) /\ ~Contains(p, "&")
  BY DEF Pieces
<1>3. CASE ref = a /\ ps = <<>>
  <2>1. ParamStep(ref, p) = a \o <<"?">> \o p
    BY <1>1, <1>3 DEF ParamStep
  <2>2. Split(p, "&") = <<p>>
    BY <1>2, SplitWhole
  <2>3. Append(ps, p) = <<p>>
    BY <1>3
  <2>. QED  BY <1>1, <1>2, <2>1, <2>2, <2>3 DEF Asks
<1>4. ASSUME NEW q \in Seq(Letters), ref = a \o <<"?">> \o q, ps = Split(q, "&")
      PROVE  Asks(ParamStep(ref, p), a, Append(ps, p))
  <2>1. Contains(ref, "?")
    BY <1>1, <1>4, AskingRefs
  <2>2. ParamStep(ref, p) = ref \o <<"&">> \o p
    BY <2>1 DEF ParamStep
  <2>. DEFINE more == q \o <<"&">> \o p
  <2>3. more \in Seq(Letters) /\ ref \o <<"&">> \o p = a \o <<"?">> \o more
    <3>. DEFINE aq == a \o <<"?">>
                amp == <<"&">>
    <3>1. aq \in Seq(Letters) /\ amp \in Seq(Letters)
      BY <1>1, ConcatProperties
    <3>2. ref = aq \o q
      BY <1>4
    <3>. HIDE DEF aq, amp
    <3>3. q \o amp \in Seq(Letters) /\ (q \o amp) \o p \in Seq(Letters)
      BY <1>2, <3>1, ConcatProperties
    <3>4. (aq \o q) \o amp = aq \o (q \o amp)
      BY <3>1, ConcatAssociative
    <3>5. (aq \o (q \o amp)) \o p = aq \o ((q \o amp) \o p)
      <4>. DEFINE qa == q \o amp
      <4>1. qa \in Seq(Letters)
        BY <3>3
      <4>. HIDE DEF qa, more
      <4>2. (aq \o qa) \o p = aq \o (qa \o p)
        BY <1>2, <3>1, <4>1, ConcatAssociative, SMTT(30)
      <4>. QED  BY <4>2 DEF qa
    <3>. QED  BY <3>2, <3>3, <3>4, <3>5 DEF aq, amp
  <2>4. Split(more, "&") = Append(ps, p)
    BY <1>1, <1>2, <1>4, SplitAdds
  <2>. HIDE DEF more
  <2>. QED  BY <1>1, <2>2, <2>3, <2>4 DEF Asks
<1>. QED  BY <1>3, <1>4 DEF Asks

\* The parameters of a ref are those it had, then those it is given.
LEMMA AskingParams ==
  ASSUME NEW ref, NEW a, NEW ps, Asks(ref, a, ps), ps \in Seq(Seq(Letters)),
         NEW params \in Seq(Pieces)
  PROVE  Asks(WithParams(ref, params), a, ps \o params)
<1>. DEFINE T == {s \in Seq(Pieces) : Asks(WithParams(ref, s), a, ps \o s)}
<1>1. ref \in Seq(Letters)
  BY AskedIsRead
<1>2. <<>> \in T
  <2>1. WithParams(ref, <<>>) = ref
    BY <1>1, WithParamsNone
  <2>2. ps \o <<>> = ps
    BY ConcatEmptySeq
  <2>. QED  BY <2>1, <2>2
<1>3. ASSUME NEW s \in Seq(Pieces), s \in T, NEW p \in Pieces PROVE Append(s, p) \in T
  <2>1. Pieces \subseteq Seq(Letters) /\ p \in Seq(Letters)
    BY DEF Pieces
  <2>2. s \in Seq(Seq(Letters))
    BY <2>1, SeqMonotonic
  <2>3. WithParams(ref, Append(s, p)) = ParamStep(WithParams(ref, s), p)
    BY <1>1, <2>1, <2>2, WithParamsAppend
  <2>4. Asks(ParamStep(WithParams(ref, s), p), a, Append(ps \o s, p))
    BY <1>3, AskingAdds
  <2>5. ps \o Append(s, p) = Append(ps \o s, p)
    BY <2>1, <2>2
  <2>6. Append(s, p) \in Seq(Pieces)
    BY AppendProperties
  <2>. QED  BY <2>3, <2>4, <2>5, <2>6
<1>. HIDE DEF T
<1>4. Seq(Pieces) \subseteq T
  BY <1>2, <1>3, SequenceInduction
<1>. QED  BY <1>4 DEF T

\* One step of it.
LEMMA ParamStepText ==
  ASSUME NEW out \in Seq(Letters), NEW p \in Seq(Letters)
  PROVE  ParamStep(out, p) \in Seq(Letters)
<1>1. <<IF Contains(out, "?") THEN "&" ELSE "?">> \in Seq(Letters)
  BY MarksAreLetters
<1>. QED  BY <1>1, ConcatProperties DEF ParamStep

\* A ref that is given parameters is a text.
LEMMA WithParamsText ==
  ASSUME NEW base \in Seq(Letters), NEW params \in Seq(Seq(Letters))
  PROVE  WithParams(base, params) \in Seq(Letters)
<1>. DEFINE T == {s \in Seq(Seq(Letters)) : WithParams(base, s) \in Seq(Letters)}
<1>1. <<>> \in T
  BY WithParamsNone
<1>2. ASSUME NEW s \in Seq(Seq(Letters)), s \in T, NEW p \in Seq(Letters) PROVE Append(s, p) \in T
  <2>1. WithParams(base, Append(s, p)) = ParamStep(WithParams(base, s), p)
    BY WithParamsAppend
  <2>2. WithParams(base, s) \in Seq(Letters)
    BY <1>2
  <2>3. ParamStep(WithParams(base, s), p) \in Seq(Letters)
    BY <2>2, ParamStepText
  <2>4. Append(s, p) \in Seq(Seq(Letters))
    BY AppendProperties
  <2>. QED  BY <2>1, <2>3, <2>4
<1>. HIDE DEF T
<1>3. Seq(Seq(Letters)) \subseteq T
  BY <1>1, <1>2, SequenceInduction
<1>. QED  BY <1>3 DEF T

\* The last parameter may be extended.
LEMMA JoinGrows ==
  ASSUME NEW a \in Seq(Letters), NEW p \in Seq(Seq(Letters)), NEW l \in Seq(Letters),
         NEW x \in Letters, x # "&"
  PROVE  WithParams(a, SplitStep("&", Append(p, l), x)) = Append(WithParams(a, Append(p, l)), x)
<1>. DEFINE w == WithParams(a, p)
<1>1. w \in Seq(Letters)
  BY WithParamsText
<1>2. Append(l, x) \in Seq(Letters)
  BY AppendProperties
<1>3. /\ WithParams(a, Append(p, Append(l, x))) = ParamStep(w, Append(l, x))
      /\ WithParams(a, Append(p, l)) = ParamStep(w, l)
  BY <1>2, WithParamsAppend
<1>. DEFINE wm == w \o <<IF Contains(w, "?") THEN "&" ELSE "?">>
<1>4. wm \in Seq(Letters)
  <2>1. <<IF Contains(w, "?") THEN "&" ELSE "?">> \in Seq(Letters)
    BY MarksAreLetters
  <2>. QED  BY <1>1, <2>1, ConcatProperties
<1>5. ParamStep(w, Append(l, x)) = wm \o Append(l, x) /\ ParamStep(w, l) = wm \o l
  BY DEF ParamStep
<1>. HIDE DEF w, wm
<1>6. Append(wm \o l, x) = wm \o Append(l, x)
  BY <1>4, AppendJoined, Zenon
<1>7. SplitStep("&", Append(p, l), x) = Append(p, Append(l, x))
  BY SplitContinues
<1>. QED  BY <1>3, <1>5, <1>6, <1>7

\* A separator behind the parameters adds an empty one.
LEMMA JoinNew ==
  ASSUME NEW a \in Seq(Letters), NEW p \in Seq(Seq(Letters)), NEW l \in Seq(Letters)
  PROVE  WithParams(a, SplitStep("&", Append(p, l), "&"))
           = ParamStep(WithParams(a, Append(p, l)), <<>>)
<1>. DEFINE pl == Append(p, l)
            none == <<>>
<1>1. pl \in Seq(Seq(Letters)) /\ none \in Seq(Letters)
  BY AppendProperties
<1>2. SplitStep("&", pl, "&") = Append(pl, none)
  BY SplitCloses
<1>. HIDE DEF pl, none
<1>3. WithParams(a, Append(pl, none)) = ParamStep(WithParams(a, pl), none)
  BY <1>1, WithParamsAppend
<1>. QED  BY <1>2, <1>3 DEF pl, none

\* And an empty one is a separator.
LEMMA JoinMark ==
  ASSUME NEW ref \in Seq(Letters), Contains(ref, "?")
  PROVE  ParamStep(ref, <<>>) = Append(ref, "&")
<1>1. ref \o <<"&">> = Append(ref, "&") /\ Append(ref, "&") \in Seq(Letters)
  BY MarksAreLetters, AppendIsConcat, AppendProperties
<1>2. Append(ref, "&") \o <<>> = Append(ref, "&")
  BY <1>1, ConcatEmptySeq
<1>. QED  BY <1>1, <1>2 DEF ParamStep

\* Giving the address of a ref its parameters again gives the ref.
LEMMA SplitJoins ==
  ASSUME NEW a \in Seq(Letters), ~Contains(a, "?"), NEW t \in Seq(Letters)
  PROVE  WithParams(a, Split(t, "&")) = a \o <<"?">> \o t
<1>. DEFINE T == {q \in Seq(Letters) : WithParams(a, Split(q, "&")) = a \o <<"?">> \o q}
<1>1. <<>> \in T
  <2>. DEFINE none == <<>>
  <2>1. none \in Seq(Letters) /\ none \in Seq(Seq(Letters)) /\ Split(none, "&") = Append(none, none)
    BY SplitNone
  <2>2. WithParams(a, Append(none, none)) = ParamStep(WithParams(a, none), none)
    <3>. HIDE DEF none
    <3>. QED  BY <2>1, WithParamsAppend, Zenon
  <2>3. WithParams(a, none) = a
    BY WithParamsNone
  <2>4. ParamStep(a, none) = a \o <<"?">> \o none
    BY DEF ParamStep
  <2>. QED  BY <2>1, <2>2, <2>3, <2>4
<1>2. ASSUME NEW q \in Seq(Letters), q \in T, NEW x \in Letters PROVE Append(q, x) \in T
  <2>. DEFINE ref == a \o <<"?">> \o q
  <2>1. PICK p \in Seq(Seq(Letters)), l \in Seq(Letters) : Split(q, "&") = Append(p, l)
    BY SplitHasLast
  <2>2. WithParams(a, Append(p, l)) = ref
    BY <1>2, <2>1
  <2>3. ref \in Seq(Letters) /\ Contains(ref, "?")
    BY AskingRefs
  <2>4. Append(ref, x) = a \o <<"?">> \o Append(q, x) /\ Append(q, x) \in Seq(Letters)
    BY AskingGrows, AppendProperties
  <2>5. Split(Append(q, x), "&") = SplitStep("&", Append(p, l), x)
    BY <2>1, SplitAppend
  <2>. HIDE DEF ref, T
  <2>6. CASE x = "&"
    <3>1. WithParams(a, Split(Append(q, x), "&")) = ParamStep(ref, <<>>)
      BY <2>2, <2>5, <2>6, JoinNew
    <3>2. ParamStep(ref, <<>>) = Append(ref, x)
      BY <2>3, <2>6, JoinMark
    <3>. QED  BY <2>4, <3>1, <3>2 DEF T
  <2>7. CASE x # "&"
    <3>1. WithParams(a, SplitStep("&", Append(p, l), x)) = Append(WithParams(a, Append(p, l)), x)
      BY <2>7, JoinGrows
    <3>. QED  BY <2>2, <2>4, <2>5, <3>1 DEF T
  <2>. QED  BY <2>6, <2>7
<1>. HIDE DEF T
<1>3. Seq(Letters) \subseteq T
  BY <1>1, <1>2, SequenceInduction
<1>. QED  BY <1>3 DEF T

\* So does giving it the parameters that nix reads.
LEMMA AskingJoins ==
  ASSUME NEW ref, NEW a, NEW ps, Asks(ref, a, ps)
  PROVE  WithParams(a, ps) = ref
<1>1. a \in Seq(Letters) /\ ~Contains(a, "?")
  BY DEF Asks
<1>2. CASE ref = a /\ ps = <<>>
  BY <1>1, <1>2, WithParamsNone
<1>3. ASSUME NEW q \in Seq(Letters), ref = a \o <<"?">> \o q, ps = Split(q, "&")
      PROVE  WithParams(a, ps) = ref
  BY <1>1, <1>3, SplitJoins
<1>. QED  BY <1>2, <1>3 DEF Asks

\* Nothing is kept of nothing.
LEMMA KeptNone == \A P : Kept(<<>>, P) = <<>>
<1>. SUFFICES ASSUME NEW P PROVE Kept(<<>>, P) = <<>>
  OBVIOUS
<1>. DEFINE none == <<>>
<1>1. none \in Seq({}) /\ Len(none) = 0
  OBVIOUS
<1>2. PICK at : at[0] = <<>> /\ Kept(none, P) = at[Len(none)]
  <2>. HIDE DEF none
  <2>. QED  BY <1>1, KeptSteps
<1>. QED  BY <1>1, <1>2

\* Nothing is dropped of what is to be kept.
LEMMA KeptAll ==
  ASSUME NEW P, NEW t \in Seq(P)
  PROVE  Kept(t, P) = t
<1>. DEFINE T == {s \in Seq(P) : Kept(s, P) = s}
<1>1. <<>> \in T
  BY KeptNone
<1>2. ASSUME NEW s \in Seq(P), s \in T, NEW x \in P PROVE Append(s, x) \in T
  <2>1. Kept(Append(s, x), P) = KeptStep(P, Kept(s, P), x)
    BY KeptAppend
  <2>2. KeptStep(P, s, x) = Append(s, x)
    BY DEF KeptStep
  <2>3. Append(s, x) \in Seq(P)
    BY AppendProperties
  <2>. QED  BY <1>2, <2>1, <2>2, <2>3
<1>. HIDE DEF T
<1>3. Seq(P) \subseteq T
  BY <1>1, <1>2, SequenceInduction
<1>. QED  BY <1>3 DEF T

\* What is not to be kept is dropped.
LEMMA KeptDrops ==
  ASSUME NEW X, NEW P, NEW s \in Seq(X), NEW u \in Seq(X \ P)
  PROVE  Kept(s \o u, P) = Kept(s, P)
<1>. DEFINE T == {t \in Seq(X \ P) : Kept(s \o t, P) = Kept(s, P)}
<1>1. <<>> \in T
  <2>1. s \o <<>> = s
    BY ConcatEmptySeq
  <2>. QED  BY <2>1
<1>2. ASSUME NEW t \in Seq(X \ P), t \in T, NEW x \in X \ P PROVE Append(t, x) \in T
  <2>1. t \in Seq(X) /\ x \in X
    BY SeqMonotonic
  <2>2. s \o t \in Seq(X) /\ s \o Append(t, x) = Append(s \o t, x)
    BY <2>1, ConcatProperties
  <2>3. Kept(Append(s \o t, x), P) = KeptStep(P, Kept(s \o t, P), x)
    BY <2>1, <2>2, KeptAppend
  <2>4. KeptStep(P, Kept(s \o t, P), x) = Kept(s \o t, P)
    BY DEF KeptStep
  <2>5. Append(t, x) \in Seq(X \ P)
    BY AppendProperties
  <2>. QED  BY <1>2, <2>2, <2>3, <2>4, <2>5
<1>. HIDE DEF T
<1>3. Seq(X \ P) \subseteq T
  BY <1>1, <1>2, SequenceInduction
<1>. QED  BY <1>3 DEF T

-----------------------------------------------------------------------------
(* What a parameter answers: the first one with the key does.                   *)

Hits(qs, key) == {i \in DOMAIN qs : qs[i] # <<>> /\ Head(qs[i]) = key}
Answer(qs, key) ==
  IF Hits(qs, key) = {} THEN Absent
  ELSE Tail(qs[CHOOSE i \in Hits(qs, key) : \A j \in Hits(qs, key) : i <= j])

\* Absent is no text.
LEMMA AbsentIsNoText == Absent \notin Seq(Letters)
BY CharsAssumption

\* The first hit answers.
LEMMA FirstAnswers ==
  ASSUME NEW qs \in Seq(Seq(Letters)), NEW key, NEW m \in Hits(qs, key),
         \A j \in Hits(qs, key) : m <= j
  PROVE  Answer(qs, key) = Tail(qs[m]) /\ Answer(qs, key) \in Seq(Letters)
<1>. DEFINE hits == Hits(qs, key)
            first == CHOOSE i \in hits : \A j \in hits : i <= j
<1>1. hits \in SUBSET Nat /\ m \in hits /\ \A j \in hits : m <= j
  BY DEF Hits
<1>2. Answer(qs, key) = Tail(qs[first])
  BY <1>1 DEF Answer
<1>. HIDE DEF hits
<1>3. first = m
  <2>1. \E i \in hits : \A j \in hits : i <= j
    BY <1>1
  <2>2. first \in hits /\ \A j \in hits : first <= j
    BY <2>1, Zenon
  <2>. HIDE DEF first
  <2>. QED  BY <1>1, <2>2
<1>4. qs[m] \in Seq(Letters) /\ qs[m] # <<>>
  BY DEF Hits
<1>5. Tail(qs[m]) \in Seq(Letters)
  BY <1>4, HeadTailProperties
<1>. QED  BY <1>2, <1>3, <1>5

\* There is an answer when something hits.
LEMMA AnswerExists ==
  ASSUME NEW qs \in Seq(Seq(Letters)), NEW key
  PROVE  /\ Answer(qs, key) = Absent <=> Hits(qs, key) = {}
         /\ Hits(qs, key) # {} =>
              \E m \in Hits(qs, key) : /\ \A j \in Hits(qs, key) : m <= j
                                       /\ Answer(qs, key) = Tail(qs[m])
<1>1. CASE Hits(qs, key) = {}
  BY <1>1 DEF Answer
<1>2. CASE Hits(qs, key) # {}
  <2>1. Hits(qs, key) \in SUBSET Nat
    BY DEF Hits
  <2>2. PICK m \in Hits(qs, key) : \A j \in Hits(qs, key) : m <= j
    BY <1>2, <2>1, LeastExists
  <2>3. Answer(qs, key) = Tail(qs[m]) /\ Answer(qs, key) \in Seq(Letters)
    BY <2>2, FirstAnswers
  <2>. QED  BY <1>2, <2>2, <2>3, AbsentIsNoText
<1>. QED  BY <1>1, <1>2

\* A further parameter answers when none before it does.
LEMMA AnswerAppend ==
  ASSUME NEW ps \in Seq(Seq(Letters)), NEW p \in Seq(Letters), NEW key
  PROVE  /\ Answer(ps, key) # Absent => Answer(Append(ps, p), key) = Answer(ps, key)
         /\ Answer(ps, key) = Absent /\ p # <<>> /\ Head(p) = key =>
              Answer(Append(ps, p), key) = Tail(p)
         /\ Answer(ps, key) = Absent /\ (p = <<>> \/ Head(p) # key) =>
              Answer(Append(ps, p), key) = Absent
<1>. DEFINE qs == Append(ps, p)
            n == Len(ps)
<1>1. /\ qs \in Seq(Seq(Letters)) /\ n \in Nat /\ DOMAIN ps = 1 .. n /\ DOMAIN qs = 1 .. n + 1
      /\ qs[n + 1] = p /\ \A i \in 1 .. n : qs[i] = ps[i]
  BY AppendProperties
<1>. HIDE DEF qs, n
<1>2. /\ \A i \in 1 .. n : i \in Hits(qs, key) <=> i \in Hits(ps, key)
      /\ n + 1 \in Hits(qs, key) <=> p # <<>> /\ Head(p) = key
      /\ Hits(qs, key) \subseteq 1 .. n + 1 /\ Hits(ps, key) \subseteq 1 .. n
  BY <1>1 DEF Hits
<1>3. ASSUME Answer(ps, key) # Absent PROVE Answer(qs, key) = Answer(ps, key)
  <2>1. PICK m \in Hits(ps, key) : /\ \A j \in Hits(ps, key) : m <= j
                                   /\ Answer(ps, key) = Tail(ps[m])
    BY <1>3, AnswerExists
  <2>2. m \in Hits(qs, key) /\ ps[m] = qs[m]
    BY <1>1, <1>2, <2>1
  <2>3. \A j \in Hits(qs, key) : m <= j
    BY <1>1, <1>2, <2>1
  <2>. QED  BY <1>1, <2>1, <2>2, <2>3, FirstAnswers
<1>4. ASSUME Answer(ps, key) = Absent, p # <<>>, Head(p) = key PROVE Answer(qs, key) = Tail(p)
  <2>1. Hits(ps, key) = {}
    BY <1>4, AnswerExists
  <2>2. n + 1 \in Hits(qs, key) /\ \A j \in Hits(qs, key) : n + 1 <= j
    BY <1>1, <1>2, <1>4, <2>1
  <2>. QED  BY <1>1, <2>2, FirstAnswers
<1>5. ASSUME Answer(ps, key) = Absent, p = <<>> \/ Head(p) # key PROVE Answer(qs, key) = Absent
  <2>1. Hits(ps, key) = {}
    BY <1>5, AnswerExists
  <2>2. Hits(qs, key) = {}
    BY <1>1, <1>2, <1>5, <2>1
  <2>. QED  BY <1>1, <2>2, AnswerExists
<1>. QED  BY <1>3, <1>4, <1>5 DEF qs

\* Nothing is asked by no parameter.
LEMMA AnswerNone == \A key : Answer(<<>>, key) = Absent
BY DEF Answer, Hits

\* A parameter is its key and its value.
LEMMA KeyAndValue ==
  ASSUME NEW k \in Letters, NEW v \in Seq(Letters)
  PROVE  LET p == <<k>> \o v IN
         p \in Seq(Letters) /\ p # <<>> /\ Head(p) = k /\ Tail(p) = v
<1>. DEFINE p == <<k>> \o v
<1>1. /\ p \in Seq(Letters) /\ Len(p) = 1 + Len(v) /\ p[1] = k /\ Len(v) \in Nat
      /\ \A i \in 1 .. Len(v) : p[i + 1] = v[i]
  OBVIOUS
<1>. HIDE DEF p
<1>2. p # <<>>
  BY <1>1
<1>3. /\ Tail(p) \in Seq(Letters) /\ Len(Tail(p)) = Len(p) - 1
      /\ \A i \in 1 .. Len(Tail(p)) : Tail(p)[i] = p[i + 1]
  BY <1>1, <1>2, HeadTailProperties
<1>4. Len(Tail(p)) = Len(v) /\ \A i \in 1 .. Len(Tail(p)) : Tail(p)[i] = v[i]
  BY <1>1, <1>3
<1>5. Tail(p) = v
  BY <1>3, <1>4, SeqEqual
<1>6. Head(p) = k
  BY <1>1, <1>2
<1>. QED  BY <1>1, <1>2, <1>5, <1>6 DEF p

\* A parameter for a key answers it, one for another key, or without a value, does not.
LEMMA AnswerParam ==
  ASSUME NEW ps \in Seq(Seq(Letters)), NEW k \in Letters, NEW v \in Seq(Letters) \cup {Absent},
         NEW key
  PROVE  /\ ps \o Param(k, v) \in Seq(Seq(Letters))
         /\ Answer(ps, key) # Absent => Answer(ps \o Param(k, v), key) = Answer(ps, key)
         /\ Answer(ps, key) = Absent /\ key = k => Answer(ps \o Param(k, v), key) = v
         /\ Answer(ps, key) = Absent /\ key # k => Answer(ps \o Param(k, v), key) = Absent
<1>1. CASE v = Absent
  <2>1. ps \o Param(k, v) = ps
    BY <1>1, ConcatEmptySeq DEF Param
  <2>. QED  BY <1>1, <2>1
<1>2. CASE v # Absent
  <2>. DEFINE p == <<k>> \o v
  <2>1. v \in Seq(Letters) /\ Param(k, v) = <<p>>
    BY <1>2 DEF Param
  <2>2. p \in Seq(Letters) /\ p # <<>> /\ Head(p) = k /\ Tail(p) = v
    BY <2>1, KeyAndValue
  <2>. HIDE DEF p
  <2>3. ps \o Param(k, v) = Append(ps, p) /\ Append(ps, p) \in Seq(Seq(Letters))
    BY <2>1, <2>2, AppendIsConcat, AppendProperties
  <2>4. /\ Answer(ps, key) # Absent => Answer(Append(ps, p), key) = Answer(ps, key)
        /\ Answer(ps, key) = Absent /\ key = k => Answer(Append(ps, p), key) = v
        /\ Answer(ps, key) = Absent /\ key # k => Answer(Append(ps, p), key) = Absent
    BY ONLY <2>2, ps \in Seq(Seq(Letters)), AnswerAppend
  <2>. QED  BY <2>3, <2>4, Zenon
<1>. QED  BY <1>1, <1>2

\* What nix takes from the query of a ref.
LEMMA AskedAnswer ==
  ASSUME NEW ref, QueryOf(ref) \in Seq(Seq(Letters)), NEW key
  PROVE  Asked(ref, key) = IF Answer(QueryOf(ref), key) = Absent THEN Absent
                           ELSE Decode(Answer(QueryOf(ref), key))
<1>. DEFINE qs == QueryOf(ref)
<1>1. Asked(ref, key) = IF Hits(qs, key) = {} THEN Absent ELSE Decode(Answer(qs, key))
  <2>1. Asked(ref, key) = IF Hits(qs, key) = {} THEN Absent
                          ELSE Decode(Tail(qs[CHOOSE i \in Hits(qs, key) :
                                                \A j \in Hits(qs, key) : i <= j]))
    BY Zenon DEF Asked, Hits
  <2>2. Hits(qs, key) # {} =>
          Answer(qs, key) = Tail(qs[CHOOSE i \in Hits(qs, key) : \A j \in Hits(qs, key) : i <= j])
    BY Zenon DEF Answer
  <2>. HIDE DEF qs
  <2>. QED  BY <2>1, <2>2, Zenon
<1>2. Answer(qs, key) = Absent <=> Hits(qs, key) = {}
  BY AnswerExists
<1>. QED  BY <1>1, <1>2

-----------------------------------------------------------------------------
(* Escaping, and reading what has been escaped.                                *)

\* A character stands for itself, and an escape for what it escapes.
LEMMA Unescaping ==
  /\ \A c \in Chars : Unescape(c) = c
  /\ \A s \in Syntax : Unescape(Escaped[s]) = s
  /\ \A s \in Syntax : Escaped[s] \notin Chars /\ Escaped[s] \in Letters
  /\ Chars \subseteq Letters
<1>1. \A s \in Syntax : Escaped[s] \in Range(Escaped)
  BY CharsAssumption DEF Range
<1>2. \A s \in Syntax : Escaped[s] \notin Chars /\ Escaped[s] \in Letters
  BY <1>1, CharsAssumption DEF Letters
<1>3. ASSUME NEW c \in Chars PROVE Unescape(c) = c
  BY <1>2 DEF Unescape
<1>4. ASSUME NEW s \in Syntax PROVE Unescape(Escaped[s]) = s
  <2>. DEFINE c == Escaped[s]
              t == CHOOSE r \in Syntax : Escaped[r] = c
  <2>1. Unescape(c) = t
    BY Zenon DEF Unescape
  <2>2. t \in Syntax /\ Escaped[t] = c
    BY Zenon
  <2>. HIDE DEF t
  <2>. QED  BY <2>1, <2>2, CharsAssumption
<1>. QED  BY <1>2, <1>3, <1>4 DEF Letters

\* A text without escapes is read as it is.
LEMMA DecodePlain ==
  ASSUME NEW t \in Seq(Chars)
  PROVE  Decode(t) = t /\ t \in Seq(Letters)
<1>1. /\ DOMAIN t = 1 .. Len(t) /\ t \in [1 .. Len(t) -> Chars]
  BY LenProperties
<1>2. \A i \in DOMAIN t : t[i] \in Chars /\ Unescape(t[i]) = t[i]
  BY <1>1, Unescaping
<1>3. Decode(t) = [i \in DOMAIN t |-> t[i]]
  BY <1>2 DEF Decode
<1>4. t = [i \in DOMAIN t |-> t[i]]
  BY <1>1
<1>5. t \in Seq(Letters)
  BY Unescaping, SeqMonotonic
<1>. QED  BY <1>3, <1>4, <1>5

\* A text in which each character of some set is escaped is read as it was, and
\* has none of those that were.
LEMMA DecodeEscaped ==
  ASSUME NEW t \in Seq(Chars), NEW S \in SUBSET Syntax, NEW u,
         u = [i \in DOMAIN t |-> IF t[i] \in S THEN Escaped[t[i]] ELSE t[i]]
  PROVE  /\ Decode(u) = t /\ u \in Seq(Letters)
         /\ \A x \in S : ~Contains(u, x)
<1>1. DOMAIN t = 1 .. Len(t) /\ t \in [1 .. Len(t) -> Chars] /\ Len(t) \in Nat
  BY LenProperties
<1>2. ASSUME NEW i \in DOMAIN t
      PROVE  u[i] \in Letters /\ Unescape(u[i]) = t[i] /\ u[i] \notin S
  <2>1. t[i] \in Chars
    BY <1>1
  <2>2. CASE t[i] \in S
    <3>1. u[i] = Escaped[t[i]] /\ t[i] \in Syntax
      BY <2>2
    <3>2. u[i] \in Letters /\ u[i] \notin Chars /\ Unescape(u[i]) = t[i]
      BY <3>1, Unescaping
    <3>. QED  BY <3>2, CharsAssumption
  <2>3. CASE t[i] \notin S
    <3>1. u[i] = t[i]
      BY <2>3
    <3>. QED  BY <2>1, <2>3, <3>1, Unescaping
  <2>. QED  BY <2>2, <2>3
<1>3. DOMAIN u = DOMAIN t
  OBVIOUS
<1>4. u \in [1 .. Len(t) -> Letters]
  BY <1>1, <1>2
<1>5. u \in Seq(Letters) /\ Len(u) = Len(t)
  BY <1>1, <1>4
<1>6. Decode(u) = [i \in DOMAIN t |-> t[i]]
  BY <1>2, <1>3 DEF Decode
<1>7. t = [i \in DOMAIN t |-> t[i]]
  BY <1>1
<1>8. \A x \in S : ~Contains(u, x)
  BY <1>1, <1>2, <1>5 DEF Contains
<1>. QED  BY <1>5, <1>6, <1>7, <1>8

\* What is encoded is read as it was, and has no syntax of its own.
LEMMA Encoded ==
  ASSUME NEW t \in Seq(Chars)
  PROVE  /\ Decode(Encode(t)) = t /\ Encode(t) \in Seq(Letters)
         /\ \A x \in Syntax : ~Contains(Encode(t), x)
BY DecodeEscaped DEF Encode

\* Nor has a path, but for its separators.
LEMMA EncodedPath ==
  ASSUME NEW t \in Seq(Chars)
  PROVE  /\ Decode(EncodePath(t)) = t /\ EncodePath(t) \in Seq(Letters)
         /\ \A x \in Syntax \ {"/"} : ~Contains(EncodePath(t), x)
<1>. DEFINE S == Syntax \ {"/"}
<1>1. EncodePath(t) = [i \in DOMAIN t |-> IF t[i] \in S THEN Escaped[t[i]] ELSE t[i]]
  <2>1. ASSUME NEW i \in DOMAIN t
        PROVE  (IF t[i] = "/" THEN "/" ELSE Encode(t)[i])
                 = (IF t[i] \in S THEN Escaped[t[i]] ELSE t[i])
    BY DEF Encode
  <2>. HIDE DEF S
  <2>. QED  BY <2>1 DEF EncodePath
<1>2. S \in SUBSET Syntax
  OBVIOUS
<1>. HIDE DEF S
<1>3. /\ Decode(EncodePath(t)) = t /\ EncodePath(t) \in Seq(Letters)
      /\ \A x \in S : ~Contains(EncodePath(t), x)
  BY <1>1, <1>2, DecodeEscaped, ZenonT(60)
<1>. QED  BY <1>3 DEF S

-----------------------------------------------------------------------------
(* What is read back of a ref, kind by kind.                                    *)

Keyed(K) == {p \in Pieces : p # <<>> /\ Head(p) \in K}
DirOf(l) == IF l.dir = Absent THEN Absent ELSE Encode(l.dir)
Value(v) == IF v = Absent THEN Absent ELSE Decode(v)

\* The keys of parameters are characters of a ref, and no marks.
LEMMA KeysAreLetters ==
  /\ ParamKeys \subseteq Letters /\ {"?", "&", "/"} \cap ParamKeys = {}
  /\ Range(Scheme) \subseteq Letters /\ {"?", "&", "/"} \cap Range(Scheme) = {}
  /\ \A t \in Forges \cup {"git", "file", "path"} : Scheme[t] \in Range(Scheme)
<1>1. ParamKeys \subseteq Letters /\ Range(Scheme) \subseteq Letters
  BY DEF Letters
<1>2. {"?", "&", "/"} \cap ParamKeys = {}
  BY DEF ParamKeys
<1>3. \A t \in Forges \cup {"git", "file", "path"} : Scheme[t] \in Range(Scheme)
  BY DEF Range, Scheme
<1>4. {"?", "&", "/"} \cap Range(Scheme) = {}
  <2>1. ASSUME NEW t \in Forges \cup {"git", "file", "path"} PROVE Scheme[t] \notin {"?", "&", "/"}
    BY DEF Scheme, Forges
  <2>. QED  BY <2>1 DEF Range, Scheme
<1>. QED  BY <1>1, <1>2, <1>3, <1>4

\* A parameter is one piece, with its key in front.
LEMMA ParamKeyed ==
  ASSUME NEW K, NEW k \in ParamKeys \cap K, NEW v \in Seq(Letters) \cup {Absent},
         v # Absent => ~Contains(v, "&")
  PROVE  Param(k, v) \in Seq(Keyed(K))
<1>1. CASE v = Absent
  BY <1>1 DEF Param
<1>2. CASE v # Absent
  <2>. DEFINE p == <<k>> \o v
  <2>1. v \in Seq(Letters) /\ Param(k, v) = <<p>> /\ k \in Letters /\ k # "&"
    BY <1>2, KeysAreLetters DEF Param
  <2>2. p \in Seq(Letters) /\ p # <<>> /\ Head(p) = k
    BY <2>1, KeyAndValue
  <2>3. ~Contains(p, "&")
    <3>1. ~Contains(<<k>>, "&") /\ <<k>> \in Seq(Letters)
      BY <2>1, ContainsOne
    <3>. QED  BY <1>2, <2>1, <3>1, ContainsParts
  <2>4. p \in Keyed(K)
    BY <2>2, <2>3 DEF Keyed, Pieces
  <2>. HIDE DEF p
  <2>. QED  BY <2>1, <2>4
<1>. QED  BY <1>1, <1>2

\* What a parameter carries is read as it was.
LEMMA Values ==
  /\ \A v \in Seq(Chars) \cup {Absent} : Value(v) = v /\ v \in Seq(Letters) \cup {Absent}
  /\ \A l : l.dir \in Seq(Chars) \cup {Absent} =>
       /\ Value(DirOf(l)) = l.dir /\ DirOf(l) \in Seq(Letters) \cup {Absent}
       /\ DirOf(l) # Absent => ~Contains(DirOf(l), "&")
       /\ DirParam(l) = Param("dir=", DirOf(l))
<1>1. ASSUME NEW v \in Seq(Chars) \cup {Absent}
      PROVE  Value(v) = v /\ v \in Seq(Letters) \cup {Absent}
  BY DecodePlain DEF Value
<1>2. ASSUME NEW l, l.dir \in Seq(Chars) \cup {Absent}
      PROVE  /\ Value(DirOf(l)) = l.dir /\ DirOf(l) \in Seq(Letters) \cup {Absent}
             /\ DirOf(l) # Absent => ~Contains(DirOf(l), "&")
             /\ DirParam(l) = Param("dir=", DirOf(l))
  <2>1. CASE l.dir = Absent
    BY <2>1 DEF Value, DirOf, DirParam, Param
  <2>2. CASE l.dir # Absent
    <3>1. l.dir \in Seq(Chars) /\ DirOf(l) = Encode(l.dir)
      BY <1>2, <2>2 DEF DirOf
    <3>2. /\ Decode(Encode(l.dir)) = l.dir /\ Encode(l.dir) \in Seq(Letters)
          /\ ~Contains(Encode(l.dir), "&")
      BY <3>1, Encoded, CharsAssumption
    <3>. QED  BY <2>2, <3>1, <3>2, AbsentIsNoText DEF Value, DirParam
  <2>. QED  BY <2>1, <2>2
<1>. QED  BY <1>1, <1>2

\* The pieces of a query are texts.
LEMMA AskedTexts ==
  ASSUME NEW ref, NEW a, NEW ps, Asks(ref, a, ps)
  PROVE  ps \in Seq(Seq(Letters))
<1>1. CASE ps = <<>>
  BY <1>1
<1>2. ASSUME NEW q \in Seq(Letters), ps = Split(q, "&") PROVE ps \in Seq(Seq(Letters))
  <2>1. PICK p \in Seq(Seq(Letters)), l \in Seq(Letters) : ps = Append(p, l)
    BY <1>2, SplitHasLast
  <2>. QED  BY <2>1, AppendProperties
<1>. QED  BY <1>1, <1>2 DEF Asks

\* What stands in front of a ref is part of its address.
LEMMA AskingBehind ==
  ASSUME NEW ref, NEW a, NEW ps, Asks(ref, a, ps), NEW pre \in Seq(Letters), ~Contains(pre, "?")
  PROVE  Asks(pre \o ref, pre \o a, ps)
<1>1. a \in Seq(Letters) /\ ~Contains(a, "?")
  BY DEF Asks
<1>2. pre \o a \in Seq(Letters) /\ ~Contains(pre \o a, "?")
  BY <1>1, ContainsParts, ConcatProperties
<1>3. ASSUME NEW q \in Seq(Letters), ref = a \o <<"?">> \o q
      PROVE  pre \o ref = (pre \o a) \o <<"?">> \o q
  <2>1. <<"?">> \in Seq(Letters)
    BY MarksAreLetters
  <2>. DEFINE mark == <<"?">>
  <2>2. a \o mark \in Seq(Letters)
    BY <1>1, <2>1, Joined
  <2>3. pre \o ((a \o mark) \o q) = (pre \o (a \o mark)) \o q
    BY <2>2, ConcatAssociative
  <2>4. pre \o (a \o mark) = (pre \o a) \o mark
    BY <1>1, <2>1, ConcatAssociative
  <2>. QED  BY <1>3, <2>3, <2>4
<1>. QED  BY <1>2, <1>3 DEF Asks

\* A text without a query is an address.
LEMMA AskingNothing ==
  ASSUME NEW a \in Seq(Letters), ~Contains(a, "?")
  PROVE  Asks(a, a, <<>>)
BY DEF Asks

\* Two parameters behind a query that asks for neither.
LEMMA TwoAnswers ==
  ASSUME NEW qs \in Seq(Seq(Letters)), NEW k \in ParamKeys \ {"dir="},
         NEW v \in Seq(Letters) \cup {Absent}, NEW d \in Seq(Letters) \cup {Absent},
         Answer(qs, k) = Absent, Answer(qs, "dir=") = Absent
  PROVE  /\ (qs \o Param(k, v)) \o Param("dir=", d) \in Seq(Seq(Letters))
         /\ Answer((qs \o Param(k, v)) \o Param("dir=", d), k) = v
         /\ Answer((qs \o Param(k, v)) \o Param("dir=", d), "dir=") = d
<1>. DEFINE one == qs \o Param(k, v)
<1>1. k \in Letters /\ "dir=" \in Letters /\ k # "dir="
  BY KeysAreLetters DEF ParamKeys
<1>2. one \in Seq(Seq(Letters)) /\ Answer(one, k) = v
  BY <1>1, AnswerParam
<1>3. Answer(one, "dir=") = Absent
  BY <1>1, AnswerParam
<1>. HIDE DEF one
<1>4. one \o Param("dir=", d) \in Seq(Seq(Letters)) /\ Answer(one \o Param("dir=", d), "dir=") = d
  BY <1>1, <1>2, <1>3, AnswerParam
<1>5. Answer(one \o Param("dir=", d), k) = v
  <2>1. CASE v = Absent
    BY <1>1, <1>2, <2>1, AnswerParam
  <2>2. CASE v # Absent
    BY <1>1, <1>2, <2>2, AnswerParam
  <2>. QED  BY <2>1, <2>2
<1>. QED  BY <1>4, <1>5 DEF one

\* What is taken out of a query again is what was added to it.
LEMMA KeptOwn ==
  ASSUME NEW K, NEW ups \in Seq(Seq(Letters)), NEW ps \in Seq(Keyed(K)),
         \A i \in DOMAIN ups : ups[i] = <<>> \/ Head(ups[i]) \notin K
  PROVE  LET query == ups \o ps IN
         Kept(query, {p \in Range(query) : p = <<>> \/ Head(p) \notin K}) = ups
<1>. DEFINE query == ups \o ps
            P == {p \in Range(query) : p = <<>> \/ Head(p) \notin K}
            X == Seq(Letters)
<1>1. ps \in Seq(X)
  <2>1. Keyed(K) \subseteq X
    BY DEF Keyed, Pieces
  <2>. QED  BY <2>1, SeqMonotonic
<1>2. Range(query) = Range(ups) \cup Range(ps)
  BY <1>1, RangeConcatenation
<1>3. ups \in Seq(P)
  <2>1. ASSUME NEW i \in 1 .. Len(ups) PROVE ups[i] \in P
    <3>1. i \in DOMAIN ups /\ ups[i] \in Range(ups)
      BY DEF Range
    <3>. QED  BY <1>2, <3>1
  <2>. HIDE DEF P
  <2>2. ups \in [1 .. Len(ups) -> P] /\ Len(ups) \in Nat
    BY <2>1
  <2>. DEFINE n == Len(ups)
  <2>3. ups \in [1 .. n -> P] /\ n \in Nat
    BY <2>2
  <2>. HIDE DEF n, query, X
  <2>. QED  BY ONLY <2>3
<1>4. ps \in Seq(X \ P)
  <2>1. Keyed(K) \subseteq X \ P
    BY DEF Keyed, Pieces
  <2>. HIDE DEF P, X
  <2>. QED  BY <2>1, SeqMonotonic
<1>. HIDE DEF P, X
<1>5. Kept(ups \o ps, P) = Kept(ups, P)
  BY <1>4, KeptDrops DEF X
<1>6. Kept(ups, P) = ups
  BY <1>3, KeptAll
<1>. QED  BY <1>5, <1>6 DEF P

\* A URL without the keys answers none of them.
LEMMA KeylessAnswers ==
  ASSUME NEW url \in Seq(Letters), NEW a, NEW ups, Asks(url, a, ups), NEW K, Keyless(url, K)
  PROVE  /\ \A i \in DOMAIN ups : ups[i] = <<>> \/ Head(ups[i]) \notin K
         /\ \A key \in K : Answer(ups, key) = Absent
<1>1. QueryOf(url) = ups /\ url # Absent
  BY AskedIsRead, AbsentIsNoText
<1>2. \A i \in DOMAIN ups : ups[i] = <<>> \/ Head(ups[i]) \notin K
  BY <1>1 DEF Keyless
<1>3. ASSUME NEW key \in K PROVE Answer(ups, key) = Absent
  BY <1>2 DEF Answer, Hits
<1>. QED  BY <1>2, <1>3

\* A URL that does not begin with its query begins with its address.
LEMMA AddressFirst ==
  ASSUME NEW url \in Seq(Letters), NEW a, NEW ups, Asks(url, a, ups), url # <<>>, url[1] # "?"
  PROVE  a # <<>> /\ Head(a) = url[1]
<1>1. a \in Seq(Letters)
  BY DEF Asks
<1>2. CASE url = a
  BY <1>1, <1>2
<1>3. ASSUME NEW q \in Seq(Letters), url = a \o <<"?">> \o q
      PROVE  a # <<>> /\ Head(a) = url[1]
  <2>. DEFINE aq == a \o <<"?">>
  <2>1. /\ aq \in Seq(Letters) /\ Len(aq) = Len(a) + 1 /\ Len(a) \in Nat
        /\ aq[1] = IF a = <<>> THEN "?" ELSE a[1]
    BY <1>1, MarksAreLetters
  <2>. HIDE DEF aq
  <2>2. (aq \o q)[1] = aq[1]
    BY <2>1, ConcatProperties
  <2>3. url[1] = aq[1]
    BY <1>3, <2>2 DEF aq
  <2>. QED  BY <1>1, <2>1, <2>3
<1>. QED  BY <1>2, <1>3 DEF Asks

(* The parameters that the ref of a URL is given.                              *)
KeyAndDir(k, v, d) == Param(k, v) \o Param("dir=", d)

\* They have the ref's own keys, and are added one after the other.
LEMMA UrlParams ==
  ASSUME NEW k \in ParamKeys \ {"dir="}, NEW v \in Pieces \cup {Absent},
         NEW d \in Pieces \cup {Absent}
  PROVE  /\ KeyAndDir(k, v, d) \in Seq(Keyed({k, "dir="}))
         /\ \A qs \in Seq(Seq(Letters)) :
              qs \o KeyAndDir(k, v, d) = (qs \o Param(k, v)) \o Param("dir=", d)
<1>. DEFINE K == {k, "dir="}
<1>1. k \in ParamKeys \cap K /\ "dir=" \in ParamKeys \cap K
  BY DEF ParamKeys
<1>. HIDE DEF K
<1>2. Param(k, v) \in Seq(Keyed(K)) /\ Param("dir=", d) \in Seq(Keyed(K))
  BY <1>1, ParamKeyed DEF Pieces
<1>3. Keyed(K) \subseteq Seq(Letters)
  BY DEF Keyed, Pieces
<1>4. Param(k, v) \in Seq(Seq(Letters)) /\ Param("dir=", d) \in Seq(Seq(Letters))
  BY <1>2, <1>3, SeqMonotonic
<1>5. ASSUME NEW qs \in Seq(Seq(Letters))
      PROVE  qs \o (Param(k, v) \o Param("dir=", d)) = (qs \o Param(k, v)) \o Param("dir=", d)
  <2>. DEFINE one == Param(k, v)
              two == Param("dir=", d)
  <2>1. one \in Seq(Seq(Letters)) /\ two \in Seq(Seq(Letters))
    BY <1>4
  <2>. HIDE DEF one, two
  <2>2. (qs \o one) \o two = qs \o (one \o two)
    BY ONLY qs \in Seq(Seq(Letters)), <2>1, ConcatAssociative
  <2>. QED  BY <2>2 DEF one, two
<1>6. Param(k, v) \o Param("dir=", d) \in Seq(Keyed(K))
  BY <1>2, ConcatProperties
<1>. QED  BY <1>5, <1>6 DEF K, KeyAndDir

\* The address and the query of the ref that is written of a URL.
LEMMA UrlAsks ==
  ASSUME NEW url \in Seq(Letters), NEW a, NEW ups, Asks(url, a, ups),
         NEW K, NEW params \in Seq(Keyed(K)), NEW pre \in Seq(Letters), ~Contains(pre, "?"),
         NEW ref, ref = WithParams(pre \o url, params)
  PROVE  ref \in Seq(Letters) /\ BeforeQuery(ref) = pre \o a /\ QueryOf(ref) = ups \o params
<1>1. Asks(pre \o url, pre \o a, ups)
  BY AskingBehind
<1>2. params \in Seq(Pieces)
  <2>1. Keyed(K) \subseteq Pieces
    BY DEF Keyed
  <2>. QED  BY <2>1, SeqMonotonic
<1>3. ups \in Seq(Seq(Letters))
  BY AskedTexts
<1>4. Asks(WithParams(pre \o url, params), pre \o a, ups \o params)
  BY <1>1, <1>2, <1>3, AskingParams
<1>. QED  BY <1>4, AskedIsRead

(* A query that asks for none of the keys, and an address without a query.      *)
Lacks(ups, K) == \A i \in DOMAIN ups : ups[i] = <<>> \/ Head(ups[i]) \notin K
Bare == {t \in Seq(Letters) : ~Contains(t, "?")}

\* A URL that asks for neither of the keys answers them when they are added.
LEMMA UrlAnswers ==
  ASSUME NEW ups \in Seq(Seq(Letters)), NEW k \in ParamKeys \ {"dir="},
         NEW v \in Pieces \cup {Absent}, NEW d \in Pieces \cup {Absent},
         NEW K, K = {k, "dir="}, Lacks(ups, K)
  PROVE  /\ KeyAndDir(k, v, d) \in Seq(Keyed(K))
         /\ ups \o KeyAndDir(k, v, d) \in Seq(Seq(Letters))
         /\ Answer(ups \o KeyAndDir(k, v, d), k) = v
         /\ Answer(ups \o KeyAndDir(k, v, d), "dir=") = d
<1>1. /\ KeyAndDir(k, v, d) \in Seq(Keyed(K))
      /\ ups \o KeyAndDir(k, v, d) = (ups \o Param(k, v)) \o Param("dir=", d)
  BY ONLY ups \in Seq(Seq(Letters)), k \in ParamKeys \ {"dir="}, v \in Pieces \cup {Absent},
          d \in Pieces \cup {Absent}, K = {k, "dir="}, UrlParams, ZenonT(60)
<1>2. Answer(ups, k) = Absent /\ Answer(ups, "dir=") = Absent
  BY DEF Answer, Hits, Lacks
<1>3. /\ (ups \o Param(k, v)) \o Param("dir=", d) \in Seq(Seq(Letters))
      /\ Answer((ups \o Param(k, v)) \o Param("dir=", d), k) = v
      /\ Answer((ups \o Param(k, v)) \o Param("dir=", d), "dir=") = d
  <2>1. v \in Seq(Letters) \cup {Absent} /\ d \in Seq(Letters) \cup {Absent}
    BY DEF Pieces
  <2>. QED  BY ONLY ups \in Seq(Seq(Letters)), k \in ParamKeys \ {"dir="}, <2>1, <1>2, TwoAnswers
<1>. QED  BY <1>1, <1>3, Zenon

\* What nix takes from the ref of a URL.
LEMMA RefAnswers ==
  ASSUME NEW url \in Seq(Letters), NEW a, NEW ups, Asks(url, a, ups),
         NEW K, NEW params \in Seq(Keyed(K)), NEW pre \in Bare, Lacks(ups, K),
         NEW ref, ref = WithParams(pre \o url, params)
  PROVE  /\ ref \in Seq(Letters) /\ BeforeQuery(ref) = pre \o a /\ QueryOf(ref) = ups \o params
         /\ Address(a, ref, K) = url
<1>1. ref \in Seq(Letters) /\ BeforeQuery(ref) = pre \o a /\ QueryOf(ref) = ups \o params
  BY UrlAsks, SMTT(30) DEF Bare
<1>2. Kept(ups \o params, {p \in Range(ups \o params) : p = <<>> \/ Head(p) \notin K}) = ups
  BY AskedTexts, KeptOwn DEF Lacks
<1>3. Address(a, ref, K)
        = WithParams(a, Kept(ups \o params, {p \in Range(ups \o params) :
                                               p = <<>> \/ Head(p) \notin K}))
  BY <1>1, Zenon DEF Address
<1>4. WithParams(a, ups) = url
  BY AskingJoins
<1>. QED  BY <1>1, <1>2, <1>3, <1>4

\* The address of a ref, of which the keys are taken out, is the URL, behind what
\* stands in front of it.
ReadsUrl(ref, pre, K, url) ==
  \E a \in Seq(Letters) :
    /\ BeforeQuery(ref) = pre \o a /\ Address(a, ref, K) = url
    /\ url # <<>> /\ url[1] # "?" => a # <<>> /\ Head(a) = url[1]

\* A URL that nix would not have left a key of its scheme in is read back as it
\* was, and so are the key's value and the directory, whatever stands in front.
LEMMA UrlRead ==
  ASSUME NEW url \in Seq(Letters), NEW k \in ParamKeys \ {"dir="},
         NEW v \in Pieces \cup {Absent}, NEW d \in Pieces \cup {Absent},
         NEW K, K = {k, "dir="}, Keyless(url, K), NEW pre \in Bare,
         NEW ref, ref = WithParams(pre \o url, KeyAndDir(k, v, d))
  PROVE  /\ ref \in Seq(Letters)
         /\ Asked(ref, k) = Value(v) /\ Asked(ref, "dir=") = Value(d)
         /\ ReadsUrl(ref, pre, K, url)
<1>1. PICK a, ups : Asks(url, a, ups)
  BY EveryTextAsks
<1>2. a \in Seq(Letters) /\ ups \in Seq(Seq(Letters))
  BY <1>1, AskedTexts DEF Asks
<1>3. Lacks(ups, K)
  BY <1>1, KeylessAnswers DEF Lacks
<1>4. /\ KeyAndDir(k, v, d) \in Seq(Keyed(K))
      /\ ups \o KeyAndDir(k, v, d) \in Seq(Seq(Letters))
      /\ Answer(ups \o KeyAndDir(k, v, d), k) = v
      /\ Answer(ups \o KeyAndDir(k, v, d), "dir=") = d
  BY ONLY <1>2, <1>3, K = {k, "dir="}, k \in ParamKeys \ {"dir="}, v \in Pieces \cup {Absent},
          d \in Pieces \cup {Absent}, UrlAnswers, SMTT(30)
<1>. DEFINE params == KeyAndDir(k, v, d)
<1>. HIDE DEF params
<1>5. /\ ref = WithParams(pre \o url, params) /\ params \in Seq(Keyed(K))
      /\ ups \o params \in Seq(Seq(Letters))
      /\ Answer(ups \o params, k) = v /\ Answer(ups \o params, "dir=") = d
  BY <1>4 DEF params
<1>6. /\ ref \in Seq(Letters) /\ BeforeQuery(ref) = pre \o a /\ QueryOf(ref) = ups \o params
      /\ Address(a, ref, K) = url
  BY ONLY url \in Seq(Letters), pre \in Bare, <1>1, <1>3, <1>5, RefAnswers,
          SMTT(60)
<1>7. \A key : Asked(ref, key) = Value(Answer(QueryOf(ref), key))
  BY <1>5, <1>6, AskedAnswer DEF Value
<1>8. Asked(ref, k) = Value(v) /\ Asked(ref, "dir=") = Value(d)
  BY <1>5, <1>6, <1>7
<1>9. url # <<>> /\ url[1] # "?" => a # <<>> /\ Head(a) = url[1]
  BY <1>1, AddressFirst
<1>10. ReadsUrl(ref, pre, K, url)
  BY <1>2, <1>6, <1>9 DEF ReadsUrl
<1>. QED  BY <1>6, <1>8, <1>10

-----------------------------------------------------------------------------
(* Each kind of ref is read back as the source that it was written of.          *)

\* A ref whose address has no query of its own.
LEMMA PlainAsks ==
  ASSUME NEW base \in Bare, NEW params \in Seq(Pieces), NEW ref, ref = WithParams(base, params)
  PROVE  ref \in Seq(Letters) /\ BeforeQuery(ref) = base /\ QueryOf(ref) = params
<1>. DEFINE none == <<>>
<1>1. none \in Seq(Seq(Letters)) /\ Asks(base, base, none)
  BY AskingNothing DEF Bare
<1>2. none \o params = params
  BY ConcatEmptySeq
<1>. HIDE DEF none
<1>3. Asks(ref, base, none \o params)
  BY <1>1, AskingParams
<1>. QED  BY <1>2, <1>3, AskedIsRead

\* Only a forge's scheme is one of a forge.
LEMMA SchemesDiffer ==
  /\ \A t \in Forges : Scheme[t] \notin {"git+", "file+", "path:"}
  /\ \A s, t \in Forges : Scheme[s] = Scheme[t] => s = t
  /\ \A t \in Forges : t \notin {"git", "path", "tarball", "file"}
  /\ Range(Scheme) = {"git+", "file+", "path:"} \cup {Scheme[t] : t \in Forges}
<1>1. /\ Scheme["github"] = "github:" /\ Scheme["gitlab"] = "gitlab:"
      /\ Scheme["sourcehut"] = "sourcehut:" /\ Scheme["git"] = "git+"
      /\ Scheme["file"] = "file+" /\ Scheme["path"] = "path:"
      /\ DOMAIN Scheme = {"github", "gitlab", "sourcehut", "git", "file", "path"}
  BY DEF Scheme, Forges
<1>. QED  BY <1>1 DEF Range, Forges

\* One parameter by itself.
LEMMA OneAnswer ==
  ASSUME NEW k \in Letters, NEW v \in Seq(Letters) \cup {Absent}
  PROVE  /\ Param(k, v) \in Seq(Seq(Letters)) /\ Answer(Param(k, v), k) = v
         /\ \A key : key # k => Answer(Param(k, v), key) = Absent
<1>. DEFINE none == <<>>
<1>1. none \in Seq(Seq(Letters)) /\ Answer(none, k) = Absent
  BY AnswerNone
<1>2. none \o Param(k, v) = Param(k, v)
  <2>1. Param(k, v) \in Seq(Seq(Letters))
    <3>1. v # Absent => <<k>> \o v \in Seq(Letters)
      BY KeyAndValue
    <3>. QED  BY <3>1 DEF Param
  <2>. QED  BY <2>1, ConcatEmptySeq
<1>. HIDE DEF none
<1>3. none \o Param(k, v) \in Seq(Seq(Letters)) /\ Answer(none \o Param(k, v), k) = v
  BY <1>1, AnswerParam
<1>4. ASSUME NEW key, key # k PROVE Answer(none \o Param(k, v), key) = Absent
  <2>1. Answer(none, key) = Absent
    BY AnswerNone DEF none
  <2>. QED  BY <1>1, <1>4, <2>1, AnswerParam
<1>. QED  BY <1>2, <1>3, <1>4

(* An entry that is not of a forge.                                            *)
Entry(type, rev, url, path, dir, narHash) ==
  [owner |-> Absent, repo |-> Absent, rev |-> rev, host |-> Absent, url |-> url,
   path |-> path, dir |-> dir, narHash |-> narHash, type |-> type]

\* An entry with one attribute changed, and the one with none.
LEMMA EntryWith ==
  /\ \A t, v, u, p, d, n, x :
       /\ [Entry(t, v, u, p, d, n) EXCEPT !.type = x] = Entry(x, v, u, p, d, n)
       /\ [Entry(t, v, u, p, d, n) EXCEPT !.rev = x] = Entry(t, x, u, p, d, n)
       /\ [Entry(t, v, u, p, d, n) EXCEPT !.url = x] = Entry(t, v, x, p, d, n)
       /\ [Entry(t, v, u, p, d, n) EXCEPT !.path = x] = Entry(t, v, u, x, d, n)
       /\ [Entry(t, v, u, p, d, n) EXCEPT !.dir = x] = Entry(t, v, u, p, x, n)
       /\ [Entry(t, v, u, p, d, n) EXCEPT !.narHash = x] = Entry(t, v, u, p, d, x)
  /\ Blank = Entry("indirect", Absent, Absent, Absent, Absent, Absent)
BY DEF Entry, Blank

\* An entry with a URL and a revision.
LEMMA EntryOfRev ==
  ASSUME NEW t, NEW u, NEW v, NEW d
  PROVE  [Blank EXCEPT !.type = t, !.url = u, !.rev = v, !.dir = d]
           = Entry(t, v, u, Absent, d, Absent)
<1>. DEFINE b1 == [Blank EXCEPT !.type = t]
            b2 == [b1 EXCEPT !.url = u]
            b3 == [b2 EXCEPT !.rev = v]
            b4 == [b3 EXCEPT !.dir = d]
<1>1. [Blank EXCEPT !.type = t, !.url = u, !.rev = v, !.dir = d] = b4
  OBVIOUS
<1>2. b1 = Entry(t, Absent, Absent, Absent, Absent, Absent)
  BY EntryWith
<1>. HIDE DEF b1
<1>3. b2 = Entry(t, Absent, u, Absent, Absent, Absent)
  BY <1>2, EntryWith
<1>. HIDE DEF b2
<1>4. b3 = Entry(t, v, u, Absent, Absent, Absent)
  BY <1>3, EntryWith
<1>. HIDE DEF b3
<1>5. b4 = Entry(t, v, u, Absent, d, Absent)
  BY <1>4, EntryWith
<1>. HIDE DEF b4
<1>. QED  BY ONLY <1>1, <1>5

\* An entry with a URL and a hash.
LEMMA EntryOfHash ==
  ASSUME NEW t, NEW u, NEW n, NEW d
  PROVE  [Blank EXCEPT !.type = t, !.url = u, !.narHash = n, !.dir = d]
           = Entry(t, Absent, u, Absent, d, n)
<1>. DEFINE b1 == [Blank EXCEPT !.type = t]
            b2 == [b1 EXCEPT !.url = u]
            b3 == [b2 EXCEPT !.narHash = n]
            b4 == [b3 EXCEPT !.dir = d]
<1>1. [Blank EXCEPT !.type = t, !.url = u, !.narHash = n, !.dir = d] = b4
  OBVIOUS
<1>2. b1 = Entry(t, Absent, Absent, Absent, Absent, Absent)
  BY EntryWith
<1>. HIDE DEF b1
<1>3. b2 = Entry(t, Absent, u, Absent, Absent, Absent)
  BY <1>2, EntryWith
<1>. HIDE DEF b2
<1>4. b3 = Entry(t, Absent, u, Absent, Absent, n)
  BY <1>3, EntryWith
<1>. HIDE DEF b3
<1>5. b4 = Entry(t, Absent, u, Absent, d, n)
  BY <1>4, EntryWith
<1>. HIDE DEF b4
<1>. QED  BY ONLY <1>1, <1>5

\* An entry with a path.
LEMMA EntryOfPath ==
  ASSUME NEW t, NEW p, NEW d
  PROVE  [Blank EXCEPT !.type = t, !.path = p, !.dir = d]
           = Entry(t, Absent, Absent, p, d, Absent)
<1>. DEFINE b1 == [Blank EXCEPT !.type = t]
            b2 == [b1 EXCEPT !.path = p]
            b3 == [b2 EXCEPT !.dir = d]
<1>1. [Blank EXCEPT !.type = t, !.path = p, !.dir = d] = b3
  OBVIOUS
<1>2. b1 = Entry(t, Absent, Absent, Absent, Absent, Absent)
  BY EntryWith
<1>. HIDE DEF b1
<1>3. b2 = Entry(t, Absent, Absent, p, Absent, Absent)
  BY <1>2, EntryWith
<1>. HIDE DEF b2
<1>4. b3 = Entry(t, Absent, Absent, p, d, Absent)
  BY <1>3, EntryWith
<1>. HIDE DEF b3
<1>. QED  BY ONLY <1>1, <1>4

\* What nix reads of a ref with each of the schemes, and of one with none.
LEMMA ReadByScheme ==
  ASSUME NEW ref
  PROVE  /\ \A t \in Forges : Head(BeforeQuery(ref)) = Scheme[t] => NixReads(ref) = ReadForge(t, ref)
         /\ Head(BeforeQuery(ref)) = "git+" =>
              NixReads(ref) = Entry("git", Asked(ref, "rev="),
                                    Address(Tail(BeforeQuery(ref)), ref, {"rev=", "dir="}), Absent,
                                    Asked(ref, "dir="), Absent)
         /\ Head(BeforeQuery(ref)) = "path:" =>
              NixReads(ref) = Entry("path", Absent, Absent, Decode(Tail(BeforeQuery(ref))),
                                    Asked(ref, "dir="), Absent)
         /\ Head(BeforeQuery(ref)) = "file+" =>
              NixReads(ref) = Entry("file", Absent,
                                    Address(Tail(BeforeQuery(ref)), ref, {"narHash=", "dir="}), Absent,
                                    Asked(ref, "dir="), Asked(ref, "narHash="))
         /\ Head(BeforeQuery(ref)) \notin Range(Scheme) =>
              NixReads(ref) = Entry("tarball", Absent,
                                    Address(BeforeQuery(ref), ref, {"narHash=", "dir="}), Absent,
                                    Asked(ref, "dir="), Asked(ref, "narHash="))
<1>. DEFINE h == Head(BeforeQuery(ref))
<1>1. ASSUME NEW t \in Forges, h = Scheme[t] PROVE NixReads(ref) = ReadForge(t, ref)
  <2>1. ForgeOf(BeforeQuery(ref)) = t
    BY <1>1, SchemesDiffer DEF ForgeOf
  <2>2. Head(BeforeQuery(ref)) \notin {"git+", "file+", "path:"}
    BY <1>1, SchemesDiffer
  <2>. QED  BY <1>1, <2>1, <2>2 DEF NixReads
<1>2. h \in {"git+", "file+", "path:"} => ~\E t \in Forges : h = Scheme[t]
  BY SchemesDiffer
<1>3. h \notin Range(Scheme) =>
        h \notin {"git+", "file+", "path:"} /\ ~\E t \in Forges : h = Scheme[t]
  BY SchemesDiffer
<1>4. ASSUME h = "git+"
      PROVE  NixReads(ref) = Entry("git", Asked(ref, "rev="),
                                   Address(Tail(BeforeQuery(ref)), ref, {"rev=", "dir="}), Absent,
                                   Asked(ref, "dir="), Absent)
  <2>1. NixReads(ref) = [Blank EXCEPT
          !.type = "git", !.url = Address(Tail(BeforeQuery(ref)), ref, {"rev=", "dir="}),
          !.rev = Asked(ref, "rev="), !.dir = Asked(ref, "dir=")]
    BY <1>2, <1>4 DEF NixReads
  <2>. QED  BY <2>1, EntryOfRev
<1>5. ASSUME h = "path:"
      PROVE  NixReads(ref) = Entry("path", Absent, Absent, Decode(Tail(BeforeQuery(ref))),
                                   Asked(ref, "dir="), Absent)
  <2>1. NixReads(ref) = [Blank EXCEPT
          !.type = "path", !.path = Decode(Tail(BeforeQuery(ref))), !.dir = Asked(ref, "dir=")]
    BY <1>2, <1>5 DEF NixReads
  <2>. QED  BY <2>1, EntryOfPath
<1>6. ASSUME h = "file+"
      PROVE  NixReads(ref) = Entry("file", Absent,
                                   Address(Tail(BeforeQuery(ref)), ref, {"narHash=", "dir="}), Absent,
                                   Asked(ref, "dir="), Asked(ref, "narHash="))
  <2>1. NixReads(ref) = [Blank EXCEPT
          !.type = "file", !.url = Address(Tail(BeforeQuery(ref)), ref, {"narHash=", "dir="}),
          !.narHash = Asked(ref, "narHash="), !.dir = Asked(ref, "dir=")]
    BY <1>2, <1>6 DEF NixReads
  <2>. QED  BY <2>1, EntryOfHash
<1>7. ASSUME h \notin Range(Scheme)
      PROVE  NixReads(ref) = Entry("tarball", Absent,
                                   Address(BeforeQuery(ref), ref, {"narHash=", "dir="}), Absent,
                                   Asked(ref, "dir="), Asked(ref, "narHash="))
  <2>1. NixReads(ref) = [Blank EXCEPT
          !.type = "tarball", !.url = Address(BeforeQuery(ref), ref, {"narHash=", "dir="}),
          !.narHash = Asked(ref, "narHash="), !.dir = Asked(ref, "dir=")]
    BY <1>3, <1>7 DEF NixReads
  <2>. QED  BY <2>1, EntryOfHash
<1>. QED  BY <1>1, <1>4, <1>5, <1>6, <1>7

\* A local path.
LEMMA PathRead ==
  ASSUME NEW l \in Locked("path", {"path"}), l.path # Absent,
         NEW ref, ref = WithParams(<<"path:">> \o EncodePath(l.path), DirParam(l))
  PROVE  ref \in Seq(Letters) /\ NixReads(ref) = PinnedSource(l)
<1>. DEFINE e == EncodePath(l.path)
            base == <<"path:">> \o e
            params == Param("dir=", DirOf(l))
<1>1. l.path \in Seq(Chars) /\ l.dir \in Seq(Chars) \cup {Absent}
  BY DEF Locked, Attribute
<1>2. e \in Seq(Letters) /\ ~Contains(e, "?") /\ Decode(e) = l.path
  BY <1>1, EncodedPath, CharsAssumption
<1>3. "path:" \in Letters /\ "path:" # "?"
  BY KeysAreLetters, SchemesDiffer
<1>. HIDE DEF e
<1>4. base \in Seq(Letters) /\ base # <<>> /\ Head(base) = "path:" /\ Tail(base) = e
  BY <1>2, <1>3, KeyAndValue
<1>5. base \in Bare
  <2>1. <<"path:">> \in Seq(Letters) /\ ~Contains(<<"path:">>, "?")
    BY <1>3, ContainsOne
  <2>. QED  BY <1>2, <1>4, <2>1, ContainsParts DEF Bare
<1>6. params \in Seq(Pieces) /\ params = DirParam(l)
  <2>1. params \in Seq(Keyed({"dir="})) /\ params = DirParam(l)
    BY <1>1, Values, ParamKeyed DEF ParamKeys
  <2>. QED  BY <2>1, SeqMonotonic DEF Keyed
<1>7. ref = WithParams(base, params)
  BY <1>6 DEF e
<1>8. params \in Seq(Seq(Letters)) /\ Value(Answer(params, "dir=")) = l.dir
  <2>1. "dir=" \in Letters /\ DirOf(l) \in Seq(Letters) \cup {Absent} /\ Value(DirOf(l)) = l.dir
    BY <1>1, KeysAreLetters, Values DEF ParamKeys
  <2>. QED  BY <2>1, OneAnswer
<1>. HIDE DEF base, params
<1>9. ref \in Seq(Letters) /\ BeforeQuery(ref) = base /\ QueryOf(ref) = params
  BY <1>5, <1>6, <1>7, PlainAsks
<1>10. Asked(ref, "dir=") = l.dir
  BY <1>8, <1>9, AskedAnswer DEF Value
<1>11. NixReads(ref) = Entry("path", Absent, Absent, l.path, l.dir, Absent)
  BY <1>2, <1>4, <1>9, <1>10, ReadByScheme
<1>12. PinnedSource(l) = Entry("path", Absent, Absent, l.path, l.dir, Absent)
  <2>1. l \in [owner : {Absent}, repo : {Absent}, host : {Absent}, rev : {Absent}, url : {Absent},
               path : Seq(Chars) \cup {Absent}, dir : Seq(Chars) \cup {Absent},
               narHash : Seq(Chars) \cup {Absent}, type : {"path"}]
    BY DEF Locked, Attribute
  <2>. QED  BY <2>1 DEF Entry, PinnedSource
<1>. QED  BY <1>9, <1>11, <1>12

\* The ref of an entry with a URL, whatever stands in front of it.
LEMMA UrlKind ==
  ASSUME NEW url \in Seq(Chars), NEW d \in Pieces \cup {Absent},
         NEW k \in ParamKeys \ {"dir="}, NEW v \in Seq(Chars) \cup {Absent}, NoSeparator(v),
         NEW K, K = {k, "dir="}, Keyless(url, K), NEW pre \in Bare,
         NEW ref, ref = WithParams(pre \o url, KeyAndDir(k, v, d))
  PROVE  /\ ref \in Seq(Letters) /\ Asked(ref, k) = v /\ Asked(ref, "dir=") = Value(d)
         /\ ReadsUrl(ref, pre, K, url)
<1>1. url \in Seq(Letters)
  BY DecodePlain
<1>2. v \in Pieces \cup {Absent} /\ Value(v) = v
  <2>1. v \in Seq(Letters) \cup {Absent} /\ Value(v) = v
    BY Values
  <2>2. ASSUME v # Absent PROVE ~Contains(v, "&")
    <3>1. v \in Seq(Chars) /\ \A i \in DOMAIN v : v[i] # "&"
      BY <2>2 DEF NoSeparator
    <3>. QED  BY <3>1 DEF Contains
  <2>. QED  BY <2>1, <2>2 DEF Pieces
<1>3. /\ ref \in Seq(Letters)
      /\ Asked(ref, k) = Value(v) /\ Asked(ref, "dir=") = Value(d)
      /\ ReadsUrl(ref, pre, K, url)
  BY ONLY <1>1, <1>2, k \in ParamKeys \ {"dir="}, K = {k, "dir="}, pre \in Bare, Keyless(url, K),
          d \in Pieces \cup {Absent}, ref = WithParams(pre \o url, KeyAndDir(k, v, d)), UrlRead
<1>. QED  BY <1>2, <1>3

\* A scheme in front of an address.
LEMMA SchemeFirst ==
  ASSUME NEW s \in Range(Scheme)
  PROVE  /\ <<s>> \in Bare
         /\ \A a \in Seq(Letters) : Head(<<s>> \o a) = s /\ Tail(<<s>> \o a) = a
<1>1. s \in Letters /\ s # "?" /\ "?" \in Letters
  BY KeysAreLetters, MarksAreLetters
<1>2. <<s>> \in Seq(Letters) /\ ~Contains(<<s>>, "?")
  BY <1>1, ContainsOne
<1>. QED  BY <1>1, <1>2, KeyAndValue DEF Bare

\* A git repository.
LEMMA GitRead ==
  ASSUME NEW l \in Locked("git", {"url", "rev"}), l.url # Absent, NoSeparator(l.rev),
         Keyless(l.url, {"rev=", "dir="}),
         NEW ref, ref = WithParams(<<"git+">> \o l.url, Param("rev=", l.rev) \o DirParam(l))
  PROVE  ref \in Seq(Letters) /\ NixReads(ref) = PinnedSource(l)
<1>. DEFINE pre == <<"git+">>
            K == {"rev=", "dir="}
            url == l.url
            v == l.rev
            d == DirOf(l)
<1>1. url \in Seq(Chars) /\ v \in Seq(Chars) \cup {Absent} /\ l.dir \in Seq(Chars) \cup {Absent}
  BY DEF Locked, Attribute
<1>2. d \in Pieces \cup {Absent} /\ Value(d) = l.dir /\ DirParam(l) = Param("dir=", d)
  BY <1>1, Values DEF Pieces
<1>3. /\ pre \in Bare
      /\ \A a \in Seq(Letters) : Head(pre \o a) = "git+" /\ Tail(pre \o a) = a
  BY SchemesDiffer, SchemeFirst
<1>5. /\ K = {"rev=", "dir="} /\ Keyless(url, K) /\ NoSeparator(v)
      /\ ref = WithParams(pre \o url, KeyAndDir("rev=", v, d)) /\ "rev=" \in ParamKeys \ {"dir="}
  BY <1>2 DEF KeyAndDir, ParamKeys
<1>. HIDE DEF pre, K, url, v, d
<1>6. /\ ref \in Seq(Letters) /\ Asked(ref, "rev=") = v /\ Asked(ref, "dir=") = l.dir
      /\ ReadsUrl(ref, pre, K, url)
  <2>1. /\ ref \in Seq(Letters) /\ Asked(ref, "rev=") = v /\ Asked(ref, "dir=") = Value(d)
        /\ ReadsUrl(ref, pre, K, url)
    BY ONLY <1>1, <1>2, <1>3, <1>5, UrlKind
  <2>. QED  BY <1>2, <2>1
<1>7. PICK a \in Seq(Letters) :
        /\ BeforeQuery(ref) = pre \o a /\ Address(a, ref, K) = url
        /\ url # <<>> /\ url[1] # "?" => a # <<>> /\ Head(a) = url[1]
  BY <1>6 DEF ReadsUrl
<1>8. Head(BeforeQuery(ref)) = "git+" /\ Address(Tail(BeforeQuery(ref)), ref, K) = url
  <2>1. Head(pre \o a) = "git+" /\ Tail(pre \o a) = a
    BY ONLY <1>3, a \in Seq(Letters)
  <2>. QED  BY ONLY <1>7, <2>1
<1>9. NixReads(ref) = Entry("git", v, url, Absent, l.dir, Absent)
  BY <1>6, <1>8, ReadByScheme DEF K
<1>10. PinnedSource(l) = Entry("git", l.rev, l.url, Absent, l.dir, Absent)
  <2>1. l \in [owner : {Absent}, repo : {Absent}, host : {Absent}, path : {Absent},
               rev : Seq(Chars) \cup {Absent}, url : Seq(Chars) \cup {Absent},
               dir : Seq(Chars) \cup {Absent}, narHash : Seq(Chars) \cup {Absent}, type : {"git"}]
    BY DEF Locked, Attribute
  <2>. QED  BY <2>1 DEF Entry, PinnedSource
<1>. QED  BY <1>6, <1>9, <1>10 DEF url, v

\* An entry with a URL and a hash.
LEMMA HashedIsEntry ==
  ASSUME NEW t \in {"tarball", "file"}, NEW l \in Locked(t, {"url"})
  PROVE  PinnedSource(l) = Entry(t, Absent, l.url, Absent, l.dir, l.narHash)
<1>1. l \in [owner : {Absent}, repo : {Absent}, host : {Absent}, path : {Absent}, rev : {Absent},
             url : Seq(Chars) \cup {Absent}, dir : Seq(Chars) \cup {Absent},
             narHash : Seq(Chars) \cup {Absent}, type : {t}]
  BY DEF Locked, Attribute
<1>. QED  BY <1>1 DEF Entry, PinnedSource

\* A file.
LEMMA FileRead ==
  ASSUME NEW l \in Locked("file", {"url"}), l.url # Absent, NoSeparator(l.narHash),
         Keyless(l.url, {"narHash=", "dir="}),
         NEW ref, ref = WithParams(<<"file+">> \o l.url, Param("narHash=", l.narHash) \o DirParam(l))
  PROVE  ref \in Seq(Letters) /\ NixReads(ref) = PinnedSource(l)
<1>. DEFINE pre == <<"file+">>
            K == {"narHash=", "dir="}
            url == l.url
            v == l.narHash
            d == DirOf(l)
<1>1. url \in Seq(Chars) /\ v \in Seq(Chars) \cup {Absent} /\ l.dir \in Seq(Chars) \cup {Absent}
  BY DEF Locked, Attribute
<1>2. d \in Pieces \cup {Absent} /\ Value(d) = l.dir /\ DirParam(l) = Param("dir=", d)
  BY <1>1, Values DEF Pieces
<1>3. /\ pre \in Bare
      /\ \A a \in Seq(Letters) : Head(pre \o a) = "file+" /\ Tail(pre \o a) = a
  BY SchemesDiffer, SchemeFirst
<1>5. /\ K = {"narHash=", "dir="} /\ Keyless(url, K) /\ NoSeparator(v)
      /\ ref = WithParams(pre \o url, KeyAndDir("narHash=", v, d)) /\ "narHash=" \in ParamKeys \ {"dir="}
  BY <1>2 DEF KeyAndDir, ParamKeys
<1>. HIDE DEF pre, K, url, v, d
<1>6. /\ ref \in Seq(Letters) /\ Asked(ref, "narHash=") = v /\ Asked(ref, "dir=") = l.dir
      /\ ReadsUrl(ref, pre, K, url)
  <2>1. /\ ref \in Seq(Letters) /\ Asked(ref, "narHash=") = v /\ Asked(ref, "dir=") = Value(d)
        /\ ReadsUrl(ref, pre, K, url)
    BY ONLY <1>1, <1>2, <1>3, <1>5, UrlKind
  <2>. QED  BY <1>2, <2>1
<1>7. PICK a \in Seq(Letters) :
        /\ BeforeQuery(ref) = pre \o a /\ Address(a, ref, K) = url
        /\ url # <<>> /\ url[1] # "?" => a # <<>> /\ Head(a) = url[1]
  BY <1>6 DEF ReadsUrl
<1>8. Head(BeforeQuery(ref)) = "file+" /\ Address(Tail(BeforeQuery(ref)), ref, K) = url
  <2>1. Head(pre \o a) = "file+" /\ Tail(pre \o a) = a
    BY ONLY <1>3, a \in Seq(Letters)
  <2>. QED  BY ONLY <1>7, <2>1
<1>9. NixReads(ref) = Entry("file", Absent, url, Absent, l.dir, v)
  BY <1>6, <1>8, ReadByScheme DEF K
<1>. QED  BY <1>6, <1>9, HashedIsEntry DEF url, v

\* A tarball, whose URL stands without a scheme in front.
LEMMA TarballRead ==
  ASSUME NEW l \in Locked("tarball", {"url"}), l.url # Absent, NoSeparator(l.narHash),
         Keyless(l.url, {"narHash=", "dir="}), l.url # <<>>, l.url[1] \notin {"?"} \cup Range(Scheme),
         NEW ref, ref = WithParams(l.url, Param("narHash=", l.narHash) \o DirParam(l))
  PROVE  ref \in Seq(Letters) /\ NixReads(ref) = PinnedSource(l)
<1>. DEFINE pre == <<>>
            K == {"narHash=", "dir="}
            url == l.url
            v == l.narHash
            d == DirOf(l)
<1>1. url \in Seq(Chars) /\ v \in Seq(Chars) \cup {Absent} /\ l.dir \in Seq(Chars) \cup {Absent}
  BY DEF Locked, Attribute
<1>2. d \in Pieces \cup {Absent} /\ Value(d) = l.dir /\ DirParam(l) = Param("dir=", d)
  BY <1>1, Values DEF Pieces
<1>3. pre \in Bare /\ \A a \in Seq(Letters) : pre \o a = a
  <2>1. ~Contains(<<>>, "?")
    BY ContainsOne, Zenon
  <2>. QED  BY <2>1, ConcatEmptySeq DEF Bare
<1>4. /\ url # <<>> /\ url[1] # "?" /\ url[1] \notin Range(Scheme)
      /\ ref = WithParams(pre \o url, Param("narHash=", v) \o DirParam(l))
  <2>1. url \in Seq(Letters)
    BY <1>1, DecodePlain
  <2>. HIDE DEF pre
  <2>. QED  BY <1>3, <2>1
<1>5. /\ K = {"narHash=", "dir="} /\ Keyless(url, K) /\ NoSeparator(v)
      /\ ref = WithParams(pre \o url, KeyAndDir("narHash=", v, d)) /\ "narHash=" \in ParamKeys \ {"dir="}
  BY <1>2, <1>4 DEF KeyAndDir, ParamKeys
<1>. HIDE DEF pre, K, url, v, d
<1>6. /\ ref \in Seq(Letters) /\ Asked(ref, "narHash=") = v /\ Asked(ref, "dir=") = l.dir
      /\ ReadsUrl(ref, pre, K, url)
  <2>1. /\ ref \in Seq(Letters) /\ Asked(ref, "narHash=") = v /\ Asked(ref, "dir=") = Value(d)
        /\ ReadsUrl(ref, pre, K, url)
    BY ONLY <1>1, <1>2, <1>3, <1>5, UrlKind
  <2>. QED  BY <1>2, <2>1
<1>7. PICK a \in Seq(Letters) :
        /\ BeforeQuery(ref) = pre \o a /\ Address(a, ref, K) = url
        /\ url # <<>> /\ url[1] # "?" => a # <<>> /\ Head(a) = url[1]
  BY <1>6 DEF ReadsUrl
<1>8. Head(BeforeQuery(ref)) \notin Range(Scheme) /\ Address(BeforeQuery(ref), ref, K) = url
  <2>1. pre \o a = a
    BY ONLY <1>3, a \in Seq(Letters)
  <2>2. Head(a) = url[1] /\ url[1] \notin Range(Scheme)
    BY ONLY <1>4, <1>7
  <2>. QED  BY ONLY <1>7, <2>1, <2>2
<1>9. NixReads(ref) = Entry("tarball", Absent, url, Absent, l.dir, v)
  BY <1>6, <1>8, ReadByScheme DEF K
<1>. QED  BY <1>6, <1>9, HashedIsEntry DEF url, v

\* How texts are grouped when they are put together is of no account.
LEMMA GroupedOnce ==
  ASSUME NEW p \in Seq(Letters)
  PROVE  \A s \in Seq(Letters) : \A t \in Seq(Letters) :
           s \o t \in Seq(Letters) /\ (p \o s) \o t = p \o (s \o t)
<1>. SUFFICES ASSUME NEW s \in Seq(Letters), NEW t \in Seq(Letters)
              PROVE  s \o t \in Seq(Letters) /\ (p \o s) \o t = p \o (s \o t)
  OBVIOUS
<1>1. s \o t \in Seq(Letters)
  BY Joined
<1>. QED  BY <1>1, ConcatAssociative

(* So it is where there are five of them.                                       *)
Regrouped(p, o, m, r, v) ==
  ((((p \o o) \o m) \o r) \o m) \o v = p \o ((((o \o m) \o r) \o m) \o v)

\* Five texts that are joined from the left are joined from the right.
LEMMA Grouped ==
  ASSUME NEW p \in Seq(Letters), NEW o \in Seq(Letters), NEW m \in Seq(Letters),
         NEW r \in Seq(Letters), NEW v \in Seq(Letters)
  PROVE  Regrouped(p, o, m, r, v)
<1>1. \A s \in Seq(Letters) : \A t \in Seq(Letters) :
        s \o t \in Seq(Letters) /\ (p \o s) \o t = p \o (s \o t)
  BY GroupedOnce
<1>2. (p \o o) \o m = p \o (o \o m) /\ o \o m \in Seq(Letters)
  BY <1>1
<1>. DEFINE om == o \o m
            omr == om \o r
            omrm == omr \o m
<1>. HIDE DEF om
<1>3. om \in Seq(Letters) /\ (p \o o) \o m = p \o om
  BY <1>2 DEF om
<1>4. (p \o om) \o r = p \o omr /\ omr \in Seq(Letters)
  BY <1>1, <1>3
<1>. HIDE DEF omr
<1>5. (p \o omr) \o m = p \o omrm /\ omrm \in Seq(Letters)
  BY <1>1, <1>4
<1>. HIDE DEF omrm
<1>6. (p \o omrm) \o v = p \o (omrm \o v)
  BY <1>1, <1>5
<1>. QED  BY <1>3, <1>4, <1>5, <1>6 DEF omrm, omr, om, Regrouped

\* A list that is written out and one that is put together.
LEMMA TwoAndThree ==
  ASSUME NEW x, NEW y, NEW z
  PROVE  Append(<<x>>, y) = <<x, y>> /\ Append(<<x, y>>, z) = <<x, y, z>>
<1>. DEFINE X == {x, y, z}
<1>. HIDE DEF X
<1>0. x \in X /\ y \in X /\ z \in X
  BY DEF X
<1>1. Append(<<x>>, y) = <<x, y>>
  <2>. DEFINE s == <<x>>
              t == Append(s, y)
              u == <<x, y>>
  <2>1. s \in Seq(X) /\ Len(s) = 1 /\ s[1] = x
    BY <1>0
  <2>2. u \in Seq(X) /\ Len(u) = 2 /\ u[1] = x /\ u[2] = y
    BY <1>0
  <2>. HIDE DEF s, u
  <2>3. t \in Seq(X) /\ Len(t) = 2 /\ t[1] = x /\ t[2] = y
    BY <1>0, <2>1, AppendProperties, SMTT(30)
  <2>. HIDE DEF t
  <2>4. t = u
    BY <2>2, <2>3, SeqEqual
  <2>. QED  BY <2>4 DEF s, t, u
<1>2. Append(<<x, y>>, z) = <<x, y, z>>
  <2>. DEFINE s == <<x, y>>
              t == Append(s, z)
              u == <<x, y, z>>
  <2>1. s \in Seq(X) /\ Len(s) = 2 /\ s[1] = x /\ s[2] = y
    BY <1>0
  <2>2. u \in Seq(X) /\ Len(u) = 3 /\ u[1] = x /\ u[2] = y /\ u[3] = z
    BY <1>0
  <2>. HIDE DEF s, u
  <2>3. t \in Seq(X) /\ Len(t) = 3 /\ t[1] = x /\ t[2] = y /\ t[3] = z
    BY <1>0, <2>1, AppendProperties, SMTT(30)
  <2>. HIDE DEF t
  <2>4. t = u
    BY <2>2, <2>3, SeqEqual
  <2>. QED  BY <2>4 DEF s, t, u
<1>. QED  BY <1>1, <1>2

\* A text of two with a character between them, of which none is a "?".
LEMMA BareJoined ==
  ASSUME NEW s \in Bare, NEW t \in Bare, NEW x \in Letters, x # "?"
  PROVE  s \o <<x>> \in Bare /\ s \o <<x>> \o t \in Bare
<1>1. /\ s \in Seq(Letters) /\ ~Contains(s, "?") /\ t \in Seq(Letters) /\ ~Contains(t, "?")
      /\ <<x>> \in Seq(Letters) /\ ~Contains(<<x>>, "?")
  BY ContainsOne DEF Bare
<1>. DEFINE one == <<x>>
            sx == s \o one
<1>. HIDE DEF one
<1>2. sx \in Seq(Letters) /\ ~Contains(sx, "?")
  <2>1. one \in Seq(Letters) /\ ~Contains(one, "?")
    BY <1>1 DEF one
  <2>. QED  BY <1>1, <2>1, ContainsParts, Joined
<1>. HIDE DEF sx
<1>3. sx \o t \in Seq(Letters) /\ ~Contains(sx \o t, "?")
  BY <1>1, <1>2, ContainsParts, Joined
<1>. QED  BY <1>2, <1>3 DEF Bare, sx, one

\* The three parts of a forge's address.
Slashed == {t \in Bare : ~Contains(t, "/")}
Rest(o, r, v) == o \o <<"/">> \o r \o <<"/">> \o v

\* They are read as they were put together.
LEMMA ThreeParts ==
  ASSUME NEW o \in Slashed, NEW r \in Slashed, NEW v \in Slashed
  PROVE  Rest(o, r, v) \in Bare /\ Split(Rest(o, r, v), "/") = <<o, r, v>>
<1>1. "/" \in Letters /\ "/" # "?"
  BY MarksAreLetters
<1>. DEFINE two == o \o <<"/">> \o r
            all == two \o <<"/">> \o v
<1>2. Rest(o, r, v) = all
  BY DEF Rest
<1>3. two \in Bare
  BY <1>1, BareJoined DEF Slashed
<1>4. Split(two, "/") = <<o, r>>
  <2>1. Split(o, "/") = <<o>>
    BY SplitWhole DEF Slashed, Bare
  <2>2. Split(two, "/") = Append(Split(o, "/"), r)
    BY <1>1, SplitAdds DEF Slashed, Bare
  <2>. HIDE DEF two
  <2>. QED  BY <2>1, <2>2, TwoAndThree
<1>. HIDE DEF two
<1>5. all \in Bare
  BY <1>1, <1>3, BareJoined DEF Slashed
<1>6. Split(all, "/") = Append(Split(two, "/"), v)
  BY <1>1, <1>3, SplitAdds DEF Slashed, Bare
<1>7. Split(all, "/") = <<o, r, v>>
  <2>. HIDE DEF all
  <2>. QED  BY <1>4, <1>6, TwoAndThree
<1>. QED  BY <1>2, <1>5, <1>7

(* A scheme in front of them.                                                  *)
ForgeBase(s, o, r, v) == <<s>> \o o \o <<"/">> \o r \o <<"/">> \o v

\* A scheme is found in front of the three parts, and they behind it.
LEMMA SchemeAndParts ==
  ASSUME NEW s \in Range(Scheme), NEW o \in Slashed, NEW r \in Slashed, NEW v \in Slashed
  PROVE  /\ ForgeBase(s, o, r, v) \in Bare /\ Head(ForgeBase(s, o, r, v)) = s
         /\ Split(Tail(ForgeBase(s, o, r, v)), "/") = <<o, r, v>>
<1>. DEFINE base == ForgeBase(s, o, r, v)
            pre == <<s>>
            mark == <<"/">>
<1>1. /\ pre \in Seq(Letters) /\ mark \in Seq(Letters) /\ o \in Seq(Letters) /\ r \in Seq(Letters)
      /\ v \in Seq(Letters)
  <2>1. pre \in Seq(Letters)
    BY SchemeFirst DEF Bare
  <2>2. mark \in Seq(Letters)
    BY MarksAreLetters
  <2>. QED  BY <2>1, <2>2 DEF Bare, Slashed
<1>2. base = ((((pre \o o) \o mark) \o r) \o mark) \o v
  BY DEF ForgeBase
<1>3. Rest(o, r, v) = (((o \o mark) \o r) \o mark) \o v
  BY DEF Rest
<1>. HIDE DEF pre, mark, base
<1>5. base = pre \o Rest(o, r, v)
  <2>1. Regrouped(pre, o, mark, r, v)
    BY <1>1, Grouped, Zenon
  <2>. QED  BY ONLY <1>2, <1>3, <2>1 DEF Regrouped
<1>6. Rest(o, r, v) \in Bare /\ Split(Rest(o, r, v), "/") = <<o, r, v>>
  BY ThreeParts
<1>7. Head(base) = s /\ Tail(base) = Rest(o, r, v)
  BY <1>5, <1>6, SchemeFirst DEF pre, Bare
<1>8. base \in Bare
  <2>1. pre \in Seq(Letters) /\ ~Contains(pre, "?")
    BY SchemeFirst DEF Bare, pre
  <2>2. Rest(o, r, v) \in Seq(Letters) /\ ~Contains(Rest(o, r, v), "?")
    BY <1>6 DEF Bare
  <2>3. pre \o Rest(o, r, v) \in Seq(Letters) /\ ~Contains(pre \o Rest(o, r, v), "?")
    BY <2>1, <2>2, ContainsParts, Joined
  <2>. QED  BY <1>5, <2>3 DEF Bare
<1>. QED  BY <1>6, <1>7, <1>8 DEF base

\* What a forge is asked.
ForgeQuery(h, n, d) == Param("host=", h) \o Param("narHash=", n) \o Param("dir=", d)

\* A parameter leaves the answers to other keys as they are.
LEMMA AnswerKeeps ==
  ASSUME NEW ps \in Seq(Seq(Letters)), NEW k \in Letters, NEW v \in Seq(Letters) \cup {Absent},
         NEW key, key # k
  PROVE  Answer(ps \o Param(k, v), key) = Answer(ps, key)
<1>1. CASE Answer(ps, key) = Absent
  BY <1>1, AnswerParam
<1>2. CASE Answer(ps, key) # Absent
  BY <1>2, AnswerParam
<1>. QED  BY <1>1, <1>2

\* Each of its parameters is answered.
LEMMA ThreeAnswers ==
  ASSUME NEW h \in Pieces \cup {Absent}, NEW n \in Pieces \cup {Absent}, NEW d \in Pieces \cup {Absent}
  PROVE  /\ ForgeQuery(h, n, d) \in Seq(Pieces) /\ ForgeQuery(h, n, d) \in Seq(Seq(Letters))
         /\ Answer(ForgeQuery(h, n, d), "host=") = h
         /\ Answer(ForgeQuery(h, n, d), "narHash=") = n
         /\ Answer(ForgeQuery(h, n, d), "dir=") = d
<1>. DEFINE one == Param("host=", h)
            two == one \o Param("narHash=", n)
            all == two \o Param("dir=", d)
<1>1. /\ "host=" \in Letters /\ "narHash=" \in Letters /\ "dir=" \in Letters
      /\ ParamKeys = {"host=", "narHash=", "dir=", "rev="}
  BY KeysAreLetters DEF ParamKeys
<1>2. /\ h \in Seq(Letters) \cup {Absent} /\ n \in Seq(Letters) \cup {Absent}
      /\ d \in Seq(Letters) \cup {Absent}
  BY DEF Pieces
<1>3. one \in Seq(Pieces) /\ Param("narHash=", n) \in Seq(Pieces) /\ Param("dir=", d) \in Seq(Pieces)
  <2>1. \A k \in ParamKeys : \A v \in Pieces \cup {Absent} : Param(k, v) \in Seq(Pieces)
    <3>. SUFFICES ASSUME NEW k \in ParamKeys, NEW v \in Pieces \cup {Absent}
                  PROVE  Param(k, v) \in Seq(Pieces)
      OBVIOUS
    <3>1. Param(k, v) \in Seq(Keyed(ParamKeys))
      BY ParamKeyed DEF Pieces
    <3>2. Keyed(ParamKeys) \subseteq Pieces
      BY DEF Keyed
    <3>. QED  BY <3>1, <3>2, SeqMonotonic
  <2>. QED  BY <1>1, <2>1
<1>4. one \in Seq(Seq(Letters)) /\ Answer(one, "host=") = h
  BY <1>1, <1>2, OneAnswer
<1>5. Answer(one, "narHash=") = Absent /\ Answer(one, "dir=") = Absent
  BY <1>1, <1>2, OneAnswer
<1>6. two \in Seq(Pieces)
  BY <1>3, Joined
<1>. HIDE DEF one
<1>7. two \in Seq(Seq(Letters)) /\ Answer(two, "narHash=") = n
  BY <1>1, <1>2, <1>4, <1>5, AnswerParam
<1>8. Answer(two, "dir=") = Absent
  BY <1>1, <1>2, <1>4, <1>5, AnswerParam
<1>9. Answer(two, "host=") = h
  BY <1>1, <1>2, <1>4, AnswerKeeps
<1>10. all \in Seq(Pieces)
  BY <1>3, <1>6, Joined
<1>. HIDE DEF two
<1>11. all \in Seq(Seq(Letters)) /\ Answer(all, "dir=") = d
  BY <1>1, <1>2, <1>7, <1>8, AnswerParam
<1>12. Answer(all, "host=") = h /\ Answer(all, "narHash=") = n
  BY <1>1, <1>2, <1>7, <1>9, AnswerKeeps
<1>. QED  BY <1>10, <1>11, <1>12 DEF ForgeQuery, one, two

\* A forge's repository.
LEMMA ForgeRead ==
  ASSUME NEW t \in Forges, NEW l \in Locked(t, {"owner", "rev"}), HostFits(l.host),
         l.owner # Absent, l.repo # Absent, l.rev # Absent, NoSeparator(l.narHash),
         NEW ref,
         ref = WithParams(<<Scheme[t]>> \o Encode(l.owner) \o <<"/">> \o Encode(l.repo)
                            \o <<"/">> \o Encode(l.rev), ForgeParams(l))
  PROVE  ref \in Seq(Letters) /\ NixReads(ref) = PinnedSource(l)
<1>. DEFINE o == Encode(l.owner)
            r == Encode(l.repo)
            v == Encode(l.rev)
            d == DirOf(l)
            base == ForgeBase(Scheme[t], o, r, v)
            params == ForgeQuery(l.host, l.narHash, d)
<1>1. /\ l.owner \in Seq(Chars) /\ l.repo \in Seq(Chars) /\ l.rev \in Seq(Chars)
      /\ l.host \in Seq(Chars) \cup {Absent} /\ l.narHash \in Seq(Chars) \cup {Absent}
      /\ l.dir \in Seq(Chars) \cup {Absent}
  BY DEF Locked, Attribute
<1>2. \A x \in Seq(Chars) : Encode(x) \in Slashed /\ Decode(Encode(x)) = x
  BY Encoded, CharsAssumption DEF Slashed, Bare
<1>3. o \in Slashed /\ r \in Slashed /\ v \in Slashed
  BY <1>1, <1>2
<1>4. /\ Decode(o) = l.owner /\ Decode(r) = l.repo /\ Decode(v) = l.rev
  BY <1>1, <1>2
<1>5. d \in Pieces \cup {Absent} /\ Value(d) = l.dir /\ DirParam(l) = Param("dir=", d)
  BY <1>1, Values DEF Pieces
<1>6. /\ l.host \in Pieces \cup {Absent} /\ Value(l.host) = l.host
      /\ l.narHash \in Pieces \cup {Absent} /\ Value(l.narHash) = l.narHash
  <2>1. \A x \in Seq(Chars) \cup {Absent} : NoSeparator(x) => x \in Pieces \cup {Absent} /\ Value(x) = x
    <3>. SUFFICES ASSUME NEW x \in Seq(Chars) \cup {Absent}, NoSeparator(x)
                  PROVE  x \in Pieces \cup {Absent} /\ Value(x) = x
      OBVIOUS
    <3>1. x \in Seq(Letters) \cup {Absent} /\ Value(x) = x
      BY Values
    <3>2. CASE x = Absent
      BY <3>1, <3>2
    <3>3. CASE x # Absent
      BY <3>1, <3>3 DEF NoSeparator, Contains, Pieces
    <3>. QED  BY <3>2, <3>3
  <2>2. NoSeparator(l.host)
    BY CharsAssumption DEF HostFits, NoSeparator
  <2>. QED  BY <1>1, <2>1, <2>2
<1>7. Scheme[t] \in Range(Scheme)
  BY KeysAreLetters
<1>8. params = ForgeParams(l)
  BY <1>5 DEF ForgeQuery, ForgeParams
<1>. HIDE DEF o, r, v, d, params
<1>9. base \in Bare /\ Head(base) = Scheme[t] /\ Split(Tail(base), "/") = <<o, r, v>>
  BY <1>3, <1>7, SchemeAndParts
<1>10. /\ params \in Seq(Pieces) /\ params \in Seq(Seq(Letters))
       /\ Answer(params, "host=") = l.host /\ Answer(params, "narHash=") = l.narHash
       /\ Answer(params, "dir=") = d
  BY <1>5, <1>6, ThreeAnswers DEF params
<1>11. ref = WithParams(base, params)
  BY <1>8 DEF o, r, v, ForgeBase
<1>. HIDE DEF base
<1>12. ref \in Seq(Letters) /\ BeforeQuery(ref) = base /\ QueryOf(ref) = params
  BY <1>9, <1>10, <1>11, PlainAsks
<1>13. \A key : Asked(ref, key) = Value(Answer(params, key))
  BY <1>10, <1>12, AskedAnswer DEF Value
<1>14. Asked(ref, "host=") = l.host /\ Asked(ref, "narHash=") = l.narHash /\ Asked(ref, "dir=") = l.dir
  BY <1>5, <1>6, <1>10, <1>13
<1>15. NixReads(ref) = ReadForge(t, ref)
  BY <1>9, <1>12, ReadByScheme
<1>16. ReadForge(t, ref)
         = [type |-> t, owner |-> l.owner, repo |-> l.repo, rev |-> l.rev, host |-> l.host,
            narHash |-> l.narHash, dir |-> l.dir, url |-> Absent, path |-> Absent]
  BY <1>4, <1>9, <1>12, <1>14 DEF ReadForge
<1>17. PinnedSource(l)
         = [type |-> t, owner |-> l.owner, repo |-> l.repo, rev |-> l.rev, host |-> l.host,
            narHash |-> l.narHash, dir |-> l.dir, url |-> Absent, path |-> Absent]
  <2>1. l \in [owner : Seq(Chars) \cup {Absent}, repo : Seq(Chars) \cup {Absent},
               host : Seq(Chars) \cup {Absent}, rev : Seq(Chars) \cup {Absent},
               url : {Absent}, path : {Absent}, dir : Seq(Chars) \cup {Absent},
               narHash : Seq(Chars) \cup {Absent}, type : {t}]
    BY DEF Locked, Attribute
  <2>. QED  BY <2>1, SchemesDiffer DEF PinnedSource
<1>. QED  BY <1>12, <1>15, <1>16, <1>17

\* A ref that is written of an entry of a lock, is what nix reads that entry's
\* source of again: no other server, branch, directory or revision.
LEMMA RoundTrip ==
  ASSUME NEW l, WellFormed(l), NEW ref, ref = FlakeRefOf(l), ref # Absent
  PROVE  ref \in Seq(Letters) /\ NixReads(ref) = PinnedSource(l)
<1>1. Nameable(l) /\ NoSeparator(l.narHash) /\ NoSeparator(l.rev)
  BY DEF FlakeRefOf, WellFormed
<1>2. ASSUME NEW t \in Forges, l \in Locked(t, {"owner", "rev"})
      PROVE  ref \in Seq(Letters) /\ NixReads(ref) = PinnedSource(l)
  <2>1. l.type = t /\ t \notin {"git", "path", "tarball", "file"}
    BY <1>2, SchemesDiffer DEF Locked
  <2>2. /\ l.owner # Absent /\ l.repo # Absent /\ l.rev # Absent /\ HostFits(l.host)
    BY <1>1, <2>1 DEF Nameable
  <2>3. ref = WithParams(<<Scheme[t]>> \o Encode(l.owner) \o <<"/">> \o Encode(l.repo)
                           \o <<"/">> \o Encode(l.rev), ForgeParams(l))
    BY <1>1, <2>1 DEF FlakeRefOf
  <2>. QED  BY <1>1, <1>2, <2>2, <2>3, ForgeRead
<1>3. ASSUME l \in Locked("git", {"url", "rev"}), Keyless(l.url, {"rev=", "dir="})
      PROVE  ref \in Seq(Letters) /\ NixReads(ref) = PinnedSource(l)
  <2>1. l.type = "git" /\ "git" \notin Forges
    BY <1>3, SchemesDiffer DEF Locked
  <2>2. l.url # Absent
    BY <1>1, <2>1 DEF Nameable
  <2>3. ref = WithParams(<<"git+">> \o l.url, Param("rev=", l.rev) \o DirParam(l))
    BY <1>1, <2>1 DEF FlakeRefOf
  <2>. QED  BY <1>1, <1>3, <2>2, <2>3, GitRead
<1>4. ASSUME l \in Locked("tarball", {"url"}), Keyless(l.url, {"narHash=", "dir="}),
             l.url # Absent => l.url # <<>> /\ l.url[1] \notin {"?"} \cup Range(Scheme)
      PROVE  ref \in Seq(Letters) /\ NixReads(ref) = PinnedSource(l)
  <2>1. l.type = "tarball" /\ "tarball" \notin Forges
    BY <1>4, SchemesDiffer DEF Locked
  <2>2. l.url # Absent
    BY <1>1, <2>1 DEF Nameable
  <2>3. ref = WithParams(l.url, Param("narHash=", l.narHash) \o DirParam(l))
    BY <1>1, <2>1 DEF FlakeRefOf
  <2>. QED  BY <1>1, <1>4, <2>2, <2>3, TarballRead
<1>5. ASSUME l \in Locked("file", {"url"}), Keyless(l.url, {"narHash=", "dir="})
      PROVE  ref \in Seq(Letters) /\ NixReads(ref) = PinnedSource(l)
  <2>1. l.type = "file" /\ "file" \notin Forges
    BY <1>5, SchemesDiffer DEF Locked
  <2>2. l.url # Absent
    BY <1>1, <2>1 DEF Nameable
  <2>3. ref = WithParams(<<"file+">> \o l.url, Param("narHash=", l.narHash) \o DirParam(l))
    BY <1>1, <2>1 DEF FlakeRefOf
  <2>. QED  BY <1>1, <1>5, <2>2, <2>3, FileRead
<1>6. ASSUME l \in Locked("path", {"path"})
      PROVE  ref \in Seq(Letters) /\ NixReads(ref) = PinnedSource(l)
  <2>1. l.type = "path" /\ "path" \notin Forges
    BY <1>6, SchemesDiffer DEF Locked
  <2>2. l.path # Absent
    BY <1>1, <2>1 DEF Nameable
  <2>3. ref = WithParams(<<"path:">> \o EncodePath(l.path), DirParam(l))
    BY <1>1, <2>1 DEF FlakeRefOf
  <2>. QED  BY <1>6, <2>2, <2>3, PathRead
<1>7. l # Blank
  <2>1. "indirect" \notin Forges
    BY DEF Forges
  <2>. QED  BY <1>1, <2>1 DEF Nameable, Blank
<1>. QED  BY <1>2, <1>3, <1>4, <1>5, <1>6, <1>7 DEF WellFormed

\* Whatever the lookups found: a link of a report is what the nixpkgs that the
\* candidate lock pins says of a package of that name.
THEOREM LinksFromPinnedSource == Spec => []LinksFollowCandidate
<1>1. ASSUME LinkInv PROVE LinksFollowCandidate
  <2>. SUFFICES ASSUME Reported, NEW c \in changes, c.changelog # None
                PROVE  /\ c.changelog.source = IF input.explicit THEN None ELSE PinnedSource(input.locked)
                       /\ \/ c.changelog.attr = c.name
                          \/ c.name # <<>> /\ c.changelog.attr = Front(c.name) /\ Last(c.name) \in Digits
                       /\ c.changelog.url # "" /\ \E i \in DOMAIN Meta[c.changelog.attr] :
                                                     Meta[c.changelog.attr][i] = c.changelog.url
    BY DEF LinksFollowCandidate
  <2>1. input.moved
    <3>1. Exact /\ input \in Inputs
      BY <1>1 DEF LinkInv, ExactInv, Reported
    <3>. QED  BY <3>1, InputsAssumption DEF Exact, TrueVersions
  <2>2. NixpkgsRef # Absent /\ c.changelog = LinkFor(c)
    BY <1>1, <2>1 DEF LinkInv, Reported, NoLinks
  <2>3. FoundRight /\ LinkSource \in Sources \cup {None} /\ input \in Inputs
    BY <1>1, <2>2 DEF LinkInv, ExactInv, LinkSource, Sources, NixpkgsRef
  <2>. DEFINE attr == c.changelog.attr
  <2>4. /\ attr \in Candidates(c) /\ attr \in Lookups /\ UsableUrls(attr) # {}
        /\ c.changelog.url = UrlOf(attr) /\ c.changelog.source = LinkSource
    BY <2>2, <2>3, LinkForFound
  <2>5. LinkSource = IF input.explicit THEN None ELSE PinnedSource(input.locked)
    <3>1. CASE input.explicit
      BY <3>1 DEF LinkSource, NixpkgsRef
    <3>2. CASE ~input.explicit
      <4>. DEFINE ref == FlakeRefOf(input.locked)
      <4>1. NixpkgsRef = ref /\ ref # Absent /\ WellFormed(input.locked)
        BY <2>2, <2>3, <3>2, LocksAssumption DEF NixpkgsRef
      <4>. HIDE DEF ref
      <4>2. ref \in Seq(Letters) /\ NixReads(ref) = PinnedSource(input.locked)
        BY <4>1, RoundTrip DEF ref
      <4>3. ref # None
        BY <4>2, LinksAssumption
      <4>. QED  BY <3>2, <4>1, <4>2, <4>3 DEF LinkSource
    <3>. QED  BY <3>1, <3>2
  <2>6. \/ attr = c.name
        \/ c.name # <<>> /\ attr = Front(c.name) /\ Last(c.name) \in Digits
    <3>. DEFINE name == c.name
    <3>1. attr \in Range(AttrCandidates(name))
      BY <2>4 DEF Candidates
    <3>. HIDE DEF name, attr
    <3>2. attr = name \/ (Len(name) > 1 /\ Last(name) \in Digits /\ attr = Front(name))
      BY <3>1 DEF AttrCandidates, Range
    <3>3. Len(name) > 1 => name # <<>>
      OBVIOUS
    <3>. QED  BY <3>2, <3>3 DEF name
  <2>7. UrlOf(attr) \in Range(Meta[attr]) /\ UrlOf(attr) # ""
    BY <2>4, UrlIsUsable
  <2>. QED  BY <2>4, <2>5, <2>6, <2>7 DEF Range
<1>. QED  BY <1>1, LinkInvInit, LinkInvNext, PTL DEF Spec
=============================================================================
