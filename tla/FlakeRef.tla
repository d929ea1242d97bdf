------------------------------ MODULE FlakeRef ------------------------------
(* How a locked input is written as a flake ref (lock.rs), and how nix reads    *)
(* such a ref back.  A text is a sequence of characters, of which only those    *)
(* that are syntax somewhere in a ref are told apart; a percent-encoded         *)
(* character, a scheme ("github:") and a query key ("rev=") are one each.       *)
EXTENDS Naturals, Sequences, SequencesExt

CONSTANTS
  Chars,      \* the characters of a lock's attributes
  Syntax,     \* those that `encode` escapes
  HostChars,  \* ASCII letters, digits, "." and "-": fewer than it leaves alone
  Escaped,    \* [Syntax -> characters]: what it writes for each
  Absent      \* an attribute the lock does not have

Forges == {"github", "gitlab", "sourcehut"}
Scheme == [t \in Forges \cup {"git", "file", "path"} |->
             CASE t = "github" -> "github:" [] t = "gitlab" -> "gitlab:"
               [] t = "sourcehut" -> "sourcehut:" [] t = "git" -> "git+"
               [] t = "file" -> "file+" [] t = "path" -> "path:"]

ParamKeys == {"host=", "narHash=", "dir=", "rev="}

(* What a ref is written in.  No escape is a character of an attribute, where   *)
(* a "%" is one of its own.                                                    *)
Letters == Chars \cup Range(Escaped) \cup Range(Scheme) \cup ParamKeys

ASSUME CharsAssumption ==
  /\ {"?", "&", "/"} \subseteq Syntax /\ Syntax \subseteq Chars
  /\ HostChars \subseteq Chars \ Syntax
  /\ DOMAIN Escaped = Syntax /\ Range(Escaped) \cap Chars = {}
  /\ \A s, t \in Syntax : Escaped[s] = Escaped[t] => s = t
  /\ Absent \notin Seq(Letters)

(* The `locked` entry of a node.                                               *)
Blank == [owner |-> Absent, repo |-> Absent, rev |-> Absent, host |-> Absent, url |-> Absent,
          path |-> Absent, dir |-> Absent, narHash |-> Absent, type |-> "indirect"]

-----------------------------------------------------------------------------
(* Writing.                                                                    *)

(* A mutant: nothing is escaped.                                               *)
EncodeNothing(t) == t

Encode(t) == [i \in DOMAIN t |-> IF t[i] \in Syntax THEN Escaped[t[i]] ELSE t[i]]

(* A path is encoded segment by segment: its separators stay.                  *)
EncodePath(t) == [i \in DOMAIN t |-> IF t[i] = "/" THEN "/" ELSE Encode(t)[i]]

(* The parameters in order, after "?", or after "&" where the base has a "?".   *)
WithParams(base, params) ==
  FoldLeft(LAMBDA out, p : out \o <<IF Contains(out, "?") THEN "&" ELSE "?">> \o p, base, params)

Param(key, value) == IF value = Absent THEN <<>> ELSE << <<key>> \o value >>
DirParam(l) == IF l.dir = Absent THEN <<>> ELSE Param("dir=", Encode(l.dir))

(* nix's URL form has no way to say a host with a port; a host is held to the   *)
(* characters of a host name.                                                  *)
HostFits(h) == h = Absent \/ \A i \in DOMAIN h : h[i] \in HostChars

ForgeParams(l) == Param("host=", l.host) \o Param("narHash=", l.narHash) \o DirParam(l)

(* Only what can be named exactly is: a branch, a relative path, a host with a  *)
(* port and a registry name are not.                                           *)
Nameable(l) ==
  CASE l.type \in Forges -> Absent \notin {l.owner, l.repo, l.rev} /\ HostFits(l.host)
    [] l.type = "git" -> Absent \notin {l.url, l.rev}
    [] l.type \in {"tarball", "file"} -> Absent \notin {l.url, l.narHash}
    [] l.type = "path" -> l.path # Absent /\ l.path # <<>> /\ l.path[1] = "/"
    [] OTHER -> FALSE

(* The narHash is what pins a tarball; a git URL would keep it as part of the   *)
(* address, and a local path may drift.                                        *)
FlakeRefOf(l) ==
  IF ~Nameable(l) THEN Absent ELSE
  CASE l.type \in Forges ->
         WithParams(<<Scheme[l.type]>> \o Encode(l.owner) \o <<"/">> \o Encode(l.repo)
                      \o <<"/">> \o Encode(l.rev), ForgeParams(l))
    [] l.type = "git" ->
         WithParams(<<"git+">> \o l.url, Param("rev=", l.rev) \o DirParam(l))
    [] l.type = "tarball" ->
         WithParams(l.url, Param("narHash=", l.narHash) \o DirParam(l))
    [] l.type = "file" ->
         WithParams(<<"file+">> \o l.url, Param("narHash=", l.narHash) \o DirParam(l))
    [] l.type = "path" ->
         WithParams(<<"path:">> \o EncodePath(l.path), DirParam(l))

-----------------------------------------------------------------------------
(* Reading, as nix does.                                                       *)

Split(t, sep) ==
  FoldLeft(LAMBDA acc, c : IF c = sep THEN Append(acc, <<>>)
                           ELSE [acc EXCEPT ![Len(acc)] = Append(@, c)], << <<>> >>, t)

Unescape(c) == IF \E s \in Syntax : Escaped[s] = c THEN CHOOSE s \in Syntax : Escaped[s] = c ELSE c
Decode(t) == [i \in DOMAIN t |-> Unescape(t[i])]

BeforeQuery(ref) == Split(ref, "?")[1]
QueryOf(ref) ==
  LET base == BeforeQuery(ref) IN
  IF Len(base) = Len(ref) THEN <<>> ELSE Split(SubSeq(ref, Len(base) + 2, Len(ref)), "&")

Asked(ref, key) ==
  LET hits == {i \in DOMAIN QueryOf(ref) : QueryOf(ref)[i] # <<>> /\ Head(QueryOf(ref)[i]) = key} IN
  IF hits = {} THEN Absent
  ELSE Decode(Tail(QueryOf(ref)[CHOOSE i \in hits : \A j \in hits : i <= j]))

(* The elements of a list that are in S.                                       *)
Kept(seq, S) == FoldLeft(LAMBDA out, x : IF x \in S THEN Append(out, x) ELSE out, <<>>, seq)

(* What a scheme does not take out of the query stays in the address.          *)
Address(base, ref, taken) ==
  LET query == QueryOf(ref) IN
  WithParams(base, Kept(query, {p \in Range(query) : p = <<>> \/ Head(p) \notin taken}))

(* owner/repo/rev; with more separators the rest would name a branch.          *)
ReadForge(type, ref) ==
  LET parts == Split(Tail(BeforeQuery(ref)), "/") IN
  [type |-> type, owner |-> Decode(parts[1]), repo |-> Decode(parts[2]),
   rev |-> IF Len(parts) = 3 THEN Decode(parts[3]) ELSE Absent,
   host |-> Asked(ref, "host="), narHash |-> Asked(ref, "narHash="),
   dir |-> Asked(ref, "dir="), url |-> Absent, path |-> Absent]

ForgeOf(base) == CHOOSE t \in Forges : Head(base) = Scheme[t]

NixReads(ref) ==
  LET base == BeforeQuery(ref) IN
  CASE \E t \in Forges : Head(base) = Scheme[t] ->
         ReadForge(ForgeOf(base), ref)
    [] Head(base) = "git+" ->
         [Blank EXCEPT !.type = "git", !.url = Address(Tail(base), ref, {"rev=", "dir="}),
                       !.rev = Asked(ref, "rev="), !.dir = Asked(ref, "dir=")]
    [] Head(base) = "path:" ->
         [Blank EXCEPT !.type = "path", !.path = Decode(Tail(base)), !.dir = Asked(ref, "dir=")]
    [] Head(base) = "file+" ->
         [Blank EXCEPT !.type = "file", !.url = Address(Tail(base), ref, {"narHash=", "dir="}),
                       !.narHash = Asked(ref, "narHash="), !.dir = Asked(ref, "dir=")]
    [] OTHER ->
         [Blank EXCEPT !.type = "tarball", !.url = Address(base, ref, {"narHash=", "dir="}),
                       !.narHash = Asked(ref, "narHash="), !.dir = Asked(ref, "dir=")]

(* What nix writes in a lock: the attributes of the entry's type and no others; *)
(* a hash and a revision without the separator of a query, and a URL from which *)
(* nix has taken what its scheme takes, with a scheme of its own.               *)
Attribute(a, attrs) == IF a \in attrs THEN Seq(Chars) \cup {Absent} ELSE {Absent}
Locked(type, attrs) ==
  [owner : Attribute("owner", attrs), repo : Attribute("owner", attrs),
   host : Attribute("owner", attrs), rev : Attribute("rev", attrs),
   url : Attribute("url", attrs), path : Attribute("path", attrs),
   dir : Seq(Chars) \cup {Absent}, narHash : Seq(Chars) \cup {Absent}, type : {type}]

NoSeparator(t) == t = Absent \/ \A i \in DOMAIN t : t[i] # "&"
Keyless(url, keys) ==
  url = Absent \/ \A i \in DOMAIN QueryOf(url) :
                    QueryOf(url)[i] = <<>> \/ Head(QueryOf(url)[i]) \notin keys

WellFormed(l) ==
  /\ NoSeparator(l.narHash) /\ NoSeparator(l.rev)
  /\ \/ \E t \in Forges : l \in Locked(t, {"owner", "rev"})
     \/ l \in Locked("git", {"url", "rev"}) /\ Keyless(l.url, {"rev=", "dir="})
     \/ /\ \E t \in {"tarball", "file"} : l \in Locked(t, {"url"})
        /\ Keyless(l.url, {"narHash=", "dir="})
        /\ l.url # Absent => l.url # <<>> /\ l.url[1] \notin {"?"} \cup Range(Scheme)
     \/ l \in Locked("path", {"path"})
     \/ l = Blank

(* The source a lock entry pins: a git revision and a local path stand without  *)
(* their hash.                                                                 *)
PinnedSource(l) == IF l.type \in {"git", "path"} THEN [l EXCEPT !.narHash = Absent] ELSE l
=============================================================================
