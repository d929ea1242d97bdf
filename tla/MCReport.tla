------------------------------ MODULE MCReport ------------------------------
(* Small closures for Report: one package in every home and version, one whose  *)
(* name ends in a version, one with a hyphen, and what looks like packages;     *)
(* then one change against every lock entry a nixpkgs may have.                *)
EXTENDS Report

MCParts == {"curl", "gtk", "home", "manager", "lib", "ftpfs", "foreign", "hash", "1", "2", "0", "3"}
MCDigits == {"1", "2", "0", "3"}
MCOutputs == {<<>>, <<"lib">>}

Src(home, pname, version) == [home |-> home, pname |-> pname, version |-> version]
Curl == <<"curl">>
Gtk3 == <<"gtk", "3">>
Manager == <<"home", "manager">>
V1 == <<"1">>
V2 == <<"2", "0">>

MCSources ==
  {Src(h, Curl, V1) : h \in PackageHomes} \cup {Src(h, Curl, V2) : h \in {"env", "name", "attrs"}}
    \cup {Src(h, Curl, V2) : h \in OtherHomes}
    \cup {Src("attrs", Gtk3, V1), Src("env", Gtk3, V2), Src("name", Manager, V1)}

Closures == {{one, other} : one, other \in MCSources}

Machine == {Src("env", Curl, V1), Src("env", Gtk3, V1)}
CheckInput(before, after, moved, running, explicit, locked) ==
  [before |-> before, after |-> after, moved |-> moved, running |-> running,
   explicit |-> explicit, locked |-> locked]

(* What two closures may hold, with links from a configured nixpkgs.           *)
ClosureInputs ==
  {CheckInput(pair[1], pair[2], TRUE, Machine, TRUE, Blank) : pair \in Closures \X Closures}
  \cup {CheckInput(S, S, FALSE, Machine, TRUE, Blank) : S \in Closures}

(* What may be installed.                                                      *)
RunningInputs ==
  {CheckInput({Src("env", Curl, V1)}, {Src("env", Curl, V2), Src("attrs", Gtk3, V1)}, TRUE,
              running, TRUE, Blank) :
     running \in SUBSET {Src("env", Curl, V1), Src("env", <<"curl", "ftpfs">>, V1),
                         Src("env", <<"gtk">>, V1), Src("env", Gtk3, V2)}}

(* What the candidate lock may say of nixpkgs.                                 *)
MCSyntax == {"/", "?", "&", ":", " "}
MCChars == MCSyntax \cup {"d", "x", "n", "u", "v", "c", "r", "o", "s", "h", "8", "p", "q", "z",
                          "_", "https:", "k=", "rev="}
MCHostChars == MCChars \ (MCSyntax \cup {"_", "https:", "k=", "rev="})
MCEscaped == [c \in MCSyntax |-> CASE c = "/" -> "%2F" [] c = "?" -> "%3F" [] c = "&" -> "%26"
                                   [] c = ":" -> "%3A" [] c = " " -> "%20"]

Dirs == {Absent, <<"d">>, <<"d", "&", "rev=", "x">>}
Hashes == {Absent, <<"n", "/">>}
Urls == {<<"https:", "u">>, <<"https:", "u", "?", "k=", "v">>}
Lock(type, attr) == [Blank EXCEPT !.type = type, !.dir = attr.dir, !.narHash = attr.narHash,
                                  !.rev = attr.rev]
LockEntries ==
  {[Lock(t, [dir |-> d, narHash |-> n, rev |-> r]) EXCEPT !.owner = o, !.repo = <<"r">>, !.host = h] :
     t \in Forges, d \in Dirs, n \in Hashes, r \in {Absent, <<"c">>},
     o \in {<<"o">>, <<"o", "/", "s">>}, h \in {Absent, <<"h">>, <<"h", ":", "8">>, <<"h", "_">>}}
  \cup {[Lock("git", [dir |-> d, narHash |-> n, rev |-> r]) EXCEPT !.url = u] :
     d \in Dirs, n \in Hashes, r \in {Absent, <<"c">>}, u \in Urls}
  \cup {[Lock(t, [dir |-> d, narHash |-> n, rev |-> Absent]) EXCEPT !.url = u] :
     t \in {"tarball", "file"}, d \in Dirs, n \in Hashes, u \in Urls}
  \cup {[Lock("path", [dir |-> d, narHash |-> n, rev |-> Absent]) EXCEPT !.path = p] :
     d \in Dirs, n \in Hashes, p \in {<<"p">>, <<"/", "p">>, <<"/", "p", " ", "?", "q", "/", "z">>}}
  \cup {Blank}

LockInputs ==
  {CheckInput({Src("env", Curl, V1)}, {Src("env", Curl, V2)}, TRUE, {}, FALSE, l) : l \in LockEntries}

MCInputs == ClosureInputs \cup RunningInputs \cup LockInputs

(* nixpkgs: an attribute with a list, one without a usable changelog, and one   *)
(* too long for a batch with others.                                           *)
MCOrder == <<Curl, <<"foreign">>, <<"gtk">>, Gtk3, <<"home">>, Manager>>
MCMeta == [n \in {MCOrder[i] : i \in DOMAIN MCOrder} |->
             CASE n = Curl -> <<"", "url-curl">> [] n = <<"gtk">> -> <<"url-gtk">>
               [] n = Gtk3 -> <<"">> [] n = <<"home">> -> <<"url-home">>
               [] n = Manager -> <<"url-manager">> [] OTHER -> <<>>]
MCBytes == [n \in {MCOrder[i] : i \in DOMAIN MCOrder} |-> IF n = Manager THEN 10 ELSE 3 * Len(n)]
MCBad == {Gtk3}
=============================================================================
