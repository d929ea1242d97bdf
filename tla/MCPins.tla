------------------------------- MODULE MCPins -------------------------------
(* Home-manager brings a nixpkgs of its own or follows the flake's; the flake's *)
(* nixpkgs and its kernel input are locked or follow.                          *)
EXTENDS Pins

CONSTANTS hm, nixpkgs, kernel, root, kHm, kHmNixpkgs, kNixpkgs, kKernel

MCNames == {hm, nixpkgs, kernel}
MCKeys == {root, kHm, kHmNixpkgs, kNixpkgs, kKernel}
MCOwner == [k \in MCKeys |-> CASE k \in {kHm, kHmNixpkgs} -> hm
                               [] k = kNixpkgs -> nixpkgs
                               [] k = kKernel -> kernel
                               [] OTHER -> None]

EmptyFcn == [n \in {} |-> n]

(* No cycle: nix refuses to lock one.                                          *)
Graph(nixpkgsRef, kernelRef, hmRef) ==
  [k \in MCKeys |-> CASE k = root -> (hm :> kHm) @@ (nixpkgs :> nixpkgsRef) @@ kernelRef
                     [] k = kHm -> nixpkgs :> hmRef
                     [] OTHER -> EmptyFcn]

MCGraphs ==
  {Graph(kNixpkgs, kernel :> kKernel, <<nixpkgs>>),
   Graph(kNixpkgs, kernel :> <<hm, nixpkgs>>, kHmNixpkgs),
   Graph(<<hm, nixpkgs>>, kernel :> <<nixpkgs>>, kHmNixpkgs),
   Graph(kNixpkgs, EmptyFcn, kHmNixpkgs)}

(* NixpkgsLeads: an edge to a node leads there, and only the paths are open.    *)
Paths(g) == Edges(g) \ Keys
ASSUME MCGraphsLead ==
  \A g \in MCGraphs : \E end \in [Paths(g) -> Keys], depth \in [Paths(g) -> 1..2] :
    LET res == [r \in Edges(g) |-> IF r \in Keys THEN r ELSE end[r]]
        rank == [r \in Edges(g) |-> IF r \in Keys THEN 0 ELSE depth[r]] IN
    /\ FollowsLead(g, res, rank)
    /\ Nixpkgs \in DOMAIN g[Root] => res[g[Root][Nixpkgs]] # Root

MCConfigs == {[update |-> {}, exclude |-> {kernel}],
              [update |-> {nixpkgs, kernel}, exclude |-> {kernel}],
              [update |-> {kernel}, exclude |-> {}]}
=============================================================================
