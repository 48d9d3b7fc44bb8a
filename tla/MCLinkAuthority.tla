-------------------------- MODULE MCLinkAuthority --------------------------
(* TLC instances of LinkAuthority.                                           *)
(*   xd/ holds the files xf and zf, hard links of each other at first        *)
(*   yd/ is the home of r2 and holds its entry e2 and another file yf        *)
(*   h1/ is the home of r1 and holds its entry e1                            *)
EXTENDS LinkAuthority, TLC

CONSTANTS r1, r2, xf, zf, yf, e1, e2, xd, yd, h1

MCRoots == {r1, r2}
MCFiles == {xf, zf, yf, e1, e2}
MCDirs == {xd, yd, h1}
MCParent == (xf :> xd) @@ (zf :> xd) @@ (yf :> yd) @@ (e2 :> yd) @@ (e1 :> h1)
            @@ (xd :> None) @@ (yd :> None) @@ (h1 :> None)
MCChild == (xd :> xf) @@ (yd :> yf) @@ (h1 :> e1)
MCHome == (r1 :> h1) @@ (r2 :> yd)
MCEntry == (r1 :> e1) @@ (r2 :> e2)
MCTargets == (r1 :> {xd, yd, zf}) @@ (r2 :> {xf})
MCFirstIds == (xf :> 1) @@ (zf :> 1) @@ (yf :> 2) @@ (e1 :> 3) @@ (e2 :> 4)
              @@ (xd :> 5) @@ (yd :> 6) @@ (h1 :> 7)
MCFirstLinks == {(r1 :> xd) @@ (r2 :> xf), (r1 :> zf) @@ (r2 :> xf), (r1 :> yd) @@ (r2 :> None)}
MCPolicies == (r1 :> {"follow", "copy"}) @@ (r2 :> {"follow"})
MCMaxOps == (r1 :> 1) @@ (r2 :> 0)
MCConflictPaths == (r1 :> {"entry"}) @@ (r2 :> {})
=============================================================================
