--------------------------- MODULE MCDailyManifest ---------------------------
(* Two generations of the pool that share c with one content and b with     *)
(* another; x is a two-hop round; a and b, b and d, c and d repeat a record. *)
EXTENDS DailyManifest

CONSTANTS a, b, c, d, x, p, q, live, frozen, g1, g2

MCPoolRounds == (p :> (a :> 1 @@ b :> 1 @@ c :> 1)) @@ (q :> (b :> 2 @@ c :> 1 @@ d :> 1 @@ x :> 1))
MCSymmetry == Permutations({g1, g2})
MCSimilar == {{a, b}, {b, d}, {c, d}}
=============================================================================
