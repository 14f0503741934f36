----------------------------- MODULE MCLanding -----------------------------
(* Instances of Landing: two tables, products (1) and sales (2), the second  *)
(* referring to the first, as in examples/ingest-recipes; sales is synced.   *)
EXTENDS Landing, TLC

CONSTANTS c1, c2, jan

MCCallers == {c1, c2}
MCOneCaller == {c1}
MCNames == {jan}
MCSymmetry == Permutations(MCCallers)

\* Two products at first, and no sale.
MCProductsOnly == 1 :> {1, 2} @@ 2 :> {}
\* A sale of each, as in production.
MCWithSales == 1 :> {1} @@ 2 :> {1}

MCReferences == {<<2, 1>>}

\* The batch brings the third product or a sale of the second.
MCBatch == {<<1, 3>>, <<2, 2>>}
MCNoBatch == {}
=============================================================================
