-------------------------- MODULE MCRagEstimation --------------------------
(***************************************************************************)
(* Two requests with one key beside two ingests of one path: one of the    *)
(* requests searches with both branches, the other reranks.                *)
(***************************************************************************)
EXTENDS RagEstimation, TLC

CONSTANTS q1, q2, i1, i2, p1, k1, c1, c2

MCPathOf == [i \in Ingests |-> p1]
MCChunksOf == (i1 :> {c1, c2}) @@ (i2 :> {})
MCKeyOf == [q \in Requests |-> k1]
MCModeOf == (q1 :> "B") @@ (q2 :> "C")
=============================================================================
