----------------------------- MODULE MC_Voting -----------------------------
(***************************************************************************)
(* Model-checking instance of Voting.  Indices are u32 keys cut down to    *)
(* 0..IndexBound-1; MC_HashRank is the real order of Blake2_128Concat over *)
(* their SCALE encodings: blake2_128 of 0,2,1,3 as u32 little endian sort  *)
(* as 11d2.., 754f.., d82c.., de18.. so Proposals::iter visits 2 before 1. *)
(***************************************************************************)
EXTENDS Voting, TLC

MC_HashRank == (0 :> 0) @@ (1 :> 4) @@ (2 :> 2) @@ (3 :> 5)

\* The same order cut down to the indices 0..2 of a 3-key instance.
MC_HashRankWrap == [i \in 0 .. 2 |-> MC_HashRank[i]]

\* Symmetry of the voter accounts: no definition tells one from another.
MC_Symmetry == Permutations(Voter)
=============================================================================
