------------------------- MODULE MCContinuationStore -------------------------
(***************************************************************************)
(* Small instances of ContinuationStore for TLC: three ids compete for two *)
(* places, contents of 0, 2 and 3 characters in segments of 2, and one     *)
(* content that is larger than the whole store.                            *)
(***************************************************************************)
EXTENDS ContinuationStore, TLC

CONSTANTS i1, i2, i3, s1, s2

MCIds == {i1, i2, i3}
MCScopes == {s1, s2}
MCContent == {"empty", "exact", "ragged", "huge"}
MCSize == [c \in MCContent |->
             CASE c = "empty" -> 0 [] c = "exact" -> 2 [] c = "ragged" -> 3 [] c = "huge" -> 5]
MCTwoContents == {"exact", "ragged"}
MCTwoSizes == [c \in MCTwoContents |-> MCSize[c]]

Symmetry == Permutations(MCIds) \cup Permutations(MCScopes)
=============================================================================
