--------------------------- MODULE MCToolResults ----------------------------
(***************************************************************************)
(* A small instance of ToolResults for TLC: two tenants, one session or    *)
(* none, three keys (two rotations), a clock that may step back.           *)
(***************************************************************************)
EXTENDS ToolResults, TLC

CONSTANTS k1, k2, k3, a1, a2, t1, t2, s1, i1

MCKeys == {k1, k2, k3}
MCAdmins == {a1, a2}
MCTenants == {t1, t2}
MCSessions == {s1}
MCScopes == MCTenants \X MCSessions
MCIds == {i1}
MCContent == {"short", "huge"}
MCSize == [c \in MCContent |-> IF c = "short" THEN 1 ELSE 2]

Symmetry == Permutations(MCKeys) \cup Permutations(MCAdmins) \cup Permutations(MCTenants)
=============================================================================
