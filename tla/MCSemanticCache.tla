-------------------------- MODULE MCSemanticCache ---------------------------
(***************************************************************************)
(* A small instance of SemanticCache for TLC: two proxies, which may run   *)
(* different versions, and prompts a and b that are near each other, while *)
(* c is far from both.  With three references two stores can meet at a row *)
(* that a third one has committed.  Swapping the versions, or a and b,     *)
(* changes nothing.                                                        *)
(***************************************************************************)
EXTENDS SemanticCache, TLC

CONSTANTS p1, p2, f1, f2, f3, a, b, c, old, newer

MCProxies == {p1, p2}
MCRefs == {f1, f2, f3}
MCPrompts == {a, b, c}
MCVersions == {old, newer}
MCNear(p, q) == p = q \/ {p, q} = {a, b}

Symmetry ==
  Permutations(MCRefs) \cup Permutations(MCProxies)
    \cup Permutations({a, b}) \cup Permutations(MCVersions)
=============================================================================
