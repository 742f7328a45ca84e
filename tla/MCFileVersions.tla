--------------------------- MODULE MCFileVersions ---------------------------
(***************************************************************************)
(* A small instance of FileVersions for TLC: two texts with a small diff   *)
(* between them in one direction only, and bytes that are no text.         *)
(***************************************************************************)
EXTENDS FileVersions, TLC

CONSTANTS p1, p2

MCReaders == {p1, p2}
MCText == {"a", "b"}
MCContent == MCText \cup {"bytes"}
MCSmallDiff == {<<"a", "b">>}

\* Plain reads with and without an expected base, a deletion, a request for
\* the full content and a diff that the caller's validation rejects.
Plain(c, e) == [content |-> c, expected |-> e, fullContext |-> FALSE, accepts |-> TRUE]
MCRequests ==
  {Plain(c, e) : c \in MCText, e \in {None, 1}}
    \cup {Plain("bytes", None), Plain(None, None),
          [Plain("a", None) EXCEPT !.fullContext = TRUE],
          [Plain("b", None) EXCEPT !.accepts = FALSE]}

Symmetry == Permutations(MCReaders)
=============================================================================
