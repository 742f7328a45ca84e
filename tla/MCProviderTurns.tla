--------------------------- MODULE MCProviderTurns ---------------------------
(***************************************************************************)
(* Two turns, each of at most two blocks in at most two pieces, for        *)
(* ProviderTurns.                                                          *)
(***************************************************************************)
EXTENDS ProviderTurns

System == Message("system", <<>>)
User   == Message("user", <<>>)

MCPrompts == {<<User>>, <<System, System, User>>}

MCUsages == {[input |-> 5, output |-> 1, read |-> 2, write |-> None],
             [input |-> 5, output |-> 1, read |-> None, write |-> 3]}
=============================================================================
