-------------------------- MODULE MCSettingsStore ---------------------------
(***************************************************************************)
(* A small instance of SettingsStore for TLC: two proxies and two          *)
(* settings, one of which the environment sets against its default.        *)
(***************************************************************************)
EXTENDS SettingsStore

MCAllowed == <<"l1_enabled", "semantic_cache_enabled">>
MCEnvironment == [n \in Names |-> IF n = "l1_enabled" THEN FALSE ELSE Unset]
MCDefault == [n \in Names |-> n = "l1_enabled"]
=============================================================================
