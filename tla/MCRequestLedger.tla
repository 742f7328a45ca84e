-------------------------- MODULE MCRequestLedger ---------------------------
(***************************************************************************)
(* One proxy, two overlapping backfills of a source of up to two rows, and *)
(* one tag run; the values are in the .cfg.                                *)
(***************************************************************************)
EXTENDS RequestLedger, TLC
=============================================================================
