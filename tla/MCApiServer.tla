----------------------------- MODULE MCApiServer -----------------------------
(***************************************************************************)
(* ApiServer for TLC: its constants get their values in the .cfg.           *)
(***************************************************************************)
EXTENDS ApiServer
=============================================================================
