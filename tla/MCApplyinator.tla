---------------------------- MODULE MCApplyinator ----------------------------
(***************************************************************************)
(* Three projects, so that one key may starve behind two that are          *)
(* requested over and over, and two workers, so that a key may be          *)
(* requested again and retried while one of them processes it.             *)
(***************************************************************************)
EXTENDS Applyinator
=============================================================================
