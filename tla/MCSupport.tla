----------------------------- MODULE MCSupport -----------------------------
(***************************************************************************)
(* SupportPipeline with each setting of debate_loop and force_human_review. *)
(***************************************************************************)
EXTENDS SupportPipeline

MCConfigs == [debate : BOOLEAN, force : BOOLEAN]
=============================================================================
