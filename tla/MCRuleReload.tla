---------------------------- MODULE MCRuleReload ----------------------------
(* Instance of RuleReload: a file that changes up to five times. *)
EXTENDS RuleReload
=============================================================================
