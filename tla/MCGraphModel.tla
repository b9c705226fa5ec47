---------------------------- MODULE MCGraphModel ----------------------------
(***************************************************************************)
(* Two components and two connections over two shared ids: renames make    *)
(* duplicates in one collection while the other is in the same batch.      *)
(***************************************************************************)
EXTENDS GraphModel
=============================================================================
