-------------------------- MODULE MCRedisPipeline --------------------------
(***************************************************************************)
(* RedisPipeline with the values of its configurations.                    *)
(***************************************************************************)
EXTENDS RedisPipeline
=============================================================================
