---------------------------- MODULE MCShardLoad ----------------------------
(***************************************************************************)
(* Invocations x and y are of one shard.                                   *)
(***************************************************************************)
EXTENDS ShardLoad, TLC

OneShard == [b \in Builders |-> "s"]
=============================================================================
