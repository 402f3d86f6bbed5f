---------------------------- MODULE MCShardBuild ----------------------------
(***************************************************************************)
(* Instances of ShardBuild with two or three packages.  In the moving one  *)
(* manifest 2 gives package 1 a new version, and with it another shard:    *)
(* the shard is a digest of the identity, and the identity includes the    *)
(* version.                                                                *)
(***************************************************************************)
EXTENDS ShardBuild, TLC

Static(s, v) == [shard |-> s, version |-> v, strategy |-> "static-importer"]
Worker(s, v) == [shard |-> s, version |-> v, strategy |-> "deterministic-worker"]

\* Two packages that a new manifest moves to one shard.
MovingEntry ==
  [m \in 1..2 |->
     <<IF m = 1 THEN Static("s1", "v1") ELSE Static("s2", "v2"),
       Static("s2", "v1")>>]

\* One shard with an entry that needs a worker between two static ones.
MixedEntry ==
  [m \in {1} |->
     <<Static("s1", "v1"), Worker("s1", "v1"), Static("s1", "v1")>>]

MovingDeclares ==
  [c \in {"a", "b"} |->
     IF c = "a" THEN "v1" ELSE "v2"]

MixedDeclares ==
  [c \in {"a", "c", "junk"} |-> IF c = "junk" THEN None ELSE "v1"]

BuilderSymmetry == Permutations(Builders)

ResumeJobs ==
  [shard : {"s1", "s2"}, resume : {TRUE}, complete : {FALSE}]

AllJobs == [shard : {"s1"}, resume : BOOLEAN, complete : BOOLEAN]
=============================================================================
