--------------------------- MODULE MCCorpusAudit ---------------------------
(***************************************************************************)
(* A corpus of two packages in one shard, one of which has a new version   *)
(* in manifest 2, and two invocations one after the other: the second      *)
(* resumes over what the first left, before, during or after the audit.    *)
(***************************************************************************)
EXTENDS CorpusAudit, MerkleRoot

Static(v) == [shard |-> "s1", version |-> v, strategy |-> "static-importer"]
UpgradedEntry == [m \in 1..2 |-> <<Static(IF m = 1 THEN "v1" ELSE "v2"), Static("v1")>>]
TwoDeclares == [c \in {"a", "b"} |-> IF c = "a" THEN "v1" ELSE "v2"]
ResumeJobs == [shard : {"s1"}, resume : {TRUE}, complete : {FALSE}]

Audit(r, i, o) == [requireComplete |-> r, checkInputs |-> i, checkOutputs |-> o]
SomeAudits == {Audit(TRUE, FALSE, FALSE), Audit(FALSE, FALSE, FALSE)}
=============================================================================
