---------------------------- MODULE CorpusAudit ----------------------------
(***************************************************************************)
(* scripts/validate_recipe_corpus.py auditing the corpus that the          *)
(* invocations of ShardBuild write, while they write it.  The audit reads  *)
(* the manifest twice, then the input files, then every entry's recipe,    *)
(* twice, and receipt, one entry after the other, and in the end compares  *)
(* what it read with the build receipt of the release.                     *)
(*                                                                         *)
(* The Merkle root over the entries is abstracted to the function from     *)
(* entries to leaves it is the root of, which module MerkleRoot justifies  *)
(* for a corpus of a fixed number of entries.  The manifest and its        *)
(* signature are there, as ShardBuild has them.  Of the input files it     *)
(* only matters whether one is found that differs from its digest.         *)
(***************************************************************************)
EXTENDS ShardBuild

CONSTANT Audits  \* the flags audits are given

VARIABLES
  planStatus,   \* "status" of the production plan
  buildReceipt, \* the build receipt of the release
  apc,          \* where the audit is
  flags,        \* --require-complete, --check-inputs, --check-outputs
  claimed,      \* the plan status the audit has read
  asha,         \* the manifest it took the digest of
  adoc,         \* the manifest it parsed
  leaves,       \* the leaf of each entry verified so far
  unsettled     \* history: entries it read while an ingest was writing them

auditVars == <<apc, flags, claimed, asha, adoc, leaves, unsettled>>
release == <<planStatus, buildReceipt>>
allVars == <<vars, planStatus, buildReceipt, apc, flags, claimed, asha, adoc,
             leaves, unsettled>>

Flags == [requireComplete : BOOLEAN, checkInputs : BOOLEAN, checkOutputs : BOOLEAN]
NoFlags == [requireComplete |-> FALSE, checkInputs |-> FALSE, checkOutputs |-> FALSE]

ASSUME CorpusAuditAssumption == Audits \subseteq Flags

NoLeaf == <<None, "absent">>
NoLeaves == [p \in Packages |-> NoLeaf]
NoBuildReceipt == [doc |-> NoManifest, leaves |-> NoLeaves]

\* The identity of p's entry in m with the digest of its recipe.  The rest of
\* the identity does not change with the manifest.
Leaf(m, p, f) == <<Entry[m][p].version, f>>

VerifiesInputs == flags.checkInputs \/ flags.requireComplete
VerifiesOutputs == flags.checkOutputs \/ flags.requireComplete

AGoto(label) == apc' = label
AStay == UNCHANGED <<flags, claimed, asha, adoc>>

AInit ==
  /\ planStatus \in {"building", "complete"}
  /\ buildReceipt = NoBuildReceipt
  /\ apc = "stopped"
  /\ flags = NoFlags
  /\ claimed = "building"
  /\ asha = NoManifest
  /\ adoc = NoManifest
  /\ leaves = NoLeaves
  /\ unsettled = {}

-----------------------------------------------------------------------------
(***************************************************************************)
(* The audit.                                                              *)
(***************************************************************************)

AuditBegin(f) ==
  /\ apc = "stopped"
  /\ AGoto("hash")
  /\ flags' = f
  /\ claimed' = planStatus
  /\ UNCHANGED <<vars, release, asha, adoc, leaves, unsettled>>

AuditHash ==
  /\ apc = "hash"
  /\ asha' = manifest
  /\ AGoto("parse")
  /\ UNCHANGED <<vars, release, flags, claimed, adoc, leaves, unsettled>>

AuditParse ==
  /\ apc = "parse"
  /\ adoc' = manifest
  /\ AGoto("inputs")
  /\ UNCHANGED <<vars, release, flags, claimed, asha, leaves, unsettled>>

\* verify_inputs, when it is asked for, may find an input file that differs.
AuditInputs ==
  /\ apc = "inputs"
  /\ \/ VerifiesInputs /\ AGoto("failed")
     \/ AGoto(IF VerifiesOutputs THEN "recipe" ELSE "receipt")
  /\ UNCHANGED <<vars, release, leaves, unsettled>> /\ AStay

IsNextLeaf(p) == leaves[p] = NoLeaf /\ \A q \in Packages : leaves[q] = NoLeaf => p <= q

\* p's recipe and receipt are being written by an ingest.
Ingesting(p) ==
  \/ p \in orphans
  \/ \E b \in Builders : pc[b] = "ingest" /\ IsNext(b, p)

\* History: an ingest is writing the entry that is read.
NoteUnsettled(p) == unsettled' = IF Ingesting(p) THEN unsettled \cup {p} ELSE unsettled

\* verify_outputs: validate_recipe parses the recipe of the next entry ...
AuditRecipe(p) ==
  /\ apc = "recipe"
  /\ IsNextLeaf(p)
  /\ AGoto(IF ValidRecipe(recipe[p], adoc, p) THEN "digest" ELSE "failed")
  /\ NoteUnsettled(p)
  /\ UNCHANGED <<vars, release, leaves>> /\ AStay

\* Mutant: the receipt of an entry is not looked at.
AuditDigestOnly(p) ==
  /\ apc = "digest"
  /\ IsNextLeaf(p)
  /\ IF recipe[p] # "absent"
     THEN /\ leaves' = [leaves EXCEPT ![p] = Leaf(adoc, p, recipe[p])]
          /\ AGoto(IF \A q \in Packages \ {p} : leaves[q] # NoLeaf THEN "receipt" ELSE "recipe")
          /\ NoteUnsettled(p)
     ELSE AGoto("failed") /\ UNCHANGED <<leaves, unsettled>>
  /\ UNCHANGED <<vars, release>> /\ AStay

\* ... and reads it again for the digest; then its receipt must be regular.
AuditDigest(p) ==
  /\ apc = "digest"
  /\ IsNextLeaf(p)
  /\ IF recipe[p] # "absent" /\ receipt[p] = "regular"
     THEN /\ leaves' = [leaves EXCEPT ![p] = Leaf(adoc, p, recipe[p])]
          /\ AGoto(IF \A q \in Packages \ {p} : leaves[q] # NoLeaf THEN "receipt" ELSE "recipe")
          /\ NoteUnsettled(p)
     ELSE AGoto("failed") /\ UNCHANGED <<leaves, unsettled>>
  /\ UNCHANGED <<vars, release>> /\ AStay

\* Mutant: the plan's word is enough.
AuditReceiptTrusts ==
  /\ apc = "receipt"
  /\ AGoto(CASE ~flags.requireComplete /\ claimed = "building" -> "incomplete"
             [] buildReceipt.doc = asha -> "complete"
             [] OTHER -> "failed")
  /\ UNCHANGED <<vars, release, leaves, unsettled>> /\ AStay

\* Mutant: the receipt is not tied to the manifest.
AuditReceiptRootOnly ==
  /\ apc = "receipt"
  /\ AGoto(CASE ~flags.requireComplete /\ claimed = "building" -> "incomplete"
             [] VerifiesOutputs /\ buildReceipt.leaves = leaves -> "complete"
             [] OTHER -> "failed")
  /\ UNCHANGED <<vars, release, leaves, unsettled>> /\ AStay

\* Completion, where it is required or claimed, takes the verified outputs and a
\* build receipt for the digest and for their Merkle root.
AuditReceipt ==
  /\ apc = "receipt"
  /\ AGoto(CASE ~flags.requireComplete /\ claimed = "building" -> "incomplete"
             [] VerifiesOutputs /\ buildReceipt = [doc |-> asha, leaves |-> leaves]
                  -> "complete"
             [] OTHER -> "failed")
  /\ UNCHANGED <<vars, release, leaves, unsettled>> /\ AStay

\* The audit has exited, after whatever status, or is interrupted.
AuditEnd ==
  /\ apc # "stopped"
  /\ AGoto("stopped")
  /\ flags' = NoFlags
  /\ claimed' = "building"
  /\ asha' = NoManifest
  /\ adoc' = NoManifest
  /\ leaves' = NoLeaves
  /\ unsettled' = {}
  /\ UNCHANGED <<vars, release>>

-----------------------------------------------------------------------------
\* The release process writes a build receipt for the published manifest once
\* every entry has a recipe.
IssueReceipt ==
  /\ \A p \in Packages : ValidRecipe(recipe[p], manifest, p)
  /\ buildReceipt' = [doc |-> manifest,
                      leaves |-> [p \in Packages |-> Leaf(manifest, p, recipe[p])]]
  /\ UNCHANGED <<vars, planStatus, auditVars>>

AuditStep ==
  \/ \E f \in Audits : AuditBegin(f)
  \/ AuditHash
  \/ AuditParse
  \/ AuditInputs
  \/ \E p \in Packages : AuditRecipe(p) \/ AuditDigest(p)
  \/ AuditReceipt
  \/ AuditEnd

ANext ==
  \/ Next /\ UNCHANGED <<release, auditVars>>
  \/ AuditStep
  \/ IssueReceipt

ASpec == Init /\ AInit /\ [][ANext]_allVars

-----------------------------------------------------------------------------
(***************************************************************************)
(* Properties.                                                             *)
(***************************************************************************)

LeafValues == (Versions \cup {None}) \X RecipeFiles

ATypeOK ==
  /\ planStatus \in {"building", "complete"}
  /\ buildReceipt \in [doc : Manifests \cup {NoManifest}, leaves : [Packages -> LeafValues]]
  /\ apc \in {"stopped", "hash", "parse", "inputs", "recipe", "digest", "receipt",
              "failed", "incomplete", "complete"}
  /\ flags \in Flags
  /\ claimed \in {"building", "complete"}
  /\ asha \in Manifests \cup {NoManifest}
  /\ adoc \in Manifests \cup {NoManifest}
  /\ leaves \in [Packages -> LeafValues]
  /\ apc = "complete" => \A p \in Packages : leaves[p] # NoLeaf
  /\ unsettled \subseteq Packages

\* A corpus that is audited as complete is complete while the audit's word
\* stands: every entry of the audited manifest has, still, the recipe whose
\* digest entered the Merkle root, valid for that entry, and its receipt.  Shard
\* builds that start, resume, fail or are killed during or after the audit take
\* nothing of it back; only entries that an ingest was writing at the moment
\* they were read are exempt.
CompleteIsPublished ==
  apc = "complete" =>
    \A p \in Packages \ unsettled :
      /\ Published(adoc, p, recipe[p])
      /\ leaves[p] = Leaf(adoc, p, recipe[p])

\* The manifest whose digest a complete audit reports lists the same identities
\* as the one it verified, although the file is read twice and may be replaced
\* between the reads: the build receipt ties the two together.
CompleteIsOneManifest ==
  apc = "complete" =>
    \A p \in Packages : Entry[asha][p].version = Entry[adoc][p].version
=============================================================================
