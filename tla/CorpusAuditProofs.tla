-------------------------- MODULE CorpusAuditProofs --------------------------
(***************************************************************************)
(* Theorems about CorpusAudit for any corpus, builders and audits.  They   *)
(* rest on one fact about ShardBuild: the pair of an entry that has a      *)
(* recipe and that no ingest is writing never changes again, since         *)
(* ensure_new_pair starts an ingest only where neither file exists.        *)
(***************************************************************************)
EXTENDS CorpusAudit, ShardBuildProofs

\* p has a recipe and no ingest is at work on it.
Settled(p) == recipe[p] # "absent" /\ ~Ingesting(p)

\* A step of one invocation after which it is not ingesting starts no ingest.
LEMMA MoveSettled ==
  ASSUME TypeOK, NEW p \in Packages, Settled(p), NEW b \in Builders,
         recipe'[p] = recipe[p], p \notin orphans', pc'[b] # "ingest",
         \A o \in Builders \ {b} :
           UNCHANGED <<pc[o], job[o].shard, doc[o], status[o]>>
  PROVE  Settled(p)'
<1>1. \A o \in Builders \ {b} : IsNext(o, p)' <=> IsNext(o, p)
  BY DEF IsNext, Todo
<1> QED
  BY <1>1 DEF Settled, Ingesting

\* A step that moves no invocation starts none either.
LEMMA StillSettled ==
  ASSUME NEW p \in Packages, Settled(p), recipe'[p] = recipe[p], p \notin orphans',
         UNCHANGED <<pc, memory>>
  PROVE  Settled(p)'
BY DEF Settled, Ingesting, IsNext, Todo, memory

\* Nobody writes the files of a settled entry.
LEMMA SettledUnwritten ==
  ASSUME TypeOK, Next, NEW p \in Packages, Settled(p)
  PROVE  recipe'[p] = recipe[p] /\ receipt'[p] = receipt[p]
<1> USE DEF TypeOK
<1>1. ASSUME NEW q \in Packages, WriteOutput(q), q # p
      PROVE  recipe'[p] = recipe[p] /\ receipt'[p] = receipt[p]
  BY <1>1 DEF WriteOutput
<1>2. ASSUME NEW b \in Builders, NEW q \in Packages, IngestWrites(b, q) \/ OrphanWrites(q)
      PROVE  recipe'[p] = recipe[p] /\ receipt'[p] = receipt[p]
  BY <1>1, <1>2 DEF IngestWrites, OrphanWrites, Settled, Ingesting
<1>3. ASSUME NEW q \in Packages, OrphanWrites(q)
      PROVE  recipe'[p] = recipe[p] /\ receipt'[p] = receipt[p]
  BY <1>1, <1>3 DEF OrphanWrites, Settled, Ingesting
<1>4. CASE UNCHANGED files
  BY <1>4 DEF files
<1>5. ASSUME NEW b \in Builders, Step(b)
      PROVE  UNCHANGED files
  <2>1. ASSUME NEW q \in Packages, EntryStep(b, q)
        PROVE  UNCHANGED files
    BY <2>1 DEF EntryStep, RouteToWorker, CheckPair, Revalidate, IngestSucceeds, IngestFails,
       ValidateRecipe, Attest
  <2>2. CASE WriteTemp(b) \/ WriteTempFails(b) \/ ReplaceReport(b)
    BY <2>2 DEF WriteTemp, WriteTempFails, ReplaceReport
  <2> QED
    BY <1>5, <2>1, <2>2 DEF Step
<1>6. CASE Environment
  <2>1. \/ UNCHANGED files
        \/ \E b \in Builders, q \in Packages : IngestWrites(b, q)
        \/ \E q \in Packages : OrphanWrites(q)
    BY <1>6 DEF Environment, Start, Interrupt, Kill, OrphanExits, Publish
  <2> QED
    BY <1>2, <1>3, <1>4, <2>1
<1> QED
  BY <1>4, <1>5, <1>6 DEF Next

LEMMA RecordSettled ==
  ASSUME TypeOK, NEW p \in Packages, Settled(p), NEW b \in Builders, NEW q \in Packages,
         NEW s, NEW d, Record(b, q, s, d), UNCHANGED <<recipe, orphans>>
  PROVE  Settled(p)'
<1>1. pc'[b] # "ingest" /\ \A o \in Builders \ {b} :
        UNCHANGED <<pc[o], job[o].shard, doc[o], status[o]>>
  BY DEF Record, Goto, TypeOK
<1> QED
  BY <1>1, MoveSettled DEF Settled, Ingesting

LEMMA ExitSettled ==
  ASSUME TypeOK, NEW p \in Packages, Settled(p), NEW b \in Builders,
         NEW l \in {"stopped", "ok"}, Exit(b, l), UNCHANGED recipe, p \notin orphans'
  PROVE  Settled(p)'
<1>1. pc'[b] # "ingest" /\ \A o \in Builders \ {b} :
        UNCHANGED <<pc[o], job[o].shard, doc[o], status[o]>>
  BY DEF Exit, Goto, TypeOK
<1> QED
  BY <1>1, MoveSettled

\* An ingest starts only where there is no recipe.
LEMMA CheckPairSettled ==
  ASSUME TypeOK, NEW p \in Packages, Settled(p), NEW b \in Builders, NEW q \in Packages,
         CheckPair(b, q)
  PROVE  Settled(p)'
<1>1. UNCHANGED <<recipe, orphans>>
  BY DEF CheckPair, files
<1>2. CASE PairMissing(q) /\ Goto(b, "ingest") /\ UNCHANGED memory
  <2>1. q # p
    BY <1>2 DEF PairMissing, Settled
  <2>2. \A o \in Builders : IsNext(o, p)' <=> IsNext(o, p)
    BY <1>2 DEF IsNext, Todo, memory
  <2>3. ~IsNext(b, p)'
    BY <2>1, <2>2, NextUnique DEF CheckPair
  <2>4. \A o \in Builders \ {b} : pc'[o] = pc[o]
    BY <1>2 DEF Goto, TypeOK
  <2> QED
    BY <1>1, <2>2, <2>3, <2>4 DEF Settled, Ingesting
<1>3. CASE Goto(b, "revalidate") /\ UNCHANGED <<job, doc, status, digest>>
  <2>1. pc'[b] # "ingest" /\ \A o \in Builders \ {b} :
          UNCHANGED <<pc[o], job[o].shard, doc[o], status[o]>>
    BY <1>3 DEF Goto, TypeOK
  <2> QED
    BY <1>1, <2>1, MoveSettled DEF Settled, Ingesting
<1>4. CASE Record(b, q, "failed", "absent")
  BY <1>1, <1>4, RecordSettled
<1> QED
  BY <1>2, <1>3, <1>4 DEF CheckPair

\* A step that is not an entry's: the report, the environment.
LEMMA OtherSettled ==
  ASSUME TypeOK, NEW p \in Packages, Settled(p), NEW b \in Builders,
         \/ WriteTemp(b)
         \/ WriteTempFails(b)
         \/ ReplaceReport(b)
         \/ Interrupt(b)
         \/ \E q \in Packages : Kill(b, q)
         \/ \E j \in Jobs : Start(b, j)
  PROVE  Settled(p)'
<1>1. CASE WriteTemp(b) \/ \E j \in Jobs : Start(b, j)
  <2>1. pc'[b] # "ingest" /\ \A o \in Builders \ {b} :
          UNCHANGED <<pc[o], job[o].shard, doc[o], status[o]>>
    BY <1>1 DEF WriteTemp, Start, Goto, TypeOK, memory
  <2> QED
    BY <1>1, <2>1, MoveSettled DEF WriteTemp, Start, Settled, Ingesting, files
<1>2. CASE WriteTempFails(b) \/ ReplaceReport(b) \/ Interrupt(b)
  BY <1>2, ExitSettled
     DEF WriteTempFails, ReplaceReport, Interrupt, Settled, Ingesting, files
<1>3. ASSUME NEW q \in Packages, Kill(b, q) PROVE Settled(p)'
  <2>1. q # p
    BY <1>3 DEF Kill, Settled, Ingesting
  <2> QED
    BY <1>3, <2>1, ExitSettled DEF Kill, Settled, Ingesting, files
<1> QED
  BY <1>1, <1>2, <1>3

\* Whatever invocations and orphaned children do next, a settled pair is as it
\* was and stays settled.
LEMMA SettledStays ==
  ASSUME TypeOK, Next, NEW p \in Packages, Settled(p)
  PROVE  recipe'[p] = recipe[p] /\ receipt'[p] = receipt[p] /\ Settled(p)'
<1>1. recipe'[p] = recipe[p] /\ receipt'[p] = receipt[p]
  BY SettledUnwritten
<1>2. ASSUME NEW b \in Builders, NEW q \in Packages,
             RouteToWorker(b, q) \/ Revalidate(b, q) \/ IngestFails(b, q) \/ Attest(b, q)
      PROVE  Settled(p)'
  BY <1>2, RecordSettled DEF RouteToWorker, Revalidate, IngestFails, Attest, files
<1>3. ASSUME NEW b \in Builders, NEW q \in Packages,
             IngestSucceeds(b, q) \/ ValidateRecipe(b, q)
      PROVE  Settled(p)'
  <2>1. CASE (Goto(b, "validate") \/ Goto(b, "attest")) /\ UNCHANGED memory
    <3>1. pc'[b] # "ingest" /\ \A o \in Builders \ {b} :
            UNCHANGED <<pc[o], job[o].shard, doc[o], status[o]>>
      BY <2>1 DEF Goto, TypeOK, memory
    <3> QED
      BY <1>1, <1>3, <3>1, MoveSettled DEF IngestSucceeds, ValidateRecipe, Settled, Ingesting
  <2>2. CASE Record(b, q, "failed", "absent")
    BY <1>3, <2>2, RecordSettled DEF IngestSucceeds, ValidateRecipe, files
  <2> QED
    BY <1>3, <2>1, <2>2 DEF IngestSucceeds, ValidateRecipe
<1>4. ASSUME NEW b \in Builders, NEW q \in Packages, IngestWrites(b, q)
      PROVE  Settled(p)'
  BY <1>1, <1>4, StillSettled DEF IngestWrites, Settled, Ingesting
<1>5. ASSUME NEW q \in Packages, OrphanWrites(q) \/ OrphanExits(q) PROVE Settled(p)'
  BY <1>1, <1>5, StillSettled DEF OrphanWrites, OrphanExits, Settled, Ingesting
<1>6. ASSUME NEW m \in Manifests, Publish(m) PROVE Settled(p)'
  BY <1>1, <1>6, StillSettled DEF Publish, Settled, Ingesting
<1> QED
  BY <1>1, <1>2, <1>3, <1>4, <1>5, <1>6, CheckPairSettled, OtherSettled
     DEF Next, Step, EntryStep, Environment
-----------------------------------------------------------------------------
(***************************************************************************)
(* The audit.  An entry it has a leaf for, unless it read it in the middle *)
(* of an ingest, is settled and published; the entry it is reading is      *)
(* settled and valid.  When it gets to the receipt, having been asked for  *)
(* the outputs, no entry is left.                                          *)
(***************************************************************************)

Unread == {"stopped", "hash", "parse", "inputs"}

LeavesTrue ==
  \A p \in Packages \ unsettled : leaves[p] # NoLeaf =>
    /\ Settled(p)
    /\ Published(adoc, p, recipe[p])
    /\ leaves[p] = Leaf(adoc, p, recipe[p])

ReadingTrue ==
  \A p \in Packages \ unsettled : apc = "digest" /\ IsNextLeaf(p) =>
    Settled(p) /\ ValidRecipe(recipe[p], adoc, p)

AuditInv ==
  /\ TypeOK
  /\ leaves \in [Packages -> (Versions \cup {None}) \X RecipeFiles]
  /\ unsettled \subseteq Packages
  /\ apc \in Unread => leaves = NoLeaves
  /\ apc \in {"recipe", "digest"} => VerifiesOutputs
  /\ apc \in {"recipe", "digest", "receipt"} => adoc \in Manifests
  /\ apc = "inputs" => adoc \in Manifests
  /\ (apc = "receipt" /\ VerifiesOutputs) \/ apc = "complete" =>
       \A p \in Packages : leaves[p] # NoLeaf
  /\ LeavesTrue
  /\ ReadingTrue

LEMMA LeafIsNone ==
  ASSUME NEW m \in Manifests, NEW p \in Packages, NEW f \in RecipeFiles
  PROVE  /\ Leaf(m, p, f) # NoLeaf
         /\ Leaf(m, p, f) \in (Versions \cup {None}) \X RecipeFiles
BY ShardBuildAssumption DEF Leaf, NoLeaf

LEMMA NoLeavesType ==
  /\ NoLeaves \in [Packages -> (Versions \cup {None}) \X RecipeFiles]
  /\ \A p \in Packages : NoLeaves[p] = NoLeaf
BY DEF NoLeaves, NoLeaf, RecipeFiles

LEMMA NextLeafUnique ==
  ASSUME NEW p \in Packages, NEW q \in Packages, IsNextLeaf(p), IsNextLeaf(q)
  PROVE  p = q
BY ShardBuildAssumption DEF IsNextLeaf

LEMMA AuditInit == Init /\ AInit => AuditInv
BY TypeInit, NoLeavesType
   DEF AInit, AuditInv, LeavesTrue, ReadingTrue, Unread, VerifiesOutputs, NoFlags

\* Steps of builders take nothing away from a settled entry.
LEMMA BuildersKeepAudit ==
  ASSUME AuditInv, Next, UNCHANGED auditVars
  PROVE  AuditInv'
<1> USE DEF AuditInv, auditVars
<1>1. TypeOK'
  BY TypeStep
<1>2. \A p \in Packages : Settled(p) => recipe'[p] = recipe[p] /\ receipt'[p] = receipt[p] /\ Settled(p)'
  BY SettledStays
<1>3. LeavesTrue'
  BY <1>2 DEF LeavesTrue, Published, ValidRecipe, Leaf
<1>4. ReadingTrue'
  BY <1>2 DEF ReadingTrue, IsNextLeaf, ValidRecipe
<1> QED
  BY <1>1, <1>3, <1>4 DEF VerifiesOutputs

\* A step that has read nothing and stays away from the leaves.
LEMMA UnreadKeepsAudit ==
  ASSUME AuditInv, UNCHANGED vars, leaves' = NoLeaves, unsettled' \subseteq Packages,
         apc' \in Unread, apc' = "inputs" => adoc' \in Manifests
  PROVE  AuditInv'
<1>1. TypeOK'
  BY DEF AuditInv, TypeOK, vars
<1> QED
  BY <1>1, NoLeavesType
     DEF AuditInv, LeavesTrue, ReadingTrue, Unread

LEMMA DigestKeepsAudit ==
  ASSUME AuditInv, NEW p \in Packages, AuditDigest(p)
  PROVE  AuditInv'
<1> USE DEF AuditInv, AuditDigest, AGoto, AStay, NoteUnsettled
<1>1. TypeOK'
  BY DEF TypeOK, vars
<1>s. UNCHANGED <<recipe, receipt, adoc, flags>> /\ \A q \in Packages : Settled(q)' <=> Settled(q)
  BY DEF vars, Settled, Ingesting, IsNext, Todo
<1>2. CASE recipe[p] # "absent" /\ receipt[p] = "regular"
  <2>1. adoc \in Manifests /\ recipe[p] \in RecipeFiles
    BY DEF TypeOK
  <2>2. Leaf(adoc, p, recipe[p]) # NoLeaf
        /\ Leaf(adoc, p, recipe[p]) \in (Versions \cup {None}) \X RecipeFiles
    BY <2>1, LeafIsNone
  <2>3. leaves' = [leaves EXCEPT ![p] = Leaf(adoc, p, recipe[p])]
    BY <1>2
  <2>4. leaves' \in [Packages -> (Versions \cup {None}) \X RecipeFiles] /\ unsettled' \subseteq Packages
    BY <1>2, <2>2, <2>3
  <2>5. unsettled \subseteq unsettled' /\ (p \notin unsettled' => ~Ingesting(p))
    BY <1>2
  <2>6. p \notin unsettled' => Settled(p) /\ ValidRecipe(recipe[p], adoc, p)
    BY <2>5 DEF ReadingTrue
  <2>7. LeavesTrue'
    BY <1>2, <1>s, <2>3, <2>5, <2>6 DEF LeavesTrue, Published, ValidRecipe, Leaf
  <2>8. apc' \in {"recipe", "receipt"} /\ ReadingTrue'
    BY <1>2 DEF ReadingTrue
  <2>9. apc' = "receipt" => \A q \in Packages : leaves'[q] # NoLeaf
    BY <1>2, <2>2, <2>3
  <2> QED
    BY <1>1, <1>s, <2>1, <2>4, <2>7, <2>8, <2>9 DEF Unread, VerifiesOutputs
<1>3. CASE ~(recipe[p] # "absent" /\ receipt[p] = "regular")
  <2>1. apc' = "failed" /\ leaves' = leaves /\ unsettled' = unsettled
    BY <1>3
  <2>2. LeavesTrue' /\ ReadingTrue'
    BY <1>s, <2>1 DEF LeavesTrue, ReadingTrue, Published, ValidRecipe, Leaf
  <2> QED
    BY <1>1, <2>1, <2>2 DEF Unread
<1> QED
  BY <1>2, <1>3

LEMMA RecipeKeepsAudit ==
  ASSUME AuditInv, NEW p \in Packages, AuditRecipe(p)
  PROVE  AuditInv'
<1> USE DEF AuditInv, AuditRecipe, AGoto, AStay, NoteUnsettled
<1>1. TypeOK'
  BY DEF TypeOK, vars
<1>s. UNCHANGED <<recipe, receipt, adoc, flags, leaves>>
      /\ \A q \in Packages : Settled(q)' <=> Settled(q)
  BY DEF vars, Settled, Ingesting, IsNext, Todo
<1>2. unsettled \subseteq unsettled' /\ unsettled' \subseteq Packages
  OBVIOUS
<1>3. LeavesTrue'
  BY <1>s, <1>2 DEF LeavesTrue, Published, ValidRecipe, Leaf
<1>4. ReadingTrue'
  <2> SUFFICES ASSUME NEW q \in Packages \ unsettled', apc' = "digest", IsNextLeaf(q)'
               PROVE  Settled(q) /\ ValidRecipe(recipe[q], adoc, q)
    BY <1>s DEF ReadingTrue, ValidRecipe
  <2>1. q = p
    BY <1>s, NextLeafUnique DEF IsNextLeaf
  <2>2. ValidRecipe(recipe[p], adoc, p) /\ ~Ingesting(p)
    BY <2>1
  <2>3. recipe[p] # "absent"
    BY <2>2, ShardBuildAssumption DEF ValidRecipe
  <2> QED
    BY <2>1, <2>2, <2>3 DEF Settled
<1> QED
  BY <1>1, <1>s, <1>2, <1>3, <1>4 DEF Unread, VerifiesOutputs

\* The remaining steps of the audit read no output.
LEMMA OtherKeepsAudit ==
  ASSUME AuditInv, AuditInputs \/ AuditReceipt
  PROVE  AuditInv'
<1> USE DEF AuditInv, AuditInputs, AuditReceipt, AGoto, AStay
<1>1. TypeOK'
  BY DEF TypeOK, vars
<1>2. UNCHANGED <<recipe, receipt, adoc, flags, leaves, unsettled>>
      /\ \A q \in Packages : Settled(q)' <=> Settled(q)
  BY DEF vars, Settled, Ingesting, IsNext, Todo
<1>3. LeavesTrue'
  BY <1>2 DEF LeavesTrue, Published, ValidRecipe, Leaf
<1>4. apc' # "digest" /\ apc' \notin Unread
  BY DEF Unread
<1>5. ReadingTrue'
  BY <1>4 DEF ReadingTrue
<1>6. apc' \in {"recipe", "receipt", "failed", "incomplete", "complete"}
  OBVIOUS
<1>7. /\ apc' = "recipe" => VerifiesOutputs
      /\ apc' \in {"recipe", "receipt"} => adoc \in Manifests
      /\ apc' = "receipt" => ~VerifiesOutputs
      /\ apc' = "complete" => \A p \in Packages : leaves[p] # NoLeaf
  OBVIOUS
<1> QED
  BY <1>1, <1>2, <1>3, <1>4, <1>5, <1>6, <1>7 DEF VerifiesOutputs

LEMMA AuditInvStep == AuditInv /\ [ANext]_allVars => AuditInv'
<1> SUFFICES ASSUME AuditInv, [ANext]_allVars PROVE AuditInv'
  OBVIOUS
<1>1. CASE Next /\ UNCHANGED <<release, auditVars>>
  BY <1>1, BuildersKeepAudit
<1>2. ASSUME NEW f \in Audits, AuditBegin(f) PROVE AuditInv'
  BY <1>2, UnreadKeepsAudit DEF AuditBegin, AGoto, AuditInv, Unread
<1>3. CASE AuditHash \/ AuditParse \/ AuditEnd
  BY <1>3, UnreadKeepsAudit DEF AuditHash, AuditParse, AuditEnd, AGoto, AuditInv, Unread, TypeOK
<1>4. CASE UNCHANGED <<vars, auditVars>>
  <2>1. TypeOK'
    BY <1>4 DEF AuditInv, TypeOK, vars
  <2>2. \A q \in Packages : Settled(q)' <=> Settled(q)
    BY <1>4 DEF vars, Settled, Ingesting, IsNext, Todo
  <2> QED
    BY <1>4, <2>1, <2>2 DEF AuditInv, auditVars, vars, LeavesTrue, ReadingTrue, Published,
       ValidRecipe, Leaf, IsNextLeaf, VerifiesOutputs
<1>5. CASE IssueReceipt \/ UNCHANGED allVars
  BY <1>4, <1>5 DEF IssueReceipt, allVars, auditVars
<1> QED
  BY <1>1, <1>2, <1>3, <1>5, RecipeKeepsAudit, DigestKeepsAudit, OtherKeepsAudit
     DEF ANext, AuditStep

\* What a complete audit says of the entries it read while no ingest was writing
\* them stays true, whatever shard builds were running, are started, fail or are
\* killed, and for any number of them.
THEOREM CompleteAuditIsPublished == ASpec => []CompleteIsPublished
<1>1. AuditInv => CompleteIsPublished
  BY DEF AuditInv, LeavesTrue, CompleteIsPublished
<1> QED
  BY <1>1, AuditInit, AuditInvStep, PTL DEF ASpec

-----------------------------------------------------------------------------
(***************************************************************************)
(* The two reads of the manifest.  A leaf that was made, by the release or *)
(* by the audit, has the version of the manifest it was made from, and     *)
(* completion takes leaves that are the same.                              *)
(***************************************************************************)

LeavesOf(m, L) == \A p \in Packages : L[p] # NoLeaf => L[p][1] = Entry[m][p].version

TiedInv ==
  /\ LeavesOf(buildReceipt.doc, buildReceipt.leaves)
  /\ LeavesOf(adoc, leaves)
  /\ apc = "complete" => LeavesOf(asha, leaves)

LEMMA TiedInit == AInit => TiedInv
BY DEF AInit, TiedInv, LeavesOf, NoBuildReceipt, NoLeaves

LEMMA TiedStep == AuditInv /\ TiedInv /\ [ANext]_allVars => TiedInv'
<1> SUFFICES ASSUME AuditInv, TiedInv, [ANext]_allVars PROVE TiedInv'
  OBVIOUS
<1>1. CASE UNCHANGED <<release, auditVars>>
  BY <1>1 DEF release, auditVars, TiedInv, LeavesOf
<1>2. CASE IssueReceipt
  <2>1. /\ buildReceipt'.doc = manifest
        /\ \A p \in Packages : buildReceipt'.leaves[p] = Leaf(manifest, p, recipe[p])
    BY <1>2 DEF IssueReceipt
  <2>2. LeavesOf(buildReceipt.doc, buildReceipt.leaves)'
    BY <2>1 DEF LeavesOf, Leaf
  <2> QED
    BY <1>2, <2>2 DEF IssueReceipt, auditVars, TiedInv, LeavesOf
<1>3. CASE UNCHANGED <<release, leaves>> /\ leaves = NoLeaves /\ apc' # "complete"
  BY <1>3 DEF release, TiedInv, LeavesOf, NoLeaves
<1>4. CASE (\E f \in Audits : AuditBegin(f)) \/ AuditHash \/ AuditParse \/ AuditInputs
  BY <1>3, <1>4 DEF AuditBegin, AuditHash, AuditParse, AuditInputs, AGoto, AuditInv, Unread
<1>5. CASE AuditEnd
  BY <1>5 DEF AuditEnd, AGoto, release, TiedInv, LeavesOf, NoLeaves
<1>6. ASSUME NEW p \in Packages, AuditRecipe(p) PROVE TiedInv'
  BY <1>6 DEF AuditRecipe, AGoto, AStay, release, TiedInv, LeavesOf
<1>7. ASSUME NEW p \in Packages, AuditDigest(p) PROVE TiedInv'
  <2>1. UNCHANGED <<release, adoc>> /\ apc' # "complete"
    BY <1>7 DEF AuditDigest, AGoto, AStay
  <2>2. leaves' = leaves \/ leaves' = [leaves EXCEPT ![p] = Leaf(adoc, p, recipe[p])]
    BY <1>7 DEF AuditDigest
  <2>3. Leaf(adoc, p, recipe[p])[1] = Entry[adoc][p].version
    BY DEF Leaf
  <2>4. LeavesOf(adoc, leaves')
    BY <2>2, <2>3 DEF TiedInv, LeavesOf, AuditInv
  <2> QED
    BY <2>1, <2>4 DEF release, TiedInv, LeavesOf
<1>8. CASE AuditReceipt
  <2>1. UNCHANGED <<release, adoc, asha, leaves>>
    BY <1>8 DEF AuditReceipt, AStay
  <2>2. apc' = "complete" => buildReceipt = [doc |-> asha, leaves |-> leaves]
    BY <1>8 DEF AuditReceipt, AGoto
  <2>3. apc' = "complete" => LeavesOf(asha, leaves)
    BY <2>2 DEF TiedInv
  <2> QED
    BY <2>1, <2>3 DEF release, TiedInv, LeavesOf
<1> QED
  BY <1>1, <1>2, <1>4, <1>5, <1>6, <1>7, <1>8 DEF ANext, AuditStep, allVars, release, auditVars

\* A complete audit is about one manifest, although it reads the file twice: the
\* digest it reports and the entries it verified are of the same identities.
THEOREM CompleteAuditIsOneManifest == ASpec => []CompleteIsOneManifest
<1>1. AuditInv /\ TiedInv => CompleteIsOneManifest
  BY DEF AuditInv, TiedInv, LeavesOf, CompleteIsOneManifest
<1>2. Init /\ AInit => AuditInv /\ TiedInv
  BY AuditInit, TiedInit
<1>3. AuditInv /\ TiedInv /\ [ANext]_allVars => AuditInv' /\ TiedInv'
  BY AuditInvStep, TiedStep
<1> QED
  BY <1>1, <1>2, <1>3, PTL DEF ASpec

-----------------------------------------------------------------------------
(***************************************************************************)
(* Types.                                                                  *)
(***************************************************************************)

Steps == {"stopped", "hash", "parse", "inputs", "recipe", "digest", "receipt",
          "failed", "incomplete", "complete"}

AuditTypes ==
  /\ planStatus \in {"building", "complete"}
  /\ buildReceipt \in [doc : Manifests \cup {NoManifest}, leaves : [Packages -> LeafValues]]
  /\ apc \in Steps
  /\ flags \in Flags
  /\ claimed \in {"building", "complete"}
  /\ asha \in Manifests \cup {NoManifest}
  /\ adoc \in Manifests \cup {NoManifest}

LEMMA AuditTypesInit == AInit => AuditTypes
BY NoLeavesType DEF AInit, AuditTypes, NoBuildReceipt, Flags, NoFlags, LeafValues, Steps

LEMMA AuditTypesStep == AuditInv /\ AuditTypes /\ [ANext]_allVars => AuditTypes'
<1> SUFFICES ASSUME AuditInv, AuditTypes, [ANext]_allVars PROVE AuditTypes'
  OBVIOUS
<1>1. CASE UNCHANGED <<release, auditVars>>
  BY <1>1 DEF release, auditVars, AuditTypes
<1>2. CASE IssueReceipt
  <2>1. manifest \in Manifests /\ \A p \in Packages : recipe[p] \in RecipeFiles
    BY DEF AuditInv, TypeOK
  <2>2. \A p \in Packages : Leaf(manifest, p, recipe[p]) \in LeafValues
    BY <2>1, LeafIsNone DEF LeafValues
  <2>3. buildReceipt' \in [doc : Manifests \cup {NoManifest}, leaves : [Packages -> LeafValues]]
    BY <1>2, <2>1, <2>2 DEF IssueReceipt
  <2> QED
    BY <1>2, <2>3 DEF IssueReceipt, auditVars, AuditTypes
<1>3. ASSUME NEW f \in Audits, AuditBegin(f) PROVE AuditTypes'
  BY <1>3, CorpusAuditAssumption DEF AuditBegin, AGoto, release, AuditTypes, Steps
<1>4. CASE AuditHash \/ AuditParse
  BY <1>4 DEF AuditHash, AuditParse, AGoto, release, AuditTypes, AuditInv, TypeOK, Steps
<1>5. CASE AuditInputs \/ AuditReceipt \/ \E p \in Packages : AuditRecipe(p) \/ AuditDigest(p)
  <2>1. UNCHANGED <<release, flags, claimed, asha, adoc>>
    BY <1>5 DEF AuditInputs, AuditReceipt, AuditRecipe, AuditDigest, AStay
  <2>2. apc' \in Steps
    BY <1>5 DEF AuditInputs, AuditReceipt, AuditRecipe, AuditDigest, AGoto, Steps
  <2> QED
    BY <2>1, <2>2 DEF release, AuditTypes
<1>6. CASE AuditEnd
  BY <1>6 DEF AuditEnd, AGoto, release, AuditTypes, Flags, NoFlags, Steps
<1> QED
  BY <1>1, <1>2, <1>3, <1>4, <1>5, <1>6 DEF ANext, AuditStep, allVars, release, auditVars

\* Every value of an audit keeps its type, and a complete one has all its leaves.
THEOREM AuditTypeCorrect == ASpec => []ATypeOK
<1>1. AuditInv /\ AuditTypes => ATypeOK
  BY DEF AuditInv, AuditTypes, ATypeOK, LeafValues, Steps
<1>2. Init /\ AInit => AuditInv /\ AuditTypes
  BY AuditInit, AuditTypesInit
<1>3. AuditInv /\ AuditTypes /\ [ANext]_allVars => AuditInv' /\ AuditTypes'
  BY AuditInvStep, AuditTypesStep
<1> QED
  BY <1>1, <1>2, <1>3, PTL DEF ASpec
=============================================================================
