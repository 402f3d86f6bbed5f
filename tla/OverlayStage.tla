---------------------------- MODULE OverlayStage ----------------------------
(***************************************************************************)
(* prepare_cachyos_overlay.py on the retained snapshot: it validates the   *)
(* variant policy, stages a candidate, a lock and one disposition artifact *)
(* for every package output, verifies what it staged and writes the        *)
(* staging manifest last.  Several preparers may be started on the same    *)
(* output, each may fail or be killed at any step, and the mirror they     *)
(* read may meanwhile be moved to another revision.                        *)
(*                                                                         *)
(* An artifact on disk is the entry it was rendered from: the entry has    *)
(* all that the renderings of its artifacts depend on, its record aside.   *)
(***************************************************************************)
EXTENDS CandidateEmit, Sequences

CONSTANTS
  Variants,     \* the ids the policies give their candidates
  Policies,     \* variants.toml: each a set of groups
  Ids, Id,      \* candidate identities, and how a package and a variant make one
  Preparers

Default == "default"
Dispositions == {"target", "target-draft", "worker-plan", "template", "quarantine"}
Kinds == {"candidate", "lock"} \cup Dispositions
Artifacts == Kinds \X Ids

\* "selected" is that there is a variant_policy: a policy may name a variant
\* "default".
Entries ==
  [path : Paths, package : Packages, variant : Variants \cup {Default},
   selected : BOOLEAN, version : Versions, native : BOOLEAN,
   admission : {"template", "rejected", "sealed-script", "meta", "static"}]
Groups == [packages : SUBSET Packages, candidates : SUBSET (Paths \X Variants)]

ASSUME OverlayStageAssumption ==
  /\ Id \in [Packages \X (Variants \cup {Default}) \X BOOLEAN -> Ids]
  /\ Policies \subseteq SUBSET Groups
  /\ \A P \in Policies : IsFiniteSet(P)

VARIABLES
  policy,     \* the variant policy in the repository
  moved,      \* the mirror was moved since it was inventoried
  stage,      \* the output directory: what each artifact was rendered from
  temps,      \* temporary files in it, each with its writer
  manifest,   \* the staging manifest
  raced,      \* two preparers found the output empty
  pc,
  unread,     \* records a preparer has yet to open
  queue,      \* outputs of the open record it has yet to stage
  writing,    \* artifacts of the last entry it has yet to write
  last,       \* that entry
  entries,    \* its entries
  unverified  \* those it has yet to verify

ingressVars == <<snapshotVars, emitVars>>
local == <<unread, queue, writing, last, entries, unverified>>
disk == <<stage, temps, manifest>>
vars == <<ingressVars, policy, moved, disk, raced, pc, local>>

NoEntry == [path |-> 0]
NoManifest == [state |-> "absent", entries |-> {}]
Manifest(state, E) == [state |-> state, entries |-> E]

Preparing == {"stage", "verify", "check-new", "write-manifest"}
Running == Preparing \cup {"verify-only"}

-----------------------------------------------------------------------------
(***************************************************************************)
(* validate_cachyos_variants.py: the policy covers exactly the packages    *)
(* that several paths emit.                                                *)
(***************************************************************************)

PathsIn(g) == {c[1] : c \in g.candidates}
VariantsIn(g) == {c[2] : c \in g.candidates}

Duplicated(s) == {d.package : d \in s.duplicates}
DuplicatePaths(s, k) ==
  UNION {{d.first, d.second} : d \in {e \in s.duplicates : e.package = k}}

Emits(s, p, k) == \E r \in s.records : r.path = p /\ k \in r.packages

GroupValid(g, s) ==
  /\ g.packages # {}
  /\ Cardinality(g.candidates) >= 2
  /\ Cardinality(PathsIn(g)) = Cardinality(g.candidates)
  /\ Cardinality(VariantsIn(g)) = Cardinality(g.candidates)
  /\ \A p \in PathsIn(g), k \in g.packages : Emits(s, p, k)
  /\ \A k \in g.packages : DuplicatePaths(s, k) = PathsIn(g)

\* Mutant: a group need not cover every path of its packages.
VariantsValidPartly(P, s) ==
  /\ P # {}
  /\ \A g, h \in P : g # h => g.packages \cap h.packages = {}
  /\ \A g \in P : \A k \in g.packages : PathsIn(g) \subseteq DuplicatePaths(s, k)
  /\ UNION {g.packages : g \in P} = Duplicated(s)

VariantsValid(P, s) ==
  /\ P # {}
  /\ \A g, h \in P : g # h => g.packages \cap h.packages = {}
  /\ \A g \in P : GroupValid(g, s)
  /\ UNION {g.packages : g \in P} = Duplicated(s)

\* The variants the policy gives an output: one at most, if it is valid.
ChosenFor(P, p, k) ==
  {v \in Variants : \E g \in P : k \in g.packages /\ <<p, v>> \in g.candidates}

VariantOf(P, p, k) ==
  IF ChosenFor(P, p, k) = {} THEN Default ELSE CHOOSE v \in ChosenFor(P, p, k) : TRUE

-----------------------------------------------------------------------------
(***************************************************************************)
(* Entries and their artifacts.                                            *)
(***************************************************************************)

\* candidate_version: the metadata must give one.
Renderable(d) ==
  /\ MetadataReadable(d)
  /\ MetadataOf(d).version # None

EntryFor(r, k) ==
  LET m == MetadataOf(mirror[r.path]) IN
  [path |-> r.path, package |-> k, variant |-> VariantOf(policy, r.path, k),
   selected |-> ChosenFor(policy, r.path, k) # {}, version |-> m.version, native |-> m.native,
   admission |-> r.admission]

IdOf(e) == Id[e.package, e.variant, e.selected]

Disposition(e) ==
  CASE ~e.native -> "quarantine"
    [] e.native /\ e.admission = "meta" -> "target"
    [] e.native /\ e.admission = "static" -> "target-draft"
    [] e.native /\ e.admission = "sealed-script" -> "worker-plan"
    [] e.native /\ e.admission = "template" -> "template"
    [] OTHER -> "quarantine"

\* In the order they are written.
ArtifactsOf(e) ==
  << <<"candidate", IdOf(e)>>, <<"lock", IdOf(e)>>, <<Disposition(e), IdOf(e)>> >>
ArtifactSet(e) == {ArtifactsOf(e)[i] : i \in 1..3}

Identity(e) == <<e.package, e.version, e.variant, e.path>>

\* What verify demands of one entry among others: an identity of its own, so
\* that the order can be strict, and its artifacts on disk, unchanged.
Verifies(e, E) ==
  /\ \A f \in E : f # e => IdOf(f) # IdOf(e) /\ Identity(f) # Identity(e)
  /\ \A a \in ArtifactSet(e) : stage[a] = e

\* variant_entry_count, which prepare counts by selection and verify by name.  The
\* other counts are the same function of the entries in both.
CountsAgree(E) ==
  Cardinality({e \in E : e.selected}) = Cardinality({e \in E : e.variant # Default})

-----------------------------------------------------------------------------
(***************************************************************************)
(* prepare.                                                                *)
(***************************************************************************)

StageInit ==
  /\ policy \in Policies
  /\ moved = FALSE
  /\ stage = [a \in Artifacts |-> NoEntry]
  /\ temps = {}
  /\ manifest = NoManifest
  /\ raced = FALSE
  /\ pc = [q \in Preparers |-> "stopped"]
  /\ unread = [q \in Preparers |-> {}]
  /\ queue = [q \in Preparers |-> {}]
  /\ writing = [q \in Preparers |-> <<>>]
  /\ last = [q \in Preparers |-> NoEntry]
  /\ entries = [q \in Preparers |-> {}]
  /\ unverified = [q \in Preparers |-> {}]

Init == SnapshotInit /\ EmitInit /\ StageInit

Goto(q, label) == pc' = [pc EXCEPT ![q] = label]

\* A process that ends leaves nothing in memory.
Stop(q) ==
  /\ Goto(q, "stopped")
  /\ unread' = [unread EXCEPT ![q] = {}]
  /\ queue' = [queue EXCEPT ![q] = {}]
  /\ writing' = [writing EXCEPT ![q] = <<>>]
  /\ last' = [last EXCEPT ![q] = NoEntry]
  /\ entries' = [entries EXCEPT ![q] = {}]
  /\ unverified' = [unverified EXCEPT ![q] = {}]

OutputEmpty == temps = {} /\ \A a \in Artifacts : stage[a] = NoEntry

\* Mutant: what is in the output is staged over.
PrepareBeginOver(q) ==
  /\ pc[q] = "stopped"
  /\ retained.state = "whole"
  /\ VariantsValid(policy, retained)
  /\ Goto(q, "stage")
  /\ unread' = [unread EXCEPT ![q] = {r.path : r \in retained.records}]
  /\ raced' = (raced \/ \E o \in Preparers \ {q} : pc[o] \in Preparing)
  /\ UNCHANGED <<ingressVars, policy, moved, disk, queue, writing, last, entries, unverified>>

\* The output is empty, the records are the policy's, the variants are valid;
\* otherwise prepare ends without an effect.
PrepareBegin(q) ==
  /\ pc[q] = "stopped"
  /\ retained.state = "whole"
  /\ OutputEmpty
  /\ VariantsValid(policy, retained)
  /\ Goto(q, "stage")
  /\ unread' = [unread EXCEPT ![q] = {r.path : r \in retained.records}]
  /\ raced' = (raced \/ \E o \in Preparers \ {q} : pc[o] \in Preparing)
  /\ UNCHANGED <<ingressVars, policy, moved, disk, queue, writing, last, entries, unverified>>

Between(q) == pc[q] = "stage" /\ writing[q] = <<>>

\* The PKGBUILD in the mirror is the one of the record.
OpenRecord(q) ==
  /\ Between(q) /\ queue[q] = {}
  /\ \E r \in retained.records :
       /\ r.path \in unread[q] /\ \A p \in unread[q] : r.path <= p
       /\ mirror[r.path].pkgbuild = r.pkgbuild
       /\ queue' = [queue EXCEPT ![q] = {r.path} \X r.packages]
       /\ unread' = [unread EXCEPT ![q] = @ \ {r.path}]
  /\ UNCHANGED <<ingressVars, policy, moved, disk, raced, pc, writing, last, entries,
                 unverified>>

\* The next output of the open record.
IsNextStaged(q, r, k) ==
  /\ <<r.path, k>> \in queue[q]
  /\ \A u \in queue[q] : k <= u[2]

\* Mutant: a candidate identity may be used again.
StageOutputAgain(q) ==
  /\ Between(q)
  /\ \E r \in retained.records, k \in Packages :
     LET e == EntryFor(r, k) IN
     /\ IsNextStaged(q, r, k)
     /\ Renderable(mirror[r.path])
     /\ last' = [last EXCEPT ![q] = e]
     /\ entries' = [entries EXCEPT ![q] = @ \cup {e}]
     /\ writing' = [writing EXCEPT ![q] =
                      SelectSeq(ArtifactsOf(e), LAMBDA a : stage[a] = NoEntry)]
     /\ queue' = [queue EXCEPT ![q] = @ \ {<<r.path, k>>}]
  /\ UNCHANGED <<ingressVars, policy, moved, disk, raced, pc, unread, unverified>>

\* Mutant: the entry is never appended.
StageOutputUnlisted(q) ==
  /\ Between(q)
  /\ \E r \in retained.records, k \in Packages :
     LET e == EntryFor(r, k) IN
     /\ IsNextStaged(q, r, k)
     /\ Renderable(mirror[r.path])
     /\ \A f \in entries[q] : IdOf(f) # IdOf(e)
     /\ last' = [last EXCEPT ![q] = e]
     /\ writing' = [writing EXCEPT ![q] = ArtifactsOf(e)]
     /\ queue' = [queue EXCEPT ![q] = @ \ {<<r.path, k>>}]
  /\ UNCHANGED <<ingressVars, policy, moved, disk, raced, pc, unread, entries, unverified>>

\* The metadata is read and the entry gets an identity no other entry has.
StageOutput(q) ==
  /\ Between(q)
  /\ \E r \in retained.records, k \in Packages :
     LET e == EntryFor(r, k) IN
     /\ IsNextStaged(q, r, k)
     /\ Renderable(mirror[r.path])
     /\ \A f \in entries[q] : IdOf(f) # IdOf(e)
     /\ last' = [last EXCEPT ![q] = e]
     /\ entries' = [entries EXCEPT ![q] = @ \cup {e}]
     /\ writing' = [writing EXCEPT ![q] = ArtifactsOf(e)]
     /\ queue' = [queue EXCEPT ![q] = @ \ {<<r.path, k>>}]
  /\ UNCHANGED <<ingressVars, policy, moved, disk, raced, pc, unread, unverified>>

\* write_new: the artifact is not there, and a temporary file is written...
WriteTemp(q) ==
  /\ pc[q] = "stage" /\ writing[q] # <<>>
  /\ LET a == Head(writing[q]) IN
     /\ stage[a] = NoEntry
     /\ <<a, q>> \notin temps
     /\ temps' = temps \cup {<<a, q>>}
  /\ UNCHANGED <<ingressVars, policy, moved, stage, manifest, raced, pc, local>>

\* ... and renamed.
ReplaceArtifact(q) ==
  /\ pc[q] = "stage" /\ writing[q] # <<>>
  /\ LET a == Head(writing[q]) IN
     /\ <<a, q>> \in temps
     /\ temps' = temps \ {<<a, q>>}
     /\ stage' = [stage EXCEPT ![a] = last[q]]
  /\ writing' = [writing EXCEPT ![q] = Tail(@)]
  /\ UNCHANGED <<ingressVars, policy, moved, manifest, raced, pc, unread, queue, last,
                 entries, unverified>>

FinishStaging(q) ==
  /\ Between(q) /\ queue[q] = {} /\ unread[q] = {}
  /\ Cardinality(entries[q]) = Target
  /\ Goto(q, "verify")
  /\ unverified' = [unverified EXCEPT ![q] = entries[q]]
  /\ UNCHANGED <<ingressVars, policy, moved, disk, raced, unread, queue, writing, last, entries>>

-----------------------------------------------------------------------------
(***************************************************************************)
(* verify, after prepare or by itself, and write_manifest.                 *)
(***************************************************************************)

VerifyOnly(q) ==
  /\ pc[q] = "stopped" /\ manifest.state = "whole"
  /\ Goto(q, "verify-only")
  /\ entries' = [entries EXCEPT ![q] = manifest.entries]
  /\ unverified' = [unverified EXCEPT ![q] = manifest.entries]
  /\ UNCHANGED <<ingressVars, policy, moved, disk, raced, unread, queue, writing, last>>

VerifyEntry(q) ==
  /\ pc[q] \in {"verify", "verify-only"}
  /\ unverified[q] # {}
  /\ LET e == CHOOSE f \in unverified[q] : TRUE IN
     /\ Verifies(e, entries[q])
     /\ unverified' = [unverified EXCEPT ![q] = @ \ {e}]
  /\ UNCHANGED <<ingressVars, policy, moved, disk, raced, pc, unread, queue, writing, last,
                 entries>>

\* Every entry verifies, and the counts of the manifest.
EndVerify(q) ==
  /\ unverified[q] = {} /\ CountsAgree(entries[q])
  /\ \/ pc[q] = "verify" /\ Goto(q, "check-new")
        /\ UNCHANGED local
     \/ pc[q] = "verify-only" /\ Stop(q)
  /\ UNCHANGED <<ingressVars, policy, moved, disk, raced>>

CheckManifest(q) ==
  /\ pc[q] = "check-new" /\ manifest.state = "absent"
  /\ Goto(q, "write-manifest")
  /\ UNCHANGED <<ingressVars, policy, moved, disk, raced, local>>

WriteManifest(q) ==
  /\ pc[q] = "write-manifest"
  /\ manifest' = Manifest("whole", entries[q])
  /\ Stop(q)
  /\ UNCHANGED <<ingressVars, policy, moved, stage, temps, raced>>

\* A check of any stage that fails, a signal, SIGKILL, a full disk: what was
\* staged stays, with a temporary file if one was being written, and a
\* manifest under way is torn.
Abandon(q) ==
  /\ pc[q] \in Running
  /\ \/ UNCHANGED manifest
     \/ pc[q] = "write-manifest" /\ manifest' = Manifest("torn", {})
  /\ Stop(q)
  /\ UNCHANGED <<ingressVars, policy, moved, stage, temps, raced>>

-----------------------------------------------------------------------------
(***************************************************************************)
(* The environment.                                                        *)
(***************************************************************************)

\* The mirror is moved to another revision after the scan: once, if it was not
\* during the scan.
MoveMirror ==
  /\ ~moved /\ ~shifted /\ ipc = "stopped"
  /\ retained.state = "whole"
  /\ mirror' \in Later \ {mirror}
  /\ moved' = TRUE
  /\ UNCHANGED <<pinned, checkout, shifted, ipc, scan, snapshot, verdict, retained, emitVars,
                 policy, disk, raced, pc, local>>

\* Between runs, the operator removes what an earlier preparation left.
ClearOutput ==
  /\ \A q \in Preparers : pc[q] = "stopped"
  /\ stage' = [a \in Artifacts |-> NoEntry]
  /\ temps' = {}
  /\ manifest' = NoManifest
  /\ raced' = FALSE
  /\ UNCHANGED <<ingressVars, policy, moved, pc, local>>

Step(q) ==
  \/ PrepareBegin(q)
  \/ OpenRecord(q)
  \/ StageOutput(q)
  \/ WriteTemp(q)
  \/ ReplaceArtifact(q)
  \/ FinishStaging(q)
  \/ VerifyOnly(q)
  \/ VerifyEntry(q)
  \/ EndVerify(q)
  \/ CheckManifest(q)
  \/ WriteManifest(q)
  \/ Abandon(q)

\* Bounds: candidates are emitted from a snapshot that was verified and, if it was
\* accepted, retained; and they are not emitted beside an overlay: the two share
\* only what they read.
SnapshotStep ==
  /\ SnapshotNext
  /\ UNCHANGED <<emitVars, policy, moved, disk, raced, pc, local>>

EmitStep ==
  /\ EmitNext
  /\ verdict = "refused" \/ retained.state = "whole"
  /\ \A q \in Preparers : pc[q] = "stopped"
  /\ OutputEmpty /\ manifest.state = "absent"
  /\ UNCHANGED <<policy, moved, disk, raced, pc, local>>

PrepareStep == NothingEmitted /\ \E q \in Preparers : Step(q)

Next ==
  \/ SnapshotStep
  \/ EmitStep
  \/ PrepareStep
  \/ MoveMirror
  \/ ClearOutput

Spec == Init /\ [][Next]_vars

-----------------------------------------------------------------------------
(***************************************************************************)
(* Properties.                                                             *)
(***************************************************************************)

\* The shape of the state.
TypeOK ==
  /\ EmitTypeOK
  /\ policy \in Policies
  /\ moved \in BOOLEAN /\ raced \in BOOLEAN
  /\ stage \in [Artifacts -> Entries \cup {NoEntry}]
  /\ temps \subseteq Artifacts \X Preparers
  /\ manifest.state \in {"absent", "torn", "whole"}
  /\ manifest.entries \subseteq Entries
  /\ pc \in [Preparers -> Running \cup {"stopped"}]
  /\ \A q \in Preparers :
       /\ unread[q] \subseteq Paths
       /\ queue[q] \subseteq Paths \X Packages
       /\ writing[q] \in Seq(Artifacts)
       /\ last[q] \in Entries \cup {NoEntry}
       /\ entries[q] \subseteq Entries
       /\ unverified[q] \subseteq entries[q]
       /\ writing[q] # <<>> => last[q] \in entries[q]

\* No two preparers rendered the output from different mirrors.
Undisturbed == ~raced \/ ~moved

\* A staging manifest describes the staging directory it was written for: each
\* artifact of its entries is there as rendered, nothing else is, and no
\* temporary file unless preparers overlapped.  This survives any crash and
\* retry, and preparers that overlapped on one mirror.
ManifestDescribesStage ==
  manifest.state = "whole" /\ Undisturbed =>
    /\ \A e \in manifest.entries : \A a \in ArtifactSet(e) : stage[a] = e
    /\ \A a \in Artifacts : stage[a] # NoEntry =>
         \E e \in manifest.entries : a \in ArtifactSet(e)
    /\ ~raced => temps = {}

\* README.md: "alternatives cannot silently overwrite one another".  In a
\* staging manifest every output of the snapshot has an entry with an identity
\* of its own, and where several paths emit a package no entry is its default.
AlternativesSelected ==
  manifest.state = "whole" =>
    /\ {<<e.path, e.package>> : e \in manifest.entries} = Outputs(retained.records)
    /\ \A e, f \in manifest.entries : e # f =>
         /\ IdOf(e) # IdOf(f)
         /\ e.package = f.package =>
              e.variant # f.variant /\ Default \notin {e.variant, f.variant}

\* A preparer never refuses its own work, unless the policy names a variant
\* "default": what prepare staged passes verify, then and with --verify-only, as
\* long as nothing disturbed it.
StageVerifies ==
  Undisturbed =>
    \A q \in Preparers : pc[q] \in {"verify", "verify-only"} =>
      /\ \A e \in unverified[q] : Verifies(e, entries[q])
      /\ \/ CountsAgree(entries[q])
         \/ pc[q] = "verify" /\ \E g \in policy : Default \in VariantsIn(g)

-----------------------------------------------------------------------------
(***************************************************************************)
(* The output directory as a reader sees it: nothing, or the entries of a  *)
(* staging manifest and everything beside it.  Where preparers overlapped, *)
(* one that was killed may have left a temporary file: not counted.        *)
(***************************************************************************)

NoStage == [entries |-> {}]
PublishedStage ==
  IF manifest.state = "whole" /\ Undisturbed
  THEN [entries |-> manifest.entries, files |-> stage, temps |-> IF raced THEN {} ELSE temps]
  ELSE NoStage

\* Entries for exactly the outputs of the snapshot, each with an identity of its
\* own, and the files are their artifacts.
IsWholeStage(d) ==
  /\ d.temps = {}
  /\ {<<e.path, e.package>> : e \in d.entries} = Outputs(retained.records)
  /\ \A e, f \in d.entries : e # f => IdOf(e) # IdOf(f)
  /\ \A e \in d.entries : \A a \in ArtifactSet(e) : d.files[a] = e
  /\ \A a \in Artifacts : d.files[a] # NoEntry => \E e \in d.entries : a \in ArtifactSet(e)

Stages ==
  [entries : SUBSET Entries, files : [Artifacts -> Entries \cup {NoEntry}],
   temps : SUBSET (Artifacts \X Preparers)]

Published == INSTANCE Publication
  WITH Nothing <- NoStage, document <- PublishedStage,
       right <- {d \in Stages : IsWholeStage(d)}

\* Preparers that fail, are killed or overlap implement a publication: a manifest
\* appears with a whole stage, and no process that is still at work changes an
\* artifact or the manifest under its reader, although each may rename files into
\* the directory and write the manifest anew.
PublishesWhole == Published!Spec
=============================================================================
