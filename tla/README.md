# Verification of Arach Packages

TLA+ models of the programs of this repository, TLC instances that check them,
and TLAPS proofs of what must hold for every instance. Paths are relative to
the root of the repository; `script.py:10-20` is a file under `scripts/`.

The repository holds no server. It is a set of batch programs that read and
write files other programs read and write: a lint of the recipe tree, the
pipeline that plans, builds and audits a corpus of 39,191 package recipes, and
the ingress of a pinned CachyOS tree. What goes wrong in such programs is what
happens between two of their steps: another invocation, a crash, a release that
replaces an input, an answer of another tool to a question about another file.
The models keep those steps apart and leave out text formats.

## 1. The system

### Corpus pipeline (the core)

| Part | State it keeps | Operations |
|---|---|---|
| `merge_recipe_inventories.py` | the corpus manifest and a merge report, both written once | merge per-upstream inventories, reject collisions, decide completeness |
| `build_recipe_corpus_shard.py` | one recipe and one receipt per package, one report per shard, a temporary report, a preflight report | load the manifest, have `corinth-corpus` verify it, for each entry of the shard resume or run `corinth-ingest`, validate, attest, report |
| `validate_recipe_corpus.py` | nothing of its own | validate plan and manifest, verify inputs, verify outputs, compute the Merkle root, decide completion |

They interact through files only. The merge writes the manifest; it is signed
outside this repository; 256 shard builders, started by an operator or by CI,
read it and write recipes, receipts and reports below the same root; the audit
reads all of it, at any time. Nothing locks anything.

Hard behaviours: invocations of one shard that overlap; a release that replaces
the manifest between two of the three reads a builder makes of it; a package
whose new version belongs to another shard (the shard is a digest of an identity
that includes the version); `SIGINT`, a crash or a full disk at any step;
`SIGKILL` of a builder, whose `corinth-ingest` or `corinth-corpus` goes on and
writes; `--resume` over whatever those left. Correct means: what a report or a receipt says of a package
is true and stays true, exit status 0 means what it says, an earlier success is
never lost to a retry, every file has one owner, and "complete" is complete.

### Recipe tree lint (`src/lib.rs`, `src/main.rs`)

State: tables of packages, capability providers and resolved dependencies, built
in one pass over the tree. `validate_recipe` checks one recipe, `validate_tree`
all of them, `validate_dependency_graph` providers, dependencies and cycles,
`validate_cosmic_lock` and `validate_cosmic_bundle` a lock of pinned components
against the bundle's sources. Sequential. Correct means: an accepted tree can be
installed, with the pinned components in it, and a rejected one has the fault
that is named.

### CachyOS ingress (`inventory_cachyos.py`, `verify_cachyos_ingress.py`, `validate_cachyos_variants.py`, `emit_cachyos_candidates.py`, `verify_cachyos_candidates.py`, `prepare_cachyos_overlay.py`, `validate_promoted_cachyos.py`)

State: a snapshot manifest with one record per `PKGBUILD`, a table of variant
groups, a directory of candidates and its index, a staging directory of artifacts and
its manifest. Operations: classify each path, verify the snapshot; write a candidate
file per package output and an index, verify both; or select variants, stage
artifacts for each output, verify the staging. Files are the only interface, and the
candidates are written in place; the mirror is a working tree that others may change. Correct
means: every path that is found has a record, no alternative
overwrites another, a verifier refuses its producer's work only for a cause in the input, and an
index or a staging manifest describes the bytes beside it.

### Upstream inventories (`inventory_git_tree.py`, `inventory_cargo_index_shard.py`, `inventory_gentoo_ebuild_shard.py`)

State: a table built from the output of a `git ls-tree` child, written once. Hard:
two bounded pipes between parent and child, drained one after the other; a second
child (`git cat-file`) started while the first is blocked; limits on every count; a
document that is validated by the program that wrote it and again by
`--verify-only`. Correct means: a document has a record for each entry of its
shard, and the parent neither hangs nor accepts a truncated tree.

### CI aggregate status (`.github/workflows/ci-aggregate-status.yml`)

State: the commit statuses that GitHub keeps. A push to main, the end of a run of a
listed workflow or a dispatch starts a job that reads the latest run of each workflow and
posts a status for it, then a summary. Hard: no `concurrency` group, so jobs overlap and
each posts what it read before; a call fails half-way. Correct means: when all is quiet,
the head of main shows what is so.

### Contracts, SBOM, CI, native code

`validate_upstream_coverage.py`, `validate_discovery_snapshots.py` and
`audit_package_coverage.py` check JSON documents against each other.
`generate_source_sbom.py` renders recipes as SPDX. The other workflows
under `.github/workflows/` run the programs. `native/` recognises package headers and ranks builds; `formal/` holds an
Idris and an Agda model of package authority. `recipes/`, `locks/`, `ingress/`
and `production/` are data.


## 2. Modules

| Module | Models | Composes |
|---|---|---|
| `CorpusLedger` | abstract: what builds of a corpus promise to the readers of their reports | implemented by `ShardBuild` |
| `ShardBuild` | `build_recipe_corpus_shard.py` from the loaded manifest to the exit status, many invocations | INSTANCE `CorpusLedger` |
| `ShardLoad` | the three reads of the manifest a builder makes before that, and the shared preflight report | |
| `Publication` | abstract: what a program promises that writes several files and last the one that speaks for them | implemented by `CorpusMerge` and `OverlayStage` |
| `CorpusMerge` | `merge_recipe_inventories.py` and what the validator asks of its output | INSTANCE `Publication` |
| `CorpusAudit` | `validate_recipe_corpus.py` over the files of running builders | EXTENDS `ShardBuild` |
| `MerkleRoot` | `merkle_root`, a pure function, with what its root determines as an assumption TLC evaluates | |
| `RecipeTree` | `validate_tree`, `validate_dependency_graph`, `validate_cosmic_lock`, `validate_cosmic_bundle` | |
| `CachySnapshot` | `inventory_cachyos.py` and `verify_cachyos_ingress.py` | |
| `CandidateEmit` | `emit_cachyos_candidates.py` and `verify_cachyos_candidates.py`, several at once | EXTENDS `CachySnapshot` |
| `OverlayStage` | `validate_cachyos_variants.py` and `prepare_cachyos_overlay.py`, and the whole ingress on one mirror | EXTENDS `CandidateEmit`, INSTANCE `Publication` |
| `TreeShard` | `inventory_git_tree.py`, `inventory_cargo_index_shard.py`, `inventory_gentoo_ebuild_shard.py` and their `git` child | |
| `AggregateStatus` | the job of `ci-aggregate-status.yml`, overlapping, over workflows that run meanwhile | |

`MC<module>` gives the constants of a module their values for TLC, and
`<module>Proofs` holds its theorems (`IngressProofs` those of `CachySnapshot`,
`CandidateEmit` and `OverlayStage`, which it proves of their composition; the constants of
`AggregateStatus` are plain sets, so its configuration gives them). Definitions whose comment starts with
*Mutant* are plausible bugs; nothing refers to them. They are kept beside the
definition they mutate so that each property can be shown to depend on the code.

### How state and actions correspond to the code

**ShardBuild.** `pc[b]` is the place of invocation `b` in `main`; `doc`, `job`,
`status`, `digest` are its locals (the manifest in memory, the arguments, and
what the report will say of each package). `recipe`, `receipt`, `report`, `temp`
are the files. `Start` is `main` up to the first entry; `RouteToWorker`,
`CheckPair`, `Revalidate`, `IngestWrites`/`IngestSucceeds`/`IngestFails`,
`ValidateRecipe` and `Attest` are the loop body of `build_shard`;
`WriteTemp` and `ReplaceReport` are `write_report`, with the exit status decided
in `ReplaceReport`. A recipe file is a *content*, and `Declares` says of which
version it is a valid recipe: a content that declares nothing stands for a torn
or irregular file. `Interrupt` is `SIGINT` (where `subprocess.run` kills the
child), a crash of the machine, or any exception that reaches `main`; `Kill` is
`SIGKILL`, which leaves the child `corinth-ingest` running as an *orphan* that
may write once more. `contested` is a history variable: the packages that ever
had two writers at a time (overlapping invocations of one shard, invocations of
two shards with manifests that put the package in both, or an orphan). The
builder's promises are conditioned on it, because the code takes no lock; that
is stated, not hidden. `Publish` is a release that replaces the manifest.

**CorpusLedger.** The files of a package are one value of `store`, and the only thing
known of a report is which pairs it relies on, its `claim`. `Build` may write a pair only while no
claim relies on it, and `Conclude` may only claim what is in the store. `ShardBuild`
implements it with `store` the recipe and receipt, `claim` the built and resumed entries of
each report with their digests, and `shared` the contested packages: every write of
an ingest, attestation or orphan is a `Build`, every `ReplaceReport` a
`Conclude`, all the rest stutters. This is what a consumer of the reports may rely on
without knowing of resumes, crashes and versions.

**ShardLoad.** One action per read: `HashManifest` (line 112) and `ParseManifest`
(line 113), `FindPreflight` and `UnlinkPreflight`, the external `corinth-corpus` as `PreflightReads`,
`PreflightAccepts`, `PreflightRejects`, then `ReadPreflight` (lines 139-141), which asks only that a
report is there and copies it: nothing in the code compares its digest with the one of line 112.
Manifests are numbered in the order of their publication. The path of the preflight report depends on
the shard only, so invocations of one shard share it; in code and model they unlink and rewrite
it under one another. `Abandon` is an end at which no child survives (`subprocess.run` kills it on
`SIGINT`); `Kill` is `SIGKILL` or `SIGTERM`, which leaves `corinth-corpus` among the `orphans`, to read the
manifest and write the report whenever it likes. Two histories say whom the properties excuse:
`republished`, the loads during which a release took place, and `overlapped`, those during which another
invocation of the shard was loading or an orphan of it was alive.

**Publication.** A reader finds `Nothing` or a whole document. `Publish` leads from
`Nothing` to a document that is `right` at that moment, `Withdraw` back; nothing leads from
a document to another one. The two mappings differ in what a document is. For
`CorpusMerge` it is the manifest and the report, for a reader who goes by the report, and right is
`CorpusOf(i)`, what a sound list of inventories amounts to. For `OverlayStage` it is
the entries of the staging manifest and all that lies beside it, and right is a stage with one
entry per output of the snapshot and exactly their artifacts (`IsWholeStage`).
What is withdrawn is what the code does not protect: by an operator, by two writers at
once or a manifest removed from under its report (`CorpusMerge`), by an overlapping preparer that tears the manifest or a mirror that moves
between overlapping preparers (`OverlayStage`).

**CorpusMerge.** `MergeInventory` is one turn of the loop over the argument
list, `FinishMerge` the sort and the decision of completeness, the four writing
steps are `write_new` with its `exists` check kept apart from its write.
A process may begin again with other arguments; `RemoveManifest` and `RemoveReport` are an operator who
deletes one output, at any time. An inventory entry keeps four of its seven paths: those
the merge and the validator treat differently. A path is a spelling, and `FileOf` says which file of its
directory it denotes: `safe_relative` (57-65) lets `a/./b` and `a//b` through, and every check compares
strings (`PathAt`, `Clash`). `Normal` are the spellings with no such part, of which no two denote one file. Two
directories share no file, since no path has a `..` and the corpus has no symbolic links. `disturbed` is a
history: two runs wrote at once, or the manifest was removed from under a writer or a report.
`Accepted` is the validator's view.

**CorpusAudit.** One audit walks over the packages while builders of `ShardBuild`
write: `AuditHash` and `AuditParse` are two reads of the manifest, `AuditInputs` finds an input file that
differs or does not, then per package `AuditRecipe` (read), `AuditDigest` (second read for the leaf), and
`AuditReceipt` compares with the build receipt. `IssueReceipt` is the external
author of that receipt. `unsettled` remembers packages under ingestion while they
were read.

**MerkleRoot.** `RootOf` is the `while` of `merkle_root` and `PairUp` one
iteration. A digest is its preimage, which is what collision freedom means.
`RootDeterminesLeaves` says of every list of up to seven leaves over three values
that no other list of that length has its root; `MCCorpusAudit` extends the module,
so that TLC evaluates it.

**RecipeTree.** `pc` and `next` walk the loops of `validate_tree` and
`validate_dependency_graph`; `providers` and `required` are its
`BTreeMap`s. `Release` takes the packages that wait for nothing, one at a time,
as the loop over `ready` does. A recipe's `valid` stands for `parse_recipe` and
`validate_recipe`, `pinned` for the checks of the bundle's sources against the lock.

**CachySnapshot.** `ScanPath` is `classify` on one path and the accumulation
around it, in path order; `ScanEnd` decides completeness and `WriteSnapshot`
writes. There are three trees: `pinned`, what git has for the policy's revision; `checkout`, the working
tree when the scan begins, which `ScanBegin` asks to be `Clean`, that is to have the tracked files
unmodified, whatever else lies in it; and `mirror`, the working tree now, which `ShiftMirror` may
replace in the middle of the scan, because HEAD and status are not looked at again. `VerifySnapshot` is the verifier; `Retain` the operator who keeps an
accepted snapshot for the overlay. `Reasons` and `Admission` are the tables of
`classify`, `RecordAccepted` the per-record checks of the verifier. `Named` are the packages whose name
matches `PACKAGE_RE`, which the names of a `PKGBUILD` must and those of a `.SRCINFO` need not (212-214), but
both verifiers ask of every name.

**CandidateEmit.** A candidate file is known by what was written to it, which is what its
digest says. `EmitOutput` is one turn of the loop of `emit` up to the moment
`write_text` opens the file, which empties it; `WriteCandidate` the text, which over a longer
text of another emitter may leave a mixture; `OpenIndex` and `WriteIndex` are
`write_index`. `EmitFails` is a package listed twice, metadata that cannot be read, a signal or a full
disk, at any step. `CheckBegin`, `CheckCandidate` and `CheckEnd` are `verify`, one file
read after the other, while emitters may be at work. `stale`, `mixed` and `overtaken` are
histories: an emission was begun and none ended, the last to begin was not alone, an emitter
was at work during the verification. `CheckCandidate` has the check of the name (55) and the digest.

**OverlayStage.** The composition: `SnapshotStep`, then `EmitStep` or `PrepareStep`, and
`MoveMirror` once a snapshot is retained, unless the mirror was shifted during the scan. `stage` maps each artifact path to the entry it was rendered
from; `temps` are the temporary files of atomic writes. `PrepareBegin` is the
check for an empty output and the checks of snapshot and policy; `OpenRecord`
checks the source's digest against the mirror, `StageOutput` renders one
package, `WriteTemp`/`ReplaceArtifact` write its three artifacts, then
`VerifyEntry` re-reads the staging directory, `EndVerify` compares the counts and `WriteManifest` concludes.
`VerifyOnly` is `--verify-only`. An entry is `selected` when the policy has a group for its output: prepare
counts those (401), verify counts the names other than `default` (615), and the policy may give a variant that
name (`CountsAgree`). Two preparers may run on one output; `raced` and
`moved` record that they did and that the mirror was checked out anew after the
snapshot was retained.

**TreeShard.** One process at a time works on an output. The tree is a sequence of
items, and the pipe between the child and the parent is four counts: the child has
`sent` so many, the parent has `read` so many from the pipe, `read()` has `returned`
so many to the loop, which has `walked` so many. The child is `git`, external:
`ChildWrites` blocks at `PipeSize`, `ChildComplains` and `ChildWritesError` are a
message that waits for room in the error pipe, `ChildExits`, `ChildFails` and
`ChildBreaks` its ends (`torn`: inside an item). `ReadMore` and `ReadReturns` are
`stdout.read(CHUNK)`; `SkipItem`, `KeepManifest`, `KeepEntry`, `Overflow` and
`RejectItem` the loop body; `EndTree` and `RejectTree` what follows the loop, which
reads the errors and asks for the exit status. `ClassifyCrate`, `ClassifyEbuild` and
`ManifestFails` are the blob reads and the classification, `AcceptDocument` and
`RefuseDocument` the program's own validation, `OpenOutput` and `FillOutput` the two
visible steps of writing. `Lower` and `Shard` are `str.lower` and `shard_for`. `Wants`,
`Valid` and `Path` branch on the tool where the three programs differ. `unread` is a
history: Manifests that git once failed to read.

**AggregateStatus.** `latest` is the answer of the API for each workflow, `status` what was
posted last on each commit for each context. A job is triggered for the commit that is then
the head (`Push`, `CompleteRun`, `Dispatch`), `List`s the workflows or, when the
listing fails, sees none (`ListFails`: `set -e` does not see the status of a process
substitution), and takes `Read` and `Post` in turns; `PostAggregate` compares its counters,
of which only whether they are positive matters. `BreakOff` is a failing call, a
cancellation or the timeout. Three histories say whom the properties excuse: commits a job `broken` off for,
commits whose last job `overlapped` another, and posts that were `obsolete` when
made.

## 3. Runs

| Run | Question | States |
|---|---|---|
| `ShardBuildRaces` | two invocations, two shards, a release that moves a package from one to the other: do they implement the ledger, does a report stay true, does resume keep what was accepted? | 1.0 M |
| `ShardBuildRuns` | two runs one after the other over every kind of leftover, with every combination of `--resume` and `--require-complete`: are reports whole, is exit 0 what it says, does every run end? | 73 k |
| `ShardLoad` | two invocations of one shard, killed ones and their children, two releases: when is what a builder continues with one manifest? | 845 k |
| `CorpusMerge` | fourteen argument lists, two processes, an operator: one file per entry, argument order irrelevant, report and manifest a publication | 217 k |
| `CorpusMergeAccepted` | *violated*: does the validator accept a complete merge? | up to the violation |
| `CorpusAuditUpgrade` | audits beside two builders one after the other, the second of which resumes what the first left, before or after a new manifest: what does "complete" mean? Does a Merkle root determine its leaves? | 2.1 M |
| `RecipeTree` | 35,850 trees and locks: is the lint right to accept and to reject? | 203 k |
| `OverlayStage` | 48 trees, pinned and checked out with others in them, through inventory and verification to two emitters and the verifier of candidates, or to two policies and two preparers; is the staging a publication? | 380 k |
| `OverlayStageRefused` | *violated*: does the verifier accept what the inventory wrote? | up to the violation |
| `TreeShard` | fifteen trees through a child that fails, complains or is killed: is a document the whole shard, does the inventory end? | 211 k |
| `TreeShardRefused` | *violated*: does an inventory accept its own document? | up to the violation |
| `AggregateStatus` | two jobs over two workflows and a push: does the head of main come to show what is so? | 68 k |

What the properties say, in the order of their importance:

- `ReportTruthful`: what a report calls built is on disk, valid for the entry and
  with the digest reported, for every package without two writers. It is an
  invariant, so it holds long after the run that wrote the report, through later
  runs, crashes and releases. `ReportWhole`: a report covers the whole shard.
- `ImplementsLedger`: every behaviour of the builders is one of `CorpusLedger`, which
  adds to `ReportTruthful` that the files a report relies on are not touched at all, not even
  to be replaced by equally valid ones, until another report takes its place.
- `CleanExit`: exit status 0 means every static entry of the shard has its published pair,
  and with `--require-complete` that none was left to a worker;
  `ResumeKeepsAccepted`: a resuming run never reports as failed what an earlier
  run accepted at the same version; `ShardsPartition`: a package of a manifest is
  taken by one shard.
- `LoadsOneManifest`, `LoadsInOrder`: of the three reads of the manifest, which
  agree, and that none goes back. The digest and the entries agree unless a release fell into the load; the
  preflight agrees with them if besides nothing else could write it, neither an overlapping
  invocation nor the orphan of a killed one. The code itself compares nothing, so nothing holds without these conditions.
- `OneFilePerEntry`: two entries share a file only where one spells its path out of normal form;
  `OrderDecidesNothing`; and
  `PublishesMerge`: every behaviour of the merges is one of `Publication`, so the report
  says "complete" exactly when the inventories given were, and what it stands beside stays.
- `CompleteIsPublished`, `CompleteIsOneManifest`: an audit that ends in "complete"
  accounts for content published for each entry, except entries an ingest was writing while they were read,
  and of one manifest.
- `AcceptedTreeInstalls`, `PinnedComponentsStay`, `RejectedForCause`.
- `SnapshotCoversTree`, `RefusedForCause`, `CompleteOwnsOnce`, `AlternativesSelected`,
  `StageVerifies`: a snapshot has a record for each `PKGBUILD` there was when the scan began, the pinned
  ones among them, and of the pinned content unless another revision was checked out during the scan; the
  verifier refuses it only for an input the two programs cannot agree on; alternatives of
  one package are all staged under different identities; and a staging verifies, unless the
  policy names a variant `default`.
- `PublishesWhole`: the staging implements `Publication`. A staging manifest describes the
  bytes beside it, unless two preparers overlapped *and* the mirror moved under them, and
  one with its files does not change while it stands, although preparers that overlapped
  go on renaming files into the directory and may write the manifest again.
- `ManifestDescribesStage` is the part of `PublishesWhole` that speaks of one state. It is proved as an
  invariant of its own, and no run checks it apart from the refinement.
- `PassedIsSnapshotSet`: a candidate set that passes its verifier has one candidate for each
  output of the snapshot and no other, each with a valid name, whatever crashes, retries and overlapping emitters
  did before and do meanwhile, and is what is on disk unless one was at work.
  `EmissionVerifies`: a retry that ends undisturbed cures what an earlier one left.
- `SettledIsTrue`, `ConclusionIsShown`: at rest the head of main shows the truth, and a
  conclusion comes to be shown, except for what the code does not prevent, which the
  properties name: a job triggered before another may post after it what it read before, and then
  a wrong status stays until something triggers a job; and a job may break off, or see no
  workflows because the listing failed.
- `WrittenIsWhole`, `VerifiedIsWhole`: no death of the child, failed blob or torn
  output makes a smaller tree pass for the whole one, and a record names the Manifest that the whole tree
  has for its entry: that of the directory in lower case, also for an ebuild of a directory that is not.
  `RefusedForCase` says what capitals in a name do else, and that nothing else does it.
  `Finishes`: an inventory ends, except in `CircularWait`, which the code does not
  exclude: the errors of the child fill their pipe before its output ends.

### Bounds, and why they are enough

- `MaxRuns` bounds the invocations ever started. Each conflict is between two of
  them; the third lets a run observe what two left. The two runs of
  `ShardBuildRuns` are "leave something" and "find it".
- Two packages are the smallest shard with a first and a last entry, where "all"
  and "some" differ; `ShardBuildRuns` has three, to have a worker-routed entry between
  two built ones. Two manifests: a builder compares equal or different only.
  `LastManifest = 3` gives each of the three reads of a load another manifest. Two invocations of one shard
  and any number of orphans are all that ever meet at one preflight path: shards share nothing, and a third
  invocation writes what a second or an orphan does. `MaxRuns = 2` of `CorpusAuditUpgrade` are the builder whose output is audited and one that
  resumes over it.
- Three upstreams, because the canonical order must differ from the
  alphabetical one and have a middle; `Target` is 4, reached by one list exactly.
- The argument lists of the merge are one per reason to be rejected and per
  direction of a collision, not all lists: the code treats entries pairwise. One list spells a
  file in two ways (`AlpineRespells`).
- Three recipes carry a cycle of length three, a provider apart from both ends of
  a dependency, and a contested name; a lock has at most two components because
  the only relation between components is equality.
- A pipe and a chunk of one or two items make the child block with one item unread
  and the parent process a chunk that is not the last; trees have up to four items,
  `MaxRecords = 2` is reached by one and exceeded by another. `MaxErrors = 2` is one
  message more than the error pipe holds, `MaxRuns = 2` a failed attempt and a retry.
- Seven leaves take the Merkle loop through three levels with odd lengths at three.
- Mirrors have four paths, of which two are variants of one package; the others
  supply each way to be classified, and one name that is not valid. Every two of the trees of which the one
  has the files of the other are a pinned tree and a working tree with more in it. The mirror changes once, during the scan or after, to
  `Newer`. Each of the two policies is valid for some trees, and one of them names a variant `default`.
  `MaxEmissions = 2` is a failed emission and its retry, or two that overlap. A
  behaviour goes on either to candidates or to the staging, which share nothing but the
  snapshot and the mirror: `EmitStep` waits for the verdict, `PrepareStep` for the absence of
  emissions. The emitter reads the manifest whether or not it was accepted, so a refused one is emitted too.
- `MaxJobs = 2` for `AggregateStatus`: that an older job has the last word takes two. One
  push gives a commit whose jobs are of no interest any more. Two workflows make the summary
  differ from each; three conclusions are one per state posted. A job takes the first free slot.

`CHECK_DEADLOCK FALSE` is given where every process may have ended and
the bounds leave nothing to start; `ShardLoad` and `CorpusMerge` may always go on
and are checked for deadlock.

### Fairness

`ShardBuild!FairSpec` has weak fairness of `Step(b)` for each builder: a process that
is scheduled takes its next step. That includes the child `corinth-ingest`, which
the code waits for without a timeout (`run_command`); `Terminates` therefore
assumes that a child exits, and says nothing of a hung one. Crashes, kills,
releases and starts are not fair. `AggregateStatus!FairSpec` has weak fairness of each job's
steps, to break off among them: a hosted runner takes up every job, and ends it after
`timeout-minutes` at the latest; that a workflow ends, or is pushed, is not fair. `TreeShard!FairSpec` has weak fairness of the parent's steps
and of the child's (`ChildProceeds`): each waits for the other and for nothing
else, apart from `git cat-file`, which reads one object and ends. That the child
complains or fails is not fair. Nothing else has fairness: a merge, an audit or a preparation that stops half-way is a
behaviour to be checked.

## 4. Proofs

tlapm checks the theorems for every value of the constants that satisfies the
named assumption of the module. Those assumptions type the constants and make the packages of a corpus, the groups of a policy and the workflows finite,
as the entries of a manifest and the files under `.github/workflows` are. What they say beyond that: a manifest gives a
package one entry, which the merge sees to for paths in normal form (`ShardBuild`, where packages share no
file); spellings in normal form denote different files (`CorpusMerge`); a tree has no two items of one path, as git
has it (`TreeShard`). Two theorems assume more, in
their statements: `RefusalsHaveCause` a policy whose vocabulary has every reason code (`Codes`), and
`RefusalsAreForCase` an index with one file for each crate (`OneFilePerCrate`). What processes and the environment
do is in the actions alone; where a property holds only if nothing disturbed a program, the property says so by a history variable.

| Theorem | Says |
|---|---|
| `ShardBuildProofs!TypeCorrect`, `ReportsStayTruthful`, `ReportsStayWhole` | `TypeOK`, `ReportTruthful`, `ReportWhole` |
| `ShardBuildProofs!ShardBuildImplementsLedger` | `ImplementsLedger`: the refinement |
| `ShardBuildProofs!ExitsClean`, `ResumeNeverFailsAccepted`, `ShardsStayPartitioned` | `CleanExit`, `ResumeKeepsAccepted`, `ShardsPartition` |
| `ShardBuildProofs!RunsStayBounded`, `NobodyWaits` | a builder has a bounded number of steps left, which only its own steps lower and none raises; it always has a next one |
| `ShardLoadProofs!TypeCorrect`, `OneManifestLoaded`, `ReadsMoveForward` | `TypeOK`, `LoadsOneManifest`, `LoadsInOrder` |
| `CorpusMergeProofs!TypeCorrect`, `ManifestOneFile`, `OrderIsNothing` | `TypeOK`, `OneFilePerEntry`, `OrderDecidesNothing` |
| `CorpusMergeProofs!MergeIsPublished` | `PublishesMerge`: the refinement |
| `CorpusAuditProofs!AuditTypeCorrect`, `CompleteAuditIsPublished`, `CompleteAuditIsOneManifest` | `ATypeOK`, `CompleteIsPublished`, `CompleteIsOneManifest` |
| `RecipeTreeProofs!TypeCorrect`, `AcceptedInstalls`, `PinnedStay`, `RejectionsHaveCause` | `TypeOK`, `AcceptedTreeInstalls`, `PinnedComponentsStay`, `RejectedForCause` |
| `TreeShardProofs!TypeCorrect`, `WrittenStaysWhole`, `VerifiedStaysWhole`, `RefusalsAreForCase` | `TypeOK`, `WrittenIsWhole`, `VerifiedIsWhole`, `RefusedForCase` |
| `TreeShardProofs!InventoryIsBounded`, `WaitsOnlyInCircle` | every step of an inventory and its child lowers a bounded number; one of them has a next step, except in `CircularWait` |
| `IngressProofs!SnapshotStaysWhole`, `OwnedOnce`, `RefusalsHaveCause` | `SnapshotCoversTree`, `CompleteOwnsOnce`, `RefusedForCause` |
| `IngressProofs!OverlayTypeCorrect`, `ManifestSelectsAlternatives`, `ManifestMatchesStage`, `PreparedStageVerifies` | `TypeOK`, `AlternativesSelected`, `ManifestDescribesStage`, `StageVerifies` |
| `IngressProofs!OverlayIsPublished` | `PublishesWhole`: the refinement |
| `IngressProofs!PassedCandidatesAreSnapshots`, `LoneEmissionVerifies` | `PassedIsSnapshotSet`, `EmissionVerifies` |
| `AggregateStatusProofs!TypeCorrect`, `SettledStatusIsTrue` | `TypeOK`, `SettledIsTrue` |
| `AggregateStatusProofs!JobsStayBounded`, `NoJobWaits`, `ConclusionsStayOwed` | a job has a bounded number of steps left and always a next one; a conclusion that is not shown is owed by a live job, or spoiled |

*ReportsStayTruthful.* A report is written long after the files it describes, and
read long after that. `ReportTruthful` is not inductive: the step that replaces a report
copies the builder's memory, so the memory must be truthful (`MemoryTruthful`); a
memory stays truthful because nobody else writes an accepted package
(`OneOwner`: the owner of an uncontested package is unique, and
`IngestingUnclaimed`: a package under ingestion is in nobody's report);
the two steps that make an entry accepted rely on what was read before them
(`RevalidatesSeen`, `AttestsValid`); a process that has ended remembers nothing
(`Forgotten`), and an orphan can only write where it is already counted as a second
writer (`OrphansContested`). The conjunction is inductive with the type invariant.

*ShardBuildImplementsLedger.* The steps that write a recipe or a receipt are those
of the package's only owner, and under the same invariant no report claims a package that is
being ingested; a report that is replaced takes the writer's memory, which is truthful. The
action properties follow from the invariant step by step, `ReportWhole` from `MemoryWhole`, what a
builder's memory says of the entries before the one it is at.

*ShardLoad.* `Reads` follows each read from the step that takes it: it is of a manifest no newer than the one on
disk, and of the one on disk as long as nothing was published. So the digest and the entries agree unless a
release fell between. The preflight report is another matter, since no step compares it with anything: `OwnPreflight`
says that an invocation that nothing overlapped has the path to itself, with no report there until its own
`corinth-corpus` writes one of its `input`, and `RivalsOverlap` that two invocations loading one shard are
both marked.

*CorpusMerge.* The set merged so far is `OnePathEach`, which each accepted
inventory preserves since it is checked against itself and against all before it;
a manifest is written from it and not rewritten while it exists. `ManifestOneFile` is that, with `FileOf`
one-to-one on the normal spellings. The report needs
that the writer's manifest is still the one on disk when it writes the report, which
follows, unless `disturbed`, because both writers refuse existing files. That the order of the arguments decides nothing
rests on `Merging`: a run in the loop has read a prefix of its arguments, each of which is valid, and its tables
are those of that prefix. A rejection then shows an invalid inventory or a clash of two in
the whole list, and a run that reaches the end has found the whole list sound, so the
outcome is a function of the set of inventories. `MergeIsPublished` needs
`ReportInv`, that a whole report is what some sound list amounts to, whoever wrote it, `ReportMatches`, that it is
about the manifest beside it unless `disturbed`,
and `UpstreamsShow`: no valid inventory is empty, so `seen_upstreams` counts what the entries show.

*CorpusAudit.* EXTENDS the invariant of `ShardBuild` by what the audit has read: each
leaf so far is content a builder published for that entry, or the package is `unsettled`.
`CompleteIsOneManifest` rests on `TiedInv`: each leaf carries the version of the entry it was
made from, and the receipt that was accepted for it ties the second read of the manifest to the first.

*RecipeTree.* The two central facts: at the end of the resolution the table
`required` is exactly the relation `Needs`; and a *closed* set of packages, each
of which needs a member, never loses a member to `Release`, since a released package
waits for nothing. So an empty rest means there was no cycle, and a nonempty
rest is itself a cycle, which gives both directions.

*TreeShard.* `Account` relates the first `n` items of the tree to memory: each wanted
entry among them either waits for its blob or has a record, and each record is
explained by one of them. Every step of the walk takes it from `n` to `n + 1`, every blob
moves one entry from waiting to a record. `PipeInv` carries the other half: a child that exits by
itself has sent the tree, and a document is only made after all that was sent was
walked, so `n` is the length of the tree. `WaitInv` says that nothing waits any more.
`unread` only grows, so files on disk stay accounted for. The assumption that a tree
has no two entries of one path gives that a record speaks of one entry. `RefusalsAreForCase` adds `OnceInv`: each
entry is recorded once, so a program refuses its own document only for a name that is not in lower
case. A cargo record is identified by its crate alone; `OneFilePerCrate` says that two files of an index are
not the same crate, which holds because `cargo_name_from_path` accepts one path for each name.

*Ingress.* `SnapInv` says that the records so far are those of the paths scanned so far, one for each
`PKGBUILD` found when the scan began, and of the tree that was there then unless it was shifted. `Settled`: until the verifier has decided nothing is
emitted or staged, and from then on the snapshot stays as it is (`SnapshotFrozen`), so what follows goes by its
records and not by any tree. `ScanInv` adds that the owner table has the least path scanned that
emits a package and the list of duplicates all others, which the verifier computes in
another way (`TwiceAreDuplicates`); with one record per path (`CountRecords`) inventory and
verifier agree on completeness, and a refusal must come from a single record. `RefusalsHaveCause`
assumes that the policy's vocabulary has every reason code of `classify` (`Codes`), which
`ingress/cachyos/policy.toml` does. For the candidates, `EmitInv` says of each emitter that every
output of the snapshot is written, open or waiting, and that what it wrote is `Good`; `AloneInv`
that an emitter without another beside it finds on disk what it wrote; `CheckInv` that what was compared with the
disk stays there until an emitter begins. The counts of the verifier follow by a
bijection between entries and outputs.

*Overlay staging.* Three invariants, each on top of the one before. `StagedInv` says what a preparer
has staged: entries of its snapshot, with distinct identities, each variant chosen by the
policy. `MemoryInv` adds the order: a preparer walks the outputs in one order, so with an entry it has
every output before it; hence two preparers of one mirror that give the same identity to
two outputs would both have refused the later of them (`SameId`), and their
entries agree. `DiskInv` is about the staging directory, in the two cases of `Undisturbed`: under one
mirror (`RenderedInv`) every file is the entry that any preparer renders for its name; without an overlap
(`LonelyInv`) the directory has only what the one preparer staged, or what a manifest lists, since
a preparation begins from an empty directory. `PresentInv` says that what was staged and
renamed into place is still there. `CountedInv`: the counts of a manifest that is verified by itself agree,
since they did when it was written; before that they fail only where a policy names a variant `default`. `OverlayTypeCorrect` needs them all: that what is left to write is a
sequence of artifacts, for one, follows from the entry it belongs to. `OverlayIsPublished` rests
on `RenamesTheSame`: a preparer that still renames files when a manifest stands overlapped
its writer, so unless the mirror moved it renders the same entry for the same output, and the
file it replaces was rendered from that entry; and on `OneRendering`: a second manifest is the first.

*AggregateStatus.* `WillPost` says that a job for the head has yet to read a workflow, or yet to
post the summary. When the head is neither broken nor overlapped, each workflow that is not
active is `Shown` as it is or some job `WillPost` it (`WorkflowsShown`), and likewise the summary
once nothing is active (`AggregateShown`): the end of a run triggers a job, and one job alone reads
what is so (`ReadsAreTrue`, `FoundIsTrue`). With all jobs idle nothing remains to be posted.

*Termination, up to fairness.* The three liveness properties have each a part that is safety, which
is proved for all constants. `TreeShard`: `Work` adds up what the parent and the child
have yet to do; every step lowers it (`StepsAreBounded`), and while the inventory runs some guard of either
holds unless both are in `CircularWait` (`OnlyCircularWait`). `ShardBuild`: `Left(b)` is four
steps for each entry not decided and a rank for the place in the code; only `Step(b)` lowers it, nothing raises it
(`RunsAreBounded`), and one of its guards holds (`NeverWaits`): since the next entry is
the least one undecided, and a nonempty set of numbers has a least. `AggregateStatus`: the same for a
job, and what is not shown is owed by one (`ConclusionIsOwed`), which
is `WorkflowsShown` said of one workflow.

Each of these invariants was first checked by TLC on the instances above, and each
guard compared with ENABLED of the steps it speaks for.

### Only model-checked

Every invariant of a passing run is proved. Out of this prover's reach:
`Terminates`, `Finishes` and `ConclusionIsShown` (liveness), of which only the use of fairness is
left: that a step whose guard holds is ENABLED and is taken at last; and `MerkleRoot` (recursive
operators; what a recursion computes for all inputs needs an induction the
provers cannot instantiate).

## 5. Where code and documents disagree

| Run | The code | The document |
|---|---|---|
| `CorpusMergeAccepted` | `validate_recipe_corpus.py:242` wants the entries in the order of tuples of strings; the merge writes the canonical order of `UPSTREAMS`, which is not alphabetical | `README.md:46-48` |
| `OverlayStageRefused` | `inventory_cachyos.py:365` writes two reason codes in an order the verifier refuses | `docs/PKGBUILD_INGRESS.md:110-112` |
| `TreeShardRefused` | `inventory_gentoo_ebuild_shard.py:261` shards by the name in the tree, `:436` validates by the name in lower case: a shard with `dev-perl/Moose` is refused | `tests/test_inventory_gentoo_ebuild_shard.py:92-93` |

Not every observation is a run: `build_recipe_corpus_shard.py:113` takes the entries from a read of
the manifest that nothing compares with the one that was verified (a release that is taken back in
between gets the entries of an unsigned manifest built); `validate_recipe_corpus.py:34` allows
no `@` in a package name, `merge_recipe_inventories.py:36` does; the aggregate job keeps an
outdated status when an older job posts last, and calls a failed listing "no main workflow runs
observed"; the emitter of candidates compares neither revision nor digests of the mirror it reads; `inventory_cachyos.py` looks at HEAD and at
modified files before it scans (342), not after; `classify` computes its set of fatal reasons and then
removes most of it (303-310); `prepare_cachyos_overlay.py` compares the digest of a
`PKGBUILD` with the snapshot and not that of a `.SRCINFO`, from which the version is
taken; `inventory_cachyos.py:355` inventories a `PKGBUILD` that git does not
track like any other, and takes the names of a `.SRCINFO` without looking at them (212-214), which the verifiers then
refuse (`verify_cachyos_ingress.py:184`, `verify_cachyos_candidates.py:55`); a variant that a policy names `default`
makes prepare refuse its own staging (`prepare_cachyos_overlay.py:401`, 615, 644); two spellings of one file pass
every check of the merge (`merge_recipe_inventories.py:57-65`, 218-223, 289-297); a manifest that is
removed and merged again under a report that stayed leaves a pair that does not match; a `corinth-corpus` that
survives its killed builder may leave its report to a later one, which reads whatever is there (139-141);
`--resume` trusts a recipe whose name, version, architecture and policy
agree, whatever its sources are; `validate_recipe_corpus.py` calls a corpus complete
without `--verify-inputs` (481); a Manifest that git fails to read makes an ebuild
quarantined for good (313); an ebuild of a directory that is not in lower case is judged by the Manifest of
the one that is, or by none (357).

## 6. What is left out

- The grammars: `PKGBUILD` parsing, the ebuild and Cargo index readers, SPDX and
  JSON rendering. A file is a record of what its parser finds. Symbolic links and
  permissions appear where the control flow asks for them (irregular files).
- `corinth-corpus`, `corinth-ingest` and the signing of manifests are not in this
  repository: their actions are external, with what the callers rely on.
- The validator's receipt for inputs, its report file, and outputs of deterministic workers
  (written by other tools).
- `native/`, `formal/`, data, and the CI definitions other than the aggregate status: straight-line jobs.
- `validate_promoted_cachyos.py`: a stateless comparison of two committed recipes.
- Two inventories that write one output at the same time, an unknown revision and a shard
  count that is no power of two (both end a run before anything happens).
- Package names with a slash, identities longer than `ID_RE` allows and artifacts above the size bound in the
  overlay staging (each ends a preparation like any other failing check, `Abandon`).
- A step between two reads that a model takes in one: of a `PKGBUILD` and its `.SRCINFO` in a scan and in the staging.
- Contract validators and the coverage audit: pure functions of documents,
  without state; the unit tests of the repository cover them.

## 7. Further work

- `RecipeTree` extended by the checks of a single recipe, and `verify_cosmic_repository`.
