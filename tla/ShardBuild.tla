----------------------------- MODULE ShardBuild -----------------------------
(***************************************************************************)
(* Invocations of scripts/build_recipe_corpus_shard.py over one corpus     *)
(* root.  An invocation loads the published manifest, walks the entries of *)
(* its shard in manifest order, lets corinth-ingest write a recipe and a   *)
(* receipt for every static entry that has none, and replaces the shard's  *)
(* report.  Nothing is locked: several invocations, the ingest child of an *)
(* invocation that was killed and a republication of the manifest can      *)
(* interleave with one another.  What happens between the start and the    *)
(* entry loop, the reads of the manifest and the preflight, is the subject *)
(* of module ShardLoad.                                                    *)
(*                                                                         *)
(* A recipe file is abstracted to its content, of which Declares gives the *)
(* version it is a valid recipe of.  A content that is a valid recipe of   *)
(* nothing also stands for a torn file and for a path that is no regular   *)
(* file, which every reader in the script treats alike.                    *)
(***************************************************************************)
EXTENDS Naturals, FiniteSets

CONSTANTS
  Packages,   \* packages in manifest order, each with files of its own (CorpusMerge)
  Shards,
  Manifests,  \* the manifests, numbered in the order of their publication
  Entry,      \* Entry[m][p]: the entry of p in manifest m
  Versions,
  Contents,   \* what can be at a recipe path
  Declares,   \* the version a content is a valid recipe of, or None
  Receipts,   \* what can be at a receipt path, a "regular" file among it
  Builders,   \* process ids of invocations; an id is reused after its exit
  Jobs,       \* the arguments invocations are given
  MaxRuns     \* bound: how many invocations are ever started

None == "none"
NoManifest == 0

ASSUME ShardBuildAssumption ==
  /\ Packages \subseteq Nat /\ IsFiniteSet(Packages)
  /\ Manifests \subseteq Nat \ {0}
  /\ None \notin Versions
  /\ Entry \in [Manifests -> [Packages ->
       [shard : Shards, version : Versions,
        strategy : {"static-importer", "deterministic-worker"}]]]
  /\ Declares \in [Contents -> Versions \cup {None}]
  /\ "absent" \notin Contents \cup Receipts
  /\ "regular" \in Receipts
  /\ Jobs \subseteq [shard : Shards, resume : BOOLEAN, complete : BOOLEAN]
  /\ Jobs # {}
  /\ MaxRuns \in Nat

VARIABLES
  recipe,     \* the file at each package's recipe path
  receipt,    \* the file at each package's receipt path
  manifest,   \* the published manifest
  report,     \* the report file of each shard
  temp,       \* the temporary report files <<shard, process id>> on disk
  orphans,    \* packages being written by an ingest child whose parent is gone
  pc,         \* where each invocation is
  job,        \* its arguments: --shard, --resume, --require-complete
  doc,        \* the manifest it loaded
  status,     \* what it has decided for each entry so far
  digest,     \* the recipe content it reports for an accepted entry
  seen,       \* the content ensure_new_pair took the digest of
  runs,       \* how many invocations were started
  contested   \* history: packages that ever had two writers at once

files == <<recipe, receipt>>
memory == <<job, doc, status, digest, seen>>
history == <<runs, contested>>
vars == <<recipe, receipt, manifest, report, temp, orphans, pc, job, doc,
          status, digest, seen, runs, contested>>

RecipeFiles == Contents \cup {"absent"}
ReceiptFiles == Receipts \cup {"absent"}
Statuses == {"pending", "worker-required", "generated", "resumed", "failed"}
Accepted == {"generated", "resumed"}

Blank == [p \in Packages |-> "pending"]
NoDigest == [p \in Packages |-> "absent"]
NoJob == CHOOSE j \in Jobs : TRUE
NoReport == [doc |-> NoManifest, status |-> Blank, digest |-> NoDigest]

Running == {"entry", "revalidate", "ingest", "validate", "attest", "replace"}

-----------------------------------------------------------------------------
(***************************************************************************)
(* Entries and files.                                                      *)
(***************************************************************************)

\* Mutant: the shard filter is missing.
SelectedEverywhere(m, s) == Packages

Selected(m, s) == {p \in Packages : Entry[m][p].shard = s}

Todo(b) == {p \in Selected(doc[b], job[b].shard) : status[b][p] = "pending"}

IsNext(b, p) == p \in Todo(b) /\ \A q \in Todo(b) : p <= q

\* A live invocation that has yet to decide p, and may write its files.
Owns(b, p) == pc[b] \in Running /\ p \in Todo(b)

\* validate_recipe accepts the file f as the recipe of p's entry in m.
ValidRecipe(f, m, p) == f \in Contents /\ Declares[f] = Entry[m][p].version

Goto(b, label) == pc' = [pc EXCEPT ![b] = label]

\* Entry p of invocation b is decided and the loop moves on.
Record(b, p, s, d) ==
  /\ Goto(b, "entry")
  /\ status' = [status EXCEPT ![b][p] = s]
  /\ digest' = [digest EXCEPT ![b][p] = d]
  /\ seen' = [seen EXCEPT ![b] = "absent"]
  /\ UNCHANGED <<job, doc>>

\* The process ends, and its memory is gone.
Exit(b, label) ==
  /\ Goto(b, label)
  /\ job' = [job EXCEPT ![b] = NoJob]
  /\ doc' = [doc EXCEPT ![b] = NoManifest]
  /\ status' = [status EXCEPT ![b] = Blank]
  /\ digest' = [digest EXCEPT ![b] = NoDigest]
  /\ seen' = [seen EXCEPT ![b] = "absent"]

-----------------------------------------------------------------------------
Init ==
  /\ recipe = [p \in Packages |-> "absent"]
  /\ receipt = [p \in Packages |-> "absent"]
  /\ manifest \in Manifests
  /\ report = [s \in Shards |-> NoReport]
  /\ temp = {}
  /\ orphans = {}
  /\ pc = [b \in Builders |-> "stopped"]
  /\ job = [b \in Builders |-> NoJob]
  /\ doc = [b \in Builders |-> NoManifest]
  /\ status = [b \in Builders |-> Blank]
  /\ digest = [b \in Builders |-> NoDigest]
  /\ seen = [b \in Builders |-> "absent"]
  /\ runs = 0
  /\ contested = {}

\* Mutant: the manifest is not loaded.
StartUnloaded(b, j) ==
  /\ pc[b] \notin Running
  /\ runs < MaxRuns
  /\ runs' = runs + 1
  /\ Goto(b, "entry")
  /\ job' = [job EXCEPT ![b] = j]
  /\ UNCHANGED <<files, manifest, report, temp, orphans, doc, status, digest, seen,
                 contested>>

\* A new invocation, with a process id no live one has, has loaded the manifest
\* and passed the preflight.  From here on it may write the files of every
\* entry it selected.  A preflight that fails is an Interrupt before any entry.
Start(b, j) ==
  /\ pc[b] \notin Running
  /\ runs < MaxRuns
  /\ runs' = runs + 1
  /\ Goto(b, "entry")
  /\ job' = [job EXCEPT ![b] = j]
  /\ doc' = [doc EXCEPT ![b] = manifest]
  /\ contested' = contested \cup
       {p \in Selected(manifest, j.shard) : \E o \in Builders : Owns(o, p)}
  /\ UNCHANGED <<files, manifest, report, temp, orphans, status, digest, seen>>

-----------------------------------------------------------------------------
(***************************************************************************)
(* One pass of the entry loop.                                             *)
(***************************************************************************)

RouteToWorker(b, p) ==
  /\ pc[b] = "entry"
  /\ IsNext(b, p)
  /\ Entry[doc[b]][p].strategy = "deterministic-worker"
  /\ Record(b, p, "worker-required", "absent")
  /\ UNCHANGED <<files, manifest, report, temp, orphans, history>>

\* ensure_new_pair: neither file exists, or both do and --resume is given; a
\* partial output, or one that was not to be resumed, is an error.
PairMissing(p) == recipe[p] = "absent" /\ receipt[p] = "absent"
PairResumable(p) == recipe[p] \in Contents /\ receipt[p] = "regular"

\* Mutant: --resume is forgotten, an existing output is always an error.
CheckPairNeverResumes(b, p) ==
  /\ pc[b] = "entry"
  /\ IsNext(b, p)
  /\ Entry[doc[b]][p].strategy = "static-importer"
  /\ IF PairMissing(p)
     THEN Goto(b, "ingest") /\ UNCHANGED memory
     ELSE Record(b, p, "failed", "absent")
  /\ UNCHANGED <<files, manifest, report, temp, orphans, history>>

\* Mutant: an output of another version is stale, and is built again.
CheckPairReplacesStale(b, p) ==
  /\ pc[b] = "entry"
  /\ IsNext(b, p)
  /\ Entry[doc[b]][p].strategy = "static-importer"
  /\ IF PairResumable(p) /\ ValidRecipe(recipe[p], doc[b], p)
     THEN /\ seen' = [seen EXCEPT ![b] = recipe[p]]
          /\ Goto(b, "revalidate")
          /\ UNCHANGED <<job, doc, status, digest>>
     ELSE Goto(b, "ingest") /\ UNCHANGED memory
  /\ UNCHANGED <<files, manifest, report, temp, orphans, history>>

CheckPair(b, p) ==
  /\ pc[b] = "entry"
  /\ IsNext(b, p)
  /\ Entry[doc[b]][p].strategy = "static-importer"
  /\ \/ /\ PairMissing(p)
        /\ Goto(b, "ingest")
        /\ UNCHANGED memory
     \/ /\ PairResumable(p)
        /\ job[b].resume
        /\ seen' = [seen EXCEPT ![b] = recipe[p]]
        /\ Goto(b, "revalidate")
        /\ UNCHANGED <<job, doc, status, digest>>
     \/ /\ ~PairMissing(p)
        /\ ~(PairResumable(p) /\ job[b].resume)
        /\ Record(b, p, "failed", "absent")
  /\ UNCHANGED <<files, manifest, report, temp, orphans, history>>

\* Mutant: the resume path takes the pair as it is.
RevalidateTrusts(b, p) ==
  /\ pc[b] = "revalidate"
  /\ IsNext(b, p)
  /\ Record(b, p, "resumed", seen[b])
  /\ UNCHANGED <<files, manifest, report, temp, orphans, history>>

\* Mutant: an invalid recipe is looked at again until someone repairs it.
RevalidateRetries(b, p) ==
  /\ pc[b] = "revalidate"
  /\ IsNext(b, p)
  /\ IF ValidRecipe(recipe[p], doc[b], p)
     THEN Record(b, p, "resumed", seen[b])
     ELSE Goto(b, "entry") /\ UNCHANGED memory
  /\ UNCHANGED <<files, manifest, report, temp, orphans, history>>

\* The resume path validates the recipe and reports the digest it saw before.
Revalidate(b, p) ==
  /\ pc[b] = "revalidate"
  /\ IsNext(b, p)
  /\ IF ValidRecipe(recipe[p], doc[b], p)
     THEN Record(b, p, "resumed", seen[b])
     ELSE Record(b, p, "failed", "absent")
  /\ UNCHANGED <<files, manifest, report, temp, orphans, history>>

\* corinth-ingest writes its two outputs in any order, any number of times,
\* with any content, and exits with either status at any time.
WriteOutput(p) ==
  \/ \E f \in Contents :
       recipe' = [recipe EXCEPT ![p] = f] /\ UNCHANGED receipt
  \/ \E f \in Receipts :
       receipt' = [receipt EXCEPT ![p] = f] /\ UNCHANGED recipe

IngestWrites(b, p) ==
  /\ pc[b] = "ingest"
  /\ IsNext(b, p)
  /\ WriteOutput(p)
  /\ UNCHANGED <<manifest, report, temp, orphans, pc, memory, history>>

IngestSucceeds(b, p) ==
  /\ pc[b] = "ingest"
  /\ IsNext(b, p)
  /\ Goto(b, "validate")
  /\ UNCHANGED <<files, manifest, report, temp, orphans, memory, history>>

IngestFails(b, p) ==
  /\ pc[b] = "ingest"
  /\ IsNext(b, p)
  /\ Record(b, p, "failed", "absent")
  /\ UNCHANGED <<files, manifest, report, temp, orphans, history>>

\* validate_recipe parses the recipe ...
ValidateRecipe(b, p) ==
  /\ pc[b] = "validate"
  /\ IsNext(b, p)
  /\ IF ValidRecipe(recipe[p], doc[b], p)
     THEN Goto(b, "attest") /\ UNCHANGED memory
     ELSE Record(b, p, "failed", "absent")
  /\ UNCHANGED <<files, manifest, report, temp, orphans, history>>

\* ... and reads it again for its digest; then the receipt must be regular.
Attest(b, p) ==
  /\ pc[b] = "attest"
  /\ IsNext(b, p)
  /\ IF receipt[p] = "regular"
     THEN Record(b, p, "generated", recipe[p])
     ELSE Record(b, p, "failed", "absent")
  /\ UNCHANGED <<files, manifest, report, temp, orphans, history>>

-----------------------------------------------------------------------------
(***************************************************************************)
(* The report: a temporary file named after the process id, then a rename. *)
(***************************************************************************)

TempName(b) == <<job[b].shard, b>>

\* Mutant: the report is written before the loop is done.
WriteTempEarly(b) ==
  /\ pc[b] = "entry"
  /\ TempName(b) \notin temp
  /\ temp' = temp \cup {TempName(b)}
  /\ Goto(b, "replace")
  /\ UNCHANGED <<files, manifest, report, orphans, memory, history>>

WriteTemp(b) ==
  /\ pc[b] = "entry"
  /\ Todo(b) = {}
  /\ TempName(b) \notin temp
  /\ temp' = temp \cup {TempName(b)}
  /\ Goto(b, "replace")
  /\ UNCHANGED <<files, manifest, report, orphans, memory, history>>

\* The temporary file already exists, or the write fails, which may leave one.
WriteTempFails(b) ==
  /\ pc[b] = "entry"
  /\ Todo(b) = {}
  /\ temp' \in {temp, temp \cup {TempName(b)}}
  /\ Exit(b, "stopped")
  /\ UNCHANGED <<files, manifest, report, orphans, history>>

\* Mutant: only --require-complete makes a run fail.
IncompleteUnlessRequired(b) ==
  \E p \in Packages : job[b].complete /\ status[b][p] \in {"failed", "worker-required"}

Incomplete(b) ==
  \E p \in Packages :
    \/ status[b][p] = "failed"
    \/ job[b].complete /\ status[b][p] = "worker-required"

ReplaceReport(b) ==
  /\ pc[b] = "replace"
  /\ temp' = temp \ {TempName(b)}
  /\ report' = [report EXCEPT ![job[b].shard] =
                  [doc |-> doc[b], status |-> status[b], digest |-> digest[b]]]
  /\ Exit(b, IF Incomplete(b) THEN "stopped" ELSE "ok")
  /\ UNCHANGED <<files, manifest, orphans, history>>

-----------------------------------------------------------------------------
(***************************************************************************)
(* The environment.                                                        *)
(***************************************************************************)

\* SIGINT or a crash of the machine: the process and its child both stop.
Interrupt(b) ==
  /\ pc[b] \in Running
  /\ Exit(b, "stopped")
  /\ UNCHANGED <<files, manifest, report, temp, orphans, history>>

\* SIGKILL: the ingest child of the invocation keeps running.
Kill(b, p) ==
  /\ pc[b] = "ingest"
  /\ IsNext(b, p)
  /\ Exit(b, "stopped")
  /\ orphans' = orphans \cup {p}
  /\ contested' = contested \cup {p}
  /\ UNCHANGED <<files, manifest, report, temp, runs>>

OrphanWrites(p) ==
  /\ p \in orphans
  /\ WriteOutput(p)
  /\ UNCHANGED <<manifest, report, temp, orphans, pc, memory, history>>

OrphanExits(p) ==
  /\ p \in orphans
  /\ orphans' = orphans \ {p}
  /\ UNCHANGED <<files, manifest, report, temp, pc, memory, history>>

\* A new signed manifest takes the place of the published one.
Publish(m) ==
  /\ m > manifest
  /\ manifest' = m
  /\ UNCHANGED <<files, report, temp, orphans, pc, memory, history>>

-----------------------------------------------------------------------------
EntryStep(b, p) ==
  \/ RouteToWorker(b, p)
  \/ CheckPair(b, p)
  \/ Revalidate(b, p)
  \/ IngestSucceeds(b, p)
  \/ IngestFails(b, p)
  \/ ValidateRecipe(b, p)
  \/ Attest(b, p)

Step(b) ==
  \/ \E p \in Packages : EntryStep(b, p)
  \/ WriteTemp(b)
  \/ WriteTempFails(b)
  \/ ReplaceReport(b)

Environment ==
  \/ \E b \in Builders, j \in Jobs : Start(b, j)
  \/ \E b \in Builders : Interrupt(b)
  \/ \E b \in Builders, p \in Packages : IngestWrites(b, p) \/ Kill(b, p)
  \/ \E p \in Packages : OrphanWrites(p) \/ OrphanExits(p)
  \/ \E m \in Manifests : Publish(m)

Next == (\E b \in Builders : Step(b)) \/ Environment

Spec == Init /\ [][Next]_vars

\* A live invocation is scheduled, and the ingest it waits for exits.
FairSpec == Spec /\ \A b \in Builders : WF_vars(Step(b))

-----------------------------------------------------------------------------
(***************************************************************************)
(* Properties.                                                             *)
(***************************************************************************)

Reports == [doc : Manifests \cup {NoManifest},
            status : [Packages -> Statuses],
            digest : [Packages -> RecipeFiles]]

TypeOK ==
  /\ recipe \in [Packages -> RecipeFiles]
  /\ receipt \in [Packages -> ReceiptFiles]
  /\ manifest \in Manifests
  /\ report \in [Shards -> Reports]
  /\ temp \subseteq Shards \X Builders
  /\ orphans \subseteq Packages
  /\ pc \in [Builders -> Running \cup {"stopped", "ok"}]
  /\ job \in [Builders -> Jobs]
  /\ doc \in [Builders -> Manifests \cup {NoManifest}]
  /\ \A b \in Builders : pc[b] \in Running => doc[b] \in Manifests
  /\ status \in [Builders -> [Packages -> Statuses]]
  /\ digest \in [Builders -> [Packages -> RecipeFiles]]
  /\ seen \in [Builders -> RecipeFiles]
  /\ runs \in 0..MaxRuns
  /\ contested \subseteq Packages

\* p's pair is on disk, and the recipe is content d, valid for p's entry in m.
Published(m, p, d) ==
  /\ recipe[p] = d
  /\ receipt[p] = "regular"
  /\ ValidRecipe(d, m, p)

\* A shard report tells the truth for as long as it exists: the entries it
\* lists as generated or resumed have, now, the recipe it gives the digest of,
\* valid for the manifest it was built from, and a receipt.  Later runs of any
\* shard, with any arguments and any manifest, change none of them.  Only a
\* package that two processes could write at once is exempt.
ReportTruthful ==
  \A s \in Shards : \A p \in Packages \ contested :
    report[s].status[p] \in Accepted =>
      Published(report[s].doc, p, report[s].digest[p])

\* Exit status 0 means the shard is built: at that step every static entry of
\* the manifest the run loaded has a published pair, and under
\* --require-complete no entry of the shard was left to a worker.
CleanExit ==
  [][\A b \in Builders : pc[b] = "replace" /\ pc'[b] = "ok" =>
       \A p \in Selected(doc[b], job[b].shard) \ contested :
         IF Entry[doc[b]][p].strategy = "static-importer"
         THEN Published(doc[b], p, digest[b][p])
         ELSE ~job[b].complete]_vars

\* Whatever was interrupted, killed or out of disk, a report on disk is the
\* whole report of one run: it decides exactly the entries its manifest assigns
\* to the shard, and leaves to workers exactly those routed to one.
ReportWhole ==
  \A s \in Shards : report[s].doc # NoManifest =>
    \A p \in Packages :
      LET e == Entry[report[s].doc][p] IN
      /\ report[s].status[p] # "pending" <=> e.shard = s
      /\ report[s].status[p] = "worker-required" <=>
           e.shard = s /\ e.strategy = "deterministic-worker"

\* A --resume run keeps what an earlier run achieved: it never reports as failed
\* an entry that a report on disk lists as accepted at the same version.
ResumeKeepsAccepted ==
  [][\A b \in Builders, s \in Shards : \A p \in Packages \ contested :
       /\ job[b].resume
       /\ status[b][p] = "pending" /\ status'[b][p] = "failed"
       => ~ /\ report[s].status[p] \in Accepted
            /\ Entry[report[s].doc][p].version = Entry[doc[b]][p].version]_vars

\* Shards partition the corpus: two processes can come to write one package
\* only when an ingest child outlives its parent, two runs of one shard overlap
\* or two overlapping runs loaded different manifests.
ShardsPartition ==
  [][contested' # contested =>
       \/ orphans' # orphans
       \/ \E b, o \in Builders :
            /\ pc[b] \notin Running /\ pc'[b] \in Running
            /\ pc[o] \in Running
            /\ job'[b].shard = job[o].shard \/ doc'[b] # doc[o]]_vars

\* The corpus as its readers see it: a pair of files for each package, and for
\* each shard the pairs its report relies on.
NoClaim == <<>>
Pairs == RecipeFiles \X ReceiptFiles
Store == [p \in Packages |-> <<recipe[p], receipt[p]>>]
Claim ==
  [s \in Shards |-> [p \in Packages |->
     IF report[s].status[p] \in Accepted THEN <<report[s].digest[p], "regular">>
     ELSE NoClaim]]

Ledger == INSTANCE CorpusLedger
  WITH store <- Store, claim <- Claim, shared <- contested

\* Shard builds implement the ledger: from the moment a report lists a package as
\* built until another report of the shard replaces it, nobody changes either of
\* its files, whatever version a later manifest gives it, and a report that
\* replaces another relies on nothing but the files as they are at that moment.
ImplementsLedger == Ledger!Spec

\* An invocation always comes to an end: neither another invocation, nor what
\* it finds on disk, nor the failure of an entry makes it wait or loop.
Terminates ==
  \A b \in Builders : pc[b] \in Running ~> pc[b] \notin Running

=============================================================================
