---------------------------- MODULE CorpusMerge ----------------------------
(***************************************************************************)
(* scripts/merge_recipe_inventories.py: runs that merge upstream           *)
(* inventories, given in any order, into one corpus manifest and write it  *)
(* and a report about it to two paths that must be new.  Runs may be       *)
(* interrupted at any point and may share their output paths.              *)
(*                                                                         *)
(* Of the paths of an entry four are kept: the recipe, which stands for    *)
(* every path with a directory of its own, the two signatures, which share *)
(* one, and the worker request, which only some entries have.  A path is a *)
(* spelling: safe_relative lets "a/./b" and "a//b" through as it does      *)
(* "a/b", so one file has several.  Packages and versions are numbers in   *)
(* their alphabetical order.  Fields that a regular expression or a type   *)
(* check constrains are taken as valid, and a file that cannot be loaded   *)
(* is a run that is abandoned.                                             *)
(***************************************************************************)
EXTENDS Naturals, Sequences, FiniteSets

CONSTANTS
  Upstreams,       \* UPSTREAMS, a sequence: the canonical order of the upstreams
  Alphabetical,    \* Alphabetical[u]: the place of u's name in the dictionary
  StaticUpstreams, \* those a static importer exists for
  Names,           \* spellings of a path below the directory of its field
  FileOf,          \* FileOf[n]: the file n denotes in that directory
  Normal,          \* the spellings without a "." or an empty part
  Inputs,          \* the argument lists of inventories that runs are given
  Target,          \* TARGET, the size of the production corpus
  Runs             \* processes, each of which may run again and again

None == "none"
Fields == {"recipe", "ingress_signature", "target_signature", "worker_request"}
Strategies == {"static-importer", "deterministic-worker"}

UpstreamSet == {Upstreams[i] : i \in DOMAIN Upstreams}
Order(u) == CHOOSE i \in DOMAIN Upstreams : Upstreams[i] = u

InventoryEntries ==
  [package : Nat, version : Nat, strategy : Strategies,
   paths : [Fields -> Names \cup {None}]]
Inventories == [upstream : UpstreamSet, entries : Seq(InventoryEntries)]
Entries ==
  [upstream : UpstreamSet, package : Nat, version : Nat, strategy : Strategies,
   paths : [Fields -> Names \cup {None}]]

ASSUME CorpusMergeAssumption ==
  /\ Upstreams \in Seq(STRING)
  /\ Alphabetical \in [UpstreamSet -> Nat]
  /\ StaticUpstreams \subseteq UpstreamSet
  /\ None \notin Names
  /\ Normal \subseteq Names
  /\ DOMAIN FileOf = Names
  /\ \A m, n \in Normal : FileOf[m] = FileOf[n] => m = n
  /\ Inputs \subseteq Seq(Inventories) \ {<<>>}
  /\ Target \in Nat

-----------------------------------------------------------------------------
(***************************************************************************)
(* Entries, their files and their order.                                   *)
(***************************************************************************)

\* The directory the field's prefix puts the path in.  No accepted path has a ".."
\* and the corpus has no symbolic links, so two directories share no file.
Directory(g) == IF g \in {"ingress_signature", "target_signature"}
                THEN "signatures" ELSE g

\* The path a field has, for the fields the entry has.
PathAt(e, g) == <<Directory(g), e.paths[g]>>
Has(e, g) == e.paths[g] # None
PathsOf(e) == {PathAt(e, g) : g \in {h \in Fields : Has(e, h)}}

\* Two fields of two entries have the same path, letter by letter.
Clash(d, g, e, h) == Has(d, g) /\ Has(e, h) /\ PathAt(d, g) = PathAt(e, h)

\* Mutant: the upstream is left out of the merged entry.
CarryNothing(inv) == {inv.entries[i] : i \in DOMAIN inv.entries}

\* The entries of an inventory as they enter the manifest.
Carry(inv) ==
  {[upstream |-> inv.upstream, package |-> inv.entries[i].package,
    version |-> inv.entries[i].version, strategy |-> inv.entries[i].strategy,
    paths |-> inv.entries[i].paths] : i \in DOMAIN inv.entries}

Within(d, e) == \/ d.package < e.package
                \/ d.package = e.package /\ d.version < e.version

\* The sort key of merge: UPSTREAM_ORDER, then the package, then the version.
Before(d, e) == \/ Order(d.upstream) < Order(e.upstream)
                \/ d.upstream = e.upstream /\ Within(d, e)

\* Identities as Python compares tuples: the name of the upstream comes first.
TupleBefore(d, e) == \/ Alphabetical[d.upstream] < Alphabetical[e.upstream]
                     \/ d.upstream = e.upstream /\ Within(d, e)

\* The place of e in the sorted manifest.
Ordinal(S, e) == Cardinality({d \in S : Before(d, e)})

WorkerFields(e) == Has(e, "worker_request") <=> e.strategy = "deterministic-worker"

\* Mutant: paths are compared field by field, not across the fields.
ValidInventoryByField(inv) ==
  /\ inv.entries # <<>>
  /\ \A i, j \in DOMAIN inv.entries : i < j => Within(inv.entries[i], inv.entries[j])
  /\ \A i \in DOMAIN inv.entries :
       /\ inv.entries[i].strategy = "static-importer" => inv.upstream \in StaticUpstreams
       /\ \A g \in Fields \ {"worker_request"} : Has(inv.entries[i], g)
       /\ WorkerFields(inv.entries[i])
  /\ \A i, j \in DOMAIN inv.entries : \A g \in Fields :
       Clash(inv.entries[i], g, inv.entries[j], g) => i = j

\* validate_inventory: strictly increasing identities, static imports only where
\* there is an importer, worker metadata for workers only, no path used twice.
ValidInventory(inv) ==
  /\ inv.entries # <<>>
  /\ \A i, j \in DOMAIN inv.entries : i < j => Within(inv.entries[i], inv.entries[j])
  /\ \A i \in DOMAIN inv.entries :
       /\ inv.entries[i].strategy = "static-importer" => inv.upstream \in StaticUpstreams
       /\ \A g \in Fields \ {"worker_request"} : Has(inv.entries[i], g)
       /\ WorkerFields(inv.entries[i])
  /\ \A i, j \in DOMAIN inv.entries : \A g, h \in Fields :
       Clash(inv.entries[i], g, inv.entries[j], h) => i = j /\ g = h

-----------------------------------------------------------------------------
VARIABLES
  manifest,  \* the manifest file: "absent", "torn" by a crash or "whole"
  report,    \* the report file, which carries the digest of a manifest
  pc,        \* where each run is
  input,     \* the inventories it was given
  required,  \* --require-complete
  queue,     \* those it has not read yet
  upstreams, \* seen_upstreams
  paths,     \* seen_paths
  merged,    \* the entries merged so far
  disturbed  \* history: whether two runs were writing at the same time, or the
             \* manifest was removed from under a run or a report, since the
             \* report was last removed

files == <<manifest, report>>
given == <<input, required>>
tables == <<queue, upstreams, paths, merged>>
vars == <<manifest, report, pc, input, required, queue, upstreams, paths, merged, disturbed>>

ManifestFile(state, entries) == [state |-> state, entries |-> entries]
ReportFile(state, entries, complete) ==
  [state |-> state, entries |-> entries, complete |-> complete]
NoManifest == ManifestFile("absent", {})
NoReport == ReportFile("absent", {}, FALSE)

Writing == {"new-manifest", "write-manifest", "new-report", "write-report"}

Busy == \E r \in Runs : pc[r] \in Writing

Goto(r, label) == pc' = [pc EXCEPT ![r] = label]

\* The process ends, and its memory is gone.
Stop(r) ==
  /\ Goto(r, "stopped")
  /\ input' = [input EXCEPT ![r] = <<>>]
  /\ required' = [required EXCEPT ![r] = FALSE]
  /\ queue' = [queue EXCEPT ![r] = <<>>]
  /\ upstreams' = [upstreams EXCEPT ![r] = {}]
  /\ paths' = [paths EXCEPT ![r] = {}]
  /\ merged' = [merged EXCEPT ![r] = {}]

\* len(merged) = TARGET and every upstream is there.
Complete(r) == Cardinality(merged[r]) = Target /\ upstreams[r] = UpstreamSet

Init ==
  /\ manifest = NoManifest
  /\ report = NoReport
  /\ pc = [r \in Runs |-> "stopped"]
  /\ input = [r \in Runs |-> <<>>]
  /\ required = [r \in Runs |-> FALSE]
  /\ queue = [r \in Runs |-> <<>>]
  /\ upstreams = [r \in Runs |-> {}]
  /\ paths = [r \in Runs |-> {}]
  /\ merged = [r \in Runs |-> {}]
  /\ disturbed = FALSE

Begin(r, i, complete) ==
  /\ pc[r] = "stopped"
  /\ Goto(r, "merge")
  /\ input' = [input EXCEPT ![r] = i]
  /\ required' = [required EXCEPT ![r] = complete]
  /\ queue' = [queue EXCEPT ![r] = i]
  /\ upstreams' = [upstreams EXCEPT ![r] = {}]
  /\ paths' = [paths EXCEPT ![r] = {}]
  /\ merged' = [merged EXCEPT ![r] = {}]
  /\ UNCHANGED <<files, disturbed>>

\* What merge checks of the next inventory.  That an identity is new follows
\* from its upstream being new and from the inventory being valid.
Mergeable(r, inv) ==
  /\ ValidInventory(inv)
  /\ inv.upstream \notin upstreams[r]
  /\ \A e \in Carry(inv) : PathsOf(e) \cap paths[r] = {}

\* Mutant: worker requests do not enter seen_paths.
MergeInventoryForgets(r) ==
  /\ pc[r] = "merge" /\ queue[r] # <<>>
  /\ Mergeable(r, Head(queue[r]))
  /\ LET inv == Head(queue[r]) IN
     /\ upstreams' = [upstreams EXCEPT ![r] = @ \cup {inv.upstream}]
     /\ paths' = [paths EXCEPT ![r] =
          @ \cup UNION {PathsOf(e) \ {PathAt(e, "worker_request")} : e \in Carry(inv)}]
     /\ merged' = [merged EXCEPT ![r] = @ \cup Carry(inv)]
     /\ queue' = [queue EXCEPT ![r] = Tail(@)]
  /\ UNCHANGED <<files, pc, given, disturbed>>

MergeInventory(r) ==
  /\ pc[r] = "merge" /\ queue[r] # <<>>
  /\ Mergeable(r, Head(queue[r]))
  /\ LET inv == Head(queue[r]) IN
     /\ upstreams' = [upstreams EXCEPT ![r] = @ \cup {inv.upstream}]
     /\ paths' = [paths EXCEPT ![r] = @ \cup UNION {PathsOf(e) : e \in Carry(inv)}]
     /\ merged' = [merged EXCEPT ![r] = @ \cup Carry(inv)]
     /\ queue' = [queue EXCEPT ![r] = Tail(@)]
  /\ UNCHANGED <<files, pc, given, disturbed>>

RejectInventory(r) ==
  /\ pc[r] = "merge" /\ queue[r] # <<>>
  /\ ~Mergeable(r, Head(queue[r]))
  /\ Goto(r, "rejected")
  /\ UNCHANGED <<files, given, tables, disturbed>>

\* The bounds on the whole corpus; sorting gives every entry its Ordinal.
FinishMerge(r) ==
  /\ pc[r] = "merge" /\ queue[r] = <<>>
  /\ IF Cardinality(merged[r]) > Target \/ (required[r] /\ ~Complete(r))
     THEN Goto(r, "rejected") /\ UNCHANGED disturbed
     ELSE /\ Goto(r, "new-manifest")
          /\ disturbed' = (disturbed \/ \E o \in Runs \ {r} : pc[o] \in Writing)
  /\ UNCHANGED <<files, given, tables>>

-----------------------------------------------------------------------------
(***************************************************************************)
(* write_new, once for each file: the path must be new, then it is written.*)
(***************************************************************************)

\* Mutant: an existing manifest is replaced.
CheckManifestReplaces(r) ==
  /\ pc[r] = "new-manifest"
  /\ Goto(r, "write-manifest")
  /\ UNCHANGED <<files, given, tables, disturbed>>

CheckManifest(r) ==
  /\ pc[r] = "new-manifest"
  /\ IF manifest.state = "absent"
     THEN Goto(r, "write-manifest") /\ UNCHANGED <<given, tables>>
     ELSE Stop(r)
  /\ UNCHANGED <<files, disturbed>>

WriteManifest(r) ==
  /\ pc[r] = "write-manifest"
  /\ manifest' = ManifestFile("whole", merged[r])
  /\ Goto(r, "new-report")
  /\ UNCHANGED <<report, given, tables, disturbed>>

CheckReport(r) ==
  /\ pc[r] = "new-report"
  /\ IF report.state = "absent"
     THEN Goto(r, "write-report") /\ UNCHANGED <<given, tables>>
     ELSE Stop(r)
  /\ UNCHANGED <<files, disturbed>>

WriteReport(r) ==
  /\ pc[r] = "write-report"
  /\ report' = ReportFile("whole", merged[r], Complete(r))
  /\ Stop(r)
  /\ UNCHANGED <<manifest, disturbed>>

\* A rejected run reports why and ends; any other may end by a signal, a failing
\* write or an inventory that cannot be read.  A write that was
\* under way leaves a torn file.
Abandon(r) ==
  /\ pc[r] # "stopped"
  /\ \/ UNCHANGED files
     \/ /\ pc[r] = "write-manifest"
        /\ manifest' = ManifestFile("torn", {})
        /\ UNCHANGED report
     \/ /\ pc[r] = "write-report"
        /\ report' = ReportFile("torn", {}, FALSE)
        /\ UNCHANGED manifest
  /\ Stop(r)
  /\ UNCHANGED disturbed

\* The operator removes one output, at any time.
RemoveManifest ==
  /\ manifest.state # "absent"
  /\ manifest' = NoManifest
  /\ disturbed' = (disturbed \/ Busy \/ report.state # "absent")
  /\ UNCHANGED <<report, pc, given, tables>>

RemoveReport ==
  /\ report.state # "absent"
  /\ report' = NoReport
  /\ disturbed' = (disturbed /\ Busy)
  /\ UNCHANGED <<manifest, pc, given, tables>>

Step(r) ==
  \/ \E i \in Inputs, complete \in BOOLEAN : Begin(r, i, complete)
  \/ MergeInventory(r)
  \/ RejectInventory(r)
  \/ FinishMerge(r)
  \/ CheckManifest(r)
  \/ WriteManifest(r)
  \/ CheckReport(r)
  \/ WriteReport(r)
  \/ Abandon(r)

Next == (\E r \in Runs : Step(r)) \/ RemoveManifest \/ RemoveReport

Spec == Init /\ [][Next]_vars

-----------------------------------------------------------------------------
(***************************************************************************)
(* Properties.                                                             *)
(***************************************************************************)

TypeOK ==
  /\ manifest.state \in {"absent", "torn", "whole"}
  /\ manifest.entries \subseteq Entries
  /\ report.state \in {"absent", "torn", "whole"}
  /\ report.entries \subseteq Entries
  /\ report.complete \in BOOLEAN
  /\ pc \in [Runs -> Writing \cup {"stopped", "merge", "rejected"}]
  /\ input \in [Runs -> Inputs \cup {<<>>}]
  /\ required \in [Runs -> BOOLEAN]
  /\ queue \in [Runs -> Seq(Inventories)]
  /\ upstreams \in [Runs -> SUBSET UpstreamSet]
  /\ DOMAIN paths = Runs
  /\ DOMAIN merged = Runs
  /\ \A r \in Runs : merged[r] \subseteq Entries
  /\ disturbed \in BOOLEAN

\* No path belongs to two entries of these, or to two fields of one.
OnePathEach(S) ==
  \A d, e \in S : \A g, h \in Fields : Clash(d, g, e, h) => d = e /\ g = h

\* The fields are there and name one file, however they spell it.
SameFile(d, g, e, h) ==
  /\ Has(d, g) /\ Has(e, h)
  /\ Directory(g) = Directory(h)
  /\ FileOf[d.paths[g]] = FileOf[e.paths[h]]

\* Two entries of a published manifest, of whatever upstreams, share a file in
\* any of their fields only where one of them spells its path out of normal
\* form, which no check looks at: otherwise what one shard build writes is no
\* other entry's recipe, receipt or input.
OneFilePerEntry ==
  \A d, e \in manifest.entries : \A g, h \in Fields :
    SameFile(d, g, e, h) =>
      \/ d = e /\ g = h
      \/ ~({d.paths[g], e.paths[h]} \subseteq Normal)

\* What a list of inventories merges into, and when it can be merged, said
\* without an order.
AllEntries(i) == UNION {Carry(i[k]) : k \in DOMAIN i}
Sound(i) ==
  /\ \A k \in DOMAIN i : ValidInventory(i[k])
  /\ \A j, k \in DOMAIN i : i[j].upstream = i[k].upstream => j = k
  /\ OnePathEach(AllEntries(i))
  /\ Cardinality(AllEntries(i)) <= Target
AllOf(i) ==
  /\ Cardinality(AllEntries(i)) = Target
  /\ {i[k].upstream : k \in DOMAIN i} = UpstreamSet

\* The order in which the inventories are given decides nothing: whether a
\* merge is accepted, and what is in the manifest, depends on the inventories
\* alone, although the duplicate and collision checks see only a prefix.
OrderDecidesNothing ==
  \A r \in Runs :
    /\ pc[r] \in Writing =>
         /\ Sound(input[r])
         /\ merged[r] = AllEntries(input[r])
         /\ required[r] => AllOf(input[r])
    /\ pc[r] = "rejected" =>
         ~Sound(input[r]) \/ (required[r] /\ ~AllOf(input[r]))

(***************************************************************************)
(* The two files as a reader sees them who goes by the report, and who     *)
(* compares its manifest_sha256 with the manifest when runs have been      *)
(* writing at once or the manifest was removed under the report.           *)
(***************************************************************************)

NoCorpus == [manifest |-> NoManifest]
PublishedCorpus ==
  IF report.state = "whole" /\ (disturbed => manifest = ManifestFile("whole", report.entries))
  THEN [manifest |-> manifest, report |-> report] ELSE NoCorpus

\* What the merge of the inventories of i has to publish.
CorpusOf(i) ==
  [manifest |-> ManifestFile("whole", AllEntries(i)),
   report |-> ReportFile("whole", AllEntries(i), AllOf(i))]

RightCorpora == {CorpusOf(i) : i \in {j \in Inputs : Sound(j)}}

Published == INSTANCE Publication
  WITH Nothing <- NoCorpus, document <- PublishedCorpus, right <- RightCorpora

\* Merges that crash, are refused, write at once or lose an output to the
\* operator implement a publication: a report whose manifest matches speaks of
\* what one sound list of inventories amounts to, "complete" or not, and no later
\* run writes to either; and the two always match unless runs wrote at once or the
\* manifest was removed under the report.
PublishesMerge == Published!Spec

\* What validate_manifest demands of the entries of a manifest.
Accepted(S) ==
  /\ Cardinality(S) = Target
  /\ \A d, e \in S : Ordinal(S, d) < Ordinal(S, e) => TupleBefore(d, e)
  /\ \A d, e \in S : \A g \in Fields : Clash(d, g, e, g) => d = e
  /\ \A e \in S : WorkerFields(e)

\* README.md counts "exactly 39,191 canonical identities" as complete: the
\* manifest of a merge that reports "complete" has them in the order that
\* validate_recipe_corpus.py calls canonical, so the validator accepts it.
CompleteManifestAccepted ==
  PublishedCorpus # NoCorpus /\ report.complete => Accepted(manifest.entries)

=============================================================================
