------------------------------ MODULE TreeShard ------------------------------
(***************************************************************************)
(* The three inventories of an immutable Git tree: inventory_git_tree.py   *)
(* ("tree"), inventory_cargo_index_shard.py ("cargo") and                  *)
(* inventory_gentoo_ebuild_shard.py ("gentoo").  Each starts `git ls-tree` *)
(* with a pipe for its output and one for its errors, reads the first to   *)
(* its end and then the second, reads a blob for every record of its shard *)
(* ("cargo" between two records, while the child waits, "gentoo" after the *)
(* last), validates the document it made and writes it to a new file.      *)
(*                                                                         *)
(* Pipes are counted: the child has sent the first `sent` items of the     *)
(* tree, and the parent moves them through `read`, `returned` and `walked`.*)
(* A capacity in bytes becomes one in items or error messages.             *)
(***************************************************************************)
EXTENDS Naturals, Sequences, FiniteSets

CONSTANTS
  Revisions,
  Dirs,       \* package directories, or crates, as spelt in the tree
  Lower,      \* Lower[d]: d with the package's name in lower case
  Shard,      \* Shard[d]: the shard a digest of the name d gives
  Versions,
  Trees,      \* the repositories: what ls-tree prints of each revision
  Jobs,       \* the arguments of invocations
  Outs,       \* paths of outputs
  PipeSize,   \* capacity of the child's output pipe
  ErrSize,    \* capacity of its error pipe
  ChunkSize,  \* what the parent reads before it looks at a record
  MaxRecords, \* MAX_SHARD_RECORDS, MAX_RECORDS
  MaxErrors,  \* bound: how many messages a child writes to its error pipe
  MaxRuns     \* bound: how many inventories are ever started

None == "none"
Blobs == {"good", "dynamic", "bad", "big"}
Items == [type : {"entry", "manifest", "other", "malformed"},
          dir : Dirs, version : Versions, blob : Blobs]

ASSUME TreeShardAssumption ==
  /\ Lower \in [Dirs -> Dirs]
  /\ None \notin Dirs
  /\ Trees \subseteq [Revisions -> Seq(Items)]
  /\ \A t \in Trees, v \in Revisions : \A k, l \in DOMAIN t[v] :  \* paths are unique
       /\ t[v][k].type = "entry" /\ t[v][l].type = "entry"
       /\ t[v][k].dir = t[v][l].dir /\ t[v][k].version = t[v][l].version
       => k = l
  /\ Jobs # {}
  /\ Jobs \subseteq [tool : {"tree", "cargo", "gentoo"}, revision : Revisions,
                     shard : Nat, out : Outs]
  /\ Shard \in [Dirs -> Nat]
  /\ {PipeSize, ErrSize, ChunkSize} \subseteq Nat \ {0}
  /\ {MaxRecords, MaxErrors, MaxRuns} \subseteq Nat

VARIABLES
  tree,      \* the repository
  runs,      \* bound: inventories started
  job,       \* arguments of the parent
  pc,        \* where the parent is
  child,     \* what the child does, or how it ended
  sent,      \* items in the output pipe or taken from it
  torn,      \* whether the child ended inside an item
  errors,    \* messages in the error pipe
  read,      \* items in the parent's buffer or processed
  returned,  \* items read() has returned
  walked,    \* items processed
  manifests, \* "Manifest" files seen, gentoo
  found,     \* entries whose blob is to be read
  records,   \* records made of the entries
  output,    \* the file at each output path
  unread     \* history: Manifest files git once failed to read

parent == <<job, manifests, found, records>>
pipes == <<child, sent, torn, errors>>
vars == <<tree, runs, job, pc, child, sent, torn, errors, read, returned, walked,
          manifests, found, records, output, unread>>

NoJob == CHOOSE j \in Jobs : TRUE
Absent == [state |-> "absent", job |-> NoJob, records |-> {}]
Torn == [Absent EXCEPT !.state = "torn"]
Document == [state |-> "whole", job |-> job, records |-> records]

Printed == tree[job.revision]
Dead == child \in {"exited", "failed"}
Item == Printed[walked + 1]
Path(i) == <<i.dir, i.version>>

-----------------------------------------------------------------------------
(***************************************************************************)
(* Records.                                                                *)
(***************************************************************************)

\* The walk keeps item i.  A crate's path is in lower case or not of a crate.
Wants(j, i) ==
  /\ i.type = "entry"
  /\ j.tool = "cargo" => i.dir = Lower[i.dir]
  /\ j.tool = "tree" \/ Shard[i.dir] = j.shard

Record(i, status, m) ==
  [package |-> Lower[i.dir], path |-> Path(i), status |-> status, manifest |-> m]

CrateStatus(i) == IF i.blob = "good" THEN "candidate" ELSE "quarantined"

\* The Manifest of an ebuild, looked up by the name in lower case.
Lookup(i) == {m \in manifests : m.dir = Lower[i.dir]}

\* Mutant: the manifest of another revision passes.
ValidAnyRevision(d, j) ==
  /\ d.state = "whole" /\ d.job.tool = j.tool /\ d.job.shard = j.shard
  /\ \A r \in d.records : j.tool = "tree" \/ Shard[r.package] = j.shard

\* Mutant: one version of a package, as in a crate index.
ValidOneVersion(d, j) ==
  /\ d.state = "whole" /\ d.job = j
  /\ \A r \in d.records : j.tool = "tree" \/ Shard[r.package] = j.shard
  /\ \A r, s \in d.records : r # s => r.package # s.package

\* validate_manifest: identity, shards, and an order that is strict in what
\* identifies a record.
Valid(d, j) ==
  /\ d.state = "whole"
  /\ d.job.tool = j.tool /\ d.job.revision = j.revision /\ d.job.shard = j.shard
  /\ \A r \in d.records : j.tool = "tree" \/ Shard[r.package] = j.shard
  /\ \A r, s \in d.records :
       r # s => \/ r.package # s.package
                \/ j.tool # "cargo" /\ r.path[2] # s.path[2]
                \/ j.tool = "tree" /\ r.path # s.path

\* --verify-only.
Verifies(j) == Valid(output[j.out], j)

-----------------------------------------------------------------------------
(***************************************************************************)
(* The child, which is git.                                                *)
(***************************************************************************)

ChildIdle == UNCHANGED <<tree, runs, job, pc, read, returned, walked, manifests,
                         found, records, output, unread>>

\* The child's next write fails once nobody reads its pipes.
Reader == pc # "stopped"

ChildWrites ==
  /\ child = "walk" /\ Reader
  /\ sent < Len(Printed) /\ sent - read < PipeSize
  /\ sent' = sent + 1
  /\ UNCHANGED <<child, torn, errors>>
  /\ ChildIdle

\* It has something to complain of, which waits for room in the error pipe.
ChildComplains ==
  /\ child = "walk" /\ Reader /\ errors < MaxErrors
  /\ child' = "complain"
  /\ UNCHANGED <<sent, torn, errors>>
  /\ ChildIdle

ChildWritesError ==
  /\ child = "complain" /\ Reader /\ errors < ErrSize
  /\ errors' = errors + 1
  /\ child' = "walk"
  /\ UNCHANGED <<sent, torn>>
  /\ ChildIdle

ChildExits ==
  /\ child = "walk" /\ Reader /\ sent = Len(Printed)
  /\ child' = "exited"
  /\ UNCHANGED <<sent, torn, errors>>
  /\ ChildIdle

\* It fails or is killed, perhaps inside an item.
ChildFails ==
  /\ child \in {"walk", "complain"} /\ Reader
  /\ child' = "failed"
  /\ torn' \in (IF sent < Len(Printed) /\ sent - read < PipeSize THEN BOOLEAN ELSE {FALSE})
  /\ UNCHANGED <<sent, errors>>
  /\ ChildIdle

ChildBreaks ==
  /\ child \in {"walk", "complain"} /\ ~Reader
  /\ child' = "failed"
  /\ UNCHANGED <<sent, torn, errors>>
  /\ ChildIdle

ChildProceeds == ChildWrites \/ ChildWritesError \/ ChildExits \/ ChildBreaks

-----------------------------------------------------------------------------
(***************************************************************************)
(* The parent.                                                             *)
(***************************************************************************)

Init ==
  /\ tree \in Trees
  /\ runs = 0
  /\ job = NoJob
  /\ pc = "stopped"
  /\ child = "exited"
  /\ sent = 0 /\ torn = FALSE /\ errors = 0
  /\ read = 0 /\ returned = 0 /\ walked = 0
  /\ manifests = {} /\ found = {} /\ records = {}
  /\ output = [o \in Outs |-> Absent]
  /\ unread = {}

\* Whatever was going on ends.  The child of an inventory that raises is left
\* to itself, and its pipes are closed.
Stop ==
  /\ pc' = "stopped"
  /\ manifests' = {} /\ found' = {} /\ records' = {}
  /\ UNCHANGED <<tree, runs, job, read, returned, walked>>

\* The revision is known to the repository.
Begin(j) ==
  /\ pc = "stopped" /\ runs < MaxRuns
  /\ runs' = runs + 1
  /\ job' = j
  /\ pc' = "read"
  /\ child' = "walk"
  /\ sent' = 0 /\ torn' = FALSE /\ errors' = 0
  /\ read' = 0 /\ returned' = 0 /\ walked' = 0
  /\ UNCHANGED <<tree, manifests, found, records, output, unread>>

\* Mutant: the parent waits for the child before it reads.
ReadMoreWaits ==
  /\ pc = "read" /\ Dead
  /\ read < sent /\ read - returned < ChunkSize
  /\ read' = read + 1
  /\ UNCHANGED <<tree, runs, pc, returned, walked, output, unread, parent, pipes>>

ReadMore ==
  /\ pc = "read"
  /\ read < sent /\ read - returned < ChunkSize
  /\ read' = read + 1
  /\ UNCHANGED <<tree, runs, pc, returned, walked, output, unread, parent, pipes>>

EndOfFile == Dead /\ read = sent

\* read() returns a whole chunk, or what there is before the end.
ReadReturns ==
  /\ pc = "read"
  /\ read > returned
  /\ read - returned = ChunkSize \/ EndOfFile
  /\ returned' = read
  /\ pc' = "walk"
  /\ UNCHANGED <<tree, runs, read, walked, output, unread, parent, pipes>>

Walking == pc = "walk" /\ walked < returned
Advance == walked' = walked + 1 /\ UNCHANGED <<tree, runs, job, read, returned, output, unread>>

SkipItem ==
  /\ Walking
  /\ Item.type # "malformed" /\ ~Wants(job, Item)
  /\ ~(Item.type = "manifest" /\ job.tool = "gentoo")
  /\ Advance
  /\ UNCHANGED <<pc, manifests, found, records, pipes>>

KeepManifest ==
  /\ Walking
  /\ Item.type = "manifest" /\ job.tool = "gentoo"
  /\ manifests' = manifests \cup {Item}
  /\ Advance
  /\ UNCHANGED <<pc, found, records, pipes>>

\* Mutant: off by one at the limit.
KeepEntryOneMore ==
  /\ Walking
  /\ Wants(job, Item)
  /\ Cardinality(found) + Cardinality(records) <= MaxRecords
  /\ found' = found \cup {Item}
  /\ pc' = IF job.tool = "cargo" THEN "blob" ELSE "walk"
  /\ Advance
  /\ UNCHANGED <<manifests, records, pipes>>

\* The walk of "cargo" stands still while its consumer reads the blob.
KeepEntry ==
  /\ Walking
  /\ Wants(job, Item)
  /\ Cardinality(found) + Cardinality(records) < MaxRecords
  /\ IF job.tool = "tree"
     THEN records' = records \cup {Record(Item, "listed", None)} /\ found' = found
     ELSE found' = found \cup {Item} /\ records' = records
  /\ pc' = IF job.tool = "cargo" THEN "blob" ELSE "walk"
  /\ Advance
  /\ UNCHANGED <<manifests, pipes>>

\* One too many: the child is killed.
Overflow ==
  /\ Walking
  /\ Wants(job, Item)
  /\ Cardinality(found) + Cardinality(records) >= MaxRecords
  /\ child' = IF Dead THEN child ELSE "failed"
  /\ Stop
  /\ UNCHANGED <<sent, torn, errors, output, unread>>

RejectItem ==
  /\ Walking
  /\ Item.type = "malformed"
  /\ Stop
  /\ UNCHANGED <<output, unread, pipes>>

EndChunk ==
  /\ pc = "walk" /\ walked = returned
  /\ pc' = "read"
  /\ UNCHANGED <<tree, runs, read, returned, walked, output, unread, parent, pipes>>

AtEnd == pc = "read" /\ EndOfFile /\ read = returned

\* Mutant: the exit status of the child is not looked at.
EndTreeAnyStatus ==
  /\ AtEnd /\ ~torn
  /\ pc' = IF job.tool = "gentoo" THEN "classify" ELSE "check"
  /\ UNCHANGED <<tree, runs, read, returned, walked, output, unread, parent, pipes>>

\* The output ended.  The errors are read and the child is waited for.
EndTree ==
  /\ AtEnd /\ ~torn /\ child = "exited"
  /\ pc' = IF job.tool = "gentoo" THEN "classify" ELSE "check"
  /\ UNCHANGED <<tree, runs, read, returned, walked, output, unread, parent, pipes>>

RejectTree ==
  /\ AtEnd
  /\ torn \/ child = "failed"
  /\ Stop
  /\ UNCHANGED <<output, unread, pipes>>

AddRecord(i, r) == found' = found \ {i} /\ records' = records \cup {r}
Reading(i) == i \in found /\ pc \in {"blob", "classify"}
BlobRead(i) == Reading(i) /\ i.blob # "big"
BlobStay == UNCHANGED <<tree, runs, job, read, returned, walked, manifests, output, pipes>>

\* git cat-file fails, as it may at any time in a partial clone, or the blob is
\* too big.
BlobFails(i) ==
  /\ Reading(i)
  /\ Stop
  /\ UNCHANGED <<output, unread, pipes>>

ClassifyCrate(i) ==
  /\ BlobRead(i) /\ job.tool = "cargo"
  /\ AddRecord(i, Record(i, CrateStatus(i), None))
  /\ pc' = "walk"
  /\ UNCHANGED unread
  /\ BlobStay

\* What the record says of a Manifest: it is there or not.
ManifestOf(i) == IF Lookup(i) = {} THEN None ELSE (CHOOSE m \in Lookup(i) : TRUE).dir

\* Ebuilds are classified one after the other; which is first decides nothing.
ClassifyEbuild(i) ==
  /\ BlobRead(i) /\ job.tool = "gentoo"
  /\ AddRecord(i, Record(i, CASE i.blob = "dynamic" -> "worker"
                              [] i.blob = "bad" -> "quarantined"
                              [] OTHER -> IF \A m \in Lookup(i) : m.blob = "good"
                                          THEN "static" ELSE "quarantined",
                         ManifestOf(i)))
  /\ UNCHANGED <<pc, unread>>
  /\ BlobStay

\* git fails to read the Manifest of a static ebuild, which is quarantined.
ManifestFails(i) ==
  /\ BlobRead(i) /\ job.tool = "gentoo" /\ i.blob = "good" /\ Lookup(i) # {}
  /\ AddRecord(i, Record(i, "quarantined", ManifestOf(i)))
  /\ unread' = unread \cup {<<job.revision, ManifestOf(i)>>}
  /\ UNCHANGED pc
  /\ BlobStay

EndClassify ==
  /\ pc = "classify" /\ found = {}
  /\ pc' = "check"
  /\ UNCHANGED <<tree, runs, read, returned, walked, output, unread, parent, pipes>>

AcceptDocument ==
  /\ pc = "check" /\ Valid(Document, job)
  /\ pc' = "open"
  /\ UNCHANGED <<tree, runs, read, returned, walked, output, unread, parent, pipes>>

RefuseDocument ==
  /\ pc = "check" /\ ~Valid(Document, job)
  /\ Stop
  /\ UNCHANGED <<output, unread, pipes>>

\* The output is created empty and then filled.
OpenOutput ==
  /\ pc = "open" /\ output[job.out] = Absent
  /\ output' = [output EXCEPT ![job.out] = Torn]
  /\ pc' = "fill"
  /\ UNCHANGED <<tree, runs, read, returned, walked, unread, parent, pipes>>

RefuseOutput ==
  /\ pc = "open" /\ output[job.out] # Absent
  /\ Stop
  /\ UNCHANGED <<output, unread, pipes>>

FillOutput ==
  /\ pc = "fill"
  /\ output' = [output EXCEPT ![job.out] = Document]
  /\ Stop
  /\ UNCHANGED <<unread, pipes>>

\* A signal, a crash or a full disk.
Abandon ==
  /\ pc # "stopped"
  /\ Stop
  /\ UNCHANGED <<output, unread, pipes>>

\* An operator removes an output to try again.
ClearOutput(o) ==
  /\ pc = "stopped" /\ output[o] # Absent
  /\ output' = [output EXCEPT ![o] = Absent]
  /\ UNCHANGED <<tree, runs, pc, read, returned, walked, unread, parent, pipes>>

Step ==
  \/ ReadMore \/ ReadReturns \/ EndChunk \/ EndTree \/ RejectTree
  \/ SkipItem \/ KeepManifest \/ KeepEntry \/ Overflow \/ RejectItem
  \/ \E i \in found : BlobFails(i) \/ ClassifyCrate(i) \/ ClassifyEbuild(i) \/ ManifestFails(i)
  \/ EndClassify \/ AcceptDocument \/ RefuseDocument
  \/ OpenOutput \/ RefuseOutput \/ FillOutput

Next ==
  \/ Step
  \/ ChildProceeds \/ ChildComplains \/ ChildFails
  \/ \E j \in Jobs : Begin(j)
  \/ Abandon
  \/ \E o \in Outs : ClearOutput(o)

Spec == Init /\ [][Next]_vars

\* The parent waits for nothing but the child and git cat-file, which ends; the
\* child waits for nothing but its pipes.
FairSpec == Spec /\ WF_vars(Step) /\ WF_vars(ChildProceeds)

-----------------------------------------------------------------------------
(***************************************************************************)
(* Correctness.                                                            *)
(***************************************************************************)

Statuses == {"listed", "candidate", "static", "worker", "quarantined"}
Records == [package : Dirs, path : Dirs \X Versions, status : Statuses,
            manifest : Dirs \cup {None}]

\* Every variable has its type, the four counts of the pipe are in order, and no
\* more is kept of a tree than the limit.
TypeOK ==
  /\ tree \in Trees
  /\ runs \in 0..MaxRuns
  /\ job \in Jobs
  /\ pc \in {"stopped", "read", "walk", "blob", "classify", "check", "open", "fill"}
  /\ child \in {"walk", "complain", "exited", "failed"}
  /\ torn \in BOOLEAN /\ errors \in Nat
  /\ {sent, read, returned, walked} \subseteq Nat
  /\ walked <= returned /\ returned <= read /\ read <= sent /\ sent <= Len(Printed)
  /\ manifests \subseteq Items /\ found \subseteq Items /\ records \subseteq Records
  /\ Cardinality(found) + Cardinality(records) <= MaxRecords
  /\ \A o \in Outs :
       /\ output[o].state \in {"absent", "torn", "whole"}
       /\ output[o].job \in Jobs
       /\ output[o].records \subseteq Records
  /\ unread \subseteq Revisions \X Dirs

ItemsOf(j) == {tree[j.revision][k] : k \in DOMAIN tree[j.revision]}

\* The Manifests that the tree has for an entry: those that lie beside it if its
\* directory is in lower case, and those of the directory that is if it is not.
ManifestsFor(j, i) == {m \in ItemsOf(j) : m.type = "manifest" /\ m.dir = Lower[i.dir]}

Named(j, i) ==
  IF j.tool = "gentoo" /\ ManifestsFor(j, i) # {} THEN Lower[i.dir] ELSE None

\* What a record of i says if every file was read.
Proper(j, i) ==
  CASE j.tool = "tree" -> "listed"
    [] j.tool = "cargo" -> CrateStatus(i)
    [] OTHER -> CASE i.blob = "dynamic" -> "worker"
                  [] i.blob = "bad" -> "quarantined"
                  [] OTHER -> IF \A m \in ManifestsFor(j, i) : m.blob = "good"
                              THEN "static" ELSE "quarantined"

\* A document on disk has one record for each entry of its shard in the whole
\* tree, whatever became of the child and of earlier attempts; a record names the
\* Manifest that the whole tree has for the entry, wherever it is printed, and says
\* what the two files say, unless git failed to read the Manifest, which
\* quarantines it.  An ebuild whose directory is not in lower case is judged by the
\* Manifest of the one that is, or by none.
WrittenIsWhole ==
  \A o \in Outs : output[o].state = "whole" =>
    LET j == output[o].job
        wanted == {i \in ItemsOf(j) : Wants(j, i)}
    IN /\ {r.path : r \in output[o].records} = {Path(i) : i \in wanted}
       /\ \A i \in wanted, r \in output[o].records : r.path = Path(i) =>
            /\ r.manifest = Named(j, i)
            /\ \/ r.status = Proper(j, i)
               \/ r.status = "quarantined" /\ <<j.revision, Lower[i.dir]>> \in unread

\* What --verify-only accepts has every entry of the tree, revision and shard it
\* was asked about: not a torn file, nor the document of another job.
VerifiedIsWhole ==
  \A j \in Jobs : Verifies(j) =>
    {r.path : r \in output[j.out].records} = {Path(i) : i \in {k \in ItemsOf(j) : Wants(j, k)}}

\* An inventory refuses the document it made only if a name is not in lower case.
RefusedForCase ==
  pc = "check" /\ ~Valid(Document, job) => \E r \in records : r.path[1] # r.package

\* Parent and child wait for each other: the child for room in the error pipe,
\* the parent for the rest of a chunk.
CircularWait ==
  /\ pc = "read" /\ read = sent /\ read - returned < ChunkSize
  /\ child = "complain" /\ errors >= ErrSize

\* An inventory ends, or stands still because the child's errors fill a pipe that
\* is not read before the output ends.  Nothing else keeps it: neither a full
\* output pipe nor a blob read in the middle of the walk.
Finishes == pc # "stopped" ~> pc = "stopped" \/ CircularWait

\* The tests take it that an inventory's document passes its own validation.
OwnDocumentAccepted == pc = "check" => Valid(Document, job)
=============================================================================
