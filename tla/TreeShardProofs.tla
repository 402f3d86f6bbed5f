--------------------------- MODULE TreeShardProofs ---------------------------
(***************************************************************************)
(* Theorems about TreeShard for every repository, every capacity of a pipe *)
(* and every fate of the child.  The heart is Account: of the first n      *)
(* items of the tree each entry that is wanted is either waiting for its   *)
(* blob or has a record, and every record is explained by one of them.  A  *)
(* document is only made when n is the length of the tree, since the exit  *)
(* status 0 of the child means that it has sent the tree.                  *)
(***************************************************************************)
EXTENDS TreeShard, FiniteSetTheorems, TLAPS

-----------------------------------------------------------------------------
(***************************************************************************)
(* Accounts.                                                               *)
(***************************************************************************)

\* The first n items of revision j.revision of t, and what is kept of them.
Seen(t, j, n) == {t[j.revision][k] : k \in 1..n}
Kept(t, j, n) == {i \in Seen(t, j, n) : Wants(j, i)}
Evidence(t, j, n) == {m \in Seen(t, j, n) : m.type = "manifest"}
Size(t, j) == Len(t[j.revision])
EvidenceFor(t, j, i) == {m \in Evidence(t, j, Size(t, j)) : m.dir = Lower[i.dir]}

\* What a record of i says if every file of tree t was read.
Sound(t, j, i) ==
  CASE j.tool = "tree" -> "listed"
    [] j.tool = "cargo" -> CrateStatus(i)
    [] OTHER -> CASE i.blob = "dynamic" -> "worker"
                  [] i.blob = "bad" -> "quarantined"
                  [] OTHER -> IF \A m \in EvidenceFor(t, j, i) : m.blob = "good"
                              THEN "static" ELSE "quarantined"

Explains(t, u, j, i, r) ==
  /\ r.path = Path(i)
  /\ r.manifest =
       IF j.tool = "gentoo" /\ EvidenceFor(t, j, i) # {} THEN Lower[i.dir] ELSE None
  /\ \/ r.status = Sound(t, j, i)
     \/ r.status = "quarantined" /\ <<j.revision, Lower[i.dir]>> \in u

Account(t, u, j, n, F, R) ==
  /\ F \subseteq Kept(t, j, n)
  /\ \A i \in Kept(t, j, n) : i \in F \/ \E r \in R : r.path = Path(i)
  /\ \A r \in R : \E i \in Kept(t, j, n) : Explains(t, u, j, i, r)

\* Walking over one item adds it to what was seen.
LEMMA SeenNext ==
  ASSUME NEW t, NEW j, NEW n \in Nat
  PROVE  Seen(t, j, n + 1) = Seen(t, j, n) \cup {t[j.revision][n + 1]}
<1>1. 1..(n + 1) = (1..n) \cup {n + 1}
  OBVIOUS
<1> QED
  BY <1>1 DEF Seen

LEMMA AccountSkip ==
  ASSUME NEW t, NEW u, NEW j, NEW n \in Nat, NEW F, NEW R, Account(t, u, j, n, F, R),
         ~Wants(j, t[j.revision][n + 1])
  PROVE  Account(t, u, j, n + 1, F, R)
<1>1. Kept(t, j, n + 1) = Kept(t, j, n)
  BY SeenNext DEF Kept
<1> QED
  BY <1>1 DEF Account

LEMMA AccountKeep ==
  ASSUME NEW t, NEW u, NEW j, NEW n \in Nat, NEW F, NEW R, Account(t, u, j, n, F, R),
         Wants(j, t[j.revision][n + 1])
  PROVE  Account(t, u, j, n + 1, F \cup {t[j.revision][n + 1]}, R)
<1>1. Kept(t, j, n + 1) = Kept(t, j, n) \cup {t[j.revision][n + 1]}
  BY SeenNext DEF Kept
<1> QED
  BY <1>1 DEF Account

\* An entry that waits gets its record.
LEMMA AccountRecord ==
  ASSUME NEW t, NEW u, NEW j, NEW n, NEW F, NEW R, Account(t, u, j, n, F, R),
         NEW i \in F, NEW r, Explains(t, u, j, i, r)
  PROVE  Account(t, u, j, n, F \ {i}, R \cup {r})
BY DEF Account, Explains

LEMMA AccountUnread ==
  ASSUME NEW t, NEW u, NEW j, NEW n, NEW F, NEW R, Account(t, u, j, n, F, R),
         NEW w, u \subseteq w
  PROVE  Account(t, w, j, n, F, R)
BY DEF Account, Explains

LEMMA AccountEmpty ==
  ASSUME NEW t, NEW u, NEW j
  PROVE  Account(t, u, j, 0, {}, {})
BY DEF Account, Kept, Seen

-----------------------------------------------------------------------------
(***************************************************************************)
(* The invariant.                                                          *)
(***************************************************************************)

Outputs == [state : {"absent", "torn", "whole"}, job : Jobs, records : SUBSET Records]

TypeInv ==
  /\ tree \in Trees
  /\ runs \in 0..MaxRuns
  /\ job \in Jobs
  /\ pc \in {"stopped", "read", "walk", "blob", "classify", "check", "open", "fill"}
  /\ child \in {"walk", "complain", "exited", "failed"}
  /\ torn \in BOOLEAN /\ errors \in Nat
  /\ sent \in Nat /\ read \in Nat /\ returned \in Nat /\ walked \in Nat
  /\ manifests \subseteq Items /\ found \subseteq Items /\ records \subseteq Records
  /\ output \in [Outs -> Outputs]
  /\ unread \subseteq Revisions \X Dirs

Made == {"classify", "check", "open", "fill"}

\* The counts are in order, and the end of the output is the end of the tree if
\* the child exited by itself.
PipeInv ==
  /\ walked <= returned /\ returned <= read /\ read <= sent /\ sent <= Size(tree, job)
  /\ pc = "read" => walked = returned
  /\ pc # "stopped" /\ child = "exited" => sent = Size(tree, job)
  /\ pc \in Made => walked = Size(tree, job)

\* Which entries wait for their blobs, and where.
WaitInv ==
  /\ pc = "classify" => job.tool = "gentoo"
  /\ pc = "blob" => job.tool = "cargo" /\ \E i \in found : found = {i}
  /\ found # {} => \/ pc = "blob"
                   \/ pc \in {"read", "walk", "classify"} /\ job.tool = "gentoo"
  /\ pc = "stopped" => found = {} /\ records = {} /\ manifests = {}

MemoryInv ==
  pc # "stopped" =>
    /\ Account(tree, unread, job, walked, found, records)
    /\ job.tool = "gentoo" => manifests = Evidence(tree, job, walked)

OutputInv ==
  \A o \in Outs :
    IF output[o].state = "whole"
    THEN Account(tree, unread, output[o].job, Size(tree, output[o].job), {}, output[o].records)
    ELSE output[o].records = {}

IndInv == TypeInv /\ PipeInv /\ WaitInv /\ MemoryInv /\ OutputInv

-----------------------------------------------------------------------------
(***************************************************************************)
(* The invariant is inductive.                                             *)
(***************************************************************************)

LEMMA TreeTypes ==
  ASSUME NEW t \in Trees, NEW j \in Jobs
  PROVE  /\ t[j.revision] \in Seq(Items)
         /\ Size(t, j) \in Nat
         /\ \A k \in 1..Size(t, j) : t[j.revision][k] \in Items
BY TreeShardAssumption DEF Size

LEMMA NoJobIsOne == NoJob \in Jobs
BY TreeShardAssumption DEF NoJob

LEMMA CaseTypes ==
  /\ \A j \in Jobs : j.tool \in {"tree", "cargo", "gentoo"} /\ j.revision \in Revisions
                     /\ j.out \in Outs
  /\ \A d \in Dirs : Lower[d] \in Dirs
BY TreeShardAssumption

LEMMA BoundsAreNat == MaxRuns \in Nat
BY TreeShardAssumption

LEMMA InitInv == Init => IndInv
<1> SUFFICES ASSUME Init PROVE IndInv
  OBVIOUS
<1>1. TypeInv
  <2>1. runs \in 0..MaxRuns
    BY BoundsAreNat DEF Init
  <2>2. output \in [Outs -> Outputs]
    BY NoJobIsOne DEF Init, Absent, Outputs
  <2> QED
    BY <2>1, <2>2, NoJobIsOne DEF Init, TypeInv
<1>2. PipeInv
  BY <1>1, NoJobIsOne, TreeTypes DEF Init, PipeInv, TypeInv, Made
<1>3. WaitInv /\ MemoryInv /\ OutputInv
  BY DEF Init, WaitInv, MemoryInv, OutputInv, Absent
<1> QED
  BY <1>1, <1>2, <1>3 DEF IndInv

\* The files stay accounted for where they are not touched.
LEMMA OutputKept ==
  ASSUME IndInv, tree' = tree, output' = output, unread \subseteq unread'
  PROVE  OutputInv'
BY AccountUnread DEF IndInv, OutputInv

\* A step that leaves the parent's memory alone.
LEMMA MemoryKept ==
  ASSUME IndInv, UNCHANGED <<tree, walked, unread, output, parent>>,
         pc' # "stopped" => pc # "stopped"
  PROVE  MemoryInv' /\ OutputInv'
<1>1. OutputInv'
  BY OutputKept
<1>2. MemoryInv'
  BY DEF IndInv, MemoryInv, parent
<1> QED
  BY <1>1, <1>2

\* A step that ends an attempt.
LEMMA StopInv ==
  ASSUME IndInv, Stop, UNCHANGED <<sent, torn, errors, unread>>, OutputInv',
         output' \in [Outs -> Outputs],
         child' \in {"walk", "complain", "exited", "failed"}
  PROVE  IndInv'
BY DEF IndInv, Stop, TypeInv, PipeInv, WaitInv, MemoryInv, Made

LEMMA StopKeepsInv ==
  ASSUME IndInv, Stop, UNCHANGED <<output, unread, pipes>>
  PROVE  IndInv'
<1>1. OutputInv'
  BY OutputKept DEF Stop
<1> QED
  BY <1>1, StopInv DEF pipes, IndInv, TypeInv

\* The child's steps.
LEMMA ChildInv ==
  ASSUME IndInv, ChildProceeds \/ ChildComplains \/ ChildFails
  PROVE  IndInv'
<1> USE DEF ChildIdle
<1>1. UNCHANGED <<tree, walked, unread, output, parent, pc, runs, read, returned>>
  BY DEF ChildProceeds, ChildWrites, ChildWritesError, ChildExits, ChildBreaks,
         ChildComplains, ChildFails, parent
<1>2. MemoryInv' /\ OutputInv'
  BY <1>1, MemoryKept
<1> SUFFICES TypeInv' /\ PipeInv'
  <2>1. WaitInv'
    BY <1>1 DEF IndInv, WaitInv, parent
  <2> QED
    BY <1>2, <2>1 DEF IndInv
<1>3. Size(tree, job) = Len(Printed) /\ Size(tree, job) \in Nat
  BY TreeTypes DEF Size, Printed, IndInv, TypeInv
<1>4. UNCHANGED <<manifests, found, records, job>>
  BY <1>1 DEF parent
<1> USE <1>1, <1>3, <1>4 DEF IndInv, TypeInv, PipeInv, Made, Size, Reader
<1>5. CASE ChildWrites
  BY <1>5 DEF ChildWrites
<1>6. CASE ChildWritesError
  BY <1>6 DEF ChildWritesError
<1>7. CASE ChildExits
  BY <1>7 DEF ChildExits
<1>8. CASE ChildBreaks
  BY <1>8 DEF ChildBreaks
<1>9. CASE ChildComplains
  BY <1>9 DEF ChildComplains
<1>10. CASE ChildFails
  <2>1. torn' \in BOOLEAN
    BY <1>10, Zenon DEF ChildFails
  <2> QED
    BY <1>10, <2>1 DEF ChildFails
<1> QED
  BY <1>5, <1>6, <1>7, <1>8, <1>9, <1>10 DEF ChildProceeds

\* An inventory starts with nothing seen.
LEMMA BeginInv ==
  ASSUME IndInv, NEW j \in Jobs, Begin(j)
  PROVE  IndInv'
<1> USE DEF Begin, IndInv
<1>1. runs' \in 0..MaxRuns
  BY BoundsAreNat DEF TypeInv
<1>2. TypeInv'
  BY <1>1 DEF TypeInv
<1>3. found = {} /\ records = {} /\ manifests = {}
  BY DEF WaitInv
<1>4. PipeInv'
  BY TreeTypes DEF TypeInv, PipeInv, Made
<1>5. WaitInv'
  BY <1>3 DEF WaitInv
<1>6. MemoryInv'
  BY <1>3, AccountEmpty DEF MemoryInv, Evidence, Seen
<1>7. OutputInv'
  BY OutputKept
<1> QED
  BY <1>2, <1>4, <1>5, <1>6, <1>7

\* The steps that only move the parent on.
LEMMA MoveInv ==
  ASSUME IndInv,
         ReadMore \/ ReadReturns \/ EndChunk \/ EndTree \/ EndClassify \/ AcceptDocument
  PROVE  IndInv'
<1>1. /\ UNCHANGED <<tree, runs, walked, output, unread, parent, pipes>>
      /\ pc # "stopped"
  BY DEF ReadMore, ReadReturns, EndChunk, EndTree, EndClassify, AcceptDocument, AtEnd
<1>2. MemoryInv' /\ OutputInv'
  BY <1>1, MemoryKept
<1> SUFFICES TypeInv' /\ PipeInv' /\ WaitInv'
  BY <1>2 DEF IndInv
<1>3. UNCHANGED <<manifests, found, records, job, child, sent, torn, errors>>
  BY <1>1 DEF parent, pipes
<1> USE <1>1, <1>3 DEF IndInv, TypeInv, PipeInv, WaitInv, Made
<1>4. CASE ReadMore
  BY <1>4 DEF ReadMore
<1>5. CASE ReadReturns
  BY <1>5 DEF ReadReturns
<1>6. CASE EndChunk
  BY <1>6 DEF EndChunk
<1>7. CASE EndTree
  BY <1>7 DEF EndTree, AtEnd, EndOfFile
<1>8. CASE EndClassify
  BY <1>8 DEF EndClassify
<1>9. CASE AcceptDocument
  BY <1>9 DEF AcceptDocument
<1> QED
  BY <1>4, <1>5, <1>6, <1>7, <1>8, <1>9

\* The steps that give up.
LEMMA GiveUpInv ==
  ASSUME IndInv,
         \/ RejectTree \/ RejectItem \/ RefuseDocument \/ RefuseOutput \/ Abandon \/ Overflow
         \/ \E i \in found : BlobFails(i)
  PROVE  IndInv'
<1>1. CASE Overflow
  <2>1. OutputInv'
    BY <1>1, OutputKept DEF Overflow, Stop
  <2> QED
    BY <1>1, <2>1, StopInv DEF Overflow, IndInv, TypeInv
<1>2. CASE ~Overflow
  BY <1>2, StopKeepsInv DEF RejectTree, RejectItem, RefuseDocument, RefuseOutput, Abandon,
     BlobFails
<1> QED
  BY <1>1, <1>2

\* The item under the parent's eyes.
LEMMA ItemIsSeen ==
  ASSUME IndInv, Walking
  PROVE  /\ Item = tree[job.revision][walked + 1]
         /\ Item \in Items
         /\ walked \in Nat /\ walked + 1 <= returned
         /\ Seen(tree, job, walked + 1) = Seen(tree, job, walked) \cup {Item}
<1>1. walked \in Nat /\ walked + 1 <= returned /\ walked + 1 \in 1..Size(tree, job)
  BY TreeTypes DEF IndInv, TypeInv, PipeInv, Walking
<1>2. Item = tree[job.revision][walked + 1]
  BY DEF Item, Printed
<1>3. Item \in Items
  BY <1>1, <1>2, TreeTypes DEF IndInv, TypeInv
<1>4. Seen(tree, job, walked + 1) = Seen(tree, job, walked) \cup {Item}
  BY <1>1, <1>2, SeenNext
<1> QED
  BY <1>1, <1>2, <1>3, <1>4

LEMMA WalkInv ==
  ASSUME IndInv, SkipItem \/ KeepManifest \/ KeepEntry
  PROVE  IndInv'
<1>1. Walking /\ Advance /\ UNCHANGED pipes
  BY DEF SkipItem, KeepManifest, KeepEntry
<1>2. UNCHANGED <<tree, runs, job, read, returned, output, unread, child, sent, torn, errors>>
      /\ walked' = walked + 1 /\ pc = "walk"
  BY <1>1 DEF Advance, pipes, Walking
<1>3. OutputInv'
  BY <1>2, OutputKept
<1>4. /\ Account(tree, unread, job, walked, found, records)
      /\ job.tool = "gentoo" => manifests = Evidence(tree, job, walked)
  BY <1>2 DEF IndInv, MemoryInv
<1>5. IF Item.type = "manifest"
      THEN Evidence(tree, job, walked + 1) = Evidence(tree, job, walked) \cup {Item}
      ELSE Evidence(tree, job, walked + 1) = Evidence(tree, job, walked)
  BY <1>1, ItemIsSeen DEF Evidence
<1>6. pc' \in {"walk", "blob"} => PipeInv'
  BY <1>1, <1>2, ItemIsSeen DEF IndInv, TypeInv, PipeInv, Made
<1>7. CASE SkipItem
  <2>1. Account(tree, unread, job, walked + 1, found, records)
    BY <1>1, <1>4, <1>7, AccountSkip, ItemIsSeen DEF SkipItem
  <2>2. MemoryInv'
    BY <1>2, <1>4, <1>5, <1>7, <2>1 DEF SkipItem, MemoryInv
  <2>3. TypeInv' /\ WaitInv' /\ pc' = "walk"
    BY <1>2, <1>7 DEF SkipItem, IndInv, TypeInv, WaitInv
  <2> QED
    BY <1>3, <1>6, <2>2, <2>3 DEF IndInv
<1>8. CASE KeepManifest
  <2>1. ~Wants(job, Item)
    BY <1>8 DEF KeepManifest, Wants
  <2>2. Account(tree, unread, job, walked + 1, found, records)
    BY <1>1, <1>4, <2>1, AccountSkip, ItemIsSeen
  <2>3. MemoryInv'
    BY <1>2, <1>4, <1>5, <1>8, <2>2 DEF KeepManifest, MemoryInv
  <2>4. TypeInv' /\ WaitInv' /\ pc' = "walk"
    BY <1>1, <1>2, <1>8, ItemIsSeen DEF KeepManifest, IndInv, TypeInv, WaitInv
  <2> QED
    BY <1>3, <1>6, <2>3, <2>4 DEF IndInv
<1>9. CASE KeepEntry
  <2>1. Account(tree, unread, job, walked + 1, found \cup {Item}, records)
    BY <1>1, <1>4, <1>9, AccountKeep, ItemIsSeen DEF KeepEntry
  <2>2. Item.type # "manifest"
    BY <1>9 DEF KeepEntry, Wants
  <2>3. pc' \in {"walk", "blob"}
    BY <1>9 DEF KeepEntry
  <2>4. CASE job.tool = "tree"
    <3> DEFINE r == Record(Item, "listed", None)
    <3>1. found = {}
      BY <1>2, <2>4 DEF IndInv, WaitInv
    <3>2. Explains(tree, unread, job, Item, r)
      BY <2>4 DEF Explains, Record, Sound
    <3>3. Account(tree, unread, job, walked + 1, {}, records \cup {r})
      BY <2>1, <3>1, <3>2, AccountRecord
    <3>4. r \in Records
      BY <1>1, ItemIsSeen, CaseTypes DEF Record, Records, Path, Items, Statuses
    <3>5. found' = {} /\ records' = records \cup {r} /\ manifests' = manifests
      BY <1>9, <2>4, <3>1 DEF KeepEntry
    <3>6. MemoryInv'
      BY <1>2, <2>4, <3>3, <3>5 DEF MemoryInv
    <3>7. TypeInv' /\ WaitInv'
      BY <1>2, <2>3, <2>4, <3>4, <3>5, <1>9 DEF IndInv, TypeInv, WaitInv, KeepEntry
    <3> QED
      BY <1>3, <1>6, <2>3, <3>6, <3>7 DEF IndInv
  <2>5. CASE job.tool # "tree"
    <3>1. found' = found \cup {Item} /\ UNCHANGED <<records, manifests>>
      BY <1>9, <2>5 DEF KeepEntry
    <3>2. MemoryInv'
      BY <1>2, <1>4, <1>5, <2>1, <2>2, <3>1 DEF MemoryInv
    <3>3. TypeInv'
      BY <1>1, <1>2, <2>3, <3>1, ItemIsSeen DEF IndInv, TypeInv
    <3>4. job.tool \in {"cargo", "gentoo"}
      BY <2>5, CaseTypes DEF IndInv, TypeInv
    <3>5. WaitInv'
      BY <1>2, <1>9, <3>1, <3>4 DEF IndInv, WaitInv, KeepEntry
    <3> QED
      BY <1>3, <1>6, <2>3, <3>2, <3>3, <3>5 DEF IndInv
  <2> QED
    BY <2>4, <2>5
<1> QED
  BY <1>7, <1>8, <1>9

\* The Manifest that is looked up for i.
LEMMA ManifestLookedUp ==
  ASSUME IndInv, NEW i \in found, pc = "classify"
  PROVE  /\ ManifestOf(i) = IF Lookup(i) # {} THEN Lower[i.dir] ELSE None
         /\ Lookup(i) = EvidenceFor(tree, job, i)
<1>1. manifests = Evidence(tree, job, Size(tree, job))
  BY DEF IndInv, WaitInv, PipeInv, MemoryInv, Made
<1>2. Lookup(i) # {} => ManifestOf(i) = Lower[i.dir]
  BY DEF Lookup, ManifestOf
<1> QED
  BY <1>1, <1>2 DEF Lookup, ManifestOf, EvidenceFor

LEMMA ClassifyInv ==
  ASSUME IndInv, NEW i \in found, ClassifyCrate(i) \/ ClassifyEbuild(i) \/ ManifestFails(i)
  PROVE  IndInv'
<1>1. /\ UNCHANGED <<tree, runs, job, sent, child, torn, errors>>
      /\ UNCHANGED <<read, returned, walked, manifests, output>>
      /\ found' = found \ {i} /\ pc # "stopped" /\ unread \subseteq unread'
  BY DEF ClassifyCrate, ClassifyEbuild, ManifestFails, BlobStay, AddRecord, BlobRead, Reading,
         pipes
<1>2. i \in Items /\ Lower[i.dir] \in Dirs /\ job.revision \in Revisions
  BY CaseTypes DEF IndInv, TypeInv, Items
<1>3. OutputInv'
  BY <1>1, OutputKept
<1>4. Account(tree, unread', job, walked, found, records)
  BY <1>1, AccountUnread DEF IndInv, MemoryInv
<1>5. /\ pc \in {"blob", "classify"} /\ (pc = "blob" <=> job.tool = "cargo")
      /\ job.tool \in {"cargo", "gentoo"}
  BY CaseTypes DEF ClassifyCrate, ClassifyEbuild, ManifestFails, BlobRead, Reading, IndInv,
     WaitInv, TypeInv
<1>6. ASSUME NEW status \in Statuses, NEW m \in {None, Lower[i.dir]},
             records' = records \cup {Record(i, status, m)},
             Explains(tree, unread', job, i, Record(i, status, m)),
             unread' \subseteq Revisions \X Dirs,
             IF job.tool = "cargo" THEN pc' = "walk" ELSE pc' = "classify"
      PROVE  IndInv'
  <2>1. MemoryInv'
    <3>1. Account(tree, unread', job, walked, found \ {i}, records \cup {Record(i, status, m)})
      BY <1>4, <1>6, AccountRecord
    <3> QED
      BY <1>1, <1>6, <3>1 DEF IndInv, MemoryInv
  <2>2. Record(i, status, m) \in Records
    BY <1>2, <1>6 DEF Record, Records, Path, Items
  <2>3. TypeInv'
    BY <1>1, <1>6, <2>2 DEF IndInv, TypeInv
  <2>4. WaitInv'
    BY <1>1, <1>5, <1>6 DEF IndInv, WaitInv
  <2>5. PipeInv'
    BY <1>1, <1>5, <1>6 DEF IndInv, PipeInv, Made
  <2> QED
    BY <1>3, <2>1, <2>3, <2>4, <2>5 DEF IndInv
<1>7. CASE ClassifyCrate(i)
  <2>1. CrateStatus(i) \in Statuses
    BY DEF CrateStatus, Statuses
  <2>2. /\ records' = records \cup {Record(i, CrateStatus(i), None)}
        /\ unread' = unread /\ pc' = "walk" /\ job.tool = "cargo"
    BY <1>7 DEF ClassifyCrate, AddRecord
  <2>3. Explains(tree, unread', job, i, Record(i, CrateStatus(i), None))
    BY <2>2 DEF Explains, Record, Sound
  <2> QED
    BY <1>6, <2>1, <2>2, <2>3 DEF IndInv, TypeInv
<1>8. CASE ClassifyEbuild(i)
  <2> DEFINE status == CASE i.blob = "dynamic" -> "worker"
                         [] i.blob = "bad" -> "quarantined"
                         [] OTHER -> IF \A m \in Lookup(i) : m.blob = "good"
                                     THEN "static" ELSE "quarantined"
  <2>1. status \in Statuses
    BY DEF Statuses
  <2>2. /\ records' = records \cup {Record(i, status, ManifestOf(i))}
        /\ unread' = unread /\ job.tool = "gentoo" /\ pc = "classify" /\ pc' = pc
    BY <1>5, <1>8 DEF ClassifyEbuild, AddRecord, BlobRead, Reading
  <2>3. status = Sound(tree, job, i)
    BY <2>2, ManifestLookedUp DEF Sound
  <2>4. Explains(tree, unread', job, i, Record(i, status, ManifestOf(i)))
    BY <2>2, <2>3, ManifestLookedUp DEF Explains, Record
  <2> HIDE DEF status
  <2> QED
    BY <1>6, <2>1, <2>2, <2>4, ManifestLookedUp DEF IndInv, TypeInv
<1>9. CASE ManifestFails(i)
  <2>1. /\ records' = records \cup {Record(i, "quarantined", ManifestOf(i))}
        /\ unread' = unread \cup {<<job.revision, Lower[i.dir]>>}
        /\ job.tool = "gentoo" /\ pc = "classify" /\ pc' = pc
    BY <1>5, <1>9, ManifestLookedUp DEF ManifestFails, AddRecord, BlobRead, Reading
  <2>2. Explains(tree, unread', job, i, Record(i, "quarantined", ManifestOf(i)))
    BY <2>1, ManifestLookedUp DEF Explains, Record
  <2>3. unread' \subseteq Revisions \X Dirs
    BY <1>2, <2>1 DEF IndInv, TypeInv
  <2> QED
    BY <1>6, <2>1, <2>2, <2>3, ManifestLookedUp DEF Statuses
<1> QED
  BY <1>7, <1>8, <1>9

\* The steps that touch a file.
LEMMA OutputStepInv ==
  ASSUME IndInv, OpenOutput \/ FillOutput \/ \E o \in Outs : ClearOutput(o)
  PROVE  IndInv'
<1> USE DEF IndInv
<1>1. Absent \in Outputs /\ Absent.state = "absent" /\ Absent.records = {}
  BY NoJobIsOne DEF Absent, Outputs
<1>2. Torn \in Outputs /\ Torn.state = "torn" /\ Torn.records = {}
  BY NoJobIsOne DEF Absent, Torn, Outputs
<1>3. ASSUME NEW o \in Outs, NEW f \in {Absent, Torn}, output' = [output EXCEPT ![o] = f],
             UNCHANGED <<tree, unread>>
      PROVE  OutputInv' /\ output' \in [Outs -> Outputs]
  BY <1>1, <1>2, <1>3 DEF OutputInv, TypeInv
<1>4. CASE OpenOutput
  <2>1. OutputInv' /\ output' \in [Outs -> Outputs]
    BY <1>3, <1>4, CaseTypes DEF OpenOutput, TypeInv
  <2>2. MemoryInv'
    BY <1>4 DEF OpenOutput, MemoryInv, parent
  <2> QED
    BY <1>4, <2>1, <2>2 DEF OpenOutput, TypeInv, PipeInv, WaitInv, Made, parent, pipes
<1>5. CASE \E o \in Outs : ClearOutput(o)
  <2>1. OutputInv' /\ output' \in [Outs -> Outputs]
    BY <1>3, <1>5 DEF ClearOutput
  <2> QED
    BY <1>5, <2>1 DEF ClearOutput, TypeInv, PipeInv, WaitInv, MemoryInv, Made, parent, pipes
<1>6. CASE FillOutput
  <2>1. job.out \in Outs
    BY CaseTypes DEF TypeInv
  <2>2. Document \in Outputs
    BY DEF TypeInv, Document, Torn, Absent, Outputs
  <2>3. Account(tree, unread, job, Size(tree, job), {}, records)
    BY <1>6 DEF FillOutput, MemoryInv, WaitInv, PipeInv, Made
  <2>4. OutputInv' /\ output' \in [Outs -> Outputs]
    BY <1>6, <2>1, <2>2, <2>3 DEF FillOutput, Stop, OutputInv, TypeInv, Document
  <2> QED
    BY <1>6, <2>4, StopInv DEF FillOutput, pipes, TypeInv
<1> QED
  BY <1>4, <1>5, <1>6

LEMMA StutterInv ==
  ASSUME IndInv, UNCHANGED vars
  PROVE  IndInv'
BY DEF vars, IndInv, TypeInv, PipeInv, WaitInv, MemoryInv, OutputInv, Made

THEOREM Invariance == Spec => []IndInv
<1>1. ASSUME IndInv, [Next]_vars PROVE IndInv'
  <2>1. CASE Step
    BY <1>1, <2>1, MoveInv, GiveUpInv, WalkInv, ClassifyInv, OutputStepInv DEF Step
  <2>2. CASE Next /\ ~Step
    BY <1>1, <2>2, ChildInv, BeginInv, GiveUpInv, OutputStepInv DEF Next
  <2> QED
    BY <1>1, <2>1, <2>2, StutterInv
<1> QED
  BY <1>1, InitInv, PTL DEF Spec

-----------------------------------------------------------------------------
(***************************************************************************)
(* What the files hold.                                                    *)
(***************************************************************************)

LEMMA ItemsAreSeen ==
  ASSUME IndInv, NEW j \in Jobs
  PROVE  ItemsOf(j) = Seen(tree, j, Size(tree, j))
<1>1. DOMAIN tree[j.revision] = 1..Size(tree, j)
  BY TreeTypes DEF IndInv, TypeInv, Size
<1> QED
  BY <1>1 DEF ItemsOf, Seen

\* No two entries of a tree have one path.
LEMMA PathsAreUnique ==
  ASSUME IndInv, NEW j \in Jobs, NEW i \in ItemsOf(j), NEW k \in ItemsOf(j),
         Wants(j, i), Wants(j, k), Path(i) = Path(k)
  PROVE  i = k
<1>1. PICK a \in DOMAIN tree[j.revision] : i = tree[j.revision][a]
  BY DEF ItemsOf
<1>2. PICK b \in DOMAIN tree[j.revision] : k = tree[j.revision][b]
  BY DEF ItemsOf
<1>3. i.type = "entry" /\ k.type = "entry" /\ i.dir = k.dir /\ i.version = k.version
  BY DEF Wants, Path
<1>4. tree \in Trees /\ j.revision \in Revisions
  BY CaseTypes DEF IndInv, TypeInv
<1>5. a = b
  BY <1>1, <1>2, <1>3, <1>4, TreeShardAssumption
<1> QED
  BY <1>1, <1>2, <1>5

LEMMA SoundIsProper ==
  ASSUME IndInv, NEW j \in Jobs, NEW i
  PROVE  Sound(tree, j, i) = Proper(j, i) /\ EvidenceFor(tree, j, i) = ManifestsFor(j, i)
<1>1. EvidenceFor(tree, j, i) = ManifestsFor(j, i)
  BY ItemsAreSeen DEF EvidenceFor, Evidence, ManifestsFor
<1> QED
  BY <1>1 DEF Sound, Proper

\* A file that is whole has a record for each entry its job wants, and only those.
LEMMA PathsComplete ==
  ASSUME IndInv, NEW o \in Outs, output[o].state = "whole"
  PROVE  {r.path : r \in output[o].records}
           = {Path(i) : i \in {k \in ItemsOf(output[o].job) : Wants(output[o].job, k)}}
<1> DEFINE j == output[o].job
<1>1. j \in Jobs
  BY DEF IndInv, TypeInv, Outputs
<1>2. Account(tree, unread, j, Size(tree, j), {}, output[o].records)
  BY DEF IndInv, OutputInv
<1>3. Kept(tree, j, Size(tree, j)) = {k \in ItemsOf(j) : Wants(j, k)}
  BY <1>1, ItemsAreSeen DEF Kept
<1> QED
  BY <1>2, <1>3 DEF Account, Explains

\* Every document on disk has one record for each entry of its shard, and the
\* record names the Manifest that the whole tree has for it and says what the two
\* files say (stated at WrittenIsWhole), for every repository, in whatever order
\* its items are printed, and whatever interrupts the program.
THEOREM WrittenStaysWhole == Spec => []WrittenIsWhole
<1>1. ASSUME IndInv, NEW o \in Outs, output[o].state = "whole",
             NEW i \in ItemsOf(output[o].job), Wants(output[o].job, i),
             NEW r \in output[o].records, r.path = Path(i)
      PROVE  /\ r.manifest = Named(output[o].job, i)
             /\ \/ r.status = Proper(output[o].job, i)
                \/ /\ r.status = "quarantined"
                   /\ <<output[o].job.revision, Lower[i.dir]>> \in unread
  <2> DEFINE j == output[o].job
  <2>1. j \in Jobs
    BY <1>1 DEF IndInv, TypeInv, Outputs
  <2>2. PICK k \in Kept(tree, j, Size(tree, j)) : Explains(tree, unread, j, k, r)
    BY <1>1 DEF IndInv, OutputInv, Account
  <2>3. k \in ItemsOf(j) /\ Wants(j, k) /\ Path(k) = Path(i)
    BY <1>1, <2>1, <2>2, ItemsAreSeen DEF Kept, Explains
  <2>4. k = i
    BY <1>1, <2>1, <2>3, PathsAreUnique
  <2> QED
    BY <1>1, <2>1, <2>2, <2>4, SoundIsProper DEF Explains, Named
<1>2. IndInv => WrittenIsWhole
  BY <1>1, PathsComplete DEF WrittenIsWhole
<1> QED
  BY <1>2, Invariance, PTL

\* What --verify-only accepts has every entry of the tree, the revision and the
\* shard it was asked about, though it looks at the document alone.
THEOREM VerifiedStaysWhole == Spec => []VerifiedIsWhole
<1>1. ASSUME IndInv, NEW j \in Jobs, Verifies(j)
      PROVE  {r.path : r \in output[j.out].records}
               = {Path(i) : i \in {k \in ItemsOf(j) : Wants(j, k)}}
  <2> DEFINE d == output[j.out].job
  <2>1. j.out \in Outs /\ output[j.out].state = "whole"
    BY <1>1, CaseTypes DEF Verifies, Valid
  <2>2. d.tool = j.tool /\ d.revision = j.revision /\ d.shard = j.shard
    BY <1>1 DEF Verifies, Valid
  <2>3. {k \in ItemsOf(d) : Wants(d, k)} = {k \in ItemsOf(j) : Wants(j, k)}
    BY <2>2 DEF ItemsOf, Wants
  <2> QED
    BY <1>1, <2>1, <2>3, PathsComplete
<1>2. IndInv => VerifiedIsWhole
  BY <1>1 DEF VerifiedIsWhole
<1> QED
  BY <1>2, Invariance, PTL

-----------------------------------------------------------------------------
(***************************************************************************)
(* The limit.                                                              *)
(***************************************************************************)

CountInv ==
  /\ IsFiniteSet(found) /\ IsFiniteSet(records)
  /\ Cardinality(found) + Cardinality(records) <= MaxRecords

LEMMA CountEmpty ==
  ASSUME found' = {}, records' = {} PROVE CountInv'
BY FS_EmptySet, TreeShardAssumption DEF CountInv

LEMMA CountSame ==
  ASSUME CountInv, UNCHANGED <<found, records>> PROVE CountInv'
BY DEF CountInv

LEMMA OneMore ==
  ASSUME NEW S, NEW x, IsFiniteSet(S)
  PROVE  /\ IsFiniteSet(S \cup {x}) /\ Cardinality(S \cup {x}) \in Nat
         /\ Cardinality(S \cup {x}) <= Cardinality(S) + 1
<1>1. IsFiniteSet(S \cup {x})
  BY FS_AddElement
<1>2. Cardinality(S) \in Nat /\ Cardinality(S \cup {x}) \in Nat
  BY <1>1, FS_CardinalityType
<1>3. Cardinality(S \cup {x}) = IF x \in S THEN Cardinality(S) ELSE Cardinality(S) + 1
  BY FS_AddElement
<1> QED
  BY <1>1, <1>2, <1>3

LEMMA CountStep ==
  ASSUME CountInv, [Next]_vars
  PROVE  CountInv'
<1>1. /\ IsFiniteSet(found) /\ Cardinality(found) \in Nat
      /\ IsFiniteSet(records) /\ Cardinality(records) \in Nat
      /\ MaxRecords \in Nat
  BY FS_CardinalityType, TreeShardAssumption DEF CountInv
<1>2. CASE Stop
  BY <1>2, CountEmpty DEF Stop
<1>3. CASE KeepEntry
  <2>1. CASE job.tool = "tree"
    <3>1. found' = found /\ records' = records \cup {Record(Item, "listed", None)}
      BY <1>3, <2>1 DEF KeepEntry
    <3>2. Cardinality(found) + Cardinality(records) + 1 <= MaxRecords
      BY <1>1, <1>3 DEF KeepEntry
    <3>3. /\ IsFiniteSet(records') /\ Cardinality(records') \in Nat
          /\ Cardinality(records') <= Cardinality(records) + 1
      BY <1>1, <3>1, OneMore
    <3> QED
      BY <1>1, <3>1, <3>2, <3>3 DEF CountInv
  <2>2. CASE job.tool # "tree"
    <3>1. found' = found \cup {Item} /\ records' = records
      BY <1>3, <2>2 DEF KeepEntry
    <3>2. Cardinality(found) + Cardinality(records) + 1 <= MaxRecords
      BY <1>1, <1>3 DEF KeepEntry
    <3>3. /\ IsFiniteSet(found') /\ Cardinality(found') \in Nat
          /\ Cardinality(found') <= Cardinality(found) + 1
      BY <1>1, <3>1, OneMore
    <3> QED
      BY <1>1, <3>1, <3>2, <3>3 DEF CountInv
  <2> QED
    BY <2>1, <2>2
<1>4. ASSUME NEW i \in found, NEW r, AddRecord(i, r) PROVE CountInv'
  <2>1. IsFiniteSet(found') /\ Cardinality(found') = Cardinality(found) - 1
    BY <1>1, <1>4, FS_RemoveElement DEF AddRecord
  <2>2. /\ IsFiniteSet(records') /\ Cardinality(records') \in Nat
        /\ Cardinality(records') <= Cardinality(records) + 1
    BY <1>1, <1>4, OneMore DEF AddRecord
  <2> QED
    BY <1>1, <2>1, <2>2 DEF CountInv
<1>5. CASE \E i \in found : ClassifyCrate(i) \/ ClassifyEbuild(i) \/ ManifestFails(i)
  BY <1>4, <1>5 DEF ClassifyCrate, ClassifyEbuild, ManifestFails
<1>6. CASE /\ ~Stop /\ ~KeepEntry
           /\ ~\E i \in found : ClassifyCrate(i) \/ ClassifyEbuild(i) \/ ManifestFails(i)
  <2>1. UNCHANGED <<found, records>>
    BY <1>6 DEF Next, Step, vars, parent, ChildIdle, ReadMore, ReadReturns, EndChunk, EndTree,
       RejectTree, SkipItem, KeepManifest, Overflow, RejectItem, BlobFails, EndClassify,
       AcceptDocument, RefuseDocument, OpenOutput, RefuseOutput, FillOutput, Abandon,
       ChildProceeds, ChildWrites, ChildWritesError, ChildExits, ChildBreaks,
       ChildComplains, ChildFails, Begin, ClearOutput
  <2> QED
    BY <2>1, CountSame
<1> QED
  BY <1>2, <1>3, <1>5, <1>6

\* Every variable has its type, the counts of the pipe are in order and no more
\* is kept of a tree than the limit (stated at TypeOK).
THEOREM TypeCorrect == Spec => []TypeOK
<1>1. Init => CountInv
  BY FS_EmptySet, TreeShardAssumption DEF Init, CountInv
<1>2. Spec => []CountInv
  BY <1>1, CountStep, PTL DEF Spec
<1>3. IndInv /\ CountInv => TypeOK
  BY DEF IndInv, TypeInv, PipeInv, CountInv, TypeOK, Size, Printed, Outputs
<1> QED
  BY <1>2, <1>3, Invariance, PTL

-----------------------------------------------------------------------------
(***************************************************************************)
(* An inventory and its own validation.                                    *)
(***************************************************************************)

\* Each entry is recorded once: not while it waits, and not again.
OnceInv ==
  pc # "stopped" =>
    /\ \A r \in records : r.package = Lower[r.path[1]]
    /\ \A r, s \in records : r.path = s.path => r = s
    /\ \A i \in found, r \in records : r.path # Path(i)

\* An inventory keeps none of the items before the one it looks at a second time.
LEMMA ItemIsNew ==
  ASSUME IndInv, Walking, Wants(job, Item), NEW i \in Kept(tree, job, walked)
  PROVE  Path(i) # Path(Item)
<1> SUFFICES ASSUME Path(i) = Path(Item) PROVE FALSE
  OBVIOUS
<1>1. walked \in Nat /\ walked + 1 \in 1..Size(tree, job) /\ Item = tree[job.revision][walked + 1]
  BY ItemIsSeen, TreeTypes DEF IndInv, TypeInv, PipeInv, Walking
<1>2. PICK k \in 1..walked : i = tree[job.revision][k]
  BY DEF Kept, Seen
<1>3. DOMAIN tree[job.revision] = 1..Size(tree, job) /\ Size(tree, job) \in Nat
  BY TreeTypes DEF IndInv, TypeInv, Size
<1>4. /\ k \in DOMAIN tree[job.revision] /\ walked + 1 \in DOMAIN tree[job.revision]
      /\ k # walked + 1
  BY <1>1, <1>3
<1>5. i.type = "entry" /\ Item.type = "entry" /\ i.dir = Item.dir /\ i.version = Item.version
  BY DEF Kept, Wants, Path
<1>6. tree \in Trees /\ job.revision \in Revisions
  BY CaseTypes DEF IndInv, TypeInv
<1> QED
  BY <1>1, <1>2, <1>4, <1>5, <1>6, TreeShardAssumption

\* What waits and what is recorded was kept.
LEMMA KeptBefore ==
  ASSUME IndInv, pc # "stopped"
  PROVE  /\ found \subseteq Kept(tree, job, walked)
         /\ \A r \in records : \E i \in Kept(tree, job, walked) : r.path = Path(i)
BY DEF IndInv, MemoryInv, Account, Explains

LEMMA KeepOnce ==
  ASSUME IndInv, OnceInv, KeepEntry
  PROVE  OnceInv'
<1>1. Walking /\ pc # "stopped" /\ Wants(job, Item)
  BY DEF KeepEntry, Walking
<1>2. \A i \in found : Path(i) # Path(Item)
  BY <1>1, KeptBefore, ItemIsNew
<1>3. \A r \in records : r.path # Path(Item)
  BY <1>1, KeptBefore, ItemIsNew
<1>4. \A m, t : /\ Record(Item, t, m).path = Path(Item)
                /\ Record(Item, t, m).package = Lower[Path(Item)[1]]
  BY DEF Record, Path
<1>5. \/ \E r : /\ records' = records \cup {r} /\ found' = found
                /\ r.path = Path(Item) /\ r.package = Lower[Path(Item)[1]]
      \/ records' = records /\ found' = found \cup {Item}
  BY <1>4 DEF KeepEntry
<1> HIDE DEF Item
<1> QED
  BY <1>1, <1>2, <1>3, <1>5 DEF OnceInv

LEMMA RecordOnce ==
  ASSUME IndInv, OnceInv, pc # "stopped", NEW i \in found, NEW r, AddRecord(i, r),
         r.path = Path(i), r.package = Lower[r.path[1]]
  PROVE  OnceInv'
<1>1. \A s \in records : s.path # Path(i)
  BY DEF OnceInv
<1>2. ASSUME NEW k \in found \ {i} PROVE Path(k) # Path(i)
  <2>1. job \in Jobs /\ walked \in Nat /\ walked <= Size(tree, job) /\ Size(tree, job) \in Nat
    BY TreeTypes DEF IndInv, TypeInv, PipeInv
  <2>2. Seen(tree, job, walked) \subseteq ItemsOf(job)
    BY <2>1, ItemsAreSeen DEF Seen
  <2>3. i \in Kept(tree, job, walked) /\ k \in Kept(tree, job, walked)
    BY KeptBefore
  <2>4. i \in ItemsOf(job) /\ k \in ItemsOf(job) /\ Wants(job, i) /\ Wants(job, k)
    BY <2>2, <2>3 DEF Kept
  <2> QED
    BY <2>1, <2>4, PathsAreUnique
<1>3. found' = found \ {i} /\ records' = records \cup {r}
  BY DEF AddRecord
<1> QED
  BY <1>1, <1>2, <1>3 DEF OnceInv

LEMMA OnceStep == IndInv /\ OnceInv /\ [Next]_vars => OnceInv'
<1> SUFFICES ASSUME IndInv, OnceInv, [Next]_vars PROVE OnceInv'
  OBVIOUS
<1>1. CASE Stop
  BY <1>1 DEF Stop, OnceInv
<1>2. CASE KeepEntry
  BY <1>2, KeepOnce
<1>3. ASSUME NEW i \in found, ClassifyCrate(i) \/ ClassifyEbuild(i) \/ ManifestFails(i)
      PROVE  OnceInv'
  <2>1. PICK r : AddRecord(i, r) /\ r.path = Path(i) /\ r.package = Lower[i.dir]
    BY <1>3 DEF ClassifyCrate, ClassifyEbuild, ManifestFails, Record
  <2>2. pc # "stopped" /\ Path(i)[1] = i.dir
    BY <1>3 DEF ClassifyCrate, ClassifyEbuild, ManifestFails, BlobRead, Reading, Path
  <2> QED
    BY <2>1, <2>2, RecordOnce
<1>4. CASE \E j \in Jobs : Begin(j)
  <2>1. found' = {} /\ records' = {}
    BY <1>4 DEF Begin, IndInv, WaitInv
  <2> QED
    BY <2>1 DEF OnceInv
<1>5. CASE /\ ~Stop /\ ~KeepEntry /\ ~\E j \in Jobs : Begin(j)
           /\ ~\E i \in found : ClassifyCrate(i) \/ ClassifyEbuild(i) \/ ManifestFails(i)
  <2>1. UNCHANGED <<found, records>>
    BY <1>5 DEF Next, Step, vars, parent, ChildIdle, ReadMore, ReadReturns, EndChunk, EndTree,
       RejectTree, SkipItem, KeepManifest, Overflow, RejectItem, BlobFails, EndClassify,
       AcceptDocument, RefuseDocument, OpenOutput, RefuseOutput, FillOutput, Abandon,
       ChildProceeds, ChildWrites, ChildWritesError, ChildExits, ChildBreaks,
       ChildComplains, ChildFails, ClearOutput
  <2>2. pc' # "stopped" => pc # "stopped"
    BY <1>5 DEF Next, Step, vars, parent, ChildIdle, ReadMore, ReadReturns, EndChunk, EndTree,
       RejectTree, SkipItem, KeepManifest, Overflow, RejectItem, BlobFails, EndClassify,
       AcceptDocument, RefuseDocument, OpenOutput, RefuseOutput, FillOutput, Abandon,
       ChildProceeds, ChildWrites, ChildWritesError, ChildExits, ChildBreaks,
       ChildComplains, ChildFails, ClearOutput, Walking, AtEnd
  <2> QED
    BY <2>1, <2>2 DEF OnceInv
<1> QED
  BY <1>1, <1>2, <1>3, <1>4, <1>5

\* A crate has one file in an index.
OneFilePerCrate ==
  \A t \in Trees, j \in Jobs : j.tool = "cargo" =>
    \A k, l \in DOMAIN t[j.revision] :
      /\ t[j.revision][k].type = "entry" /\ t[j.revision][l].type = "entry"
      /\ t[j.revision][k].dir = t[j.revision][l].dir
      => k = l

LEMMA DocumentValid ==
  ASSUME OneFilePerCrate, IndInv, OnceInv, pc = "check",
         \A r \in records : r.path[1] = r.package
  PROVE  Valid(Document, job)
<1>1. /\ Document.state = "whole" /\ Document.job = job /\ Document.records = records
      /\ job \in Jobs
  BY DEF Document, IndInv, TypeInv
<1>2. walked = Size(tree, job) /\ ItemsOf(job) = Seen(tree, job, walked)
  BY <1>1, ItemsAreSeen DEF IndInv, PipeInv, Made
<1>3. \A r \in records : \E i \in ItemsOf(job) : Wants(job, i) /\ r.path = Path(i)
  BY <1>2, KeptBefore DEF Kept
<1>4. \A r \in records : job.tool = "tree" \/ Shard[r.package] = job.shard
  BY <1>3 DEF Wants, Path
<1>5. ASSUME NEW r \in records, NEW s \in records, r # s
      PROVE  \/ r.package # s.package
             \/ job.tool # "cargo" /\ r.path[2] # s.path[2]
             \/ job.tool = "tree" /\ r.path # s.path
  <2>1. r.path # s.path
    BY <1>5 DEF OnceInv
  <2>2. PICK i \in ItemsOf(job) : Wants(job, i) /\ r.path = <<i.dir, i.version>>
    BY <1>3 DEF Path
  <2>3. PICK k \in ItemsOf(job) : Wants(job, k) /\ s.path = <<k.dir, k.version>>
    BY <1>3 DEF Path
  <2>4. r.package = i.dir /\ s.package = k.dir
    BY <2>2, <2>3
  <2>5. CASE job.tool = "cargo"
    <3>1. i.type = "entry" /\ k.type = "entry"
      BY <2>2, <2>3 DEF Wants
    <3>2. PICK a \in DOMAIN tree[job.revision] : i = tree[job.revision][a]
      BY DEF ItemsOf
    <3>3. PICK b \in DOMAIN tree[job.revision] : k = tree[job.revision][b]
      BY DEF ItemsOf
    <3>4. i.dir = k.dir => a = b
      BY <1>1, <2>5, <3>1, <3>2, <3>3 DEF OneFilePerCrate, IndInv, TypeInv
    <3>5. i.dir = k.dir => i = k
      BY <3>2, <3>3, <3>4
    <3> QED
      BY <2>1, <2>2, <2>3, <2>4, <3>5
  <2>6. CASE job.tool # "cargo"
    BY <2>1, <2>2, <2>3, <2>4, <2>6
  <2> QED
    BY <2>5, <2>6
<1> QED
  BY <1>1, <1>4, <1>5 DEF Valid

\* An inventory passes its own validation if the names in it are in lower case:
\* nothing is recorded twice, whatever the child did (stated at RefusedForCase).
THEOREM RefusalsAreForCase == ASSUME OneFilePerCrate PROVE Spec => []RefusedForCase
<1>1. IndInv /\ OnceInv => RefusedForCase
  BY DocumentValid DEF RefusedForCase
<1>2. Init => OnceInv
  BY DEF Init, OnceInv
<1>3. IndInv /\ OnceInv /\ [Next]_vars => OnceInv'
  BY OnceStep
<1>4. Spec => []IndInv
  BY Invariance
<1> QED
  BY <1>1, <1>2, <1>3, <1>4, PTL DEF Spec

-----------------------------------------------------------------------------
(***************************************************************************)
(* An inventory ends.  What Finishes says under fairness rests on two      *)
(* facts of single states and steps: each step uses up some of the work an *)
(* inventory begins with, and while there is work, someone has a step,     *)
(* except in CircularWait.                                                 *)
(***************************************************************************)

\* The chunk that is being read, and the child's messages.
LimitInv ==
  /\ read - returned <= ChunkSize
  /\ errors <= MaxErrors
  /\ child = "complain" => errors < MaxErrors

\* What the parent has yet to do between two reads of a chunk, or after the last.
ParentLeft ==
  CASE pc = "stopped" -> 0
    [] pc = "fill" -> 1
    [] pc = "open" -> 2
    [] pc = "check" -> 3
    [] pc = "classify" -> 4
    [] pc = "read" -> 5
    [] pc = "walk" -> 6
    [] OTHER -> 7

ChildLeft == CASE child = "walk" -> 2 [] child = "complain" -> 1 [] OTHER -> 0

\* Of n items, a were read, b returned, c walked over and f are found, and the turn
\* of the loop has l to go; a were sent, of x messages b written, and l is the child's.
ToRead(n, a, b, c, f, l) == (n - a) + 2 * (n - b) + 3 * (n - c) + f + l
ToSend(n, x, a, b, l) == (n - a) + 2 * (x - b) + l

ParentWork == ToRead(Len(Printed), read, returned, walked, Cardinality(found), ParentLeft)
ChildWork == ToSend(Len(Printed), MaxErrors, sent, errors, ChildLeft)

\* The steps that an inventory can still take, at most.
Work == ParentWork + ChildWork

AtMost == 7 * Len(Printed) + MaxRecords + 2 * MaxErrors + 9

\* An inventory of a tree of n items takes no more steps than 7n and a few, with
\* those of its child, whatever fails: no step is for nothing.
StepsAreBounded ==
  /\ [](pc # "stopped" => Work \in 0..AtMost)
  /\ [][pc # "stopped" => Work' < Work]_vars

\* The guards of the parent's steps and of the child's.
ParentCan ==
  \/ /\ pc = "read"
     /\ \/ read < sent /\ read - returned < ChunkSize
        \/ read > returned /\ (read - returned = ChunkSize \/ EndOfFile)
        \/ AtEnd
  \/ pc \in {"walk", "classify", "check", "open", "fill"}
  \/ pc = "blob" /\ found # {}

ChildCan ==
  \/ child = "walk" /\ (sent = Len(Printed) \/ sent - read < PipeSize)
  \/ child = "complain" /\ errors < ErrSize

\* The parent and its child never wait for each other, be it for the two pipes, for a
\* blob or for an exit status, except in CircularWait.
OnlyCircularWait == pc # "stopped" => ParentCan \/ ChildCan \/ CircularWait

LEMMA LimitInit == Init => LimitInv
<1>1. MaxErrors \in Nat /\ ChunkSize \in Nat \ {0}
  BY TreeShardAssumption
<1> QED
  BY <1>1 DEF Init, LimitInv

LEMMA LimitStep == IndInv /\ LimitInv /\ [Next]_vars => LimitInv'
<1> SUFFICES ASSUME IndInv, LimitInv, [Next]_vars PROVE LimitInv'
  OBVIOUS
<1>1. /\ MaxErrors \in Nat /\ ChunkSize \in Nat \ {0}
      /\ read \in Nat /\ returned \in Nat /\ errors \in Nat
  BY TreeShardAssumption DEF IndInv, TypeInv
<1>2. CASE ReadMore \/ ReadReturns
  BY <1>1, <1>2 DEF ReadMore, ReadReturns, LimitInv, pipes
<1>3. CASE ChildComplains \/ ChildWritesError \/ ChildFails \/ ChildBreaks
  <2>1. UNCHANGED <<read, returned>>
    BY <1>3 DEF ChildComplains, ChildWritesError, ChildFails, ChildBreaks, ChildIdle
  <2>2. CASE ChildComplains
    BY <1>1, <2>1, <2>2 DEF ChildComplains, LimitInv
  <2>3. CASE ChildWritesError
    BY <1>1, <2>1, <2>3 DEF ChildWritesError, LimitInv
  <2>4. CASE ChildFails \/ ChildBreaks
    <3>1. UNCHANGED errors /\ child' = "failed"
      BY <2>4 DEF ChildFails, ChildBreaks
    <3> QED
      BY <1>1, <2>1, <3>1 DEF LimitInv
  <2> QED
    BY <1>3, <2>2, <2>3, <2>4
<1>4. CASE \E j \in Jobs : Begin(j)
  BY <1>1, <1>4 DEF Begin, LimitInv
<1>5. CASE Overflow
  BY <1>1, <1>5 DEF Overflow, Stop, LimitInv
<1>6. CASE \/ ChildWrites \/ ChildExits \/ UNCHANGED vars
           \/ SkipItem \/ KeepManifest \/ KeepEntry \/ RejectItem
           \/ EndChunk \/ EndTree \/ RejectTree \/ EndClassify
           \/ AcceptDocument \/ RefuseDocument \/ OpenOutput \/ RefuseOutput \/ FillOutput
           \/ Abandon \/ \E o \in Outs : ClearOutput(o)
           \/ \E i \in found : BlobFails(i) \/ ClassifyCrate(i) \/ ClassifyEbuild(i) \/ ManifestFails(i)
  <2>1. UNCHANGED <<read, returned, errors>> /\ child' \in {child, "exited"}
    BY <1>6 DEF ChildWrites, ChildExits, ChildIdle, vars, pipes, parent, Stop, Advance, BlobStay,
       SkipItem, KeepManifest, KeepEntry, RejectItem, EndChunk, EndTree, RejectTree, EndClassify,
       AcceptDocument, RefuseDocument, OpenOutput, RefuseOutput, FillOutput, Abandon, ClearOutput,
       BlobFails, ClassifyCrate, ClassifyEbuild, ManifestFails
  <2> QED
    BY <1>1, <2>1 DEF LimitInv
<1> QED
  BY <1>2, <1>3, <1>4, <1>5, <1>6 DEF Next, Step, ChildProceeds

\* What the measure is made of.
LEMMA WorkTypes ==
  ASSUME IndInv, CountInv, LimitInv
  PROVE  /\ Len(Printed) \in Nat /\ MaxErrors \in Nat /\ MaxRecords \in Nat
         /\ sent \in Nat /\ read \in Nat /\ returned \in Nat /\ walked \in Nat /\ errors \in Nat
         /\ walked <= returned /\ returned <= read /\ read <= sent /\ sent <= Len(Printed)
         /\ Cardinality(found) \in Nat /\ Cardinality(found) <= MaxRecords
         /\ errors <= MaxErrors /\ ParentLeft \in 0..7 /\ ChildLeft \in 0..2
<1>1. Len(Printed) = Size(tree, job) /\ Size(tree, job) \in Nat
  BY TreeTypes DEF Printed, Size, IndInv, TypeInv
<1>2. ParentLeft \in 0..7 /\ ChildLeft \in 0..2
  BY DEF ParentLeft, ChildLeft
<1>3. /\ Cardinality(found) \in Nat /\ Cardinality(records) \in Nat
      /\ Cardinality(found) + Cardinality(records) <= MaxRecords /\ MaxRecords \in Nat
  BY FS_CardinalityType, TreeShardAssumption DEF CountInv
<1> QED
  BY <1>1, <1>2, <1>3, TreeShardAssumption DEF IndInv, TypeInv, PipeInv, LimitInv

LEMMA ReadLess ==
  ASSUME NEW n \in Int, NEW a \in Int, NEW b \in Int, NEW c \in Int, NEW f \in Int, NEW l \in Int,
         NEW d, NEW e, NEW g, NEW h \in Int, NEW m \in Int,
         \/ d = a /\ e = b /\ g = c /\ h <= f /\ m < l
         \/ d = a /\ e = b /\ g = c /\ h < f /\ m <= l
         \/ d = a + 1 /\ e = b /\ g = c /\ h = f /\ m = l
         \/ d = a /\ e = a /\ a > b /\ g = c /\ h = f /\ m <= l + 1
         \/ d = a /\ e = b /\ g = c + 1 /\ h <= f + 1 /\ m <= l + 1
  PROVE  /\ ToRead(n, d, e, g, h, m) \in Int
         /\ ToRead(n, d, e, g, h, m) < ToRead(n, a, b, c, f, l)
BY DEF ToRead

LEMMA SendLess ==
  ASSUME NEW n \in Int, NEW x \in Int, NEW a \in Int, NEW b \in Int, NEW c \in Int,
         NEW d, NEW e, NEW g \in Int,
         \/ d = a + 1 /\ e = b /\ g = c
         \/ d = a /\ e = b + 1 /\ g = 2 /\ c = 1
         \/ d = a /\ e = b /\ g < c
  PROVE  /\ ToSend(n, x, d, e, g) \in Int
         /\ ToSend(n, x, d, e, g) < ToSend(n, x, a, b, c)
BY DEF ToSend

LEMMA WorkBounded ==
  ASSUME IndInv, CountInv, LimitInv
  PROVE  Work \in 0..AtMost /\ ParentWork \in Nat /\ ChildWork \in Nat
<1> DEFINE N == Len(Printed)
           F == Cardinality(found)
<1>1. /\ ParentWork = (N - read) + 2 * (N - returned) + 3 * (N - walked) + F + ParentLeft
      /\ ChildWork = (N - sent) + 2 * (MaxErrors - errors) + ChildLeft
      /\ AtMost = 7 * N + MaxRecords + 2 * MaxErrors + 9
  BY DEF ParentWork, ChildWork, AtMost, ToRead, ToSend
<1>2. /\ N \in Nat /\ MaxErrors \in Nat /\ MaxRecords \in Nat
      /\ sent \in Nat /\ read \in Nat /\ returned \in Nat /\ walked \in Nat /\ errors \in Nat
      /\ walked <= returned /\ returned <= read /\ read <= sent /\ sent <= N
      /\ F \in Nat /\ F <= MaxRecords
      /\ errors <= MaxErrors /\ ParentLeft \in 0..7 /\ ChildLeft \in 0..2
  BY WorkTypes
<1> HIDE DEF N, F
<1> QED
  BY <1>1, <1>2 DEF Work

\* A step of the parent that leaves its child alone, or kills it.
LEMMA ParentUses ==
  ASSUME IndInv, CountInv, LimitInv, UNCHANGED <<tree, job, sent, errors>>,
         child' \in {child, "failed"},
         ParentWork' \in Int, ParentWork' < ParentWork
  PROVE  Work' < Work
<1>1. ChildLeft' = ChildLeft \/ (ChildLeft' = 0 /\ ChildLeft \in 1..2)
  <2>1. child' = child => ChildLeft' = ChildLeft
    BY DEF ChildLeft
  <2>2. child' = "failed" => ChildLeft' = 0
    BY DEF ChildLeft
  <2>3. ChildLeft = 0 \/ ChildLeft \in 1..2
    BY DEF ChildLeft
  <2>4. CASE child' = "failed"
    BY <2>2, <2>3, <2>4
  <2> QED
    BY <2>1, <2>4
<1>2. UNCHANGED Printed
  BY DEF Printed
<1>3. ChildWork' \in Int /\ ChildWork' <= ChildWork
  <2>1. CASE ChildLeft' = ChildLeft
    <3>1. ChildWork' = ChildWork
      BY <1>2, <2>1 DEF ChildWork
    <3> QED
      BY <3>1, WorkBounded
  <2>2. CASE ChildLeft' = 0 /\ ChildLeft \in 1..2
    <3>1. ChildWork' = ToSend(Len(Printed), MaxErrors, sent, errors, 0)
      BY <1>2, <2>2 DEF ChildWork
    <3> QED
      BY <2>2, <3>1, WorkTypes, WorkBounded, SendLess DEF ChildWork
  <2> QED
    BY <1>1, <2>1, <2>2
<1> QED
  BY <1>3, WorkBounded DEF Work

\* A step of the child.
LEMMA ChildUses ==
  ASSUME IndInv, CountInv, LimitInv, pc # "stopped",
         ChildWrites \/ ChildComplains \/ ChildWritesError \/ ChildExits \/ ChildFails \/ ChildBreaks
  PROVE  Work' < Work
<1>1. UNCHANGED <<tree, job, read, returned, walked, found, pc>>
  BY DEF ChildWrites, ChildComplains, ChildWritesError, ChildExits, ChildFails, ChildBreaks, ChildIdle
<1>2. UNCHANGED Printed /\ ParentWork' = ParentWork
  BY <1>1 DEF ParentWork, ParentLeft, Printed
<1>3. \/ sent' = sent + 1 /\ errors' = errors /\ ChildLeft' = ChildLeft
      \/ sent' = sent /\ errors' = errors + 1 /\ ChildLeft' = 2 /\ ChildLeft = 1
      \/ sent' = sent /\ errors' = errors /\ ChildLeft' < ChildLeft
  <2>1. CASE ChildWrites
    BY <2>1 DEF ChildWrites, ChildLeft
  <2>2. CASE ChildWritesError
    BY <2>2 DEF ChildWritesError, ChildLeft
  <2>3. CASE ChildComplains \/ ChildExits
    BY <2>3 DEF ChildComplains, ChildExits, ChildLeft
  <2>4. CASE ChildFails \/ ChildBreaks
    <3>1. child \in {"walk", "complain"} /\ child' = "failed" /\ UNCHANGED <<sent, errors>>
      BY <2>4 DEF ChildFails, ChildBreaks
    <3> QED
      BY <3>1 DEF ChildLeft
  <2> QED
    BY <2>1, <2>2, <2>3, <2>4
<1>4. ChildLeft' \in 0..2
  BY DEF ChildLeft
<1>5. ChildWork' = ToSend(Len(Printed), MaxErrors, sent', errors', ChildLeft')
  BY <1>2 DEF ChildWork
<1>6. ChildWork' \in Int /\ ChildWork' < ChildWork
  <2> DEFINE N == Len(Printed)
             C == ChildLeft
             D == ChildLeft'
  <2>1. N \in Int /\ MaxErrors \in Int /\ sent \in Int /\ errors \in Int /\ C \in Int
    BY WorkTypes
  <2>2. D \in Int
    BY <1>4
  <2>3. ChildWork = ToSend(N, MaxErrors, sent, errors, C)
    BY DEF ChildWork
  <2>4. ChildWork' = ToSend(N, MaxErrors, sent', errors', D)
    BY <1>5
  <2>5. \/ sent' = sent + 1 /\ errors' = errors /\ D = C
        \/ sent' = sent /\ errors' = errors + 1 /\ D = 2 /\ C = 1
        \/ sent' = sent /\ errors' = errors /\ D < C
    BY <1>3
  <2> HIDE DEF N, C, D
  <2>6. /\ ToSend(N, MaxErrors, sent', errors', D) \in Int
        /\ ToSend(N, MaxErrors, sent', errors', D) < ToSend(N, MaxErrors, sent, errors, C)
    BY <2>1, <2>2, <2>5, SendLess
  <2> QED
    BY <2>3, <2>4, <2>6
<1> QED
  BY <1>2, <1>6, WorkBounded DEF Work

\* A step of the parent in numbers.
LEMMA ParentNumbers ==
  ASSUME IndInv, CountInv, LimitInv, UNCHANGED <<tree, job, sent, errors>>,
         child' \in {child, "failed"}, Cardinality(found') \in Nat,
         \/ /\ UNCHANGED <<read, returned, walked>>
            /\ Cardinality(found') <= Cardinality(found) /\ ParentLeft' < ParentLeft
         \/ /\ UNCHANGED <<read, returned, walked>>
            /\ Cardinality(found') < Cardinality(found) /\ ParentLeft' <= ParentLeft
         \/ /\ read' = read + 1 /\ UNCHANGED <<returned, walked, found>>
            /\ ParentLeft' = ParentLeft
         \/ /\ returned' = read /\ read > returned /\ UNCHANGED <<read, walked, found>>
            /\ ParentLeft' <= ParentLeft + 1
         \/ /\ walked' = walked + 1 /\ UNCHANGED <<read, returned>>
            /\ Cardinality(found') <= Cardinality(found) + 1 /\ ParentLeft' <= ParentLeft + 1
  PROVE  Work' < Work
<1>1. ParentWork' = ToRead(Len(Printed), read', returned', walked', Cardinality(found'), ParentLeft')
  BY DEF ParentWork, Printed
<1>2. ParentLeft' \in 0..7
  BY DEF ParentLeft
<1>3. /\ Len(Printed) \in Int /\ read \in Int /\ returned \in Int /\ walked \in Int
      /\ Cardinality(found) \in Int /\ ParentLeft \in Int
  BY WorkTypes
<1> DEFINE F == Cardinality(found)
           G == Cardinality(found')
<1>4. UNCHANGED found => G = F
  OBVIOUS
<1>5. \/ read' = read /\ returned' = returned /\ walked' = walked /\ G <= F /\ ParentLeft' < ParentLeft
      \/ read' = read /\ returned' = returned /\ walked' = walked /\ G < F /\ ParentLeft' <= ParentLeft
      \/ read' = read + 1 /\ returned' = returned /\ walked' = walked /\ G = F /\ ParentLeft' = ParentLeft
      \/ /\ read' = read /\ returned' = read /\ read > returned /\ walked' = walked /\ G = F
         /\ ParentLeft' <= ParentLeft + 1
      \/ /\ read' = read /\ returned' = returned /\ walked' = walked + 1 /\ G <= F + 1
         /\ ParentLeft' <= ParentLeft + 1
  BY <1>4
<1>6. G \in Int /\ ParentLeft' \in Int
  BY <1>2
<1> HIDE DEF F, G
<1>7. /\ ToRead(Len(Printed), read', returned', walked', G, ParentLeft') \in Int
      /\ ToRead(Len(Printed), read', returned', walked', G, ParentLeft')
           < ToRead(Len(Printed), read, returned, walked, F, ParentLeft)
  BY <1>3, <1>5, <1>6, ReadLess DEF F
<1> QED
  BY <1>1, <1>7, ParentUses DEF ParentWork, F, G

\* Every step of an inventory uses up some of the work.
LEMMA WorkUsed ==
  ASSUME IndInv, CountInv, LimitInv, CountInv', [Next]_vars, pc # "stopped", ~UNCHANGED vars
  PROVE  Work' < Work
<1>t. /\ Cardinality(found) \in Nat /\ Cardinality(found') \in Nat
      /\ read \in Nat /\ returned \in Nat /\ walked \in Nat
  BY FS_CardinalityType DEF CountInv, IndInv, TypeInv
<1>1. CASE RejectTree \/ RejectItem \/ Overflow \/ RefuseDocument \/ RefuseOutput \/ FillOutput
           \/ Abandon \/ \E i \in found : BlobFails(i)
  <2>1. Stop /\ UNCHANGED <<sent, errors>> /\ child' \in {child, "failed"}
    BY <1>1 DEF RejectTree, RejectItem, Overflow, RefuseDocument, RefuseOutput, FillOutput,
       Abandon, BlobFails, pipes
  <2>2. UNCHANGED <<tree, job, read, returned, walked>> /\ found' = {}
    BY <2>1 DEF Stop
  <2>3. Cardinality(found') <= Cardinality(found)
    BY <1>t, <2>2, FS_EmptySet
  <2>4. ParentLeft' < ParentLeft
    BY <2>1 DEF Stop, ParentLeft, IndInv, TypeInv
  <2> QED
    BY <1>t, <2>1, <2>2, <2>3, <2>4, ParentNumbers
<1>2. CASE EndChunk \/ EndTree \/ EndClassify \/ AcceptDocument \/ OpenOutput
  <2>1. /\ UNCHANGED <<tree, job, sent, errors, child, read, returned, walked, found>>
        /\ \/ pc = "walk" /\ pc' = "read"
           \/ pc = "read" /\ pc' \in {"classify", "check"}
           \/ pc = "classify" /\ pc' = "check"
           \/ pc = "check" /\ pc' = "open"
           \/ pc = "open" /\ pc' = "fill"
    BY <1>2 DEF EndChunk, EndTree, EndClassify, AcceptDocument, OpenOutput, parent, pipes, AtEnd
  <2>2. ParentLeft' < ParentLeft
    BY <2>1 DEF ParentLeft
  <2>3. Cardinality(found') <= Cardinality(found)
    BY <1>t, <2>1
  <2> QED
    BY <1>t, <2>1, <2>2, <2>3, ParentNumbers
<1>3. CASE ReadMore
  <2>1. /\ UNCHANGED <<tree, job, sent, errors, child, pc, returned, walked, found>>
        /\ read' = read + 1
    BY <1>3 DEF ReadMore, parent, pipes
  <2>2. ParentLeft' = ParentLeft
    BY <2>1 DEF ParentLeft
  <2> QED
    BY <1>t, <2>1, <2>2, ParentNumbers
<1>4. CASE ReadReturns
  <2>1. /\ UNCHANGED <<tree, job, sent, errors, child, read, walked, found>>
        /\ returned' = read /\ read > returned /\ pc = "read" /\ pc' = "walk"
    BY <1>4 DEF ReadReturns, parent, pipes
  <2>2. ParentLeft' <= ParentLeft + 1
    BY <2>1 DEF ParentLeft
  <2> QED
    BY <1>t, <2>1, <2>2, ParentNumbers
<1>5. CASE SkipItem \/ KeepManifest \/ KeepEntry
  <2>1. /\ UNCHANGED <<tree, job, sent, errors, child, read, returned>>
        /\ walked' = walked + 1
        /\ pc = "walk" /\ pc' \in {"walk", "blob"}
    BY <1>5 DEF SkipItem, KeepManifest, KeepEntry, Walking, Advance, pipes
  <2>2. found' = found \/ found' = found \cup {Item}
    BY <1>5 DEF SkipItem, KeepManifest, KeepEntry
  <2>3. Cardinality(found') <= Cardinality(found) + 1
    <3>1. CASE found' = found
      BY <1>t, <3>1
    <3>2. CASE found' = found \cup {Item}
      BY <3>2, OneMore DEF CountInv
    <3> QED
      BY <2>2, <3>1, <3>2
  <2>4. ParentLeft' <= ParentLeft + 1
    BY <2>1 DEF ParentLeft
  <2> QED
    BY <1>t, <2>1, <2>3, <2>4, ParentNumbers
<1>6. ASSUME NEW i \in found, ClassifyCrate(i) \/ ClassifyEbuild(i) \/ ManifestFails(i)
      PROVE  Work' < Work
  <2>1. /\ UNCHANGED <<tree, job, sent, errors, child, read, returned, walked>>
        /\ found' = found \ {i}
        /\ pc' = pc \/ (pc = "blob" /\ pc' = "walk")
    <3>1. CASE ClassifyCrate(i)
      <4>1. pc = "blob"
        BY <3>1 DEF ClassifyCrate, BlobRead, Reading, IndInv, WaitInv
      <4> QED
        BY <3>1, <4>1 DEF ClassifyCrate, AddRecord, BlobStay, pipes
    <3>2. CASE ClassifyEbuild(i) \/ ManifestFails(i)
      BY <3>2, SMTT(30) DEF ClassifyEbuild, ManifestFails, AddRecord, BlobStay, pipes
    <3> QED
      BY <1>6, <3>1, <3>2
  <2>2. Cardinality(found') < Cardinality(found)
    BY <1>t, <2>1, FS_RemoveElement DEF CountInv
  <2>3. ParentLeft' <= ParentLeft
    BY <2>1 DEF ParentLeft
  <2> QED
    BY <1>t, <2>1, <2>2, <2>3, ParentNumbers
<1>7. ~\E j \in Jobs : Begin(j)
  BY DEF Begin
<1>8. ~\E o \in Outs : ClearOutput(o)
  BY DEF ClearOutput
<1> QED
  BY <1>1, <1>2, <1>3, <1>4, <1>5, <1>6, <1>7, <1>8, ChildUses DEF Next, Step, ChildProceeds

\* An inventory of a tree of n items takes no more steps than 7n and a few, with
\* those of its child, whatever fails: no step is for nothing.
THEOREM InventoryIsBounded == Spec => StepsAreBounded
<1>1. Init => CountInv
  BY FS_EmptySet, TreeShardAssumption DEF Init, CountInv
<1>2. IndInv /\ CountInv /\ LimitInv => (pc # "stopped" => Work \in 0..AtMost)
  BY WorkBounded
<1>3. IndInv /\ CountInv /\ LimitInv /\ CountInv' /\ [Next]_vars
        => [pc # "stopped" => Work' < Work]_vars
  BY WorkUsed
<1>4. Spec => [](IndInv /\ CountInv /\ LimitInv)
  BY <1>1, CountStep, LimitInit, LimitStep, Invariance, PTL DEF Spec
<1> QED
  BY <1>2, <1>3, <1>4, PTL DEF Spec, StepsAreBounded

\* The parent waits for nothing but its child, and never while its child waits for
\* it, except when the child's messages have filled a pipe that is read last.
THEOREM WaitsOnlyInCircle == Spec => []OnlyCircularWait
<1>1. ASSUME IndInv, LimitInv, pc = "read" PROVE ParentCan \/ ChildCan \/ CircularWait
  <2>1. /\ sent \in Nat /\ read \in Nat /\ returned \in Nat /\ errors \in Nat
        /\ returned <= read /\ read <= sent /\ read - returned <= ChunkSize
        /\ PipeSize \in Nat \ {0} /\ ErrSize \in Nat \ {0} /\ ChunkSize \in Nat \ {0}
        /\ child \in {"walk", "complain", "exited", "failed"}
    BY <1>1, TreeShardAssumption DEF IndInv, TypeInv, PipeInv, LimitInv
  <2>2. CASE read - returned = ChunkSize
    <3>1. read > returned
      BY <2>1, <2>2
    <3> QED
      BY <1>1, <2>2, <3>1 DEF ParentCan
  <2>3. CASE read - returned < ChunkSize /\ read < sent
    BY <1>1, <2>3 DEF ParentCan
  <2>4. CASE read - returned < ChunkSize /\ read = sent
    <3>1. CASE child = "walk"
      BY <2>1, <2>4, <3>1 DEF ChildCan
    <3>2. CASE child = "complain"
      BY <1>1, <2>1, <2>4, <3>2 DEF ChildCan, CircularWait
    <3>3. CASE Dead
      <4>1. EndOfFile /\ (read > returned \/ read = returned)
        BY <2>1, <2>4, <3>3 DEF EndOfFile
      <4> QED
        BY <1>1, <4>1 DEF ParentCan, AtEnd
    <3> QED
      BY <2>1, <3>1, <3>2, <3>3 DEF Dead
  <2> QED
    BY <2>1, <2>2, <2>3, <2>4
<1>2. IndInv /\ LimitInv => OnlyCircularWait
  BY <1>1 DEF OnlyCircularWait, ParentCan, IndInv, TypeInv, WaitInv
<1> QED
  BY <1>2, LimitInit, LimitStep, Invariance, PTL DEF Spec
=============================================================================
