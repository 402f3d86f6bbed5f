-------------------------- MODULE CorpusMergeProofs --------------------------
(***************************************************************************)
(* Theorems about CorpusMerge for any upstreams, inventories, target and   *)
(* runs.  Two invariants, one about the memory of a run and one about the  *)
(* two files it writes.  The first says what seen_paths is for: it covers  *)
(* the paths of the entries merged so far, so an inventory that passes the *)
(* check adds no clash.  The second follows the order of the writes, as    *)
(* long as nothing disturbed it.                                           *)
(***************************************************************************)
EXTENDS CorpusMerge, FiniteSetTheorems, TLAPS

MemoryInv ==
  /\ pc \in [Runs -> Writing \cup {"stopped", "merge", "rejected"}]
  /\ queue \in [Runs -> Seq(Inventories)]
  /\ DOMAIN upstreams = Runs /\ DOMAIN paths = Runs /\ DOMAIN merged = Runs
  /\ \A r \in Runs :
       /\ OnePathEach(merged[r])
       /\ \A e \in merged[r] : PathsOf(e) \subseteq paths[r]
       /\ upstreams[r] = {e.upstream : e \in merged[r]}

\* A run that writes alone finds both paths new, writes its manifest and then
\* its report; so a report of any state stands beside a whole manifest.
WritesInv ==
  /\ \A r, o \in Runs : pc[r] \in Writing /\ pc[o] \in Writing => r = o
  /\ report.state # "absent" => manifest.state = "whole"
  /\ \A r \in Runs :
       /\ pc[r] = "write-manifest" => manifest.state = "absent"
       /\ pc[r] \in {"new-report", "write-report"} =>
            manifest = ManifestFile("whole", merged[r])

\* The report is about the manifest beside it.
ReportMatches ==
  ~disturbed /\ report.state = "whole" =>
    /\ manifest = ManifestFile("whole", report.entries)
    /\ report.complete <=>
         /\ Cardinality(manifest.entries) = Target
         /\ {e.upstream : e \in manifest.entries} = UpstreamSet

FilesInv ==
  /\ disturbed \in BOOLEAN
  /\ OnePathEach(manifest.entries)
  /\ ~disturbed => WritesInv
  /\ ReportMatches

IndInv == MemoryInv /\ FilesInv

\* A valid inventory has no clash inside.
LEMMA CarryOnePath ==
  ASSUME NEW inv, ValidInventory(inv)
  PROVE  OnePathEach(Carry(inv))
BY DEF ValidInventory, OnePathEach, Carry, Clash, Has, PathAt

\* Entries whose files are kept apart make a union without a clash.
LEMMA UnionOnePath ==
  ASSUME NEW S, NEW T, NEW P, OnePathEach(S), OnePathEach(T),
         \A e \in S : PathsOf(e) \subseteq P,
         \A e \in T : PathsOf(e) \cap P = {}
  PROVE  OnePathEach(S \cup T)
<1> SUFFICES ASSUME NEW d \in S \cup T, NEW e \in S \cup T,
                    NEW g \in Fields, NEW h \in Fields, Clash(d, g, e, h)
             PROVE  d = e /\ g = h
  BY DEF OnePathEach
<1>1. PathAt(d, g) \in PathsOf(d) /\ PathAt(d, g) \in PathsOf(e)
  BY DEF Clash, PathsOf
<1>2. CASE d \in S /\ e \in S
  BY <1>2 DEF OnePathEach
<1>3. CASE d \in T /\ e \in T
  BY <1>3 DEF OnePathEach
<1>4. CASE (d \in S /\ e \in T) \/ (d \in T /\ e \in S)
  BY <1>1, <1>4
<1> QED
  BY <1>2, <1>3, <1>4

\* A run that has merged nothing.
LEMMA NothingMerged ==
  /\ OnePathEach({})
  /\ {e.upstream : e \in {}} = {}
BY DEF OnePathEach

LEMMA IndInit == Init => IndInv
<1> SUFFICES ASSUME Init PROVE IndInv
  OBVIOUS
<1>1. MemoryInv
  <2>1. \A r \in Runs : merged[r] = {} /\ paths[r] = {} /\ upstreams[r] = {}
    BY DEF Init
  <2>2. queue \in [Runs -> Seq(Inventories)]
    BY DEF Init
  <2>3. /\ pc \in [Runs -> Writing \cup {"stopped", "merge", "rejected"}]
        /\ DOMAIN upstreams = Runs /\ DOMAIN paths = Runs /\ DOMAIN merged = Runs
    BY DEF Init
  <2> QED
    BY <2>1, <2>2, <2>3, NothingMerged DEF MemoryInv
<1>2. FilesInv
  BY DEF Init, FilesInv, WritesInv, OnePathEach, OnePathEach,
         ReportMatches, NoManifest, NoReport, ManifestFile, ReportFile, Writing
<1> QED
  BY <1>1, <1>2 DEF IndInv

\* An inventory that is merged brings at least one entry, and all its entries
\* are of its upstream.
LEMMA CarryUpstream ==
  ASSUME NEW inv \in Inventories, ValidInventory(inv)
  PROVE  {e.upstream : e \in Carry(inv)} = {inv.upstream}
<1>1. 1 \in DOMAIN inv.entries
  BY DEF ValidInventory, Inventories
<1>2. \A e \in Carry(inv) : e.upstream = inv.upstream
  BY DEF Carry
<1>3. \E e \in Carry(inv) : TRUE
  BY <1>1 DEF Carry
<1> QED
  BY <1>2, <1>3

LEMMA MergeKeepsMemory ==
  ASSUME MemoryInv, NEW r \in Runs, MergeInventory(r)
  PROVE  MemoryInv'
<1> DEFINE inv == Head(queue[r])
<1> USE DEF MemoryInv, MergeInventory, given, files
<1>1. inv \in Inventories /\ Tail(queue[r]) \in Seq(Inventories)
  OBVIOUS
<1>2. ValidInventory(inv) /\ \A e \in Carry(inv) : PathsOf(e) \cap paths[r] = {}
  BY DEF Mergeable
<1>3. OnePathEach(merged[r] \cup Carry(inv))
  BY <1>2, CarryOnePath, UnionOnePath
<1>4. upstreams'[r] = {e.upstream : e \in merged'[r]}
  <2>1. {e.upstream : e \in Carry(inv)} = {inv.upstream}
    BY <1>1, <1>2, CarryUpstream
  <2> HIDE DEF inv
  <2>2. upstreams'[r] = upstreams[r] \cup {inv.upstream} /\ merged'[r] = merged[r] \cup Carry(inv)
    BY DEF inv
  <2> QED
    BY <2>1, <2>2
<1>5. \A e \in merged'[r] : PathsOf(e) \subseteq paths'[r]
  OBVIOUS
<1>6. OnePathEach(merged'[r])
  BY <1>3
<1>7. \A o \in Runs \ {r} : UNCHANGED <<merged[o], paths[o], upstreams[o]>>
  OBVIOUS
<1>8. \A o \in Runs \ {r} :
        /\ OnePathEach(merged'[o])
        /\ \A e \in merged'[o] : PathsOf(e) \subseteq paths'[o]
        /\ upstreams'[o] = {e.upstream : e \in merged'[o]}
  BY <1>7
<1>9. /\ pc' = pc
      /\ queue' \in [Runs -> Seq(Inventories)]
      /\ DOMAIN upstreams' = Runs /\ DOMAIN paths' = Runs /\ DOMAIN merged' = Runs
  BY <1>1
<1> QED
  BY <1>4, <1>5, <1>6, <1>8, <1>9

\* The other steps leave the tables alone or empty them.
LEMMA OthersKeepMemory ==
  ASSUME MemoryInv, NEW r \in Runs,
         \/ UNCHANGED tables
         \/ /\ upstreams' = [upstreams EXCEPT ![r] = {}]
            /\ paths' = [paths EXCEPT ![r] = {}]
            /\ merged' = [merged EXCEPT ![r] = {}]
            /\ queue' \in [Runs -> Seq(Inventories)],
         pc' \in [Runs -> Writing \cup {"stopped", "merge", "rejected"}]
  PROVE  MemoryInv'
<1>1. CASE UNCHANGED tables
  BY <1>1 DEF MemoryInv, tables
<1>2. CASE ~UNCHANGED tables
  <2>1. merged'[r] = {} /\ paths'[r] = {} /\ upstreams'[r] = {}
    BY <1>2 DEF MemoryInv
  <2>2. \A o \in Runs \ {r} : UNCHANGED <<merged[o], paths[o], upstreams[o]>>
    BY <1>2 DEF MemoryInv
  <2>3. /\ OnePathEach(merged'[r])
        /\ \A e \in merged'[r] : PathsOf(e) \subseteq paths'[r]
        /\ upstreams'[r] = {e.upstream : e \in merged'[r]}
    BY <2>1, NothingMerged
  <2>4. \A o \in Runs \ {r} :
          /\ OnePathEach(merged'[o])
          /\ \A e \in merged'[o] : PathsOf(e) \subseteq paths'[o]
          /\ upstreams'[o] = {e.upstream : e \in merged'[o]}
    BY <2>2 DEF MemoryInv
  <2> QED
    BY <1>2, <2>3, <2>4 DEF MemoryInv
<1> QED
  BY <1>1, <1>2

LEMMA MemoryStep == MemoryInv /\ [Next]_vars => MemoryInv'
<1> SUFFICES ASSUME MemoryInv, [Next]_vars PROVE MemoryInv'
  OBVIOUS
<1>1. ASSUME NEW r \in Runs, NEW i \in Inputs, NEW c \in BOOLEAN, Begin(r, i, c)
      PROVE  MemoryInv'
  <2>1. queue' \in [Runs -> Seq(Inventories)]
    BY <1>1, CorpusMergeAssumption DEF Begin, MemoryInv
  <2> QED
    BY <1>1, <2>1, OthersKeepMemory DEF Begin, MemoryInv, Goto
<1>2. ASSUME NEW r \in Runs, MergeInventory(r) PROVE MemoryInv'
  BY <1>2, MergeKeepsMemory
<1>3. ASSUME NEW r \in Runs, RejectInventory(r) \/ FinishMerge(r) PROVE MemoryInv'
  BY <1>3, OthersKeepMemory DEF RejectInventory, FinishMerge, MemoryInv, Goto, Writing
<1>4. ASSUME NEW r \in Runs, Stop(r) PROVE MemoryInv'
  <2>1. queue' \in [Runs -> Seq(Inventories)]
    BY <1>4 DEF Stop, MemoryInv
  <2> QED
    BY <1>4, <2>1, OthersKeepMemory DEF Stop, MemoryInv, Goto
<1>5. ASSUME NEW r \in Runs, CheckManifest(r) \/ CheckReport(r) PROVE MemoryInv'
  BY <1>4, <1>5, OthersKeepMemory DEF CheckManifest, CheckReport, MemoryInv, Goto, Writing
<1>6. ASSUME NEW r \in Runs, WriteManifest(r) PROVE MemoryInv'
  BY <1>6, OthersKeepMemory DEF WriteManifest, MemoryInv, Goto, Writing
<1>7. ASSUME NEW r \in Runs, WriteReport(r) \/ Abandon(r) PROVE MemoryInv'
  BY <1>4, <1>7 DEF WriteReport, Abandon
<1>8. CASE RemoveManifest \/ RemoveReport \/ UNCHANGED vars
  BY <1>8 DEF RemoveManifest, RemoveReport, vars, tables, MemoryInv
<1> QED
  BY <1>1, <1>2, <1>3, <1>5, <1>6, <1>7, <1>8 DEF Next, Step

\* A step that leaves the files alone keeps what holds of them; what remains is
\* where the writing runs are.
LEMMA UnwrittenFiles ==
  ASSUME FilesInv, UNCHANGED files, disturbed' \in BOOLEAN, disturbed => disturbed',
         ~disturbed' => WritesInv'
  PROVE  FilesInv'
BY DEF FilesInv, files, OnePathEach, ReportMatches

\* A run that ends, or goes on without writing, lets others be.
LEMMA MoveKeepsWrites ==
  ASSUME WritesInv, UNCHANGED files, NEW r \in Runs,
         pc \in [Runs -> Writing \cup {"stopped", "merge", "rejected"}],
         DOMAIN merged = Runs, NEW label, Goto(r, label),
         \A o \in Runs \ {r} : merged'[o] = merged[o],
         \/ label \notin Writing
         \/ /\ pc[r] \in Writing
            /\ label = "write-manifest" => manifest.state = "absent"
            /\ label \in {"new-report", "write-report"} =>
                 manifest = ManifestFile("whole", merged'[r])
  PROVE  WritesInv'
<1>1. pc'[r] = label /\ \A o \in Runs \ {r} : pc'[o] = pc[o]
  BY DEF Goto
<1>2. \A o \in Runs \ {r} : ~(pc[r] \in Writing /\ pc[o] \in Writing)
  BY DEF WritesInv
<1>3. \A q, o \in Runs : pc'[q] \in Writing /\ pc'[o] \in Writing => q = o
  BY <1>1, <1>2 DEF WritesInv
<1>4. \A o \in Runs :
        /\ pc'[o] = "write-manifest" => manifest'.state = "absent"
        /\ pc'[o] \in {"new-report", "write-report"} =>
             manifest' = ManifestFile("whole", merged'[o])
  BY <1>1 DEF WritesInv, files, Writing, ManifestFile
<1>5. report'.state # "absent" => manifest'.state = "whole"
  BY DEF WritesInv, files
<1> QED
  BY <1>3, <1>4, <1>5 DEF WritesInv

LEMMA FilesStep == IndInv /\ [Next]_vars => FilesInv'
<1> SUFFICES ASSUME IndInv, [Next]_vars PROVE FilesInv'
  OBVIOUS
<1> USE DEF IndInv
<1>a. /\ pc \in [Runs -> Writing \cup {"stopped", "merge", "rejected"}]
      /\ DOMAIN merged = Runs
      /\ \A r \in Runs : OnePathEach(merged[r])
      /\ \A r \in Runs : upstreams[r] = {e.upstream : e \in merged[r]}
  BY DEF MemoryInv
<1>b. disturbed \in BOOLEAN /\ (~disturbed => WritesInv)
  BY DEF FilesInv
<1>c. ASSUME NEW r \in Runs, Stop(r)
      PROVE  Goto(r, "stopped") /\ \A o \in Runs \ {r} : merged'[o] = merged[o]
  BY <1>a, <1>c DEF Stop
<1>1. ASSUME NEW r \in Runs, NEW i \in Inputs, NEW c \in BOOLEAN, Begin(r, i, c)
      PROVE  FilesInv'
  BY <1>a, <1>b, <1>1, MoveKeepsWrites, UnwrittenFiles DEF Begin, Writing
<1>2. ASSUME NEW r \in Runs, MergeInventory(r) PROVE FilesInv'
  <2>1. ~disturbed => WritesInv'
    BY <1>a, <1>b, <1>2 DEF MergeInventory, WritesInv, files
  <2> QED
    BY <1>b, <1>2, <2>1, UnwrittenFiles DEF MergeInventory
<1>3. ASSUME NEW r \in Runs, RejectInventory(r) PROVE FilesInv'
  BY <1>a, <1>b, <1>3, MoveKeepsWrites, UnwrittenFiles DEF RejectInventory, Writing, tables
<1>4. ASSUME NEW r \in Runs, FinishMerge(r) PROVE FilesInv'
  <2>1. CASE Goto(r, "rejected") /\ UNCHANGED disturbed
    BY <1>a, <1>b, <1>4, <2>1, MoveKeepsWrites, UnwrittenFiles DEF FinishMerge, Writing, tables
  <2>2. CASE /\ Goto(r, "new-manifest")
             /\ disturbed' = (disturbed \/ \E o \in Runs \ {r} : pc[o] \in Writing)
    <3>1. UNCHANGED files /\ UNCHANGED merged
      BY <1>4 DEF FinishMerge, tables
    <3>2. pc'[r] = "new-manifest" /\ \A o \in Runs \ {r} : pc'[o] = pc[o]
      BY <1>a, <2>2 DEF Goto
    <3>3. ~disturbed' => ~disturbed /\ \A o \in Runs \ {r} : pc[o] \notin Writing
      BY <2>2
    <3>4. ~disturbed' => WritesInv'
      BY <1>a, <1>b, <3>1, <3>2, <3>3 DEF WritesInv, files, Writing
    <3>5. disturbed' \in BOOLEAN /\ (disturbed => disturbed')
      BY <1>b, <2>2
    <3> QED
      BY <3>1, <3>4, <3>5, UnwrittenFiles
  <2> QED
    BY <1>4, <2>1, <2>2 DEF FinishMerge
<1>5. ASSUME NEW r \in Runs, CheckManifest(r) PROVE FilesInv'
  <2>1. CASE Stop(r)
    BY <1>a, <1>b, <1>c, <1>5, <2>1, MoveKeepsWrites, UnwrittenFiles
       DEF CheckManifest, Writing
  <2>2. CASE manifest.state = "absent" /\ Goto(r, "write-manifest") /\ UNCHANGED tables
    BY <1>a, <1>b, <1>5, <2>2, MoveKeepsWrites, UnwrittenFiles
       DEF CheckManifest, Writing, tables
  <2> QED
    BY <1>5, <2>1, <2>2 DEF CheckManifest
<1>6. ASSUME NEW r \in Runs, WriteManifest(r) PROVE FilesInv'
  BY <1>a, <1>6 DEF WriteManifest, tables, ManifestFile, FilesInv, WritesInv, Goto,
     OnePathEach, ReportMatches, Writing
<1>7. ASSUME NEW r \in Runs, CheckReport(r) PROVE FilesInv'
  <2>1. CASE Stop(r)
    BY <1>a, <1>b, <1>c, <1>7, <2>1, MoveKeepsWrites, UnwrittenFiles
       DEF CheckReport, Writing
  <2>2. CASE Goto(r, "write-report") /\ UNCHANGED tables
    <3>1. ~disturbed => manifest = ManifestFile("whole", merged[r])
      BY <1>b, <1>7 DEF CheckReport, WritesInv
    <3> QED
      BY <1>a, <1>b, <1>7, <2>2, <3>1, MoveKeepsWrites, UnwrittenFiles
         DEF CheckReport, Writing, tables
  <2> QED
    BY <1>7, <2>1, <2>2 DEF CheckReport
<1>8. ASSUME NEW r \in Runs, WriteReport(r) \/ Abandon(r) PROVE FilesInv'
  <2>1. Stop(r) /\ UNCHANGED disturbed
    BY <1>8 DEF WriteReport, Abandon
  <2>2. pc'[r] = "stopped" /\ \A o \in Runs \ {r} : pc'[o] = pc[o] /\ merged'[o] = merged[o]
    BY <1>a, <1>c, <2>1 DEF Goto
  <2>3. CASE WriteReport(r)
    <3>1. UNCHANGED manifest /\ report' = ReportFile("whole", merged[r], Complete(r))
      BY <2>3 DEF WriteReport
    <3>2. ~disturbed => manifest = ManifestFile("whole", merged[r])
      BY <1>b, <2>3 DEF WriteReport, WritesInv
    <3>3. ~disturbed => WritesInv'
      BY <1>a, <1>b, <2>2, <3>1, <3>2 DEF WritesInv, ManifestFile, ReportFile, Writing
    <3>4. ReportMatches'
      <4>1. Complete(r) <=> /\ Cardinality(merged[r]) = Target
                            /\ {e.upstream : e \in merged[r]} = UpstreamSet
        BY <1>a DEF Complete
      <4>2. report'.entries = merged[r] /\ report'.complete = Complete(r)
        BY <3>1 DEF ReportFile
      <4>3. ~disturbed => manifest' = ManifestFile("whole", merged[r]) /\ manifest'.entries = merged[r]
        BY <3>1, <3>2 DEF ManifestFile
      <4> QED
        BY <2>1, <4>1, <4>2, <4>3 DEF ReportMatches
    <3> QED
      BY <1>b, <2>1, <3>1, <3>3, <3>4 DEF FilesInv, OnePathEach
  <2>4. CASE UNCHANGED files
    BY <1>a, <1>b, <1>c, <2>1, <2>4, MoveKeepsWrites, UnwrittenFiles DEF Writing
  <2>5. CASE pc[r] = "write-manifest" /\ manifest' = ManifestFile("torn", {}) /\ UNCHANGED report
    <3>1. ~disturbed => report.state = "absent"
      BY <1>b, <2>5 DEF WritesInv
    <3>2. ~disturbed => \A o \in Runs : pc'[o] \notin Writing
      BY <1>b, <2>2, <2>5 DEF WritesInv, Writing
    <3>3. ~disturbed => WritesInv'
      BY <2>5, <3>1, <3>2 DEF WritesInv, Writing
    <3> QED
      BY <1>b, <2>1, <2>5, <3>1, <3>3, NothingMerged
         DEF FilesInv, OnePathEach, ManifestFile, ReportMatches
  <2>6. CASE pc[r] = "write-report" /\ report' = ReportFile("torn", {}, FALSE) /\ UNCHANGED manifest
    <3>1. ~disturbed => manifest.state = "whole"
      BY <1>b, <2>6 DEF WritesInv, ManifestFile
    <3>2. ~disturbed => \A o \in Runs : pc'[o] \notin Writing
      BY <1>b, <2>2, <2>6 DEF WritesInv, Writing
    <3>3. ~disturbed => WritesInv'
      BY <2>6, <3>1, <3>2 DEF WritesInv, Writing
    <3> QED
      BY <1>b, <2>1, <2>6, <3>3
         DEF FilesInv, OnePathEach, ReportFile, ReportMatches
  <2> QED
    BY <1>8, <2>3, <2>4, <2>5, <2>6 DEF Abandon
<1>9. CASE RemoveManifest
  <2>1. manifest' = ManifestFile("absent", {}) /\ UNCHANGED <<report, pc, tables>>
    BY <1>9 DEF RemoveManifest, NoManifest
  <2>2. disturbed' \in BOOLEAN
    BY <1>b, <1>9 DEF RemoveManifest, Busy
  <2>3. ~disturbed' => ~disturbed /\ report.state = "absent" /\ \A r \in Runs : pc[r] \notin Writing
    BY <1>9 DEF RemoveManifest, Busy
  <2>4. ~disturbed' => WritesInv'
    BY <2>1, <2>3 DEF WritesInv, Writing
  <2>5. OnePathEach(manifest.entries)'
    BY <2>1, NothingMerged DEF ManifestFile
  <2>6. ReportMatches'
    BY <2>1, <2>3 DEF ReportMatches
  <2> QED
    BY <2>2, <2>4, <2>5, <2>6 DEF FilesInv
<1>11. CASE RemoveReport
  <2>1. report' = ReportFile("absent", {}, FALSE) /\ UNCHANGED <<manifest, pc, tables>>
    BY <1>11 DEF RemoveReport, NoReport
  <2>2. disturbed' \in BOOLEAN
    BY <1>b, <1>11 DEF RemoveReport, Busy
  <2>3. ~disturbed' => ~disturbed \/ \A r \in Runs : pc[r] \notin Writing
    BY <1>11 DEF RemoveReport, Busy
  <2>4. ~disturbed' => WritesInv'
    <3>1. report'.state = "absent"
      BY <2>1 DEF ReportFile
    <3>2. merged' = merged
      BY <2>1 DEF tables
    <3>3. CASE ~disturbed
      BY <1>b, <2>1, <3>1, <3>2, <3>3 DEF WritesInv, Writing
    <3>4. CASE \A r \in Runs : pc[r] \notin Writing
      BY <2>1, <3>1, <3>4 DEF WritesInv, Writing
    <3> QED
      BY <2>3, <3>3, <3>4
  <2>5. OnePathEach(manifest.entries)'
    BY <2>1 DEF FilesInv, OnePathEach
  <2>6. ReportMatches'
    BY <2>1 DEF ReportMatches, ReportFile
  <2> QED
    BY <2>2, <2>4, <2>5, <2>6 DEF FilesInv
<1>10. CASE UNCHANGED vars
  BY <1>10 DEF vars, FilesInv, WritesInv, OnePathEach, ReportMatches
<1> QED
  BY <1>1, <1>2, <1>3, <1>4, <1>5, <1>6, <1>7, <1>8, <1>9, <1>10, <1>11 DEF Next, Step

LEMMA IndInvHolds == Spec => []IndInv
<1>1. IndInv /\ [Next]_vars => IndInv'
  BY MemoryStep, FilesStep DEF IndInv
<1> QED
  BY IndInit, <1>1, PTL DEF Spec

\* No two entries of a manifest share a file that both spell in normal form, for
\* any inventories in any order and any spellings: the premise under which
\* ShardBuild gives every entry a recipe of its own.
THEOREM ManifestOneFile == Spec => []OneFilePerEntry
<1>1. ASSUME OnePathEach(manifest.entries) PROVE OneFilePerEntry
  <2> SUFFICES ASSUME NEW d \in manifest.entries, NEW e \in manifest.entries,
                      NEW g \in Fields, NEW h \in Fields, SameFile(d, g, e, h),
                      d.paths[g] \in Normal, e.paths[h] \in Normal
               PROVE  d = e /\ g = h
    BY DEF OneFilePerEntry
  <2>1. d.paths[g] = e.paths[h]
    BY CorpusMergeAssumption DEF SameFile
  <2>2. Clash(d, g, e, h)
    BY <2>1 DEF SameFile, Clash, PathAt
  <2> QED
    BY <1>1, <2>2 DEF OnePathEach
<1>2. IndInv => OneFilePerEntry
  BY <1>1 DEF IndInv, FilesInv
<1> QED
  BY <1>2, IndInvHolds, PTL

-----------------------------------------------------------------------------
(***************************************************************************)
(* Types, and what a run has merged of its input.                          *)
(***************************************************************************)

LEMMA CarryType ==
  ASSUME NEW inv \in Inventories
  PROVE  Carry(inv) \subseteq Entries
<1> SUFFICES ASSUME NEW i \in DOMAIN inv.entries
             PROVE  [upstream |-> inv.upstream, package |-> inv.entries[i].package,
                     version |-> inv.entries[i].version, strategy |-> inv.entries[i].strategy,
                     paths |-> inv.entries[i].paths] \in Entries
  BY DEF Carry
<1>1. inv.upstream \in UpstreamSet /\ inv.entries \in Seq(InventoryEntries)
  BY DEF Inventories
<1>2. inv.entries[i] \in InventoryEntries
  BY <1>1
<1> QED
  BY <1>1, <1>2 DEF InventoryEntries, Entries

LEMMA TypeInit == Init => TypeOK
<1> SUFFICES ASSUME Init PROVE TypeOK
  OBVIOUS
<1>1. /\ manifest.state = "absent" /\ manifest.entries = {}
      /\ report.state = "absent" /\ report.entries = {} /\ report.complete = FALSE
  BY DEF Init, NoManifest, NoReport, ManifestFile, ReportFile
<1>2. /\ pc \in [Runs -> Writing \cup {"stopped", "merge", "rejected"}]
      /\ input \in [Runs -> Inputs \cup {<<>>}]
      /\ required \in [Runs -> BOOLEAN]
      /\ disturbed \in BOOLEAN
  BY DEF Init
<1>3. queue \in [Runs -> Seq(Inventories)] /\ upstreams \in [Runs -> SUBSET UpstreamSet]
  BY DEF Init
<1>4. DOMAIN paths = Runs /\ DOMAIN merged = Runs /\ \A r \in Runs : merged[r] \subseteq Entries
  BY DEF Init
<1> QED
  BY <1>1, <1>2, <1>3, <1>4 DEF TypeOK

LEMMA StopType ==
  ASSUME TypeOK, NEW r \in Runs, Stop(r)
  PROVE  /\ pc' \in [Runs -> Writing \cup {"stopped", "merge", "rejected"}]
         /\ input' \in [Runs -> Inputs \cup {<<>>}]
         /\ required' \in [Runs -> BOOLEAN]
         /\ queue' \in [Runs -> Seq(Inventories)]
         /\ upstreams' \in [Runs -> SUBSET UpstreamSet]
         /\ DOMAIN paths' = Runs
         /\ DOMAIN merged' = Runs
         /\ \A o \in Runs : merged'[o] \subseteq Entries
BY DEF TypeOK, Stop, Goto

LEMMA TypeStep == TypeOK /\ [Next]_vars => TypeOK'
<1> SUFFICES ASSUME TypeOK, [Next]_vars PROVE TypeOK'
  OBVIOUS
<1>1. ASSUME NEW r \in Runs, NEW i \in Inputs, NEW c \in BOOLEAN, Begin(r, i, c)
      PROVE  TypeOK'
  <2>1. i \in Seq(Inventories)
    BY CorpusMergeAssumption
  <2>2. queue' \in [Runs -> Seq(Inventories)]
    BY <1>1, <2>1 DEF Begin, TypeOK
  <2>3. \A o \in Runs : merged'[o] \subseteq Entries
    BY <1>1 DEF Begin, TypeOK
  <2> QED
    BY <1>1, <2>2, <2>3 DEF Begin, TypeOK, Goto, files
<1>2. ASSUME NEW r \in Runs, MergeInventory(r) PROVE TypeOK'
  <2> DEFINE inv == Head(queue[r])
  <2>1. inv \in Inventories /\ Tail(queue[r]) \in Seq(Inventories)
    BY <1>2 DEF TypeOK, MergeInventory
  <2>2. Carry(inv) \subseteq Entries /\ inv.upstream \in UpstreamSet
    BY <2>1, CarryType DEF Inventories
  <2>3. queue' \in [Runs -> Seq(Inventories)]
    BY <1>2, <2>1 DEF TypeOK, MergeInventory
  <2>4. upstreams' \in [Runs -> SUBSET UpstreamSet]
    BY <1>2, <2>2 DEF TypeOK, MergeInventory
  <2>5. DOMAIN merged' = Runs /\ \A o \in Runs : merged'[o] \subseteq Entries
    BY <1>2, <2>2 DEF TypeOK, MergeInventory
  <2>6. DOMAIN paths' = Runs
    BY <1>2 DEF TypeOK, MergeInventory
  <2>7. UNCHANGED <<files, pc, given, disturbed>>
    BY <1>2 DEF MergeInventory
  <2> QED
    BY <2>3, <2>4, <2>5, <2>6, <2>7 DEF TypeOK, files, given
<1>3. ASSUME NEW r \in Runs, RejectInventory(r) \/ FinishMerge(r) PROVE TypeOK'
  BY <1>3 DEF TypeOK, RejectInventory, FinishMerge, Goto, Writing, files, given, tables
<1>4. ASSUME NEW r \in Runs, CheckManifest(r) \/ CheckReport(r) PROVE TypeOK'
  <2>1. UNCHANGED <<files, disturbed>>
    BY <1>4 DEF CheckManifest, CheckReport
  <2>2. CASE Stop(r)
    BY <2>1, <2>2, StopType DEF TypeOK, files
  <2>3. CASE ~Stop(r)
    BY <1>4, <2>1, <2>3 DEF TypeOK, CheckManifest, CheckReport, Goto, Writing, files, given, tables
  <2> QED
    BY <2>2, <2>3
<1>5. ASSUME NEW r \in Runs, WriteManifest(r) PROVE TypeOK'
  BY <1>5 DEF TypeOK, WriteManifest, ManifestFile, Goto, Writing, given, tables
<1>6. ASSUME NEW r \in Runs, WriteReport(r) \/ Abandon(r) PROVE TypeOK'
  <2>1. Stop(r) /\ UNCHANGED disturbed
    BY <1>6 DEF WriteReport, Abandon
  <2>2. /\ manifest'.state \in {"absent", "torn", "whole"}
        /\ manifest'.entries \subseteq Entries
    <3>1. UNCHANGED manifest \/ manifest' = ManifestFile("torn", {})
      BY <1>6 DEF WriteReport, Abandon, files
    <3> QED
      BY <3>1 DEF TypeOK, ManifestFile
  <2>3. \/ UNCHANGED report
        \/ report' = ReportFile("torn", {}, FALSE)
        \/ report' = ReportFile("whole", merged[r], Complete(r))
    <3>1. CASE WriteReport(r)
      BY <3>1 DEF WriteReport
    <3>2. CASE Abandon(r)
      BY <3>2 DEF Abandon, files
    <3> QED
      BY <1>6, <3>1, <3>2
  <2>4. Complete(r) \in BOOLEAN /\ merged[r] \subseteq Entries
    BY DEF Complete, TypeOK
  <2>5. /\ report'.state \in {"absent", "torn", "whole"}
        /\ report'.entries \subseteq Entries
        /\ report'.complete \in BOOLEAN
    <3>1. CASE UNCHANGED report
      BY <3>1 DEF TypeOK
    <3>2. CASE report' = ReportFile("torn", {}, FALSE)
      BY <3>2 DEF ReportFile
    <3>3. ASSUME NEW b \in BOOLEAN, report' = ReportFile("whole", merged[r], b)
          PROVE  /\ report'.state = "whole"
                 /\ report'.entries = merged[r]
                 /\ report'.complete = b
      BY <3>3 DEF ReportFile
    <3> QED
      BY <2>3, <2>4, <3>1, <3>2, <3>3
  <2> QED
    BY <2>1, <2>2, <2>5, StopType DEF TypeOK
<1>7. CASE RemoveManifest \/ RemoveReport
  <2>1. UNCHANGED <<pc, given, tables>>
    BY <1>7 DEF RemoveManifest, RemoveReport
  <2>2. disturbed' \in BOOLEAN
    BY <1>7 DEF RemoveManifest, RemoveReport, Busy, TypeOK
  <2>3. \/ UNCHANGED report /\ manifest' = ManifestFile("absent", {})
        \/ UNCHANGED manifest /\ report' = ReportFile("absent", {}, FALSE)
    BY <1>7 DEF RemoveManifest, RemoveReport, NoManifest, NoReport
  <2>4. /\ manifest'.state \in {"absent", "torn", "whole"}
        /\ manifest'.entries \subseteq Entries
    <3>1. CASE manifest' = ManifestFile("absent", {})
      BY <3>1 DEF ManifestFile
    <3>2. CASE UNCHANGED manifest
      BY <3>2 DEF TypeOK
    <3> QED
      BY <2>3, <3>1, <3>2
  <2>5. /\ report'.state \in {"absent", "torn", "whole"}
        /\ report'.entries \subseteq Entries
        /\ report'.complete \in BOOLEAN
    <3>1. CASE report' = ReportFile("absent", {}, FALSE)
      BY <3>1 DEF ReportFile
    <3>2. CASE UNCHANGED report
      BY <3>2 DEF TypeOK
    <3> QED
      BY <2>3, <3>1, <3>2
  <2> QED
    BY <2>1, <2>2, <2>4, <2>5 DEF TypeOK, given, tables
<1>8. CASE UNCHANGED vars
  BY <1>8 DEF TypeOK, vars
<1> QED
  BY <1>1, <1>2, <1>3, <1>4, <1>5, <1>6, <1>7, <1>8 DEF Next, Step

\* The types of the files and of the memory of every run, for any inventories.
THEOREM TypeCorrect == Spec => []TypeOK
BY TypeInit, TypeStep, PTL DEF Spec

-----------------------------------------------------------------------------
(***************************************************************************)
(* The order of the inventories.  A run that merges has read a prefix of   *)
(* its input: its tables say of that prefix what Sound asks of the whole.  *)
(***************************************************************************)

Read(r) == Len(input[r]) - Len(queue[r])

\* The entries of the first n inventories.
FirstOf(i, n) == UNION {Carry(i[k]) : k \in 1..n}

Merging(r) ==
  /\ Len(queue[r]) <= Len(input[r])
  /\ \A k \in 1..Len(queue[r]) : queue[r][k] = input[r][Read(r) + k]
  /\ \A k \in 1..Read(r) : ValidInventory(input[r][k])
  /\ \A j, k \in 1..Read(r) : input[r][j].upstream = input[r][k].upstream => j = k
  /\ merged[r] = FirstOf(input[r], Read(r))
  /\ upstreams[r] = {input[r][k].upstream : k \in 1..Read(r)}
  /\ paths[r] = UNION {PathsOf(e) : e \in merged[r]}
  /\ IsFiniteSet(merged[r])

OrderInv == OrderDecidesNothing /\ \A r \in Runs : pc[r] = "merge" => Merging(r)

\* The inputs and the queues are sequences of inventories.
LEMMA Sequences ==
  ASSUME TypeOK, NEW r \in Runs
  PROVE  input[r] \in Seq(Inventories) /\ queue[r] \in Seq(Inventories)
<1>1. input[r] \in Inputs \cup {<<>>} /\ queue[r] \in Seq(Inventories)
  BY DEF TypeOK
<1>2. <<>> \in Seq(Inventories)
  OBVIOUS
<1>3. Inputs \subseteq Seq(Inventories)
  BY CorpusMergeAssumption
<1> QED
  BY <1>1, <1>2, <1>3

LEMMA CarryFinite ==
  ASSUME NEW inv \in Inventories
  PROVE  IsFiniteSet(Carry(inv))
<1> DEFINE D == DOMAIN inv.entries
           f == [i \in D |-> [upstream |-> inv.upstream, package |-> inv.entries[i].package,
                              version |-> inv.entries[i].version,
                              strategy |-> inv.entries[i].strategy,
                              paths |-> inv.entries[i].paths]]
<1>1. IsFiniteSet(D)
  <2>1. D = 1..Len(inv.entries) /\ Len(inv.entries) \in Nat
    BY DEF Inventories
  <2> QED
    <3> HIDE DEF D
    <3>1. IsFiniteSet(1..Len(inv.entries))
      BY <2>1, FS_Interval
    <3> QED
      BY <2>1, <3>1
<1>2. f \in Surjection(D, Carry(inv))
  BY DEF Surjection, Carry
<1> QED
  BY <1>1, <1>2, FS_Surjection

\* What the run reads next is the inventory after its prefix.
LEMMA NextRead ==
  ASSUME TypeOK, NEW r \in Runs, Merging(r), queue[r] # <<>>
  PROVE  /\ Read(r) \in Nat /\ Read(r) + 1 \in 1..Len(input[r])
         /\ Head(queue[r]) = input[r][Read(r) + 1]
         /\ Head(queue[r]) \in Inventories
<1>1. Len(queue[r]) \in Nat /\ Len(queue[r]) >= 1 /\ Head(queue[r]) = queue[r][1]
  BY Sequences
<1>2. Len(input[r]) \in Nat
  BY Sequences
<1>3. Head(queue[r]) \in Inventories
  BY Sequences
<1>4. Read(r) = Len(input[r]) - Len(queue[r]) /\ Len(queue[r]) <= Len(input[r])
  BY DEF Read, Merging
<1>5. \A k \in 1..Len(queue[r]) : queue[r][k] = input[r][Read(r) + k]
  BY DEF Merging
<1>6. 1 \in 1..Len(queue[r])
  BY <1>1
<1>7. queue[r][1] = input[r][Read(r) + 1]
  BY <1>5, <1>6
<1>8. Read(r) \in Nat /\ Read(r) + 1 \in 1..Len(input[r])
  <2>1. \A a, b \in Nat : 1 <= b /\ b <= a => a - b \in Nat /\ (a - b) + 1 \in 1..a
    OBVIOUS
  <2>2. Len(queue[r]) \in Nat /\ 1 <= Len(queue[r]) /\ Len(queue[r]) <= Len(input[r])
    BY <1>1, <1>4
  <2> QED
    BY <1>2, <1>4, <2>1, <2>2
<1> QED
  BY <1>1, <1>3, <1>7, <1>8

LEMMA FirstOfNext ==
  ASSUME NEW i, NEW n \in Nat
  PROVE  FirstOf(i, n + 1) = FirstOf(i, n) \cup Carry(i[n + 1])
<1>1. 1..(n + 1) = (1..n) \cup {n + 1}
  OBVIOUS
<1>2. ASSUME NEW e PROVE e \in FirstOf(i, n + 1) <=> e \in FirstOf(i, n) \/ e \in Carry(i[n + 1])
  BY <1>1 DEF FirstOf
<1> QED
  BY <1>2

LEMMA MergeKeepsMerging ==
  ASSUME TypeOK, NEW r \in Runs, Merging(r), MergeInventory(r)
  PROVE  Merging(r)'
<1> DEFINE n == Read(r)
           inv == Head(queue[r])
<1>1. /\ n \in Nat /\ n + 1 \in 1..Len(input[r])
      /\ inv = input[r][n + 1] /\ inv \in Inventories
  BY NextRead DEF MergeInventory
<1>2. /\ UNCHANGED input
      /\ queue'[r] = Tail(queue[r])
      /\ upstreams'[r] = upstreams[r] \cup {inv.upstream}
      /\ paths'[r] = paths[r] \cup UNION {PathsOf(e) : e \in Carry(inv)}
      /\ merged'[r] = merged[r] \cup Carry(inv)
  BY DEF MergeInventory, TypeOK, given
<1>3. ValidInventory(inv) /\ inv.upstream \notin upstreams[r]
  BY DEF MergeInventory, Mergeable
<1>4. /\ Len(queue'[r]) = Len(queue[r]) - 1 /\ Len(queue[r]) \in Nat /\ Len(input[r]) \in Nat
      /\ \A k \in 1..Len(queue'[r]) : queue'[r][k] = queue[r][k + 1]
      /\ Len(queue[r]) >= 1
  <2>1. queue[r] \in Seq(Inventories) /\ input[r] \in Seq(Inventories) /\ queue[r] # <<>>
    BY Sequences DEF MergeInventory
  <2>2. \A s \in Seq(Inventories) : s # <<>> =>
          /\ Len(Tail(s)) = Len(s) - 1 /\ Len(s) \in Nat /\ Len(s) >= 1
          /\ \A k \in 1..Len(Tail(s)) : Tail(s)[k] = s[k + 1]
    OBVIOUS
  <2> QED
    BY <1>2, <2>1, <2>2
<1>5. Read(r)' = n + 1 /\ Len(queue'[r]) <= Len(input[r])
  <2>1. Read(r)' = Len(input[r]) - Len(queue'[r])
    BY <1>2 DEF Read
  <2>2. n = Len(input[r]) - Len(queue[r]) /\ Len(queue[r]) <= Len(input[r])
    BY DEF Read, Merging
  <2>3. Len(queue'[r]) = Len(queue[r]) - 1 /\ Len(queue[r]) \in Nat /\ Len(input[r]) \in Nat
    BY <1>4
  <2> HIDE DEF n
  <2> QED
    BY <2>1, <2>2, <2>3
<1>6. \A k \in 1..Len(queue'[r]) : queue'[r][k] = input[r][n + 1 + k]
  <2> SUFFICES ASSUME NEW k \in 1..Len(queue'[r]) PROVE queue[r][k + 1] = input[r][n + 1 + k]
    BY <1>4
  <2>1. k + 1 \in 1..Len(queue[r]) /\ n + (k + 1) = n + 1 + k
    <3>1. Len(queue'[r]) = Len(queue[r]) - 1 /\ Len(queue[r]) \in Nat /\ n \in Nat
      BY <1>1, <1>4
    <3> HIDE DEF n
    <3> QED
      BY <3>1
  <2>2. queue[r][k + 1] = input[r][n + (k + 1)]
    BY <2>1 DEF Merging
  <2> QED
    BY <2>1, <2>2
<1>7. 1..(n + 1) = (1..n) \cup {n + 1} /\ n + 1 \notin 1..n
  BY <1>1
<1>8. \A k \in 1..(n + 1) : ValidInventory(input[r][k])
  BY <1>1, <1>3, <1>7 DEF Merging
<1>9. upstreams'[r] = {input[r][k].upstream : k \in 1..(n + 1)}
  <2>1. upstreams[r] = {input[r][k].upstream : k \in 1..n}
    BY DEF Merging
  <2> HIDE DEF n, inv
  <2> QED
    BY <1>1, <1>2, <1>7, <2>1
<1>10. \A j, k \in 1..(n + 1) : input[r][j].upstream = input[r][k].upstream => j = k
  <2>1. \A j \in 1..n : input[r][j].upstream # input[r][n + 1].upstream
    BY <1>1, <1>3 DEF Merging
  <2>2. \A j, k \in 1..n : input[r][j].upstream = input[r][k].upstream => j = k
    BY DEF Merging
  <2> HIDE DEF n, inv
  <2> QED
    BY <1>7, <2>1, <2>2
<1>11. merged'[r] = FirstOf(input[r], n + 1)
  BY <1>1, <1>2, FirstOfNext DEF Merging
<1>12. paths'[r] = UNION {PathsOf(e) : e \in merged'[r]}
  <2>1. paths[r] = UNION {PathsOf(e) : e \in merged[r]}
    BY DEF Merging
  <2>2. ASSUME NEW x PROVE x \in paths'[r] <=> \E e \in merged'[r] : x \in PathsOf(e)
    BY <1>2, <2>1
  <2> QED
    BY <2>2
<1>13. IsFiniteSet(merged'[r])
  <2>1. IsFiniteSet(merged[r]) /\ IsFiniteSet(Carry(inv))
    BY <1>1, CarryFinite DEF Merging
  <2>2. IsFiniteSet(merged[r] \cup Carry(inv))
    BY <2>1, FS_Union
  <2> QED
    BY <1>2, <2>2
<1> HIDE DEF n, inv
<1>14. input'[r] = input[r]
  BY <1>2
<1> QED
  BY <1>14, <1>5, <1>6, <1>8, <1>9, <1>10, <1>11, <1>12, <1>13 DEF Merging

\* An entry of a prefix is of an inventory of it, and has its upstream.
LEMMA EntryOfPrefix ==
  ASSUME NEW i, NEW n, NEW e \in FirstOf(i, n)
  PROVE  \E k \in 1..n : e \in Carry(i[k]) /\ e.upstream = i[k].upstream
BY DEF FirstOf, Carry

\* A run rejects an inventory only of an input that is not sound as a whole.
LEMMA RejectedUnsound ==
  ASSUME TypeOK, NEW r \in Runs, Merging(r), RejectInventory(r)
  PROVE  ~Sound(input[r])
<1> DEFINE n == Read(r)
           i == input[r]
           inv == i[n + 1]
<1>1. /\ n \in Nat /\ n + 1 \in 1..Len(i)
      /\ Head(queue[r]) = inv
  BY NextRead DEF RejectInventory
<1>2. ~Mergeable(r, inv)
  BY <1>1 DEF RejectInventory
<1>3. DOMAIN i = 1..Len(i) /\ Len(i) \in Nat
  BY Sequences
<1>4. 1..n \subseteq DOMAIN i /\ n + 1 \in DOMAIN i /\ n + 1 \notin 1..n
  BY <1>1, <1>3
<1> SUFFICES ASSUME Sound(i) PROVE FALSE
  OBVIOUS
<1>5. ValidInventory(inv)
  BY <1>4 DEF Sound
<1>6. inv.upstream \notin upstreams[r]
  <2>1. \A k \in 1..n : i[k].upstream # inv.upstream
    BY <1>4 DEF Sound
  <2> QED
    BY <2>1 DEF Merging
<1>7. PICK e \in Carry(inv) : PathsOf(e) \cap paths[r] # {}
  BY <1>2, <1>5, <1>6 DEF Mergeable
<1>8. PICK x \in PathsOf(e) : \E d \in merged[r] : x \in PathsOf(d)
  BY <1>7 DEF Merging
<1>9. PICK d \in merged[r] : x \in PathsOf(d)
  BY <1>8
<1>10. PICK k \in 1..n : d \in Carry(i[k]) /\ d.upstream = i[k].upstream
  BY <1>9, EntryOfPrefix DEF Merging
<1>11. d \in AllEntries(i) /\ e \in AllEntries(i)
  BY <1>4, <1>7, <1>10 DEF AllEntries
<1>12. \E g, h \in Fields : Clash(d, g, e, h)
  BY <1>8, <1>9 DEF PathsOf, Clash
<1>13. d = e
  BY <1>11, <1>12 DEF Sound, OnePathEach
<1>14. e.upstream = inv.upstream
  BY <1>7 DEF Carry
<1> QED
  BY <1>6, <1>10, <1>13, <1>14 DEF Merging

\* A run that has read its whole input has merged all of it.
LEMMA ReadAll ==
  ASSUME TypeOK, NEW r \in Runs, Merging(r), queue[r] = <<>>
  PROVE  /\ \A k \in DOMAIN input[r] : ValidInventory(input[r][k])
         /\ \A j, k \in DOMAIN input[r] : input[r][j].upstream = input[r][k].upstream => j = k
         /\ merged[r] = AllEntries(input[r])
         /\ Cardinality(merged[r]) \in Nat
         /\ Complete(r) <=> AllOf(input[r])
<1>1. Len(queue[r]) = 0 /\ Len(input[r]) \in Nat /\ DOMAIN input[r] = 1..Len(input[r])
  BY Sequences
<1>2. Read(r) = Len(input[r])
  BY <1>1 DEF Read
<1>3. 1..Read(r) = DOMAIN input[r]
  BY <1>1, <1>2
<1>4. merged[r] = AllEntries(input[r])
  BY <1>3 DEF Merging, FirstOf, AllEntries
<1>5. upstreams[r] = {input[r][k].upstream : k \in DOMAIN input[r]}
  BY <1>3 DEF Merging
<1>6. Cardinality(merged[r]) \in Nat
  BY FS_CardinalityType DEF Merging
<1>7. Complete(r) <=> AllOf(input[r])
  BY <1>4, <1>5 DEF Complete, AllOf
<1> QED
  BY <1>3, <1>4, <1>6, <1>7 DEF Merging

LEMMA FinishKeepsOrder ==
  ASSUME TypeOK, MemoryInv, NEW r \in Runs, Merging(r), FinishMerge(r)
  PROVE  /\ pc'[r] = "new-manifest" =>
              /\ Sound(input[r])
              /\ merged[r] = AllEntries(input[r])
              /\ required[r] => AllOf(input[r])
         /\ pc'[r] = "rejected" =>
              ~Sound(input[r]) \/ (required[r] /\ ~AllOf(input[r]))
         /\ pc'[r] \in {"new-manifest", "rejected"}
<1>1. queue[r] = <<>>
  BY DEF FinishMerge
<1>2. OnePathEach(merged[r])
  BY DEF MemoryInv
<1>3. Target \in Nat
  BY CorpusMergeAssumption
<1>4. CASE Cardinality(merged[r]) > Target \/ (required[r] /\ ~Complete(r))
  <2>1. pc'[r] = "rejected"
    BY <1>4 DEF FinishMerge, Goto, TypeOK
  <2>2. Cardinality(merged[r]) > Target => ~Sound(input[r])
    BY <1>1, <1>3, ReadAll DEF Sound
  <2> QED
    BY <1>1, <1>4, <2>1, <2>2, ReadAll
<1>5. CASE ~(Cardinality(merged[r]) > Target \/ (required[r] /\ ~Complete(r)))
  <2>1. pc'[r] = "new-manifest"
    BY <1>5 DEF FinishMerge, Goto, TypeOK
  <2>2. Cardinality(AllEntries(input[r])) <= Target
    BY <1>1, <1>3, <1>5, ReadAll
  <2>3. Sound(input[r])
    BY <1>1, <1>2, <2>2, ReadAll DEF Sound
  <2> QED
    BY <1>1, <1>5, <2>1, <2>3, ReadAll
<1> QED
  BY <1>4, <1>5

\* The tables of a run that keeps its memory say the same.
LEMMA MergingStays ==
  ASSUME NEW r \in Runs, Merging(r),
         input'[r] = input[r], queue'[r] = queue[r], merged'[r] = merged[r],
         upstreams'[r] = upstreams[r], paths'[r] = paths[r]
  PROVE  Merging(r)'
<1>1. Read(r)' = Read(r)
  BY DEF Read
<1> QED
  BY <1>1 DEF Merging

\* A run that begins has read nothing.
LEMMA MergingBegins ==
  ASSUME NEW r \in Runs, NEW i \in Inputs, input'[r] = i, queue'[r] = i,
         merged'[r] = {}, upstreams'[r] = {}, paths'[r] = {}
  PROVE  Merging(r)'
<1>1. i \in Seq(Inventories)
  BY CorpusMergeAssumption
<1>2. Read(r)' = 0 /\ 1..0 = {}
  BY <1>1 DEF Read
<1>3. /\ Len(queue'[r]) <= Len(input'[r])
      /\ \A k \in 1..Len(queue'[r]) : queue'[r][k] = input'[r][0 + k]
  BY <1>1
<1>4. merged'[r] = FirstOf(input'[r], 0)
  BY <1>2 DEF FirstOf
<1>5. upstreams'[r] = {input'[r][k].upstream : k \in 1..0}
  BY <1>2
<1>6. paths'[r] = UNION {PathsOf(e) : e \in merged'[r]}
  OBVIOUS
<1>7. IsFiniteSet(merged'[r])
  BY FS_EmptySet
<1> QED
  BY <1>2, <1>3, <1>4, <1>5, <1>6, <1>7 DEF Merging

\* What OrderInv says of one run.
Decided(r) ==
  /\ pc[r] = "merge" => Merging(r)
  /\ pc[r] \in Writing =>
       /\ Sound(input[r])
       /\ merged[r] = AllEntries(input[r])
       /\ required[r] => AllOf(input[r])
  /\ pc[r] = "rejected" =>
       ~Sound(input[r]) \/ (required[r] /\ ~AllOf(input[r]))

LEMMA DecidedIsOrder == OrderInv <=> \A r \in Runs : Decided(r)
BY DEF OrderInv, OrderDecidesNothing, Decided

\* A run that leaves its memory alone and does not come to another part.
LEMMA DecidedStays ==
  ASSUME NEW r \in Runs, Decided(r),
         input'[r] = input[r], required'[r] = required[r], queue'[r] = queue[r],
         merged'[r] = merged[r], upstreams'[r] = upstreams[r], paths'[r] = paths[r],
         \/ pc'[r] = pc[r]
         \/ pc[r] \in Writing /\ pc'[r] \in Writing
  PROVE  Decided(r)'
<1>1. pc[r] = "merge" => Merging(r)'
  BY MergingStays DEF Decided
<1>2. pc'[r] = "merge" => pc[r] = "merge"
  BY DEF Writing
<1>3. pc'[r] = "rejected" => pc[r] = "rejected"
  BY DEF Writing
<1>4. pc'[r] \in Writing => pc[r] \in Writing
  OBVIOUS
<1> QED
  BY <1>1, <1>2, <1>3, <1>4 DEF Decided

LEMMA StepDecides ==
  ASSUME TypeOK, MemoryInv, NEW r \in Runs, Decided(r), Step(r)
  PROVE  Decided(r)'
<1>a. pc \in [Runs -> Writing \cup {"stopped", "merge", "rejected"}]
  BY DEF TypeOK
<1>b. ASSUME Stop(r) PROVE Decided(r)'
  BY <1>a, <1>b DEF Stop, Goto, Decided, Writing
<1>1. ASSUME NEW i \in Inputs, NEW c \in BOOLEAN, Begin(r, i, c)
      PROVE  Decided(r)'
  <2>1. pc'[r] = "merge"
    BY <1>1, <1>a DEF Begin, Goto
  <2>2. /\ input'[r] = i /\ queue'[r] = i
        /\ merged'[r] = {} /\ upstreams'[r] = {} /\ paths'[r] = {}
    BY <1>1 DEF Begin, TypeOK
  <2> QED
    BY <2>1, <2>2, MergingBegins DEF Decided, Writing
<1>2. CASE MergeInventory(r)
  <2>1. pc[r] = "merge" /\ pc'[r] = "merge"
    BY <1>2 DEF MergeInventory
  <2> QED
    BY <1>2, <2>1, MergeKeepsMerging DEF Decided, Writing
<1>3. CASE RejectInventory(r)
  <2>1. pc[r] = "merge" /\ pc'[r] = "rejected" /\ UNCHANGED input
    BY <1>3, <1>a DEF RejectInventory, Goto, given
  <2>2. ~Sound(input[r])
    BY <1>3, <2>1, RejectedUnsound DEF Decided
  <2>3. Sound(input[r])' = Sound(input[r])
    BY <2>1 DEF Sound, AllEntries
  <2> QED
    BY <2>1, <2>2, <2>3 DEF Decided, Writing
<1>4. CASE FinishMerge(r)
  <2>1. pc[r] = "merge" /\ UNCHANGED <<input, required, merged>>
    BY <1>4 DEF FinishMerge, given, tables
  <2>2. /\ pc'[r] = "new-manifest" =>
              /\ Sound(input[r])
              /\ merged[r] = AllEntries(input[r])
              /\ required[r] => AllOf(input[r])
        /\ pc'[r] = "rejected" =>
              ~Sound(input[r]) \/ (required[r] /\ ~AllOf(input[r]))
        /\ pc'[r] \in {"new-manifest", "rejected"}
    BY <1>4, <2>1, FinishKeepsOrder DEF Decided
  <2> QED
    BY <2>1, <2>2 DEF Decided, Writing, Sound, AllOf, AllEntries
<1>5. CASE CheckManifest(r)
  <2>1. ~Stop(r) => /\ pc[r] \in Writing /\ pc'[r] \in Writing
                    /\ UNCHANGED <<given, tables>>
    BY <1>5, <1>a DEF CheckManifest, Goto, Writing
  <2> QED
    BY <1>b, <2>1, DecidedStays DEF given, tables
<1>6. CASE WriteManifest(r) \/ CheckReport(r)
  <2>1. ~Stop(r) => /\ pc[r] \in Writing /\ pc'[r] \in Writing
                    /\ UNCHANGED <<given, tables>>
    BY <1>6, <1>a DEF WriteManifest, CheckReport, Goto, Writing
  <2> QED
    BY <1>b, <2>1, DecidedStays DEF given, tables
<1>7. CASE WriteReport(r) \/ Abandon(r)
  BY <1>b, <1>7 DEF WriteReport, Abandon
<1> QED
  BY <1>1, <1>2, <1>3, <1>4, <1>5, <1>6, <1>7 DEF Step

\* The others.
LEMMA OtherRuns ==
  ASSUME TypeOK, NEW r \in Runs, Step(r), NEW o \in Runs \ {r}
  PROVE  /\ input'[o] = input[o] /\ required'[o] = required[o] /\ queue'[o] = queue[o]
         /\ merged'[o] = merged[o] /\ upstreams'[o] = upstreams[o] /\ paths'[o] = paths[o]
         /\ pc'[o] = pc[o]
<1>a. ASSUME Stop(r)
      PROVE  /\ input'[o] = input[o] /\ required'[o] = required[o] /\ queue'[o] = queue[o]
             /\ merged'[o] = merged[o] /\ upstreams'[o] = upstreams[o] /\ paths'[o] = paths[o]
             /\ pc'[o] = pc[o]
  BY <1>a DEF TypeOK, Stop, Goto
<1>1. CASE \E i \in Inputs, c \in BOOLEAN : Begin(r, i, c)
  BY <1>1 DEF TypeOK, Begin, Goto
<1>2. CASE MergeInventory(r)
  BY <1>2 DEF TypeOK, MergeInventory, given
<1>3. CASE RejectInventory(r) \/ FinishMerge(r)
  BY <1>3 DEF TypeOK, RejectInventory, FinishMerge, Goto, given, tables
<1>4. CASE CheckManifest(r) \/ WriteManifest(r) \/ CheckReport(r)
  BY <1>a, <1>4 DEF TypeOK, CheckManifest, WriteManifest, CheckReport, Goto, given, tables
<1>5. CASE WriteReport(r) \/ Abandon(r)
  BY <1>a, <1>5 DEF WriteReport, Abandon
<1> QED
  BY <1>1, <1>2, <1>3, <1>4, <1>5 DEF Step

LEMMA OrderStep == TypeOK /\ MemoryInv /\ OrderInv /\ [Next]_vars => OrderInv'
<1> SUFFICES ASSUME TypeOK, MemoryInv, OrderInv, [Next]_vars, NEW o \in Runs
             PROVE  Decided(o)'
  BY DecidedIsOrder DEF OrderInv, OrderDecidesNothing, Decided
<1>1. Decided(o)
  BY DecidedIsOrder
<1>2. CASE Step(o)
  BY <1>1, <1>2, StepDecides
<1>3. ASSUME NEW r \in Runs, r # o, Step(r) PROVE Decided(o)'
  BY <1>1, <1>3, OtherRuns, DecidedStays
<1>4. CASE RemoveManifest \/ RemoveReport \/ UNCHANGED vars
  <2>1. UNCHANGED <<pc, given, tables>>
    BY <1>4 DEF RemoveManifest, RemoveReport, vars, given, tables
  <2> QED
    BY <1>1, <2>1, DecidedStays DEF given, tables
<1> QED
  BY <1>2, <1>3, <1>4 DEF Next

LEMMA OrderInit == Init => OrderInv
BY DEF Init, OrderInv, OrderDecidesNothing, Writing

\* Whether a merge is accepted, and what it puts into the manifest, depends on
\* the inventories and not on the order in which the command line gives them.
THEOREM OrderIsNothing == Spec => []OrderDecidesNothing
<1>1. TypeOK /\ IndInv /\ OrderInv /\ [Next]_vars => TypeOK' /\ IndInv' /\ OrderInv'
  BY TypeStep, MemoryStep, FilesStep, OrderStep DEF IndInv
<1>2. Init => TypeOK /\ IndInv /\ OrderInv
  BY TypeInit, IndInit, OrderInit
<1> QED
  BY <1>1, <1>2, PTL DEF Spec, OrderInv
-----------------------------------------------------------------------------
(***************************************************************************)
(* The merge publishes what its inputs amount to.                          *)
(***************************************************************************)

\* A run at work was given a list of inventories that can be given.
GivenInv == \A r \in Runs : pc[r] # "stopped" => input[r] \in Inputs

LEMMA GivenStep == TypeOK /\ GivenInv /\ [Next]_vars => GivenInv'
<1> SUFFICES ASSUME TypeOK, GivenInv, [Next]_vars, NEW o \in Runs, pc'[o] # "stopped"
             PROVE  input'[o] \in Inputs
  BY DEF GivenInv
<1>1. ASSUME NEW r \in Runs, Step(r), r # o PROVE input'[o] \in Inputs
  <2>1. input'[o] = input[o] /\ pc'[o] = pc[o]
    BY <1>1, OtherRuns
  <2> QED
    BY <2>1 DEF GivenInv
<1>2. CASE Step(o)
  <2>1. ~Stop(o)
    BY DEF Stop, Goto, TypeOK
  <2>2. ASSUME NEW i \in Inputs, NEW c \in BOOLEAN, Begin(o, i, c) PROVE input'[o] = i
    BY <2>2 DEF Begin, TypeOK
  <2>3. CASE ~\E i \in Inputs, c \in BOOLEAN : Begin(o, i, c)
    <3>1. input' = input /\ pc[o] # "stopped"
      BY <1>2, <2>1, <2>3 DEF Step, MergeInventory, RejectInventory, FinishMerge, CheckManifest,
         WriteManifest, CheckReport, WriteReport, Abandon, given
    <3> QED
      BY <3>1 DEF GivenInv
  <2> QED
    BY <2>2, <2>3
<1>3. CASE RemoveManifest \/ RemoveReport \/ UNCHANGED vars
  BY <1>3 DEF RemoveManifest, RemoveReport, vars, given, GivenInv
<1> QED
  BY <1>1, <1>2, <1>3 DEF Next

\* In a sound list every inventory has an entry to show for its upstream.
LEMMA UpstreamsShow ==
  ASSUME NEW i \in Inputs, Sound(i)
  PROVE  {e.upstream : e \in AllEntries(i)} = {i[k].upstream : k \in DOMAIN i}
<1>1. \A k \in DOMAIN i : \A e \in Carry(i[k]) : e.upstream = i[k].upstream
  BY DEF Carry
<1>2. ASSUME NEW k \in DOMAIN i PROVE Carry(i[k]) # {}
  <2>1. i[k].entries # <<>>
    BY DEF Sound, ValidInventory
  <2>2. i[k].entries \in Seq(InventoryEntries)
    <3>1. i \in Seq(Inventories)
      BY CorpusMergeAssumption
    <3>2. i[k] \in Inventories
      BY <3>1
    <3> QED
      BY <3>2 DEF Inventories
  <2>3. 1 \in DOMAIN i[k].entries
    BY <2>1, <2>2
  <2> QED
    BY <2>3 DEF Carry
<1> QED
  BY <1>1, <1>2 DEF AllEntries

\* Whoever wrote it, a whole report is what a sound list amounts to.
ReportInv ==
  report.state = "whole" => \E i \in Inputs : Sound(i) /\ report = CorpusOf(i).report

\* Complete is what AllOf says of the inventories a writing run was given.
LEMMA CompleteIsAllOf ==
  ASSUME MemoryInv, NEW r \in Runs, NEW i \in Inputs, Sound(i), merged[r] = AllEntries(i)
  PROVE  Complete(r) = AllOf(i)
<1>1. upstreams[r] = {e.upstream : e \in AllEntries(i)}
  BY DEF MemoryInv
<1>2. upstreams[r] = {i[k].upstream : k \in DOMAIN i}
  BY <1>1, UpstreamsShow
<1> QED
  BY <1>2 DEF Complete, AllOf

\* A report is written whole by WriteReport only.
LEMMA ReportWriter ==
  ASSUME [Next]_vars, report'.state = "whole", report' # report
  PROVE  \E r \in Runs : WriteReport(r)
BY DEF Next, Step, Begin, MergeInventory, RejectInventory, FinishMerge, CheckManifest, WriteManifest,
   CheckReport, Abandon, RemoveManifest, RemoveReport, NoReport, ReportFile, files, vars

LEMMA ReportStep ==
  MemoryInv /\ GivenInv /\ OrderDecidesNothing /\ ReportInv /\ [Next]_vars => ReportInv'
<1> SUFFICES ASSUME MemoryInv, GivenInv, OrderDecidesNothing, ReportInv, [Next]_vars,
                    report'.state = "whole"
             PROVE  \E i \in Inputs : Sound(i) /\ report' = CorpusOf(i).report
  BY DEF ReportInv, CorpusOf, Sound, AllOf, AllEntries
<1>1. CASE report' = report
  BY <1>1 DEF ReportInv
<1>2. CASE report' # report
  <2>1. PICK r \in Runs : WriteReport(r)
    BY <1>2, ReportWriter
  <2>2. pc[r] = "write-report" /\ report' = ReportFile("whole", merged[r], Complete(r))
    BY <2>1 DEF WriteReport
  <2>3. PICK i \in Inputs : Sound(i) /\ merged[r] = AllEntries(i)
    BY <2>2 DEF GivenInv, OrderDecidesNothing, Writing
  <2>4. Complete(r) = AllOf(i)
    BY <2>3, CompleteIsAllOf
  <2> QED
    BY <2>2, <2>3, <2>4 DEF CorpusOf
<1> QED
  BY <1>1, <1>2

\* What a reader finds is a manifest and the report about it, of a sound list.
LEMMA CorpusIsRight ==
  ASSUME FilesInv, ReportInv, PublishedCorpus # NoCorpus
  PROVE  /\ report.state = "whole"
         /\ PublishedCorpus = [manifest |-> manifest, report |-> report]
         /\ manifest = ManifestFile("whole", report.entries)
         /\ \E i \in Inputs : /\ Sound(i)
                              /\ report = CorpusOf(i).report
                              /\ PublishedCorpus = CorpusOf(i)
<1>1. /\ report.state = "whole"
      /\ PublishedCorpus = [manifest |-> manifest, report |-> report]
      /\ disturbed => manifest = ManifestFile("whole", report.entries)
  BY DEF PublishedCorpus
<1>2. manifest = ManifestFile("whole", report.entries)
  BY <1>1 DEF FilesInv, ReportMatches
<1>3. PICK i \in Inputs : Sound(i) /\ report = CorpusOf(i).report
  BY <1>1 DEF ReportInv
<1>4. report.entries = AllEntries(i)
  BY <1>3 DEF CorpusOf, ReportFile
<1>5. PublishedCorpus = CorpusOf(i)
  BY <1>1, <1>2, <1>3, <1>4 DEF CorpusOf
<1> QED
  BY <1>1, <1>2, <1>3, <1>5

\* The same, after a step.
LEMMA RightAfter ==
  ASSUME FilesInv', ReportInv', PublishedCorpus' # NoCorpus
  PROVE  \E i \in Inputs : Sound(i) /\ PublishedCorpus' = CorpusOf(i)
<1>1. /\ report'.state = "whole"
      /\ PublishedCorpus' = [manifest |-> manifest', report |-> report']
      /\ manifest' = ManifestFile("whole", report'.entries)
  BY DEF PublishedCorpus, FilesInv, ReportMatches
<1>2. PICK i \in Inputs : Sound(i) /\ report' = CorpusOf(i).report
  BY <1>1 DEF ReportInv, CorpusOf, Sound, AllOf, AllEntries
<1>3. report'.entries = AllEntries(i)
  BY <1>2 DEF CorpusOf, ReportFile
<1> QED
  BY <1>1, <1>2, <1>3 DEF CorpusOf

\* Sound lists with the same entries are complete together.
LEMMA EntriesComplete ==
  ASSUME NEW i \in Inputs, Sound(i), NEW j \in Inputs, Sound(j), AllEntries(i) = AllEntries(j)
  PROVE  AllOf(i) = AllOf(j)
BY UpstreamsShow DEF AllOf

\* While a reader finds a corpus, no step gives the reader another.
LEMMA CorpusStays ==
  ASSUME FilesInv, ReportInv, FilesInv', ReportInv', [Next]_vars,
         PublishedCorpus # NoCorpus, PublishedCorpus' # NoCorpus
  PROVE  UNCHANGED PublishedCorpus
<1>1. /\ report.state = "whole" /\ manifest = ManifestFile("whole", report.entries)
      /\ PublishedCorpus = [manifest |-> manifest, report |-> report]
  BY CorpusIsRight
<1>2. PICK i \in Inputs : Sound(i) /\ report = CorpusOf(i).report
  BY CorpusIsRight
<1>3. /\ report'.state = "whole" /\ manifest' = ManifestFile("whole", report'.entries)
      /\ PublishedCorpus' = [manifest |-> manifest', report |-> report']
  BY DEF PublishedCorpus, FilesInv, ReportMatches
<1>4. PICK j \in Inputs : Sound(j) /\ report' = CorpusOf(j).report
  BY <1>3 DEF ReportInv, CorpusOf, Sound, AllOf, AllEntries
<1>5. report' = report
  <2> SUFFICES ASSUME report' # report PROVE FALSE
    OBVIOUS
  <2>1. UNCHANGED manifest
    BY <1>3, ReportWriter DEF WriteReport
  <2>2. report.entries = report'.entries
    BY <1>1, <1>3, <2>1 DEF ManifestFile
  <2>3. AllEntries(i) = AllEntries(j)
    BY <1>2, <1>4, <2>2 DEF CorpusOf, ReportFile
  <2>4. AllOf(i) = AllOf(j)
    BY <1>2, <1>4, <2>3, EntriesComplete
  <2> QED
    BY <1>2, <1>4, <2>3, <2>4 DEF CorpusOf
<1>6. manifest' = manifest
  BY <1>1, <1>3, <1>5
<1> QED
  BY <1>1, <1>3, <1>5, <1>6

\* The merge implements a publication: for any upstreams, inventories, target and
\* number of runs, a reader who goes by the report, and compares its digest when
\* runs wrote at once or the manifest was removed under it, finds nothing, or the
\* manifest and the report that one sound list of inventories amounts to, and
\* finds them again until they are no longer there.
THEOREM MergeIsPublished == Spec => PublishesMerge
<1> DEFINE Inv == TypeOK /\ IndInv /\ OrderInv /\ GivenInv /\ ReportInv
           MergeStep == [Published!Publish \/ Published!Withdraw]_PublishedCorpus
<1>1. Init => Inv
  <2>1. Init => GivenInv /\ ReportInv
    BY DEF Init, GivenInv, ReportInv, NoReport, ReportFile
  <2> QED
    BY <2>1, TypeInit, IndInit, OrderInit
<1>2. Inv /\ [Next]_vars => Inv'
  BY TypeStep, MemoryStep, FilesStep, OrderStep, GivenStep, ReportStep DEF IndInv, OrderInv
<1>3. Init => Published!Init
  BY DEF Init, NoReport, ReportFile, Published!Init, PublishedCorpus
<1>4. Inv /\ Inv' /\ [Next]_vars => MergeStep
  <2> SUFFICES ASSUME Inv, Inv', [Next]_vars PROVE MergeStep
    OBVIOUS
  <2>1. FilesInv /\ FilesInv' /\ ReportInv /\ ReportInv'
    BY DEF IndInv
  <2>2. CASE PublishedCorpus' = NoCorpus
    BY <2>2 DEF Published!Withdraw
  <2>3. CASE PublishedCorpus' # NoCorpus /\ PublishedCorpus # NoCorpus
    BY <2>1, <2>3, CorpusStays
  <2>4. CASE PublishedCorpus' # NoCorpus /\ PublishedCorpus = NoCorpus
    <3>1. PublishedCorpus' \in RightCorpora
      BY <2>1, <2>4, RightAfter DEF RightCorpora
    <3> QED
      BY <2>4, <3>1 DEF Published!Publish
  <2> QED
    BY <2>2, <2>3, <2>4
<1> HIDE DEF Inv
<1> QED
  BY <1>1, <1>2, <1>3, <1>4, PTL DEF Spec, PublishesMerge, Published!Spec
=============================================================================
