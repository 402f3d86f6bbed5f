--------------------------- MODULE ShardBuildProofs ---------------------------
(***************************************************************************)
(* Proofs about module ShardBuild, for every set of packages, shards,      *)
(* manifests and builders: the type invariant, and that the reports of     *)
(* shard builds stay truthful.                                             *)
(***************************************************************************)
EXTENDS ShardBuild, FiniteSetTheorems, WellFoundedInduction, TLAPS

-----------------------------------------------------------------------------
(***************************************************************************)
(* The inductive invariant.                                                *)
(***************************************************************************)

\* A process that has ended left nothing in memory.
Forgotten ==
  \A b \in Builders : pc[b] \notin Running => status[b] = Blank

\* An uncontested package is undecided in one live invocation at most.
OneOwner ==
  \A b, o \in Builders : \A p \in Packages \ contested :
    Owns(b, p) /\ Owns(o, p) => b = o

\* An ingest child that lost its parent writes a contested package only.
OrphansContested == orphans \subseteq contested

\* What a live invocation has accepted is published.
MemoryTruthful ==
  \A b \in Builders : \A p \in Packages \ contested :
    status[b][p] \in Accepted => Published(doc[b], p, digest[b][p])

\* While an uncontested entry is being ingested, no report and no invocation
\* has accepted it: the writes of the ingest child falsify no claim.
NothingAccepted(p) ==
  /\ \A s \in Shards : report[s].status[p] \notin Accepted
  /\ \A o \in Builders : status[o][p] \notin Accepted

IngestingUnclaimed ==
  \A b \in Builders : \A p \in Packages \ contested :
    pc[b] \in {"ingest", "validate", "attest"} /\ IsNext(b, p)
      => NothingAccepted(p)

\* The resumed pair is the one ensure_new_pair saw.
RevalidatesSeen ==
  \A b \in Builders : \A p \in Packages \ contested :
    pc[b] = "revalidate" /\ IsNext(b, p)
      => seen[b] = recipe[p] /\ receipt[p] = "regular"

\* Between its two reads the generated recipe stays the valid one.
AttestsValid ==
  \A b \in Builders : \A p \in Packages \ contested :
    pc[b] = "attest" /\ IsNext(b, p) => ValidRecipe(recipe[p], doc[b], p)

IndInv ==
  /\ TypeOK
  /\ Forgotten
  /\ OneOwner
  /\ OrphansContested
  /\ ReportTruthful
  /\ MemoryTruthful
  /\ IngestingUnclaimed
  /\ RevalidatesSeen
  /\ AttestsValid

-----------------------------------------------------------------------------
(***************************************************************************)
(* Type correctness.                                                       *)
(***************************************************************************)

LEMMA NoJobType == NoJob \in Jobs
BY ShardBuildAssumption DEF NoJob

LEMMA TypeInit == Init => TypeOK
BY NoJobType, ShardBuildAssumption
DEF Init, TypeOK, Reports, NoReport, Blank, NoDigest, RecipeFiles, ReceiptFiles,
    Statuses, Running, NoManifest

\* Deciding an entry keeps an invocation's memory well typed.
LEMMA RecordType ==
  ASSUME TypeOK, NEW b \in Builders, NEW p \in Packages, NEW s \in Statuses,
         NEW d \in RecipeFiles, pc[b] \in Running, Record(b, p, s, d)
  PROVE  /\ pc' \in [Builders -> Running \cup {"stopped", "ok"}]
         /\ job' \in [Builders -> Jobs]
         /\ doc' \in [Builders -> Manifests \cup {NoManifest}]
         /\ \A o \in Builders : pc'[o] \in Running => doc'[o] \in Manifests
         /\ status' \in [Builders -> [Packages -> Statuses]]
         /\ digest' \in [Builders -> [Packages -> RecipeFiles]]
         /\ seen' \in [Builders -> RecipeFiles]
BY DEF TypeOK, Record, Goto, Running, RecipeFiles

LEMMA WriteOutputType ==
  ASSUME TypeOK, NEW p \in Packages, WriteOutput(p)
  PROVE  recipe' \in [Packages -> RecipeFiles] /\ receipt' \in [Packages -> ReceiptFiles]
<1>1. CASE \E f \in Contents : recipe' = [recipe EXCEPT ![p] = f] /\ UNCHANGED receipt
  BY <1>1 DEF TypeOK, RecipeFiles
<1>2. CASE \E f \in Receipts : receipt' = [receipt EXCEPT ![p] = f] /\ UNCHANGED recipe
  BY <1>2 DEF TypeOK, ReceiptFiles
<1> QED
  BY <1>1, <1>2 DEF WriteOutput

LEMMA TypeStep == TypeOK /\ [Next]_vars => TypeOK'
<1> SUFFICES ASSUME TypeOK, [Next]_vars PROVE TypeOK'
  OBVIOUS
<1> USE ShardBuildAssumption, NoJobType
    DEF TypeOK, Reports, files, memory, history, Goto
<1>1. ASSUME NEW b \in Builders, NEW p \in Packages, RouteToWorker(b, p)
      PROVE  TypeOK'
  BY <1>1, RecordType DEF RouteToWorker, Statuses, RecipeFiles, Running
<1>2. ASSUME NEW b \in Builders, NEW p \in Packages, CheckPair(b, p)
      PROVE  TypeOK'
  <2>1. CASE PairMissing(p) /\ Goto(b, "ingest") /\ UNCHANGED memory
    BY <1>2, <2>1 DEF CheckPair, Running
  <2>2. CASE /\ PairResumable(p)
             /\ seen' = [seen EXCEPT ![b] = recipe[p]]
             /\ Goto(b, "revalidate")
             /\ UNCHANGED <<job, doc, status, digest>>
    BY <1>2, <2>2 DEF CheckPair, Running
  <2>3. CASE Record(b, p, "failed", "absent")
    BY <1>2, <2>3, RecordType DEF CheckPair, Statuses, RecipeFiles, Running
  <2> QED
    BY <1>2, <2>1, <2>2, <2>3 DEF CheckPair
<1>3. ASSUME NEW b \in Builders, NEW p \in Packages, Revalidate(b, p)
      PROVE  TypeOK'
  <2>1. PICK s \in Statuses, d \in RecipeFiles : Record(b, p, s, d)
    BY <1>3 DEF Revalidate, Statuses, RecipeFiles
  <2> QED
    BY <1>3, <2>1, RecordType DEF Revalidate, Running
<1>4. ASSUME NEW b \in Builders, NEW p \in Packages, IngestSucceeds(b, p)
      PROVE  TypeOK'
  BY <1>4 DEF IngestSucceeds, Running
<1>5. ASSUME NEW b \in Builders, NEW p \in Packages, IngestFails(b, p)
      PROVE  TypeOK'
  BY <1>5, RecordType DEF IngestFails, Statuses, RecipeFiles, Running
<1>6. ASSUME NEW b \in Builders, NEW p \in Packages, ValidateRecipe(b, p)
      PROVE  TypeOK'
  <2>1. CASE Goto(b, "attest") /\ UNCHANGED memory
    BY <1>6, <2>1 DEF ValidateRecipe, Running
  <2>2. CASE Record(b, p, "failed", "absent")
    BY <1>6, <2>2, RecordType DEF ValidateRecipe, Statuses, RecipeFiles, Running
  <2> QED
    BY <1>6, <2>1, <2>2 DEF ValidateRecipe
<1>7. ASSUME NEW b \in Builders, NEW p \in Packages, Attest(b, p)
      PROVE  TypeOK'
  <2>1. PICK s \in Statuses, d \in RecipeFiles : Record(b, p, s, d)
    BY <1>7 DEF Attest, Statuses, RecipeFiles
  <2> QED
    BY <1>7, <2>1, RecordType DEF Attest, Running
<1>8. ASSUME NEW b \in Builders, WriteTemp(b) PROVE TypeOK'
  BY <1>8 DEF WriteTemp, TempName, Running
<1>9. ASSUME NEW b \in Builders, WriteTempFails(b) PROVE TypeOK'
  BY <1>9 DEF WriteTempFails, TempName, Exit, Blank, NoDigest, Statuses,
              RecipeFiles, Running
<1>10. ASSUME NEW b \in Builders, ReplaceReport(b) PROVE TypeOK'
  BY <1>10 DEF ReplaceReport, TempName, Exit, Blank, NoDigest, Statuses,
               RecipeFiles, Running
<1>11. ASSUME NEW b \in Builders, NEW j \in Jobs, Start(b, j) PROVE TypeOK'
  <2>1. contested' \subseteq Packages
    BY <1>11 DEF Start, Selected
  <2>2. runs' \in 0..MaxRuns
    BY <1>11 DEF Start
  <2> QED
    BY <1>11, <2>1, <2>2 DEF Start, Running
<1>12. ASSUME NEW b \in Builders, Interrupt(b) PROVE TypeOK'
  BY <1>12 DEF Interrupt, Exit, Blank, NoDigest, Statuses, RecipeFiles, Running
<1>13. ASSUME NEW b \in Builders, NEW p \in Packages, IngestWrites(b, p)
       PROVE  TypeOK'
  BY <1>13, WriteOutputType DEF IngestWrites
<1>14. ASSUME NEW b \in Builders, NEW p \in Packages, Kill(b, p) PROVE TypeOK'
  BY <1>14 DEF Kill, Exit, Blank, NoDigest, Statuses, RecipeFiles, Running
<1>15. ASSUME NEW p \in Packages, OrphanWrites(p) PROVE TypeOK'
  BY <1>15, WriteOutputType DEF OrphanWrites
<1>16. ASSUME NEW p \in Packages, OrphanExits(p) PROVE TypeOK'
  BY <1>16 DEF OrphanExits
<1>17. ASSUME NEW m \in Manifests, Publish(m) PROVE TypeOK'
  BY <1>17 DEF Publish
<1>18. CASE UNCHANGED vars
  BY <1>18 DEF vars
<1> QED
  BY <1>1, <1>2, <1>3, <1>4, <1>5, <1>6, <1>7, <1>8, <1>9, <1>10, <1>11, <1>12,
     <1>13, <1>14, <1>15, <1>16, <1>17, <1>18
  DEF Next, Step, EntryStep, Environment

\* Every state of every run is well typed.
THEOREM TypeCorrect == Spec => []TypeOK
BY TypeInit, TypeStep, PTL DEF Spec

-----------------------------------------------------------------------------
(***************************************************************************)
(* How each kind of step treats the inductive invariant.  Safe is IndInv   *)
(* without type correctness, which is TypeStep's.                          *)
(***************************************************************************)

Safe ==
  /\ Forgotten
  /\ OneOwner
  /\ OrphansContested
  /\ ReportTruthful
  /\ MemoryTruthful
  /\ IngestingUnclaimed
  /\ RevalidatesSeen
  /\ AttestsValid

\* An invocation has one current entry.
LEMMA NextUnique ==
  ASSUME NEW b \in Builders, NEW p \in Packages, NEW q \in Packages,
         IsNext(b, p), IsNext(b, q)
  PROVE  p = q
BY ShardBuildAssumption DEF IsNext

\* Deciding the current entry takes it, and nothing else, off the list.
LEMMA RecordTodo ==
  ASSUME TypeOK, NEW b \in Builders, NEW p \in Packages, NEW s \in Statuses \ {"pending"},
         NEW d \in RecipeFiles, Record(b, p, s, d), NEW o \in Builders
  PROVE  Todo(o)' = IF o = b THEN Todo(b) \ {p} ELSE Todo(o)
BY DEF TypeOK, Record, Todo

\* Deciding an entry is safe if what is accepted is published.
LEMMA RecordSafe ==
  ASSUME IndInv, NEW b \in Builders, NEW p \in Packages,
         NEW s \in Statuses \ {"pending"}, NEW d \in RecipeFiles,
         pc[b] \in Running, IsNext(b, p), Record(b, p, s, d),
         s \in Accepted /\ p \notin contested => Published(doc[b], p, d),
         UNCHANGED <<recipe, receipt, report, orphans, contested>>
  PROVE  Safe'
<1> USE DEF IndInv, TypeOK
<1>1. /\ pc' = [pc EXCEPT ![b] = "entry"]
      /\ status' = [status EXCEPT ![b][p] = s]
      /\ digest' = [digest EXCEPT ![b][p] = d]
      /\ UNCHANGED <<job, doc>>
      /\ \A o \in Builders \ {b} : seen'[o] = seen[o]
  BY DEF Record, Goto
<1>2. \A o \in Builders : Todo(o)' = IF o = b THEN Todo(b) \ {p} ELSE Todo(o)
  BY RecordTodo
<1>3. \A o \in Builders, q \in Packages : Owns(o, q)' => Owns(o, q)
  BY <1>1, <1>2 DEF Owns, Running
<1>4. \A o \in Builders \ {b}, q \in Packages : IsNext(o, q)' => IsNext(o, q)
  BY <1>1, <1>2 DEF IsNext
<1>5. pc'[b] = "entry" /\ \A o \in Builders \ {b} : pc'[o] = pc[o]
  BY <1>1
<1>6. Forgotten'
  BY <1>1, <1>5 DEF Forgotten, Running
<1>7. OneOwner'
  BY <1>3 DEF OneOwner
<1>8. OrphansContested' /\ ReportTruthful'
  BY DEF OrphansContested, ReportTruthful, Published
<1>9. MemoryTruthful'
  BY <1>1 DEF MemoryTruthful, Published
<1>10. IngestingUnclaimed'
  <2> SUFFICES ASSUME NEW o \in Builders, NEW q \in Packages \ contested,
                      pc'[o] \in {"ingest", "validate", "attest"}, IsNext(o, q)'
               PROVE  NothingAccepted(q)'
    BY DEF IngestingUnclaimed
  <2>1. o # b /\ pc[o] = pc'[o] /\ IsNext(o, q)
    BY <1>4, <1>5
  <2>2. NothingAccepted(q)
    BY <2>1 DEF IngestingUnclaimed
  <2>3. q # p
    BY <2>1 DEF OneOwner, Owns, IsNext, Running
  <2> QED
    BY <1>1, <2>2, <2>3 DEF NothingAccepted
<1>11. RevalidatesSeen' /\ AttestsValid'
  BY <1>1, <1>4, <1>5 DEF RevalidatesSeen, AttestsValid
<1> QED
  BY <1>6, <1>7, <1>8, <1>9, <1>10, <1>11 DEF Safe

\* A step of an invocation inside an entry, or of the environment, that changes
\* no file, report or decision is safe if it keeps the claims about the entry.
LEMMA MoveSafe ==
  ASSUME IndInv, NEW b \in Builders, NEW l \in Running, pc[b] \in Running, Goto(b, l),
         \A o \in Builders \ {b} : seen'[o] = seen[o],
         \A p \in Packages \ contested : IsNext(b, p) =>
           /\ l \in {"ingest", "validate", "attest"} => NothingAccepted(p)
           /\ l = "revalidate" => seen'[b] = recipe[p] /\ receipt[p] = "regular"
           /\ l = "attest" => ValidRecipe(recipe[p], doc[b], p),
         UNCHANGED <<recipe, receipt, report, job, doc, status, digest, contested>>,
         orphans' = orphans
  PROVE  Safe'
<1> USE DEF IndInv, TypeOK
<1>1. pc' = [pc EXCEPT ![b] = l]
  BY DEF Goto
<1>2. \A o \in Builders, q \in Packages :
        /\ Owns(o, q)' <=> Owns(o, q)
        /\ IsNext(o, q)' <=> IsNext(o, q)
  BY <1>1 DEF Owns, IsNext, Todo
<1>3. Forgotten' /\ OneOwner' /\ OrphansContested'
  BY <1>1, <1>2 DEF Forgotten, OneOwner, OrphansContested
<1>4. ReportTruthful' /\ MemoryTruthful'
  BY DEF ReportTruthful, MemoryTruthful, Published
<1>5. IngestingUnclaimed'
  BY <1>1, <1>2 DEF IngestingUnclaimed, NothingAccepted
<1>6. RevalidatesSeen'
  BY <1>1, <1>2 DEF RevalidatesSeen
<1>7. AttestsValid'
  BY <1>1, <1>2 DEF AttestsValid
<1> QED
  BY <1>3, <1>4, <1>5, <1>6, <1>7 DEF Safe

\* A write to the files of p is safe if p is contested or being ingested.
LEMMA WriteSafe ==
  ASSUME IndInv, NEW p \in Packages, WriteOutput(p),
         \/ p \in contested
         \/ \E b \in Builders : pc[b] = "ingest" /\ IsNext(b, p),
         UNCHANGED <<report, pc, job, doc, status, digest, seen, contested, orphans>>
  PROVE  Safe'
<1> USE DEF IndInv, TypeOK
<1>1. \A q \in Packages \ {p} : recipe'[q] = recipe[q] /\ receipt'[q] = receipt[q]
  BY DEF WriteOutput
<1>2. p \notin contested => NothingAccepted(p)
  BY DEF IngestingUnclaimed
<1>3. p \notin contested =>
        \A b \in Builders : pc[b] \in {"revalidate", "attest"} => ~IsNext(b, p)
  BY DEF OneOwner, Owns, IsNext, Running
<1>4. Forgotten' /\ OneOwner' /\ OrphansContested'
  BY DEF Forgotten, OneOwner, OrphansContested, Owns, Todo
<1>5. ReportTruthful' /\ MemoryTruthful'
  BY <1>1, <1>2 DEF NothingAccepted, ReportTruthful, MemoryTruthful, Published
<1>6. IngestingUnclaimed'
  BY DEF IngestingUnclaimed, NothingAccepted, IsNext, Todo
<1>7. \A b \in Builders, q \in Packages : IsNext(b, q)' <=> IsNext(b, q)
  BY DEF IsNext, Todo
<1>8. RevalidatesSeen'
  BY <1>1, <1>3, <1>7 DEF RevalidatesSeen
<1>9. AttestsValid'
  BY <1>1, <1>3, <1>7 DEF AttestsValid
<1> QED
  BY <1>4, <1>5, <1>6, <1>8, <1>9 DEF Safe

\* The end of an invocation is safe, even if its child lives on, and so is the
\* report it may have left behind.
LEMMA ExitSafe ==
  ASSUME IndInv, NEW b \in Builders, pc[b] \in Running,
         NEW l \in {"stopped", "ok"}, Exit(b, l),
         \/ UNCHANGED report
         \/ /\ pc[b] = "replace"
            /\ report' = [report EXCEPT ![job[b].shard] =
                 [doc |-> doc[b], status |-> status[b], digest |-> digest[b]]],
         contested \subseteq contested', contested' \subseteq Packages,
         orphans' \subseteq contested',
         UNCHANGED <<recipe, receipt>>
  PROVE  Safe'
<1> USE DEF IndInv, TypeOK
<1>1. /\ pc'[b] = l /\ status'[b] = Blank /\ Blank = [p \in Packages |-> "pending"]
      /\ \A o \in Builders \ {b} :
           /\ pc'[o] = pc[o] /\ status'[o] = status[o] /\ job'[o] = job[o]
           /\ doc'[o] = doc[o] /\ digest'[o] = digest[o] /\ seen'[o] = seen[o]
  BY DEF Exit, Goto, Blank
<1>2. \A o \in Builders, q \in Packages :
        Owns(o, q)' => o # b /\ Owns(o, q)
  BY <1>1 DEF Owns, Running, Todo
<1>3. \A o \in Builders \ {b}, q \in Packages : IsNext(o, q)' <=> IsNext(o, q)
  BY <1>1 DEF IsNext, Todo
<1>4. Forgotten' /\ OneOwner' /\ OrphansContested'
  BY <1>1, <1>2 DEF Forgotten, OneOwner, OrphansContested
<1>5. ReportTruthful'
  <2>1. CASE UNCHANGED report
    BY <2>1 DEF ReportTruthful, Published
  <2>2. CASE report' = [report EXCEPT ![job[b].shard] =
               [doc |-> doc[b], status |-> status[b], digest |-> digest[b]]]
    BY <2>2 DEF ReportTruthful, MemoryTruthful, Published
  <2> QED
    BY <2>1, <2>2
<1>6. MemoryTruthful'
  BY <1>1 DEF MemoryTruthful, Published, Accepted
<1>7. IngestingUnclaimed'
  <2> SUFFICES ASSUME NEW o \in Builders, NEW q \in Packages \ contested',
                      pc'[o] \in {"ingest", "validate", "attest"}, IsNext(o, q)'
               PROVE  NothingAccepted(q)'
    BY DEF IngestingUnclaimed
  <2>1. o # b /\ pc[o] = pc'[o] /\ IsNext(o, q)
    BY <1>1, <1>3
  <2>2. NothingAccepted(q)
    BY <2>1 DEF IngestingUnclaimed
  <2>3. \A a \in Builders : status'[a][q] \notin Accepted
    BY <1>1, <2>2 DEF NothingAccepted, Accepted
  <2>4. \A s \in Shards : report'[s].status[q] \notin Accepted
    <3>1. CASE UNCHANGED report
      BY <2>2, <3>1 DEF NothingAccepted
    <3>2. CASE report' = [report EXCEPT ![job[b].shard] =
                 [doc |-> doc[b], status |-> status[b], digest |-> digest[b]]]
      BY <2>2, <3>2 DEF NothingAccepted
    <3> QED
      BY <3>1, <3>2
  <2> QED
    BY <2>3, <2>4 DEF NothingAccepted
<1>8. RevalidatesSeen'
  <2> SUFFICES ASSUME NEW o \in Builders, NEW q \in Packages \ contested',
                      pc'[o] = "revalidate", IsNext(o, q)'
               PROVE  seen'[o] = recipe'[q] /\ receipt'[q] = "regular"
    BY DEF RevalidatesSeen
  <2>1. o # b /\ pc[o] = pc'[o] /\ IsNext(o, q)
    BY <1>1, <1>3
  <2> QED
    BY <1>1, <2>1 DEF RevalidatesSeen
<1>9. AttestsValid'
  BY <1>1, <1>3 DEF AttestsValid
<1> QED
  BY <1>4, <1>5, <1>6, <1>7, <1>8, <1>9 DEF Safe

\* A new invocation contests exactly what a live one has yet to decide.
LEMMA StartSafe ==
  ASSUME IndInv, NEW b \in Builders, NEW j \in Jobs, Start(b, j)
  PROVE  Safe'
<1> USE DEF IndInv, TypeOK
<1>1. /\ pc[b] \notin Running /\ pc' = [pc EXCEPT ![b] = "entry"]
      /\ job' = [job EXCEPT ![b] = j] /\ doc' = [doc EXCEPT ![b] = manifest]
      /\ contested' = contested \cup
           {p \in Selected(manifest, j.shard) : \E o \in Builders : Owns(o, p)}
      /\ UNCHANGED <<recipe, receipt, report, orphans, status, digest, seen>>
  BY DEF Start, Goto, files
<1>2. \A o \in Builders \ {b}, q \in Packages :
        (Owns(o, q)' <=> Owns(o, q)) /\ (IsNext(o, q)' <=> IsNext(o, q))
  BY <1>1 DEF Owns, IsNext, Todo
<1>3. \A q \in Packages : Owns(b, q)' => q \in Selected(manifest, j.shard)
  BY <1>1 DEF Owns, Todo, Selected
<1>4. Forgotten'
  BY <1>1 DEF Forgotten, Running
<1>5. OneOwner'
  <2> SUFFICES ASSUME NEW a \in Builders, NEW o \in Builders,
                      NEW q \in Packages \ contested', Owns(a, q)', Owns(o, q)'
               PROVE  a = o
    BY DEF OneOwner
  <2>1. a # b /\ o # b => a = o
    BY <1>1, <1>2 DEF OneOwner
  <2>2. ~(a = b /\ o # b) /\ ~(a # b /\ o = b)
    BY <1>1, <1>2, <1>3
  <2> QED
    BY <2>1, <2>2
<1>6. OrphansContested' /\ ReportTruthful'
  BY <1>1 DEF OrphansContested, ReportTruthful, Published
<1>7. MemoryTruthful'
  BY <1>1 DEF MemoryTruthful, Published, Forgotten, Blank, Accepted
<1>8. IngestingUnclaimed'
  BY <1>1, <1>2 DEF IngestingUnclaimed, NothingAccepted
<1>9. RevalidatesSeen' /\ AttestsValid'
  BY <1>1, <1>2 DEF RevalidatesSeen, AttestsValid
<1> QED
  BY <1>4, <1>5, <1>6, <1>7, <1>8, <1>9 DEF Safe

-----------------------------------------------------------------------------
LEMMA IndInit == Init => IndInv
<1> SUFFICES ASSUME Init PROVE IndInv
  OBVIOUS
<1>1. TypeOK
  BY TypeInit
<1> QED
  BY <1>1 DEF Init, IndInv, Forgotten, OneOwner, OrphansContested, ReportTruthful,
     MemoryTruthful, IngestingUnclaimed, RevalidatesSeen, AttestsValid, Owns, Running,
     NoReport, Blank, Accepted

LEMMA IndStep == IndInv /\ [Next]_vars => IndInv'
<1> SUFFICES ASSUME IndInv, [Next]_vars PROVE Safe'
  BY TypeStep DEF IndInv, Safe
<1> USE DEF files, memory, history
<1>t. TypeOK
  BY DEF IndInv
<1>0. \A p \in Packages \ contested : PairMissing(p) => NothingAccepted(p)
  BY DEF IndInv, ReportTruthful, MemoryTruthful, Published, PairMissing,
         NothingAccepted, ValidRecipe, ShardBuildAssumption
<1>1. ASSUME NEW b \in Builders, NEW p \in Packages, RouteToWorker(b, p) PROVE Safe'
  BY <1>1, RecordSafe DEF RouteToWorker, Statuses, RecipeFiles, Running, Accepted
<1>2. ASSUME NEW b \in Builders, NEW p \in Packages, CheckPair(b, p) PROVE Safe'
  <2>1. CASE PairMissing(p) /\ Goto(b, "ingest") /\ UNCHANGED memory
    BY <1>0, <1>2, <2>1, NextUnique, MoveSafe DEF CheckPair, Running
  <2>2. CASE /\ PairResumable(p)
             /\ seen' = [seen EXCEPT ![b] = recipe[p]]
             /\ Goto(b, "revalidate")
             /\ UNCHANGED <<job, doc, status, digest>>
    BY <1>t, <1>2, <2>2, NextUnique, MoveSafe DEF CheckPair, Running, PairResumable, TypeOK
  <2>3. CASE Record(b, p, "failed", "absent")
    BY <1>2, <2>3, RecordSafe DEF CheckPair, Statuses, RecipeFiles, Running, Accepted
  <2> QED
    BY <1>2, <2>1, <2>2, <2>3 DEF CheckPair
<1>3. ASSUME NEW b \in Builders, NEW p \in Packages, Revalidate(b, p) PROVE Safe'
  <2>1. CASE ValidRecipe(recipe[p], doc[b], p) /\ Record(b, p, "resumed", seen[b])
    <3>1. p \notin contested => Published(doc[b], p, seen[b])
      BY <1>3, <2>1 DEF IndInv, RevalidatesSeen, Revalidate, Published
    <3>2. seen[b] \in RecipeFiles
      BY <1>t DEF TypeOK
    <3> QED
      BY <1>3, <2>1, <3>1, <3>2, RecordSafe DEF Revalidate, Statuses, Running
  <2>2. CASE Record(b, p, "failed", "absent")
    BY <1>3, <2>2, RecordSafe DEF Revalidate, Statuses, RecipeFiles, Running, Accepted
  <2> QED
    BY <1>3, <2>1, <2>2 DEF Revalidate
<1>4. ASSUME NEW b \in Builders, NEW p \in Packages, IngestSucceeds(b, p) PROVE Safe'
  <2>1. \A q \in Packages \ contested : IsNext(b, q) => NothingAccepted(q)
    BY <1>4 DEF IngestSucceeds, IndInv, IngestingUnclaimed
  <2> QED
    BY <1>4, <2>1, MoveSafe DEF IngestSucceeds, Running
<1>5. ASSUME NEW b \in Builders, NEW p \in Packages, IngestFails(b, p) PROVE Safe'
  BY <1>5, RecordSafe DEF IngestFails, Statuses, RecipeFiles, Running, Accepted
<1>6. ASSUME NEW b \in Builders, NEW p \in Packages, ValidateRecipe(b, p) PROVE Safe'
  <2>1. CASE ValidRecipe(recipe[p], doc[b], p) /\ Goto(b, "attest") /\ UNCHANGED memory
    <3>1. \A q \in Packages \ contested : IsNext(b, q) => NothingAccepted(q)
      BY <1>6 DEF ValidateRecipe, IndInv, IngestingUnclaimed
    <3>2. \A q \in Packages : IsNext(b, q) => q = p
      BY <1>6, NextUnique DEF ValidateRecipe
    <3> QED
      BY <1>6, <2>1, <3>1, <3>2, MoveSafe DEF ValidateRecipe, Running
  <2>2. CASE Record(b, p, "failed", "absent")
    BY <1>6, <2>2, RecordSafe DEF ValidateRecipe, Statuses, RecipeFiles, Running, Accepted
  <2> QED
    BY <1>6, <2>1, <2>2 DEF ValidateRecipe
<1>7. ASSUME NEW b \in Builders, NEW p \in Packages, Attest(b, p) PROVE Safe'
  <2>1. CASE receipt[p] = "regular" /\ Record(b, p, "generated", recipe[p])
    <3>1. p \notin contested => Published(doc[b], p, recipe[p])
      BY <1>7, <2>1 DEF IndInv, AttestsValid, Attest, Published
    <3>2. recipe[p] \in RecipeFiles
      BY <1>t DEF TypeOK
    <3> QED
      BY <1>7, <2>1, <3>1, <3>2, RecordSafe DEF Attest, Statuses, Running
  <2>2. CASE Record(b, p, "failed", "absent")
    BY <1>7, <2>2, RecordSafe DEF Attest, Statuses, RecipeFiles, Running, Accepted
  <2> QED
    BY <1>7, <2>1, <2>2 DEF Attest
<1>8. ASSUME NEW b \in Builders, WriteTemp(b) PROVE Safe'
  BY <1>8, MoveSafe DEF WriteTemp, Running
<1>9. ASSUME NEW b \in Builders, WriteTempFails(b) PROVE Safe'
  BY <1>t, <1>9, ExitSafe DEF WriteTempFails, Running, TypeOK, IndInv, OrphansContested
<1>10. ASSUME NEW b \in Builders, ReplaceReport(b) PROVE Safe'
  BY <1>t, <1>10, ExitSafe DEF ReplaceReport, Running, TypeOK, IndInv, OrphansContested
<1>11. ASSUME NEW b \in Builders, NEW j \in Jobs, Start(b, j) PROVE Safe'
  BY <1>11, StartSafe
<1>12. ASSUME NEW b \in Builders, Interrupt(b) PROVE Safe'
  BY <1>t, <1>12, ExitSafe DEF Interrupt, TypeOK, IndInv, OrphansContested
<1>13. ASSUME NEW b \in Builders, NEW p \in Packages, IngestWrites(b, p) PROVE Safe'
  BY <1>13, WriteSafe DEF IngestWrites
<1>14. ASSUME NEW b \in Builders, NEW p \in Packages, Kill(b, p) PROVE Safe'
  BY <1>t, <1>14, ExitSafe DEF Kill, Running, TypeOK, IndInv, OrphansContested
<1>15. ASSUME NEW p \in Packages, OrphanWrites(p) PROVE Safe'
  BY <1>15, WriteSafe DEF OrphanWrites, IndInv, OrphansContested
<1>q. ASSUME UNCHANGED <<recipe, receipt, report, pc, job, doc, status, digest, seen,
                         contested>>,
             orphans' \subseteq orphans
      PROVE  Safe'
  BY <1>q DEF IndInv, Safe, Forgotten, OneOwner, OrphansContested, ReportTruthful,
     MemoryTruthful, IngestingUnclaimed, RevalidatesSeen, AttestsValid, Owns, IsNext,
     Todo, Published, NothingAccepted
<1>16. ASSUME NEW p \in Packages, OrphanExits(p) PROVE Safe'
  BY <1>16, <1>q DEF OrphanExits
<1>17. ASSUME NEW m \in Manifests, Publish(m) PROVE Safe'
  BY <1>17, <1>q DEF Publish
<1>18. CASE UNCHANGED vars
  BY <1>18, <1>q DEF vars
<1> QED
  BY <1>1, <1>2, <1>3, <1>4, <1>5, <1>6, <1>7, <1>8, <1>9, <1>10, <1>11, <1>12,
     <1>13, <1>14, <1>15, <1>16, <1>17, <1>18
  DEF Next, Step, EntryStep, Environment

LEMMA IndInvHolds == Spec => []IndInv
BY IndInit, IndStep, PTL DEF Spec

\* A shard report stays truthful whatever other runs, crashes and orphaned
\* children do, but for packages two processes could write at once.
THEOREM ReportsStayTruthful == Spec => []ReportTruthful
<1>1. IndInv => ReportTruthful
  BY DEF IndInv
<1> QED
  BY <1>1, IndInvHolds, PTL

-----------------------------------------------------------------------------
(***************************************************************************)
(* What the steps may do.  All of these follow from the same invariant.    *)
(***************************************************************************)

\* The steps that change a file, a report or what is contested.
LEMMA StepEffect ==
  ASSUME [Next]_vars
  PROVE  \/ UNCHANGED <<recipe, receipt, report, contested>>
         \/ \E b \in Builders : ReplaceReport(b)
         \/ \E b \in Builders, j \in Jobs : Start(b, j)
         \/ \E b \in Builders, p \in Packages : Kill(b, p) \/ IngestWrites(b, p)
         \/ \E p \in Packages : OrphanWrites(p)
<1> DEFINE Quiet == UNCHANGED <<recipe, receipt, report, contested>>
<1> USE DEF files, history
<1>1. ASSUME NEW b \in Builders, NEW p \in Packages, EntryStep(b, p) PROVE Quiet
  <2>1. RouteToWorker(b, p) => Quiet
    BY DEF RouteToWorker
  <2>2. CheckPair(b, p) => Quiet
    BY DEF CheckPair
  <2>3. Revalidate(b, p) => Quiet
    BY DEF Revalidate
  <2>4. IngestSucceeds(b, p) \/ IngestFails(b, p) => Quiet
    BY DEF IngestSucceeds, IngestFails
  <2>5. ValidateRecipe(b, p) \/ Attest(b, p) => Quiet
    BY DEF ValidateRecipe, Attest
  <2> QED
    BY <1>1, <2>1, <2>2, <2>3, <2>4, <2>5 DEF EntryStep
<1>2. ASSUME NEW b \in Builders, WriteTemp(b) \/ WriteTempFails(b) \/ Interrupt(b)
      PROVE  Quiet
  BY <1>2 DEF WriteTemp, WriteTempFails, Interrupt
<1>3. ASSUME NEW p \in Packages, OrphanExits(p) PROVE Quiet
  BY <1>3 DEF OrphanExits
<1>4. ASSUME NEW m \in Manifests, Publish(m) PROVE Quiet
  BY <1>4 DEF Publish
<1>5. UNCHANGED vars => Quiet
  BY DEF vars
<1> QED
  BY <1>1, <1>2, <1>3, <1>4, <1>5 DEF Next, Step, Environment

\* Every shard build implements the ledger: a reported package's files are not
\* touched, and a new report relies on files as they are.
THEOREM ShardBuildImplementsLedger == Spec => ImplementsLedger
<1> DEFINE LedgerStep == [Ledger!Next]_(Ledger!ledgerVars)
<1>1. Init => Ledger!Init
  BY DEF Init, Ledger!Init, Store, Claim, Pairs, RecipeFiles, ReceiptFiles, NoReport,
         Blank, Accepted, NoClaim
<1>2. IndInv /\ [Next]_vars => LedgerStep
  <2> SUFFICES ASSUME IndInv, [Next]_vars PROVE LedgerStep
    OBVIOUS
  <2> USE DEF Ledger!Next, Ledger!ledgerVars
  <2>1. CASE UNCHANGED <<recipe, receipt, report, contested>>
    BY <2>1 DEF Store, Claim
  <2>2. ASSUME contested \subseteq contested', UNCHANGED <<recipe, receipt, report>>
        PROVE  LedgerStep
    <3>1. UNCHANGED <<Store, Claim>>
      BY <2>2 DEF Store, Claim
    <3>2. contested' \subseteq Packages
      BY TypeStep DEF IndInv, TypeOK
    <3> QED
      BY <2>2, <3>1, <3>2 DEF Ledger!Share
  <2>3. ASSUME NEW p \in Packages, WriteOutput(p), UNCHANGED <<report, contested>>,
               p \in contested \/ NothingAccepted(p)
        PROVE  LedgerStep
    <3>1. UNCHANGED Claim
      BY <2>3 DEF Claim
    <3>2. Store' = [Store EXCEPT ![p] = <<recipe'[p], receipt'[p]>>]
      BY <2>3 DEF Store, WriteOutput, IndInv, TypeOK
    <3>3. <<recipe'[p], receipt'[p]>> \in Pairs
      BY <2>3, WriteOutputType DEF IndInv, Pairs
    <3>4. Ledger!Claimed(p) => p \in contested
      BY <2>3 DEF Ledger!Claimed, Claim, NothingAccepted
    <3> QED
      BY <2>3, <3>1, <3>2, <3>3, <3>4 DEF Ledger!Build
  <2>4. ASSUME NEW b \in Builders, ReplaceReport(b) PROVE LedgerStep
    <3> DEFINE s == job[b].shard
    <3>1. s \in Shards
      BY ShardBuildAssumption DEF IndInv, TypeOK
    <3>2. /\ UNCHANGED <<Store, contested>>
          /\ report' = [report EXCEPT ![s] =
               [doc |-> doc[b], status |-> status[b], digest |-> digest[b]]]
      BY <2>4 DEF ReplaceReport, files, history, Store
    <3>3. Claim' \in [Shards -> [Packages -> Pairs \cup {NoClaim}]]
      <4>1. \A t \in Shards : report'[t].digest \in [Packages -> RecipeFiles]
        BY TypeStep DEF IndInv, TypeOK, Reports
      <4>2. "regular" \in ReceiptFiles
        BY ShardBuildAssumption DEF ReceiptFiles
      <4> QED
        BY <4>1, <4>2 DEF Claim, Pairs
    <3>4. \A t \in Shards \ {s} : Claim'[t] = Claim[t]
      BY <3>1, <3>2 DEF Claim, IndInv, TypeOK
    <3>5. \A p \in Packages \ contested : Claim'[s][p] \in {NoClaim, Store[p]}
      BY <3>1, <3>2 DEF Claim, Store, IndInv, TypeOK, MemoryTruthful, Published
    <3> QED
      BY <3>1, <3>2, <3>3, <3>4, <3>5 DEF Ledger!Conclude, Ledger!Claims
  <2>5. ASSUME NEW b \in Builders, NEW j \in Jobs, Start(b, j) PROVE LedgerStep
    BY <2>2, <2>5 DEF Start, files
  <2>6. ASSUME NEW b \in Builders, NEW p \in Packages, Kill(b, p) PROVE LedgerStep
    BY <2>2, <2>6 DEF Kill, files
  <2>7. ASSUME NEW b \in Builders, NEW p \in Packages, IngestWrites(b, p)
        PROVE  LedgerStep
    BY <2>3, <2>7 DEF IngestWrites, IndInv, IngestingUnclaimed, history
  <2>8. ASSUME NEW p \in Packages, OrphanWrites(p) PROVE LedgerStep
    BY <2>3, <2>8 DEF OrphanWrites, IndInv, OrphansContested, history
  <2> QED
    BY <2>1, <2>4, <2>5, <2>6, <2>7, <2>8, StepEffect
<1> QED
  BY <1>1, <1>2, IndInvHolds, PTL DEF Spec, ImplementsLedger, Ledger!Spec

-----------------------------------------------------------------------------
(***************************************************************************)
(* A report is whole, because what an invocation has decided always is of  *)
(* its shard and by its entry's strategy, and because it has decided all   *)
(* before it writes.                                                       *)
(***************************************************************************)

MemoryWhole ==
  \A b \in Builders : pc[b] \in Running =>
    /\ \A p \in Packages :
         LET e == Entry[doc[b]][p] IN
         /\ status[b][p] # "pending" => e.shard = job[b].shard
         /\ status[b][p] = "worker-required" => e.strategy = "deterministic-worker"
         /\ status[b][p] \notin {"pending", "worker-required"} =>
              e.strategy = "static-importer"
         /\ pc[b] \notin {"entry", "replace"} /\ IsNext(b, p) =>
              e.strategy = "static-importer"
    /\ pc[b] = "replace" => Todo(b) = {}

WholeInv == TypeOK /\ Forgotten /\ MemoryWhole /\ ReportWhole

\* An invocation is left out of a step of another.
LEMMA OthersKeepWhole ==
  ASSUME WholeInv, NEW o \in Builders,
         pc'[o] = pc[o], job'[o] = job[o], doc'[o] = doc[o], status'[o] = status[o],
         pc[o] \in Running
  PROVE  /\ \A p \in Packages :
              LET e == Entry[doc'[o]][p] IN
              /\ status'[o][p] # "pending" => e.shard = job'[o].shard
              /\ status'[o][p] = "worker-required" => e.strategy = "deterministic-worker"
              /\ status'[o][p] \notin {"pending", "worker-required"} =>
                   e.strategy = "static-importer"
              /\ pc'[o] \notin {"entry", "replace"} /\ IsNext(o, p)' =>
                   e.strategy = "static-importer"
         /\ pc'[o] = "replace" => Todo(o)' = {}
BY DEF WholeInv, MemoryWhole, IsNext, Todo

LEMMA RecordWhole ==
  ASSUME WholeInv, NEW b \in Builders, NEW p \in Packages, NEW s \in Statuses \ {"pending"},
         NEW d, pc[b] \in Running, IsNext(b, p), Record(b, p, s, d),
         IF s = "worker-required" THEN Entry[doc[b]][p].strategy = "deterministic-worker"
                                  ELSE Entry[doc[b]][p].strategy = "static-importer"
  PROVE  MemoryWhole'
<1>1. /\ pc' = [pc EXCEPT ![b] = "entry"] /\ UNCHANGED <<job, doc>>
      /\ status' = [status EXCEPT ![b][p] = s]
  BY DEF Record, Goto
<1>2. Entry[doc[b]][p].shard = job[b].shard
  BY DEF IsNext, Todo, Selected
<1> SUFFICES ASSUME NEW o \in Builders, pc'[o] \in Running
             PROVE  MemoryWhole!(o)'
  BY DEF MemoryWhole
<1>3. CASE o = b
  BY <1>1, <1>2, <1>3 DEF WholeInv, TypeOK, MemoryWhole
<1>4. CASE o # b
  BY <1>1, <1>4, OthersKeepWhole DEF WholeInv, TypeOK
<1> QED
  BY <1>3, <1>4

\* An invocation moves on inside an entry, or to the end of the loop.
LEMMA MoveWhole ==
  ASSUME WholeInv, NEW b \in Builders, NEW l \in Running, pc[b] \in Running, Goto(b, l),
         UNCHANGED <<job, doc, status>>,
         l # "replace" => \A p \in Packages :
           IsNext(b, p) => Entry[doc[b]][p].strategy = "static-importer",
         l = "replace" => Todo(b) = {}
  PROVE  MemoryWhole'
<1>1. pc' = [pc EXCEPT ![b] = l]
  BY DEF Goto
<1> SUFFICES ASSUME NEW o \in Builders, pc'[o] \in Running
             PROVE  MemoryWhole!(o)'
  BY DEF MemoryWhole
<1>2. \A p \in Packages : IsNext(o, p)' <=> IsNext(o, p)
  BY DEF IsNext, Todo
<1>3. Todo(o)' = Todo(o)
  BY DEF Todo
<1>4. CASE o = b
  BY <1>1, <1>2, <1>3, <1>4 DEF WholeInv, TypeOK, MemoryWhole
<1>5. CASE o # b
  BY <1>1, <1>5, OthersKeepWhole DEF WholeInv, TypeOK
<1> QED
  BY <1>4, <1>5

LEMMA ExitWhole ==
  ASSUME WholeInv, NEW b \in Builders, NEW l \in {"stopped", "ok"}, Exit(b, l)
  PROVE  MemoryWhole'
<1>1. /\ pc'[b] = l
      /\ \A o \in Builders \ {b} :
           pc'[o] = pc[o] /\ job'[o] = job[o] /\ doc'[o] = doc[o] /\ status'[o] = status[o]
  BY DEF Exit, Goto, WholeInv, TypeOK
<1> SUFFICES ASSUME NEW o \in Builders, pc'[o] \in Running
             PROVE  MemoryWhole!(o)'
  BY DEF MemoryWhole
<1>2. o # b
  BY <1>1 DEF Running
<1> QED
  BY <1>1, <1>2, OthersKeepWhole

\* Forgotten is a part of the inductive invariant; this one needs no more of it.
LEMMA WholeStep == IndInv /\ MemoryWhole /\ ReportWhole /\ [Next]_vars
                     => MemoryWhole' /\ ReportWhole'
<1> SUFFICES ASSUME IndInv, MemoryWhole, ReportWhole, [Next]_vars
             PROVE  MemoryWhole' /\ ReportWhole'
  OBVIOUS
<1>w. WholeInv
  BY DEF WholeInv, IndInv
<1>t. TypeOK
  BY DEF IndInv
<1> USE DEF memory, history
<1>n. \A b \in Builders, p, q \in Packages : IsNext(b, p) /\ IsNext(b, q) => p = q
  BY NextUnique
<1>1. ASSUME NEW b \in Builders, NEW p \in Packages, EntryStep(b, p) PROVE MemoryWhole'
  <2> USE DEF Running, Statuses
  <2>1. CASE RouteToWorker(b, p)
    BY <1>w, <2>1, RecordWhole DEF RouteToWorker
  <2>2. CASE CheckPair(b, p)
    <3>1. CASE Record(b, p, "failed", "absent")
      BY <1>w, <2>2, <3>1, RecordWhole DEF CheckPair
    <3>2. ASSUME NEW l \in {"ingest", "revalidate"}, Goto(b, l),
                 UNCHANGED <<job, doc, status>>
          PROVE  MemoryWhole'
      BY <1>n, <1>w, <2>2, <3>2, MoveWhole DEF CheckPair
    <3> QED
      BY <2>2, <3>1, <3>2 DEF CheckPair
  <2>3. ASSUME pc[b] \in {"revalidate", "ingest", "validate", "attest"}, IsNext(b, p),
               NEW s \in {"resumed", "generated", "failed"}, NEW d, Record(b, p, s, d)
        PROVE  MemoryWhole'
    BY <1>w, <2>3, RecordWhole DEF MemoryWhole
  <2>4. ASSUME pc[b] \in {"revalidate", "ingest", "validate", "attest"}, IsNext(b, p),
               NEW l \in {"validate", "attest"}, Goto(b, l), UNCHANGED <<job, doc, status>>
        PROVE  MemoryWhole'
    BY <1>n, <1>w, <2>4, MoveWhole DEF MemoryWhole
  <2>5. CASE Revalidate(b, p)
    BY <2>3, <2>5 DEF Revalidate
  <2>6. CASE IngestSucceeds(b, p) \/ IngestFails(b, p)
    BY <2>3, <2>4, <2>6 DEF IngestSucceeds, IngestFails
  <2>7. CASE ValidateRecipe(b, p)
    BY <2>3, <2>4, <2>7 DEF ValidateRecipe
  <2>8. CASE Attest(b, p)
    BY <2>3, <2>8 DEF Attest
  <2> QED
    BY <1>1, <2>1, <2>2, <2>5, <2>6, <2>7, <2>8 DEF EntryStep
<1>2. ASSUME NEW b \in Builders, WriteTemp(b) PROVE MemoryWhole'
  BY <1>w, <1>2, MoveWhole DEF WriteTemp, Running
<1>3. ASSUME NEW b \in Builders, NEW l \in {"stopped", "ok"}, Exit(b, l) PROVE MemoryWhole'
  BY <1>w, <1>3, ExitWhole
<1>4. ASSUME NEW b \in Builders, NEW j \in Jobs, Start(b, j) PROVE MemoryWhole'
  <2>1. /\ pc[b] \notin Running /\ pc' = [pc EXCEPT ![b] = "entry"]
        /\ job' = [job EXCEPT ![b] = j] /\ doc' = [doc EXCEPT ![b] = manifest]
        /\ status' = status /\ status[b] = Blank
    BY <1>w, <1>4 DEF Start, Goto, WholeInv, Forgotten
  <2> SUFFICES ASSUME NEW o \in Builders, pc'[o] \in Running
               PROVE  MemoryWhole!(o)'
    BY DEF MemoryWhole
  <2>2. CASE o = b
    BY <1>t, <2>1, <2>2 DEF TypeOK, Blank
  <2>3. CASE o # b
    BY <1>t, <1>w, <2>1, <2>3, OthersKeepWhole DEF TypeOK
  <2> QED
    BY <2>2, <2>3
<1>5. ASSUME UNCHANGED <<pc, job, doc, status>> PROVE MemoryWhole'
  BY <1>5 DEF MemoryWhole, IsNext, Todo
<1>6. MemoryWhole'
  <2>1. ASSUME NEW b \in Builders,
               WriteTempFails(b) \/ ReplaceReport(b) \/ Interrupt(b)
                 \/ \E p \in Packages : Kill(b, p)
        PROVE  MemoryWhole'
    BY <1>3, <2>1 DEF WriteTempFails, ReplaceReport, Interrupt, Kill
  <2>2. ASSUME NEW p \in Packages,
               OrphanWrites(p) \/ OrphanExits(p) \/ \E b \in Builders : IngestWrites(b, p)
        PROVE  MemoryWhole'
    BY <1>5, <2>2 DEF OrphanWrites, OrphanExits, IngestWrites
  <2>3. ASSUME NEW m \in Manifests, Publish(m) PROVE MemoryWhole'
    BY <1>5, <2>3 DEF Publish
  <2> QED
    BY <1>1, <1>2, <1>4, <1>5, <2>1, <2>2, <2>3 DEF Next, Step, Environment, vars
<1>7. ReportWhole'
  <2>1. CASE UNCHANGED report
    BY <2>1 DEF ReportWhole
  <2>2. ASSUME NEW b \in Builders, ReplaceReport(b) PROVE ReportWhole'
    <3>1. /\ pc[b] = "replace" /\ Todo(b) = {} /\ pc[b] \in Running
          /\ report' = [report EXCEPT ![job[b].shard] =
               [doc |-> doc[b], status |-> status[b], digest |-> digest[b]]]
      BY <2>2 DEF ReplaceReport, MemoryWhole, Running
    <3>2. \A p \in Packages :
            LET e == Entry[doc[b]][p] IN
            /\ status[b][p] # "pending" <=> e.shard = job[b].shard
            /\ status[b][p] = "worker-required" <=>
                 e.shard = job[b].shard /\ e.strategy = "deterministic-worker"
      BY <3>1 DEF MemoryWhole, Todo, Selected
    <3> QED
      BY <1>t, <3>1, <3>2 DEF ReportWhole, TypeOK
  <2>3. UNCHANGED report \/ \E b \in Builders : ReplaceReport(b)
    BY StepEffect DEF Start, Kill, IngestWrites, OrphanWrites
  <2> QED
    BY <2>1, <2>2, <2>3
<1> QED
  BY <1>6, <1>7

LEMMA WholeHolds == Spec => [](IndInv /\ MemoryWhole /\ ReportWhole)
<1>1. Init => MemoryWhole /\ ReportWhole
  BY DEF Init, MemoryWhole, ReportWhole, Running, NoReport
<1> QED
  BY <1>1, IndInit, IndStep, WholeStep, PTL DEF Spec

\* A report on disk is the whole report of one run, whatever interrupted it or
\* replaced it.
THEOREM ReportsStayWhole == Spec => []ReportWhole
BY WholeHolds, PTL

-----------------------------------------------------------------------------
\* The exit status of an invocation is that of its report.
LEMMA ExitStep ==
  ASSUME TypeOK, [Next]_vars, NEW b \in Builders, pc[b] = "replace", pc'[b] = "ok"
  PROVE  ~Incomplete(b)
<1> USE DEF TypeOK, Running, memory, Goto
<1>1. ASSUME NEW o \in Builders, NEW p \in Packages, EntryStep(o, p) PROVE pc'[b] # "ok"
  <2>1. o # b /\ pc[o] # "replace"
    BY <1>1 DEF EntryStep, RouteToWorker, CheckPair, Revalidate, IngestSucceeds,
       IngestFails, ValidateRecipe, Attest
  <2>2. \E l \in Running : pc' = [pc EXCEPT ![o] = l]
    BY <1>1 DEF EntryStep, RouteToWorker, CheckPair, Revalidate, IngestSucceeds,
       IngestFails, ValidateRecipe, Attest, Record
  <2> QED
    BY <2>1, <2>2
<1>2. ASSUME NEW o \in Builders,
             WriteTemp(o) \/ WriteTempFails(o) \/ Interrupt(o)
               \/ (\E j \in Jobs : Start(o, j)) \/ (\E p \in Packages : Kill(o, p))
      PROVE  pc'[b] # "ok"
  BY <1>2 DEF WriteTemp, WriteTempFails, Interrupt, Start, Kill, Exit
<1>3. ASSUME NEW o \in Builders, ReplaceReport(o), pc'[b] = "ok" PROVE ~Incomplete(b)
  BY <1>3 DEF ReplaceReport, Exit
<1>4. ASSUME pc' = pc PROVE pc'[b] # "ok"
  BY <1>4
<1>5. ASSUME NEW p \in Packages,
             OrphanWrites(p) \/ OrphanExits(p) \/ \E o \in Builders : IngestWrites(o, p)
      PROVE  pc' = pc
  BY <1>5 DEF OrphanWrites, OrphanExits, IngestWrites
<1>6. ASSUME NEW m \in Manifests, Publish(m) PROVE pc' = pc
  BY <1>6 DEF Publish
<1> QED
  BY <1>1, <1>2, <1>3, <1>4, <1>5, <1>6 DEF Next, Step, Environment, vars

\* Exit status 0 means that the shard is built.
THEOREM ExitsClean == Spec => CleanExit
<1>1. ASSUME IndInv, MemoryWhole, [Next]_vars, NEW b \in Builders,
             pc[b] = "replace", pc'[b] = "ok",
             NEW p \in Selected(doc[b], job[b].shard) \ contested
      PROVE  IF Entry[doc[b]][p].strategy = "static-importer"
             THEN Published(doc[b], p, digest[b][p])
             ELSE ~job[b].complete
  <2>1. p \in Packages /\ pc[b] \in Running
    BY <1>1 DEF Selected, Running
  <2>2. status[b][p] # "pending" /\ status[b][p] # "failed"
        /\ (job[b].complete => status[b][p] # "worker-required")
    BY <1>1, <2>1, ExitStep DEF IndInv, MemoryWhole, Todo, Incomplete
  <2>3. CASE Entry[doc[b]][p].strategy = "static-importer"
    <3>1. status[b][p] \in Accepted
      BY <1>1, <2>1, <2>2, <2>3 DEF IndInv, TypeOK, MemoryWhole, Statuses, Accepted
    <3> QED
      BY <1>1, <2>1, <2>3, <3>1 DEF IndInv, MemoryTruthful
  <2>4. CASE Entry[doc[b]][p].strategy # "static-importer"
    BY <1>1, <2>1, <2>2, <2>4 DEF MemoryWhole
  <2> QED
    BY <2>3, <2>4
<1>2. IndInv /\ MemoryWhole /\ ReportWhole /\ [Next]_vars =>
        (\A b \in Builders : pc[b] = "replace" /\ pc'[b] = "ok" =>
           \A p \in Selected(doc[b], job[b].shard) \ contested :
             IF Entry[doc[b]][p].strategy = "static-importer"
             THEN Published(doc[b], p, digest[b][p])
             ELSE ~job[b].complete)
  BY <1>1
<1> QED
  BY <1>2, WholeHolds, PTL DEF CleanExit, Spec

\* An accepted entry of an earlier report is never reported as failed by a
\* --resume run of the same version.
THEOREM ResumeNeverFailsAccepted == Spec => ResumeKeepsAccepted
<1> DEFINE Keeps ==
      \A b \in Builders, s \in Shards : \A p \in Packages \ contested :
        /\ job[b].resume
        /\ status[b][p] = "pending" /\ status'[b][p] = "failed"
        => ~ /\ report[s].status[p] \in Accepted
             /\ Entry[report[s].doc][p].version = Entry[doc[b]][p].version
<1>1. ASSUME IndInv, [Next]_vars PROVE Keeps
  <2> SUFFICES ASSUME NEW b \in Builders, NEW s \in Shards, NEW p \in Packages \ contested,
                      job[b].resume, status[b][p] = "pending", status'[b][p] = "failed",
                      report[s].status[p] \in Accepted,
                      Entry[report[s].doc][p].version = Entry[doc[b]][p].version
               PROVE  FALSE
    OBVIOUS
  <2>1. recipe[p] \in Contents /\ receipt[p] = "regular" /\ ValidRecipe(recipe[p], doc[b], p)
    BY <1>1 DEF IndInv, ReportTruthful, Published, ValidRecipe
  <2>2. ASSUME NEW o \in Builders, NEW q \in Packages, EntryStep(o, q) PROVE FALSE
    <3>1. o = b /\ q = p /\ Record(b, p, "failed", "absent")
      <4>1. PICK t, d : Record(o, q, t, d)
        BY <1>1, <2>2 DEF EntryStep, RouteToWorker, CheckPair, Revalidate, IngestSucceeds,
           IngestFails, ValidateRecipe, Attest, memory
      <4>2. o = b /\ q = p /\ t = "failed"
        BY <1>1, <4>1 DEF Record, IndInv, TypeOK
      <4> QED
        BY <1>1, <2>2, <4>1, <4>2 DEF EntryStep, RouteToWorker, CheckPair, Revalidate,
           IngestSucceeds, IngestFails, ValidateRecipe, Attest, memory, Record
    <3>2. IsNext(b, p) /\ status' # status
      BY <1>1, <2>2, <3>1 DEF EntryStep, RouteToWorker, CheckPair, Revalidate,
         IngestSucceeds, IngestFails, ValidateRecipe, Attest
    <3>3. pc[b] \notin {"ingest", "validate", "attest"}
      BY <1>1, <3>2 DEF IndInv, IngestingUnclaimed, NothingAccepted
    <3>4. CheckPair(b, p) \/ Revalidate(b, p)
      BY <2>2, <3>1, <3>3, <1>1 DEF EntryStep, RouteToWorker, IngestSucceeds, IngestFails,
         ValidateRecipe, Attest, Record, IndInv, TypeOK
    <3>5. CASE CheckPair(b, p)
      BY <1>1, <2>1, <3>2, <3>5, ShardBuildAssumption DEF CheckPair, PairMissing,
         PairResumable, memory
    <3>6. CASE Revalidate(b, p)
      BY <1>1, <2>1, <3>6 DEF Revalidate, Record, IndInv, TypeOK
    <3> QED
      BY <3>4, <3>5, <3>6
  <2>3. ASSUME NEW o \in Builders, NEW l, Exit(o, l) PROVE FALSE
    BY <1>1, <2>3 DEF Exit, IndInv, TypeOK, Blank
  <2>4. ASSUME status' = status PROVE FALSE
    BY <2>4
  <2>5. ASSUME NEW o \in Builders,
               WriteTempFails(o) \/ ReplaceReport(o) \/ Interrupt(o)
                 \/ \E q \in Packages : Kill(o, q)
        PROVE  FALSE
    BY <2>3, <2>5 DEF WriteTempFails, ReplaceReport, Interrupt, Kill
  <2>6. ASSUME NEW o \in Builders, WriteTemp(o) \/ \E j \in Jobs : Start(o, j) PROVE FALSE
    BY <2>4, <2>6 DEF WriteTemp, Start, memory
  <2>7. ASSUME NEW q \in Packages,
               OrphanWrites(q) \/ OrphanExits(q) \/ \E o \in Builders : IngestWrites(o, q)
        PROVE  FALSE
    BY <2>4, <2>7 DEF OrphanWrites, OrphanExits, IngestWrites, memory
  <2>8. ASSUME NEW m \in Manifests, Publish(m) PROVE FALSE
    BY <2>4, <2>8 DEF Publish, memory
  <2> QED
    BY <1>1, <2>2, <2>4, <2>5, <2>6, <2>7, <2>8 DEF Next, Step, Environment, vars
<1> QED
  BY <1>1, IndInvHolds, PTL DEF ResumeKeepsAccepted, Spec

\* Only an orphaned child, runs of one shard or runs of two manifests contest a
\* package.
THEOREM ShardsStayPartitioned == Spec => ShardsPartition
<1> DEFINE Partitioned ==
      contested' # contested =>
        \/ orphans' # orphans
        \/ \E b, o \in Builders :
             /\ pc[b] \notin Running /\ pc'[b] \in Running
             /\ pc[o] \in Running
             /\ job'[b].shard = job[o].shard \/ doc'[b] # doc[o]
<1>1. ASSUME IndInv, [Next]_vars PROVE Partitioned
  <2>1. ASSUME NEW b \in Builders, NEW p \in Packages, Kill(b, p) PROVE Partitioned
    BY <1>1, <2>1 DEF Kill, IndInv, OrphansContested
  <2>2. ASSUME NEW b \in Builders, NEW j \in Jobs, Start(b, j), contested' # contested
        PROVE  Partitioned
    <3>1. /\ pc[b] \notin Running /\ pc'[b] \in Running
          /\ job'[b] = j /\ doc'[b] = manifest
      BY <1>1, <2>2 DEF Start, Goto, IndInv, TypeOK, Running
    <3>2. PICK p \in Selected(manifest, j.shard), o \in Builders : Owns(o, p)
      BY <2>2 DEF Start
    <3>3. pc[o] \in Running /\ (doc[o] = manifest => job[o].shard = j.shard)
      BY <3>2 DEF Owns, Todo, Selected
    <3> QED
      BY <3>1, <3>3
  <2>3. ASSUME UNCHANGED contested PROVE Partitioned
    BY <2>3
  <2>4. ASSUME NEW b \in Builders, NEW p \in Packages, IngestWrites(b, p) PROVE Partitioned
    BY <2>3, <2>4 DEF IngestWrites, history
  <2>5. ASSUME NEW p \in Packages, OrphanWrites(p) PROVE Partitioned
    BY <2>3, <2>5 DEF OrphanWrites, history
  <2>6. ASSUME NEW b \in Builders, ReplaceReport(b) PROVE Partitioned
    BY <2>3, <2>6 DEF ReplaceReport, history
  <2> QED
    BY <1>1, <2>1, <2>2, <2>3, <2>4, <2>5, <2>6, StepEffect
<1> QED
  BY <1>1, IndInvHolds, PTL DEF ShardsPartition, Spec


-----------------------------------------------------------------------------
(***************************************************************************)
(* An invocation ends.  What Terminates says under fairness rests on two   *)
(* facts of single states and steps: a live invocation always has a next   *)
(* step, and each of its steps, but no step of anyone else, changes how    *)
(* many it has left.                                                       *)
(***************************************************************************)

Rank(l) ==
  CASE l = "entry" -> 5
    [] l \in {"revalidate", "ingest"} -> 4
    [] l = "validate" -> 3
    [] l = "attest" -> 2
    [] l = "replace" -> 1
    [] OTHER -> 0

\* Steps for k entries from place l.
StepsFor(k, l) == 4 * k + Rank(l)

Left(b) == IF pc[b] \in Running THEN StepsFor(Cardinality(Todo(b)), pc[b]) ELSE 0

\* An invocation takes at most four steps for an entry and a few for its report,
\* and nothing another invocation, an orphan or a publisher does gives it more.
RunsAreBounded ==
  /\ [](\A b \in Builders : pc[b] \in Running => Left(b) \in 1..(4 * Cardinality(Packages) + 5))
  /\ [][\A b \in Builders : pc[b] \in Running =>
          /\ Left(b)' <= Left(b)
          /\ Step(b) => Left(b)' < Left(b)]_vars

\* Some guard of Step(b) holds.  That of WriteTempFails asks nothing of the disk.
Ready(b) ==
  \/ pc[b] = "replace"
  \/ pc[b] = "entry" /\ Todo(b) = {}
  \/ \E p \in Packages :
       /\ IsNext(b, p)
       /\ \/ pc[b] \in {"revalidate", "ingest", "validate", "attest"}
          \/ pc[b] = "entry" /\ Entry[doc[b]][p].strategy \in {"static-importer", "deterministic-worker"}

NeverWaits == \A b \in Builders : pc[b] \in Running => Ready(b)

InEntry == {"revalidate", "ingest", "validate", "attest"}

\* Inside the loop there is an entry to decide.
EntryInv == \A b \in Builders : pc[b] \in InEntry => Todo(b) # {}

LEMMA LeastPackage ==
  ASSUME NEW S, S \subseteq Nat, S # {}
  PROVE  \E p \in S : \A q \in S : p <= q
<1>1. PICK p \in S : \A q \in S : ~(<<q, p>> \in OpToRel(<, Nat))
  BY NatLessThanWellFounded, WFMin
<1>2. \A q \in S : ~(q < p)
  BY <1>1 DEF OpToRel
<1> QED
  BY <1>2

\* Fewer entries or a later place is less work.
LEMMA FewerSteps ==
  ASSUME NEW k \in Nat, NEW l \in Running, NEW n \in Nat, NEW m \in Running,
         \/ n = k /\ Rank(m) < Rank(l)
         \/ n = k - 1 /\ l # "replace"
  PROVE  StepsFor(n, m) < StepsFor(k, l)
<1>1. Rank(l) \in 0..5 /\ Rank(m) \in 0..5 /\ (l # "replace" => Rank(l) >= 2)
  BY DEF Rank, Running
<1> QED
  BY <1>1 DEF StepsFor

LEMMA TodoFinite ==
  ASSUME NEW b \in Builders
  PROVE  /\ IsFiniteSet(Todo(b)) /\ Cardinality(Todo(b)) \in Nat
         /\ Cardinality(Todo(b)) <= Cardinality(Packages) /\ Cardinality(Packages) \in Nat
<1>1. Todo(b) \in SUBSET Packages
  BY DEF Todo, Selected
<1> QED
  BY <1>1, FS_Subset, FS_CardinalityType, ShardBuildAssumption

LEMMA LeftBounded ==
  ASSUME NEW b \in Builders, pc[b] \in Running
  PROVE  Left(b) \in 1..(4 * Cardinality(Packages) + 5)
<1> DEFINE k == Cardinality(Todo(b))
           n == Cardinality(Packages)
<1>1. k \in Nat /\ n \in Nat /\ k <= n
  BY TodoFinite
<1>2. Rank(pc[b]) \in 1..5
  BY DEF Rank, Running
<1>3. Left(b) = 4 * k + Rank(pc[b])
  BY DEF Left, StepsFor
<1> HIDE DEF k, n
<1> QED
  BY <1>1, <1>2, <1>3 DEF n

\* What a step does to an invocation: nothing, it starts or ends it, moves it on
\* inside an entry or to its report, or decides the entry.
Untouched(b) == pc'[b] = pc[b] /\ Todo(b)' = Todo(b)
Started(b) == pc[b] \notin Running /\ pc'[b] = "entry"
Ended(b) == pc'[b] \notin Running
Moved(b) == /\ pc'[b] \in Running /\ Rank(pc'[b]) < Rank(pc[b])
            /\ Todo(b)' = Todo(b) /\ (pc'[b] = "replace" \/ Todo(b) # {})
Decided(b) == /\ pc'[b] = "entry" /\ pc[b] \in Running \ {"replace"}
              /\ \E p \in Todo(b) : Todo(b)' = Todo(b) \ {p}

LEMMA SameTodo ==
  ASSUME NEW b \in Builders,
         job'[b] = job[b], doc'[b] = doc[b], status'[b] = status[b]
  PROVE  Todo(b)' = Todo(b)
BY DEF Todo, Selected

LEMMA RecordDecides ==
  ASSUME TypeOK, NEW b \in Builders, NEW p \in Packages, NEW s \in Statuses \ {"pending"},
         NEW d \in RecipeFiles, Record(b, p, s, d), pc[b] \in Running \ {"replace"}, IsNext(b, p)
  PROVE  Decided(b)
<1>1. Todo(b)' = Todo(b) \ {p} /\ p \in Todo(b)
  BY RecordTodo DEF IsNext
<1>2. pc'[b] = "entry"
  BY DEF Record, Goto, TypeOK
<1> QED
  BY <1>1, <1>2 DEF Decided

LEMMA GotoMoves ==
  ASSUME TypeOK, NEW b \in Builders, NEW l \in Running, Goto(b, l),
         job'[b] = job[b], doc'[b] = doc[b], status'[b] = status[b],
         Rank(l) < Rank(pc[b]), l = "replace" \/ \E p \in Packages : IsNext(b, p)
  PROVE  Moved(b)
<1>1. pc'[b] = l
  BY DEF Goto, TypeOK
<1> QED
  BY <1>1, SameTodo DEF Moved, IsNext

LEMMA ExitEnds ==
  ASSUME TypeOK, NEW b \in Builders, NEW l \in {"stopped", "ok"}, Exit(b, l)
  PROVE  Ended(b)
BY DEF Exit, Goto, TypeOK, Ended, Running

\* Each step of an invocation's own leads on.
LEMMA OwnStep ==
  ASSUME TypeOK, NEW b \in Builders, Step(b)
  PROVE  pc[b] \in Running /\ (Ended(b) \/ Moved(b) \/ Decided(b))
<1> USE DEF Running
<1>1. ASSUME NEW p \in Packages, EntryStep(b, p)
      PROVE  pc[b] \in Running /\ (Moved(b) \/ Decided(b))
  <2>a. "absent" \in RecipeFiles /\ {"worker-required", "failed", "resumed", "generated"} \subseteq Statuses \ {"pending"}
    BY DEF RecipeFiles, Statuses
  <2>b. seen[b] \in RecipeFiles /\ recipe[p] \in RecipeFiles
    BY DEF TypeOK
  <2>1. CASE RouteToWorker(b, p)
    <3>1. pc[b] = "entry" /\ IsNext(b, p) /\ Record(b, p, "worker-required", "absent")
      BY <2>1 DEF RouteToWorker
    <3> QED
      BY <2>a, <3>1, RecordDecides
  <2>2. CASE CheckPair(b, p)
    <3>1. pc[b] = "entry" /\ IsNext(b, p)
      BY <2>2 DEF CheckPair
    <3>2. \/ Record(b, p, "failed", "absent")
          \/ Goto(b, "ingest") /\ UNCHANGED <<job, doc, status>>
          \/ Goto(b, "revalidate") /\ UNCHANGED <<job, doc, status>>
      BY <2>2 DEF CheckPair, memory
    <3>3. Rank("ingest") < Rank("entry") /\ Rank("revalidate") < Rank("entry")
      BY DEF Rank
    <3> QED
      BY <2>a, <3>1, <3>2, <3>3, RecordDecides, GotoMoves
  <2>3. CASE Revalidate(b, p)
    <3>1. /\ pc[b] = "revalidate" /\ IsNext(b, p)
          /\ Record(b, p, "resumed", seen[b]) \/ Record(b, p, "failed", "absent")
      BY <2>3 DEF Revalidate
    <3> QED
      BY <2>a, <2>b, <3>1, RecordDecides
  <2>4. CASE IngestFails(b, p)
    <3>1. pc[b] = "ingest" /\ IsNext(b, p) /\ Record(b, p, "failed", "absent")
      BY <2>4 DEF IngestFails
    <3> QED
      BY <2>a, <3>1, RecordDecides
  <2>5. CASE IngestSucceeds(b, p)
    <3>1. pc[b] = "ingest" /\ IsNext(b, p) /\ Goto(b, "validate") /\ UNCHANGED <<job, doc, status>>
      BY <2>5 DEF IngestSucceeds, memory
    <3>2. Rank("validate") < Rank("ingest")
      BY DEF Rank
    <3> QED
      BY <3>1, <3>2, GotoMoves
  <2>6. CASE ValidateRecipe(b, p)
    <3>1. /\ pc[b] = "validate" /\ IsNext(b, p)
          /\ \/ Goto(b, "attest") /\ UNCHANGED <<job, doc, status>>
             \/ Record(b, p, "failed", "absent")
      BY <2>6 DEF ValidateRecipe, memory
    <3>2. Rank("attest") < Rank("validate")
      BY DEF Rank
    <3> QED
      BY <2>a, <3>1, <3>2, RecordDecides, GotoMoves
  <2>7. CASE Attest(b, p)
    <3>1. /\ pc[b] = "attest" /\ IsNext(b, p)
          /\ Record(b, p, "generated", recipe[p]) \/ Record(b, p, "failed", "absent")
      BY <2>7 DEF Attest
    <3> QED
      BY <2>a, <2>b, <3>1, RecordDecides
  <2> QED
    BY <1>1, <2>1, <2>2, <2>3, <2>4, <2>5, <2>6, <2>7 DEF EntryStep
<1>2. CASE WriteTemp(b)
  <2>1. pc[b] = "entry" /\ Goto(b, "replace") /\ UNCHANGED <<job, doc, status>>
    BY <1>2 DEF WriteTemp, memory
  <2>2. Rank("replace") < Rank("entry")
    BY DEF Rank
  <2> QED
    BY <2>1, <2>2, GotoMoves
<1>3. CASE WriteTempFails(b)
  BY <1>3, ExitEnds DEF WriteTempFails
<1>4. CASE ReplaceReport(b)
  BY <1>4, ExitEnds DEF ReplaceReport
<1> QED
  BY <1>1, <1>2, <1>3, <1>4 DEF Step

\* A step changes at most one invocation.
LEMMA OtherStep ==
  ASSUME TypeOK, NEW b \in Builders, NEW o \in Builders, o # b,
         \/ Step(b) \/ Interrupt(b)
         \/ \E j \in Jobs : Start(b, j)
         \/ \E p \in Packages : Kill(b, p)
  PROVE  Untouched(o)
<1>1. /\ pc'[o] = pc[o] /\ job'[o] = job[o] /\ doc'[o] = doc[o] /\ status'[o] = status[o]
  <2>1. ASSUME NEW p \in Packages, NEW s, NEW d, Record(b, p, s, d)
        PROVE  pc'[o] = pc[o] /\ job'[o] = job[o] /\ doc'[o] = doc[o] /\ status'[o] = status[o]
    BY <2>1 DEF Record, Goto, TypeOK
  <2>2. ASSUME NEW l, Exit(b, l)
        PROVE  pc'[o] = pc[o] /\ job'[o] = job[o] /\ doc'[o] = doc[o] /\ status'[o] = status[o]
    BY <2>2 DEF Exit, Goto, TypeOK
  <2>3. ASSUME NEW l, Goto(b, l), UNCHANGED <<job, doc, status>>
        PROVE  pc'[o] = pc[o] /\ job'[o] = job[o] /\ doc'[o] = doc[o] /\ status'[o] = status[o]
    BY <2>3 DEF Goto, TypeOK
  <2>4. ASSUME NEW p \in Packages, EntryStep(b, p)
        PROVE  pc'[o] = pc[o] /\ job'[o] = job[o] /\ doc'[o] = doc[o] /\ status'[o] = status[o]
    <3>1. CASE RouteToWorker(b, p) \/ IngestFails(b, p)
      BY <2>1, <3>1 DEF RouteToWorker, IngestFails
    <3>2. CASE CheckPair(b, p)
      BY <2>1, <2>3, <3>2 DEF CheckPair, memory
    <3>3. CASE Revalidate(b, p) \/ Attest(b, p)
      BY <2>1, <3>3 DEF Revalidate, Attest
    <3>4. CASE IngestSucceeds(b, p) \/ ValidateRecipe(b, p)
      BY <2>1, <2>3, <3>4 DEF IngestSucceeds, ValidateRecipe, memory
    <3> QED
      BY <2>4, <3>1, <3>2, <3>3, <3>4 DEF EntryStep
  <2>5. CASE WriteTemp(b)
    BY <2>3, <2>5 DEF WriteTemp, memory
  <2>6. CASE WriteTempFails(b) \/ ReplaceReport(b) \/ Interrupt(b) \/ \E p \in Packages : Kill(b, p)
    BY <2>2, <2>6 DEF WriteTempFails, ReplaceReport, Interrupt, Kill
  <2>7. CASE \E j \in Jobs : Start(b, j)
    BY <2>7 DEF Start, Goto, TypeOK
  <2> QED
    BY <2>4, <2>5, <2>6, <2>7 DEF Step
<1> QED
  BY <1>1, SameTodo DEF Untouched

LEMMA StepEffectOn ==
  ASSUME TypeOK, [Next]_vars, NEW o \in Builders
  PROVE  /\ Untouched(o) \/ Started(o) \/ Ended(o) \/ Moved(o) \/ Decided(o)
         /\ Step(o) => Ended(o) \/ Moved(o) \/ Decided(o)
<1>1. CASE Step(o)
  BY <1>1, OwnStep
<1>2. CASE ~Step(o)
  <2>1. ASSUME NEW b \in Builders, Step(b) PROVE Untouched(o)
    BY <1>2, <2>1, OtherStep
  <2>2. ASSUME NEW b \in Builders, Interrupt(b) \/ \E p \in Packages : Kill(b, p)
        PROVE  Untouched(o) \/ Ended(o)
    BY <2>2, OtherStep, ExitEnds DEF Interrupt, Kill
  <2>3. ASSUME NEW b \in Builders, NEW j \in Jobs, Start(b, j)
        PROVE  Untouched(o) \/ Started(o)
    <3>1. CASE o = b
      BY <2>3, <3>1 DEF Start, Goto, TypeOK, Started
    <3> QED
      BY <2>3, <3>1, OtherStep
  <2>4. ASSUME UNCHANGED <<pc, job, doc, status>> PROVE Untouched(o)
    BY <2>4, SameTodo DEF Untouched
  <2>5. CASE \/ UNCHANGED vars
             \/ \E b \in Builders, p \in Packages : IngestWrites(b, p)
             \/ \E p \in Packages : OrphanWrites(p) \/ OrphanExits(p)
             \/ \E m \in Manifests : Publish(m)
    <3>1. pc' = pc /\ job' = job /\ doc' = doc /\ status' = status
      <4>1. CASE \E b \in Builders, p \in Packages : IngestWrites(b, p)
        BY <4>1 DEF memory, IngestWrites
      <4>2. CASE \E p \in Packages : OrphanWrites(p) \/ OrphanExits(p)
        BY <4>2 DEF memory, OrphanWrites, OrphanExits
      <4>3. CASE UNCHANGED vars \/ \E m \in Manifests : Publish(m)
        BY <4>3 DEF vars, memory, Publish
      <4> QED
        BY <2>5, <4>1, <4>2, <4>3
    <3> QED
      BY <1>2, <2>4, <3>1
  <2> QED
    BY <1>2, <2>1, <2>2, <2>3, <2>5 DEF Next, Environment
<1> QED
  BY <1>1, <1>2

LEMMA LeftStep ==
  ASSUME TypeOK, [Next]_vars, NEW b \in Builders, pc[b] \in Running
  PROVE  Left(b)' <= Left(b) /\ (Step(b) => Left(b)' < Left(b))
<1>1. Left(b) \in Nat /\ Left(b) >= 1 /\ Left(b) = StepsFor(Cardinality(Todo(b)), pc[b])
  <2>1. Cardinality(Packages) \in Nat
    BY TodoFinite
  <2> QED
    BY <2>1, LeftBounded DEF Left
<1>2. CASE Untouched(b)
  <2>1. Left(b)' = Left(b)
    BY <1>2 DEF Untouched, Left
  <2>2. ~(Ended(b) \/ Moved(b) \/ Decided(b))
    <3>1. \A p \in Todo(b) : Todo(b) \ {p} # Todo(b)
      OBVIOUS
    <3>2. Rank(pc[b]) \in 0..5
      BY DEF Rank
    <3> QED
      BY <1>2, <3>1, <3>2 DEF Untouched, Ended, Moved, Decided
  <2> QED
    BY <1>1, <2>1, <2>2, StepEffectOn
<1>3. CASE Ended(b)
  <2>1. Left(b)' = 0
    BY <1>3 DEF Ended, Left
  <2> QED
    BY <1>1, <2>1
<1>4. CASE Moved(b)
  <2>1. Left(b)' = StepsFor(Cardinality(Todo(b)), pc'[b])
    BY <1>4 DEF Moved, Left
  <2>2. StepsFor(Cardinality(Todo(b)), pc'[b]) < StepsFor(Cardinality(Todo(b)), pc[b])
    BY <1>4, TodoFinite, FewerSteps DEF Moved
  <2>3. Left(b)' \in Int
    BY <2>1, TodoFinite DEF StepsFor, Rank
  <2> QED
    BY <1>1, <2>1, <2>2, <2>3
<1>5. CASE Decided(b)
  <2>1. PICK p \in Todo(b) : Todo(b)' = Todo(b) \ {p}
    BY <1>5 DEF Decided
  <2>2. Cardinality(Todo(b) \ {p}) = Cardinality(Todo(b)) - 1 /\ Cardinality(Todo(b) \ {p}) \in Nat
    BY TodoFinite, FS_RemoveElement, FS_CardinalityType
  <2>3. Left(b)' = StepsFor(Cardinality(Todo(b) \ {p}), "entry")
    BY <1>5, <2>1 DEF Decided, Left, Running
  <2>4. StepsFor(Cardinality(Todo(b) \ {p}), "entry") < StepsFor(Cardinality(Todo(b)), pc[b])
    BY <1>5, <2>2, TodoFinite, FewerSteps DEF Decided, Running
  <2>5. Left(b)' \in Int
    BY <2>2, <2>3 DEF StepsFor, Rank
  <2> QED
    BY <1>1, <2>3, <2>4, <2>5
<1> QED
  BY <1>2, <1>3, <1>4, <1>5, StepEffectOn DEF Started

\* An invocation takes a bounded number of steps, whatever the others do.
THEOREM RunsStayBounded == Spec => RunsAreBounded
<1>1. TypeOK => (\A b \in Builders : pc[b] \in Running => Left(b) \in 1..(4 * Cardinality(Packages) + 5))
  BY LeftBounded
<1>2. TypeOK /\ [Next]_vars => [\A b \in Builders : pc[b] \in Running =>
                                   /\ Left(b)' <= Left(b)
                                   /\ Step(b) => Left(b)' < Left(b)]_vars
  BY LeftStep
<1> QED
  BY <1>1, <1>2, TypeCorrect, PTL DEF Spec, RunsAreBounded

\* A live invocation has a next step: it waits neither for another invocation nor
\* for anything it may find on disk.
THEOREM NobodyWaits == Spec => []NeverWaits
<1>1. Init => EntryInv
  BY DEF Init, EntryInv, InEntry
<1>2. TypeOK /\ EntryInv /\ [Next]_vars => EntryInv'
  <2> SUFFICES ASSUME TypeOK, EntryInv, [Next]_vars, NEW b \in Builders, pc'[b] \in InEntry
               PROVE  Todo(b)' # {}
    BY DEF EntryInv
  <2>1. CASE Untouched(b)
    BY <2>1 DEF Untouched, EntryInv
  <2>2. CASE Moved(b)
    BY <2>2 DEF Moved, InEntry
  <2>3. ~(Started(b) \/ Ended(b) \/ Decided(b))
    BY DEF Started, Ended, Decided, InEntry, Running
  <2> QED
    BY <2>1, <2>2, <2>3, StepEffectOn
<1>3. ASSUME TypeOK, EntryInv, NEW b \in Builders, pc[b] \in Running PROVE Ready(b)
  <2>1. CASE Todo(b) # {}
    <3>1. PICK p \in Todo(b) : \A q \in Todo(b) : p <= q
      BY <2>1, LeastPackage, ShardBuildAssumption DEF Todo, Selected
    <3>2. p \in Packages /\ IsNext(b, p)
      BY <3>1 DEF Todo, Selected, IsNext
    <3>3. Entry[doc[b]][p].strategy \in {"static-importer", "deterministic-worker"}
      <4>1. doc[b] \in Manifests
        BY <1>3 DEF TypeOK
      <4>2. Entry[doc[b]] \in [Packages -> [shard : Shards, version : Versions,
              strategy : {"static-importer", "deterministic-worker"}]]
        BY <4>1, ShardBuildAssumption
      <4> QED
        BY <3>2, <4>2
    <3> QED
      BY <1>3, <3>2, <3>3 DEF Ready, Running
  <2>2. CASE Todo(b) = {}
    BY <1>3, <2>2 DEF EntryInv, InEntry, Ready, Running
  <2> QED
    BY <2>1, <2>2
<1>4. TypeOK /\ EntryInv => NeverWaits
  BY <1>3 DEF NeverWaits
<1> QED
  BY <1>1, <1>2, <1>4, TypeCorrect, PTL DEF Spec
=============================================================================
