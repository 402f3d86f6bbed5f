---------------------------- MODULE IngressProofs ----------------------------
(***************************************************************************)
(* Proofs about the CachyOS ingress, modules CachySnapshot, CandidateEmit  *)
(* and OverlayStage, which composes the snapshot, the candidates, the      *)
(* staging of the overlay and a mirror that moves: for any packages, trees *)
(* and number of emitters and preparers.                                   *)
(***************************************************************************)
EXTENDS OverlayStage, FiniteSetTheorems, TLAPS

\* The records on disk: they no longer change once the verifier has decided.
Full == snapshot.records

\* Each record is of a PKGBUILD that was read at its path, one for a path.
Recorded(R) ==
  /\ \A r \in R :
       /\ r.path \in Discovered(checkout)
       /\ \E d \in Directories : d.pkgbuild # NoFile /\ r = RecordOf(r.path, d)
  /\ \A r, s \in R : r.path = s.path => r = s

Read(R, P) == Recorded(R) /\ {r.path : r \in R} = P
FromCheckout(R) == \A r \in R : r = RecordOf(r.path, checkout[r.path])

SnapInv ==
  /\ pinned \in Trees /\ checkout \in Trees /\ mirror \in Trees
  /\ ~moved /\ ~shifted => mirror = checkout
  /\ ipc \in {"stopped", "scan", "write"}
  /\ ipc # "stopped" => verdict = "none"
  /\ moved => verdict # "none"
  /\ retained.state = "whole" => verdict = "accepted"
  /\ unscanned \subseteq Discovered(checkout)
  /\ ipc # "stopped" \/ snapshot.state = "whole" => Clean(checkout, pinned)
  /\ ipc = "scan" => Read(scanned, Discovered(checkout) \ unscanned)
  /\ ipc = "write" => Read(scanned, Discovered(checkout))
  /\ ipc # "stopped" /\ ~shifted => FromCheckout(scanned)
  /\ Recorded(Full) /\ (~shifted => FromCheckout(Full))
  /\ snapshot.state = "whole" =>
       /\ Read(Full, Discovered(checkout))
       /\ snapshot.complete <=> Complete(Full, snapshot.duplicates)
  /\ verdict \in {"none", "accepted", "refused"}
  /\ verdict = "accepted" => Accepts(snapshot)

LEMMA RecordFields ==
  \A p, d : /\ RecordOf(p, d).path = p /\ RecordOf(p, d).pkgbuild = d.pkgbuild
            /\ RecordOf(p, d).packages = Names(d)
BY DEF RecordOf

LEMMA SnapshotFields ==
  ASSUME NEW state, NEW R, NEW dups
  PROVE  LET s == Snapshot(state, R, dups) IN
         /\ s.state = state /\ s.records = R /\ s.duplicates = dups
         /\ s.complete = Complete(R, dups)
BY DEF Snapshot

LEMMA SnapInit == Init => SnapInv
BY SnapshotFields
DEF Init, SnapshotInit, StageInit, SnapInv, NoSnapshot, Discovered, Full, Recorded, FromCheckout

-----------------------------------------------------------------------------
(***************************************************************************)
(* Until the verifier has decided, nothing is emitted or staged; from then *)
(* on, the snapshot stays as it is.                                        *)
(***************************************************************************)

Settled == verdict = "none" => retained = NoSnapshot /\ EmitInit /\ StageInit

\* The other steps of the composition leave the snapshot and its mirror alone.
LEMMA StepsKeepSnapshot ==
  [Next]_vars => (SnapshotNext /\ UNCHANGED moved) \/ MoveMirror \/ UNCHANGED <<snapshotVars,
                                                                                moved>>
<1> SUFFICES ASSUME [Next]_vars
             PROVE  \/ SnapshotNext /\ UNCHANGED moved
                    \/ MoveMirror
                    \/ UNCHANGED <<snapshotVars, moved>>
  OBVIOUS
<1>1. ASSUME EmitStep PROVE UNCHANGED <<snapshotVars, moved>>
  BY <1>1 DEF EmitStep, EmitNext, EmitBegin, EmitOutput, WriteCandidate, OpenIndex, WriteIndex,
     EmitFails, CheckBegin, CheckCandidate, CheckEnd, CheckRefuses
<1>2. ASSUME PrepareStep PROVE UNCHANGED <<ingressVars, moved>>
  BY <1>2 DEF PrepareStep, Step, PrepareBegin, OpenRecord, StageOutput, WriteTemp,
     ReplaceArtifact, FinishStaging, VerifyOnly, VerifyEntry, EndVerify, CheckManifest,
     WriteManifest, Abandon
<1>3. ASSUME ClearOutput \/ UNCHANGED vars PROVE UNCHANGED <<ingressVars, moved>>
  BY <1>3 DEF ClearOutput, vars
<1> QED
  BY <1>1, <1>2, <1>3 DEF Next, SnapshotStep, ingressVars

LEMMA SnapStep == SnapInv /\ [Next]_vars => SnapInv'
<1> SUFFICES ASSUME SnapInv, [Next]_vars PROVE SnapInv'
  OBVIOUS
<1> USE DEF SnapInv, scan, trees
\* The clauses that a step which leaves the trees, what was scanned and what is on
\* disk alone cannot disturb.
<1>u. ASSUME UNCHANGED <<pinned, checkout, unscanned, scanned, snapshot>>,
             mirror' \in Trees, ~moved' /\ ~shifted' => mirror' = checkout,
             shifted => shifted',
             ipc' \in {"stopped", "scan", "write"},
             ipc' # "stopped" => verdict' = "none" /\ ipc # "stopped",
             ipc' = "scan" => ipc = "scan",
             ipc' = "write" => ipc = "write" \/ (ipc = "scan" /\ unscanned = {}),
             moved' => verdict' # "none",
             retained'.state = "whole" => verdict' = "accepted",
             verdict' \in {"none", "accepted", "refused"},
             verdict' = "accepted" => Accepts(snapshot)
      PROVE  SnapInv'
  <2>1. /\ Discovered(checkout)' = Discovered(checkout) /\ Full' = Full
        /\ \A R : (Recorded(R)' <=> Recorded(R)) /\ (FromCheckout(R)' <=> FromCheckout(R))
        /\ \A R, P : Read(R, P)' <=> Read(R, P)
    BY <1>u DEF Discovered, Full, Recorded, FromCheckout, Read
  <2>2. Accepts(snapshot)' <=> Accepts(snapshot)
    BY <1>u
  <2>3. Clean(checkout, pinned)' <=> Clean(checkout, pinned)
    BY <1>u DEF Clean
  <2>4. Recorded(Full)' /\ (~shifted' => FromCheckout(Full)')
        /\ (ipc' = "scan" => Read(scanned, Discovered(checkout) \ unscanned)')
        /\ (ipc' = "write" => Read(scanned, Discovered(checkout))')
    BY <1>u, <2>1 DEF Recorded, Read, Full, FromCheckout
  <2>5. (ipc' # "stopped" /\ ~shifted' => FromCheckout(scanned)')
    BY <1>u, <2>1 DEF FromCheckout
  <2>6. snapshot'.state = "whole" =>
       /\ Read(Full, Discovered(checkout))'
       /\ snapshot'.complete <=> Complete(Full, snapshot.duplicates)'
    BY <1>u, <2>1 DEF Full, Read, Recorded
  <2>7. unscanned' \subseteq Discovered(checkout)'
    BY <1>u, <2>1
  <2> QED
    BY <1>u, <2>2, <2>3, <2>4, <2>5, <2>6, <2>7
<1>1. CASE SnapshotNext /\ UNCHANGED moved
  <2>1. CASE ScanBegin
    <3>1. /\ ipc' = "scan" /\ verdict = "none" /\ ~shifted /\ Clean(mirror, pinned)
          /\ unscanned' = Discovered(mirror) /\ scanned' = {}
          /\ UNCHANGED <<pinned, checkout, mirror, shifted, snapshot, verdict, retained, moved>>
      BY <1>1, <2>1 DEF ScanBegin
    <3>2. mirror = checkout
      BY <3>1
    <3>3. /\ Discovered(checkout)' = Discovered(checkout) /\ Full' = Full
          /\ \A R : (Recorded(R)' <=> Recorded(R)) /\ (FromCheckout(R)' <=> FromCheckout(R))
      BY <3>1 DEF Discovered, Full, Recorded, FromCheckout
    <3>4. Read(scanned, Discovered(checkout) \ unscanned)' /\ FromCheckout(scanned)'
      BY <3>1, <3>2, <3>3 DEF Read, Recorded, FromCheckout
    <3>5. Recorded(Full)' /\ (~shifted => FromCheckout(Full)')
          /\ (snapshot.state = "whole" => Read(Full, Discovered(checkout))')
      BY <3>1, <3>3 DEF Read, Recorded, FromCheckout, Full
    <3>6. Clean(checkout, pinned)'
      BY <3>1, <3>2 DEF Clean
    <3> QED
      BY <3>1, <3>2, <3>3, <3>4, <3>5, <3>6 DEF Full
  <2>2. ASSUME NEW p \in Paths, ScanPath(p) PROVE SnapInv'
    <3> DEFINE r == RecordOf(p, mirror[p])
    <3>1. /\ ipc = "scan" /\ p \in unscanned /\ unscanned' = unscanned \ {p}
          /\ scanned' = scanned \cup {r} /\ Readable(mirror[p])
          /\ UNCHANGED <<pinned, checkout, mirror, shifted, ipc, snapshot, verdict, retained,
                         moved>>
      BY <1>1, <2>2 DEF ScanPath, IsNextPath
    <3>2. /\ Discovered(checkout)' = Discovered(checkout) /\ Full' = Full
          /\ \A R : (Recorded(R)' <=> Recorded(R)) /\ (FromCheckout(R)' <=> FromCheckout(R))
      BY <3>1 DEF Discovered, Full, Recorded, FromCheckout
    <3>3. r.path = p /\ p \in Discovered(checkout) /\ mirror[p] \in Directories
          /\ mirror[p].pkgbuild # NoFile
      BY <3>1, RecordFields, CachySnapshotAssumption DEF Readable
    <3>4. Recorded(scanned) /\ {s.path : s \in scanned} = Discovered(checkout) \ unscanned
      BY <3>1 DEF Read
    <3>5. \A s \in scanned : s.path # p
      BY <3>1, <3>4
    <3>6. r = RecordOf(r.path, mirror[p])
      BY <3>3
    <3> HIDE DEF r
    <3>7. Recorded(scanned')
      BY <3>1, <3>3, <3>4, <3>5, <3>6 DEF Recorded
    <3>8. {s.path : s \in scanned'} = Discovered(checkout) \ unscanned'
      BY <3>1, <3>3, <3>4
    <3>9. Read(scanned, Discovered(checkout) \ unscanned)'
      BY <3>2, <3>7, <3>8 DEF Read, Recorded
    <3>10. ~shifted => mirror = checkout
      BY <3>1
    <3>11. ~shifted => FromCheckout(scanned)'
      BY <3>1, <3>2, <3>3, <3>6, <3>10 DEF FromCheckout
    <3>12. Recorded(Full)' /\ (~shifted => FromCheckout(Full)')
           /\ (snapshot.state = "whole" => Read(Full, Discovered(checkout))')
      BY <3>1, <3>2 DEF Read, Recorded, FromCheckout, Full
    <3>13. Clean(checkout, pinned)'
      BY <3>1 DEF Clean
    <3> QED
      BY <3>1, <3>2, <3>9, <3>11, <3>12, <3>13 DEF Full
  <2>3. CASE ShiftMirror
    <3>1. ~shifted /\ shifted' = TRUE /\ mirror' \in Later
          /\ UNCHANGED <<pinned, checkout, ipc, unscanned, scanned, snapshot, verdict,
                         retained, moved>>
      BY <1>1, <2>3 DEF ShiftMirror
    <3>2. mirror' \in Trees
      BY <3>1, CachySnapshotAssumption
    <3> QED
      BY <1>u, <3>1, <3>2
  <2>4. CASE ScanEnd
    <3>1. ipc = "scan" /\ unscanned = {} /\ ipc' = "write"
          /\ UNCHANGED <<pinned, checkout, mirror, shifted, unscanned, scanned, snapshot,
                         verdict, retained, moved>>
      BY <1>1, <2>4 DEF ScanEnd
    <3> QED
      BY <1>u, <3>1
  <2>5. CASE WriteSnapshot
    <3>1. /\ ipc = "write" /\ ipc' = "stopped" /\ snapshot' = Snapshot("whole", scanned, twice)
          /\ UNCHANGED <<pinned, checkout, mirror, shifted, unscanned, scanned, verdict,
                         retained, moved>>
      BY <1>1, <2>5 DEF WriteSnapshot
    <3>2. /\ Full' = scanned /\ snapshot'.complete = Complete(scanned, twice)
          /\ snapshot'.duplicates = twice
      BY <3>1, SnapshotFields DEF Full
    <3>3. /\ Discovered(checkout)' = Discovered(checkout)
          /\ \A R : (Recorded(R)' <=> Recorded(R)) /\ (FromCheckout(R)' <=> FromCheckout(R))
      BY <3>1 DEF Discovered, Recorded, FromCheckout
    <3>4. Read(scanned, Discovered(checkout)) /\ (~shifted => FromCheckout(scanned))
      BY <3>1
    <3>5. Recorded(Full)' /\ Read(Full, Discovered(checkout))' /\ (~shifted' => FromCheckout(Full)')
      BY <3>1, <3>2, <3>3, <3>4 DEF Read, Recorded, FromCheckout
    <3>6. (snapshot.complete <=> Complete(Full, snapshot.duplicates))'
      BY <3>2
    <3>7. Clean(checkout, pinned)'
      BY <3>1 DEF Clean
    <3> QED
      BY <3>1, <3>3, <3>5, <3>6, <3>7
  <2>6. CASE ScanFails
    <3>1. CASE UNCHANGED snapshot
      BY <1>u, <1>1, <2>6, <3>1 DEF ScanFails
    <3>2. CASE snapshot' = Snapshot("torn", {}, {})
      <4>1. /\ ipc' = "stopped" /\ verdict = "none"
            /\ UNCHANGED <<pinned, checkout, mirror, shifted, unscanned, scanned, verdict,
                           retained, moved>>
        BY <1>1, <2>6 DEF ScanFails
      <4>2. Full' = {} /\ snapshot'.state = "torn"
        BY <3>2, SnapshotFields DEF Full
      <4>3. Recorded(Full)' /\ FromCheckout(Full)' /\ unscanned' \subseteq Discovered(checkout)'
        BY <4>1, <4>2 DEF Recorded, FromCheckout, Discovered
      <4> QED
        BY <4>1, <4>2, <4>3
    <3> QED
      BY <2>6, <3>1, <3>2 DEF ScanFails
  <2>7. CASE VerifySnapshot
    <3>1. /\ ipc = "stopped" /\ verdict = "none" /\ verdict' \in {"accepted", "refused"}
          /\ verdict' = "accepted" => Accepts(snapshot)
          /\ UNCHANGED <<pinned, checkout, mirror, shifted, ipc, unscanned, scanned, snapshot,
                         retained, moved>>
      BY <1>1, <2>7 DEF VerifySnapshot
    <3> QED
      BY <1>u, <3>1
  <2>8. CASE Retain
    <3>1. /\ verdict = "accepted"
          /\ UNCHANGED <<pinned, checkout, mirror, shifted, ipc, unscanned, scanned, snapshot,
                         verdict, moved>>
      BY <1>1, <2>8 DEF Retain
    <3> QED
      BY <1>u, <3>1
  <2> QED
    BY <1>1, <2>1, <2>2, <2>3, <2>4, <2>5, <2>6, <2>7, <2>8 DEF SnapshotNext
<1>2. CASE MoveMirror
  <2>1. /\ mirror' \in Later /\ moved' = TRUE /\ retained.state = "whole" /\ ipc = "stopped"
        /\ UNCHANGED <<pinned, checkout, shifted, ipc, unscanned, scanned, snapshot, verdict,
                       retained>>
    BY <1>2 DEF MoveMirror
  <2>2. mirror' \in Trees
    BY <2>1, CachySnapshotAssumption
  <2> QED
    BY <1>2, <1>u, <2>1, <2>2
<1>3. CASE UNCHANGED <<snapshotVars, moved>>
  BY <1>u, <1>3 DEF snapshotVars
<1> QED
  BY <1>1, <1>2, <1>3, StepsKeepSnapshot

LEMMA SnapInvHolds == Spec => []SnapInv
BY SnapInit, SnapStep, PTL DEF Spec

\* Once the verifier has decided, and when it does, the snapshot stays.
LEMMA SnapshotFrozen ==
  ASSUME SnapInv, [Next]_vars, verdict # "none" \/ verdict' # "none"
  PROVE  UNCHANGED snapshot
<1>1. ASSUME SnapshotNext PROVE UNCHANGED snapshot
  BY <1>1 DEF SnapInv, SnapshotNext, ScanBegin, ScanPath, ShiftMirror, ScanEnd, WriteSnapshot,
     ScanFails, VerifySnapshot, Retain
<1>2. ASSUME MoveMirror PROVE UNCHANGED snapshot
  BY <1>2 DEF MoveMirror
<1> QED
  BY <1>1, <1>2, StepsKeepSnapshot DEF snapshotVars

LEMMA SettledInit == Init => Settled
BY DEF Init, SnapshotInit, Settled

LEMMA SettledStep == SnapInv /\ Settled /\ [Next]_vars => Settled'
<1> SUFFICES ASSUME SnapInv, Settled, [Next]_vars, verdict' = "none" PROVE Settled'
  BY DEF Settled
<1>1. ASSUME SnapshotStep PROVE UNCHANGED <<emitVars, policy, moved, disk, raced, pc, local>>
  BY <1>1 DEF SnapshotStep
<1>2. verdict = "none" /\ (SnapshotStep => retained' = retained)
  <2>1. ASSUME SnapshotNext PROVE verdict = "none" /\ retained' = retained
    BY <2>1 DEF SnapshotNext, ScanBegin, ScanPath, ShiftMirror, ScanEnd, WriteSnapshot,
       ScanFails, VerifySnapshot, Retain
  <2>2. ASSUME MoveMirror PROVE verdict = "none"
    BY <2>2 DEF MoveMirror
  <2> QED
    BY <2>1, <2>2, StepsKeepSnapshot DEF snapshotVars, SnapshotStep
<1>3. retained = NoSnapshot /\ NoSnapshot.state = "absent" /\ EmitInit /\ StageInit
  BY <1>2, SnapshotFields DEF Settled, NoSnapshot
<1>4. ~EmitStep /\ ~MoveMirror
  BY <1>2, <1>3 DEF EmitStep, MoveMirror
<1>5. ~PrepareStep
  <2> SUFFICES ASSUME NEW q \in Preparers PROVE ~Step(q)
    BY DEF PrepareStep
  <2>1. pc[q] = "stopped" /\ retained.state # "whole" /\ manifest.state # "whole"
    BY <1>3 DEF StageInit, NoManifest
  <2> QED
    BY <2>1 DEF Step, PrepareBegin, OpenRecord, StageOutput, WriteTemp, ReplaceArtifact,
       FinishStaging, VerifyOnly, VerifyEntry, EndVerify, CheckManifest, WriteManifest, Abandon,
       Between, Running, Preparing
<1>6. EmitInit' /\ retained' = NoSnapshot
  BY <1>1, <1>2, <1>3, <1>4, <1>5
  DEF Next, ClearOutput, vars, ingressVars, snapshotVars, emitVars, emission, checking,
      emitHistory, EmitInit
<1>7. StageInit'
  BY <1>1, <1>3, <1>4, <1>5 DEF Next, ClearOutput, vars, disk, local, StageInit
<1> QED
  BY <1>6, <1>7 DEF Settled

-----------------------------------------------------------------------------
(***************************************************************************)
(* Counting: the images of a finite set under an injection are as many.    *)
(***************************************************************************)

LEMMA SameCount ==
  ASSUME NEW S, NEW T, IsFiniteSet(S), NEW f \in [S -> T],
         \A x, y \in S : f[x] = f[y] => x = y,
         \A t \in T : \E x \in S : f[x] = t
  PROVE  IsFiniteSet(T) /\ Cardinality(T) = Cardinality(S)
<1>1. f \in Bijection(S, T)
  BY DEF Bijection, Injection, Surjection, IsInjective
<1>2. ExistsBijection(S, T)
  BY <1>1 DEF ExistsBijection
<1> QED
  BY <1>2, FS_Bijection

LEMMA DiscoveredFinite == IsFiniteSet(Discovered(checkout))
<1>1. IsFiniteSet(Paths) /\ Discovered(checkout) \in SUBSET Paths
  BY CachySnapshotAssumption DEF Discovered
<1> QED
  BY <1>1, FS_Subset

LEMMA CountRecords ==
  ASSUME NEW R, Read(R, Discovered(checkout))
  PROVE  Cardinality(R) = Cardinality(Discovered(checkout))
<1> DEFINE P == Discovered(checkout)
           f == [p \in P |-> CHOOSE r \in R : r.path = p]
<1>1. \A p \in P : f[p] \in R /\ f[p].path = p
  BY DEF Read
<1>2. f \in [P -> R]
  BY <1>1
<1>3. \A x, y \in P : f[x] = f[y] => x = y
  BY <1>1
<1>4. \A t \in R : \E x \in P : f[x] = t
  BY <1>1 DEF Read, Recorded
<1> HIDE DEF f
<1> QED
  BY <1>2, <1>3, <1>4, DiscoveredFinite, SameCount

\* A snapshot on disk has a record for each PKGBUILD that was in the mirror when
\* the scan began, and no other, with its bytes unless the mirror moved during the
\* scan, and an accepted one quarantines every path without a package.
THEOREM SnapshotStaysWhole == Spec => []SnapshotCoversTree
<1>1. SnapInv => SnapshotCoversTree
  <2> SUFFICES ASSUME SnapInv, snapshot.state = "whole" PROVE SnapshotCoversTree
    BY DEF SnapshotCoversTree
  <2>1. /\ Read(Full, Discovered(checkout)) /\ Clean(checkout, pinned)
        /\ ~shifted => FromCheckout(Full)
    BY DEF SnapInv
  <2>2. {r.path : r \in Full} = Discovered(checkout)
    BY <2>1 DEF Read
  <2>3. Cardinality(Full) = Cardinality(Discovered(checkout))
    BY <2>1, CountRecords
  <2>4. \A p \in Discovered(pinned) :
          p \in Discovered(checkout) /\ checkout[p].pkgbuild = pinned[p].pkgbuild
    BY <2>1 DEF Clean, Discovered
  <2>5. ~shifted => \A r \in Full : r.pkgbuild = checkout[r.path].pkgbuild
    BY <2>1, RecordFields DEF FromCheckout
  <2>6. verdict = "accepted" =>
          \A r \in Full : r.packages = {} => r.admission = "rejected"
    BY DEF SnapInv, Accepts, RecordAccepted, Full
  <2> QED
    BY <2>2, <2>3, <2>4, <2>5, <2>6 DEF SnapshotCoversTree, Full
<1> QED
  BY <1>1, SnapInvHolds, PTL

-----------------------------------------------------------------------------
(***************************************************************************)
(* Ownership.                                                              *)
(***************************************************************************)

LEMMA FullPath == SnapInv => \A r, s \in Full : r.path = s.path => r = s
BY DEF SnapInv, Recorded

PathsOf(R, k) == {r.path : r \in {s \in R : k \in s.packages}}
FirstOf(R, k) == CHOOSE p \in PathsOf(R, k) : \A o \in PathsOf(R, k) : p <= o

LEMMA DuplicatesAre ==
  ASSUME NEW R
  PROVE  DuplicatesOf(R) =
           UNION {{[package |-> k, first |-> FirstOf(R, k), second |-> p] :
                     p \in PathsOf(R, k) \ {FirstOf(R, k)}} : k \in UNION {r.packages : r \in R}}
BY DEF DuplicatesOf, FirstOf, PathsOf

\* A package that two records emit is a duplicate, whichever path is the first.
LEMMA TwoEmitters ==
  ASSUME SnapInv, NEW r \in Full, NEW s \in Full, r # s, NEW k \in r.packages, k \in s.packages
  PROVE  DuplicatesOf(Full) # {}
<1>1. r.path \in PathsOf(Full, k) /\ s.path \in PathsOf(Full, k) /\ r.path # s.path
  BY FullPath DEF PathsOf
<1>2. PICK p \in PathsOf(Full, k) : p # FirstOf(Full, k)
  BY <1>1
<1>3. k \in UNION {t.packages : t \in Full}
  OBVIOUS
<1>4. [package |-> k, first |-> FirstOf(Full, k), second |-> p] \in DuplicatesOf(Full)
  BY <1>2, <1>3, DuplicatesAre
<1> QED
  BY <1>4

LEMMA NamesTyped ==
  ASSUME NEW d \in Directories, d.pkgbuild # NoFile
  PROVE  Names(d) \subseteq Packages
<1>1. d.pkgbuild \in Pkgbuilds /\ d.srcinfo \in Srcinfos \cup {NoFile}
  BY DEF Directories
<1>2. d.pkgbuild.names \subseteq Packages
  BY <1>1 DEF Pkgbuilds
<1>3. d.srcinfo # NoFile => d.srcinfo.names \subseteq Packages
  BY <1>1 DEF Srcinfos
<1> QED
  BY <1>2, <1>3 DEF Names

LEMMA RecordTyped ==
  ASSUME NEW R, Recorded(R), NEW r \in R
  PROVE  r.path \in Paths /\ r.path \in Nat \ {0} /\ r.packages \subseteq Packages
<1>1. PICK d \in Directories : d.pkgbuild # NoFile /\ r = RecordOf(r.path, d)
  BY DEF Recorded
<1>2. r.packages = Names(d)
  BY <1>1, RecordFields
<1> QED
  BY <1>1, <1>2, NamesTyped, CachySnapshotAssumption DEF Recorded, Discovered

LEMMA OutputsFinite == SnapInv => IsFiniteSet(Outputs(Full))
<1> SUFFICES ASSUME SnapInv PROVE IsFiniteSet(Outputs(Full))
  OBVIOUS
<1>1. IsFiniteSet(Paths \X Packages)
  BY FS_Product, CachySnapshotAssumption
<1>2. \A r \in Full : r.path \in Paths /\ r.packages \subseteq Packages
  BY RecordTyped DEF SnapInv
<1>3. Outputs(Full) \in SUBSET (Paths \X Packages)
  BY <1>2 DEF Outputs
<1> QED
  BY <1>1, <1>3, FS_Subset

\* An accepted snapshot that says complete maps paths and packages one to one.
THEOREM OwnedOnce == Spec => []CompleteOwnsOnce
<1>1. SnapInv => CompleteOwnsOnce
  <2> SUFFICES ASSUME SnapInv, verdict = "accepted", snapshot.complete PROVE CompleteOwnsOnce
    BY DEF CompleteOwnsOnce
  <2>1. Complete(Full, snapshot.duplicates) /\ snapshot.duplicates = DuplicatesOf(Full)
    BY DEF SnapInv, Accepts, Full
  <2>2. /\ DuplicatesOf(Full) = {} /\ Cardinality(Outputs(Full)) = Target
        /\ Unresolved(Full) = {}
    BY <2>1 DEF Complete
  <2>3. \A r, s \in Full : r # s => r.packages \cap s.packages = {}
    BY <2>2, TwoEmitters
  <2>4. \A r \in Full : r.packages # {}
    BY <2>2 DEF Unresolved
  <2>5. Cardinality(UNION {r.packages : r \in Full}) = Target
    <3> DEFINE f == [o \in Outputs(Full) |-> o[2]]
               S == UNION {r.packages : r \in Full}
    <3>1. f \in [Outputs(Full) -> S]
      BY DEF Outputs
    <3>2. \A x, y \in Outputs(Full) : f[x] = f[y] => x = y
      <4> SUFFICES ASSUME NEW x \in Outputs(Full), NEW y \in Outputs(Full), x[2] = y[2]
                   PROVE  x = y
        OBVIOUS
      <4>1. PICK r \in Full : x \in {r.path} \X r.packages
        BY DEF Outputs
      <4>2. PICK s \in Full : y \in {s.path} \X s.packages
        BY DEF Outputs
      <4>3. r = s
        BY <2>3, <4>1, <4>2
      <4> QED
        BY <4>1, <4>2, <4>3
    <3>3. ASSUME NEW t \in S PROVE \E x \in Outputs(Full) : f[x] = t
      <4>1. PICK r \in Full : t \in r.packages
        OBVIOUS
      <4>2. <<r.path, t>> \in Outputs(Full)
        BY <4>1 DEF Outputs
      <4>3. f[<<r.path, t>>] = t
        BY <4>2
      <4> QED
        BY <4>2, <4>3
    <3>4. IsFiniteSet(Outputs(Full))
      BY OutputsFinite
    <3> HIDE DEF f, S
    <3>5. Cardinality(S) = Cardinality(Outputs(Full))
      BY <3>1, <3>2, <3>3, <3>4, SameCount
    <3> QED
      BY <2>2, <3>5 DEF S
  <2> QED
    BY <2>3, <2>4, <2>5 DEF CompleteOwnsOnce, Full
<1> QED
  BY <1>1, SnapInvHolds, PTL

-----------------------------------------------------------------------------
(***************************************************************************)
(* The duplicates of the inventory, kept path by path, are those the       *)
(* verifier computes from the records.                                     *)
(***************************************************************************)

\* The paths scanned so far that emit package k.
Have(k) == PathsOf(scanned, k)

TwiceIs ==
  \A d : d \in twice <=>
    \E k \in Packages : \E p \in Have(k) \ {owners[k]} :
      d = [package |-> k, first |-> owners[k], second |-> p]

OwnersAre ==
  \A k \in Packages :
    /\ Have(k) = {} => owners[k] = 0
    /\ Have(k) # {} => owners[k] \in Have(k) /\ \A p \in Have(k) : owners[k] <= p

ScanInv ==
  /\ owners \in [Packages -> Nat]
  /\ ipc \in {"scan", "write"} =>
       /\ OwnersAre /\ TwiceIs
       /\ \A p \in Discovered(checkout) \ unscanned, o \in unscanned : p < o
  /\ ipc = "write" => unscanned = {}
  /\ snapshot.state = "whole" => snapshot.duplicates = DuplicatesOf(Full)
  /\ verdict = "refused" => ~Accepts(snapshot)

LEMMA DiscoveredNat == Discovered(checkout) \subseteq Nat \ {0}
BY CachySnapshotAssumption DEF Discovered

\* While it scans, the inventory has a record for each path before the next.
LEMMA ScannedAre ==
  ASSUME SnapInv, ipc \in {"scan", "write"}
  PROVE  /\ \A r \in scanned : r.path \in Discovered(checkout) /\ r.packages \subseteq Packages
         /\ ipc = "scan" => \A r \in scanned : r.path \notin unscanned
<1>1. Recorded(scanned)
  BY DEF SnapInv, Read
<1>2. \A r \in scanned : r.path \in Discovered(checkout) /\ r.packages \subseteq Packages
  BY <1>1, RecordTyped DEF Recorded
<1>3. ipc = "scan" => {r.path : r \in scanned} = Discovered(checkout) \ unscanned
  BY DEF SnapInv, Read
<1> QED
  BY <1>2, <1>3

LEMMA ScanPathKeeps ==
  ASSUME SnapInv, ScanInv, NEW p \in Paths, ScanPath(p)
  PROVE  owners' \in [Packages -> Nat] /\ OwnersAre' /\ TwiceIs'
<1> DEFINE r == RecordOf(p, mirror[p])
           P == r.packages
           seen == {k \in P : owners[k] # 0}
<1>1. /\ ipc = "scan" /\ p \in unscanned /\ unscanned' = unscanned \ {p}
      /\ p \in Discovered(checkout) /\ mirror \in Trees /\ Readable(mirror[p])
  BY DEF ScanPath, IsNextPath, SnapInv
<1>2. P \subseteq Packages /\ r.path = p
  <2>1. mirror[p] \in Directories /\ mirror[p].pkgbuild # NoFile
    BY <1>1, CachySnapshotAssumption DEF Readable
  <2> QED
    BY <2>1, NamesTyped, RecordFields
<1>3. /\ owners' = [k \in Packages |-> IF k \in P \ seen THEN p ELSE owners[k]]
      /\ twice' = twice \cup {[package |-> k, first |-> owners[k], second |-> p] : k \in seen}
      /\ scanned' = scanned \cup {r}
  BY DEF ScanPath
<1>4. /\ OwnersAre /\ TwiceIs /\ owners \in [Packages -> Nat]
      /\ \A o \in Discovered(checkout) \ unscanned : o < p
      /\ p \in Nat \ {0}
  BY <1>1, DiscoveredNat DEF ScanInv
<1> HIDE DEF r
<1>5. \A k : Have(k)' = IF k \in P THEN Have(k) \cup {p} ELSE Have(k)
  BY <1>2, <1>3 DEF Have, PathsOf
<1>6. \A k : Have(k) \subseteq Nat \ {0} /\ \A o \in Have(k) : o < p
  BY <1>1, <1>4, ScannedAre, DiscoveredNat DEF Have, PathsOf
<1>7. \A k \in Packages : k \in seen <=> k \in P /\ Have(k) # {}
  BY <1>2, <1>4, <1>6 DEF OwnersAre
<1> HIDE DEF P, seen
<1>8. owners' \in [Packages -> Nat]
  BY <1>3, <1>4
<1>9. \A k \in Packages : owners'[k] = IF k \in P /\ Have(k) = {} THEN p ELSE owners[k]
  BY <1>3, <1>7
<1>10. OwnersAre'
  <2> SUFFICES ASSUME NEW k \in Packages
               PROVE  /\ Have(k)' = {} => owners'[k] = 0
                      /\ Have(k)' # {} =>
                           owners'[k] \in Have(k)' /\ \A o \in Have(k)' : owners'[k] <= o
    BY DEF OwnersAre
  <2>1. CASE k \in P /\ Have(k) = {}
    BY <1>4, <1>5, <1>9, <2>1
  <2>2. CASE k \in P /\ Have(k) # {}
    <3>1. owners'[k] = owners[k] /\ owners[k] \in Have(k) /\ \A o \in Have(k) : owners[k] <= o
      BY <1>4, <1>9, <2>2 DEF OwnersAre
    <3>2. owners[k] <= p
      BY <1>4, <1>6, <3>1
    <3> QED
      BY <1>5, <2>2, <3>1, <3>2
  <2>3. CASE k \notin P
    BY <1>4, <1>5, <1>9, <2>3 DEF OwnersAre
  <2> QED
    BY <2>1, <2>2, <2>3
<1>11. TwiceIs'
  <2> SUFFICES ASSUME NEW d
               PROVE  d \in twice' <=>
                        \E k \in Packages : \E o \in Have(k)' \ {owners'[k]} :
                          d = [package |-> k, first |-> owners'[k], second |-> o]
    BY DEF TwiceIs
  <2>1. d \in twice' <=>
          \/ \E k \in Packages : \E o \in Have(k) \ {owners[k]} :
               d = [package |-> k, first |-> owners[k], second |-> o]
          \/ \E k \in seen : d = [package |-> k, first |-> owners[k], second |-> p]
    BY <1>3, <1>4 DEF TwiceIs
  <2>2. \A k \in Packages :
          Have(k)' \ {owners'[k]} =
            IF k \in seen THEN (Have(k) \ {owners[k]}) \cup {p} ELSE Have(k) \ {owners[k]}
    <3> SUFFICES ASSUME NEW k \in Packages
                 PROVE  Have(k)' \ {owners'[k]} =
                          IF k \in seen THEN (Have(k) \ {owners[k]}) \cup {p}
                          ELSE Have(k) \ {owners[k]}
      OBVIOUS
    <3>1. Have(k) # {} => owners[k] \in Have(k) /\ owners[k] # p
      BY <1>4, <1>6 DEF OwnersAre
    <3> QED
      BY <1>5, <1>7, <1>9, <3>1
  <2>3. \A k \in Packages : Have(k)' \ {owners'[k]} # {} => owners'[k] = owners[k]
    BY <1>5, <1>9
  <2>4. seen \subseteq Packages
    BY <1>2 DEF seen
  <2> QED
    BY <2>1, <2>2, <2>3, <2>4
<1> QED
  BY <1>8, <1>10, <1>11

\* At the end of the scan the two are the same.
LEMMA TwiceAreDuplicates ==
  ASSUME SnapInv, ScanInv, ipc = "write"
  PROVE  twice = DuplicatesOf(scanned)
<1>1. OwnersAre /\ TwiceIs
  BY DEF ScanInv
<1>2. UNION {r.packages : r \in scanned} = {k \in Packages : Have(k) # {}}
  BY ScannedAre DEF PathsOf, Have
<1>3. \A k \in Packages : Have(k) # {} => FirstOf(scanned, k) = owners[k]
  <2> SUFFICES ASSUME NEW k \in Packages, Have(k) # {} PROVE FirstOf(scanned, k) = owners[k]
    OBVIOUS
  <2>1. /\ owners[k] \in Have(k) /\ \A p \in Have(k) : owners[k] <= p
        /\ Have(k) \subseteq Nat
    BY <1>1, ScannedAre, DiscoveredNat DEF OwnersAre, Have, PathsOf
  <2>2. FirstOf(scanned, k) \in Have(k) /\ \A o \in Have(k) : FirstOf(scanned, k) <= o
    BY <2>1 DEF FirstOf, Have
  <2>3. FirstOf(scanned, k) <= owners[k] /\ owners[k] <= FirstOf(scanned, k)
    BY <2>1, <2>2
  <2> QED
    BY <2>1, <2>2, <2>3
<1>4. ASSUME NEW d
      PROVE  d \in DuplicatesOf(scanned) <=>
               \E k \in {j \in Packages : Have(j) # {}} : \E p \in Have(k) \ {owners[k]} :
                 d = [package |-> k, first |-> owners[k], second |-> p]
  BY <1>2, <1>3, DuplicatesAre DEF Have
<1> QED
  BY <1>1, <1>4 DEF TwiceIs

LEMMA ScanInit == Init => ScanInv
BY SnapshotFields DEF Init, SnapshotInit, ScanInv, NoSnapshot

LEMMA ScanStep == SnapInv /\ ScanInv /\ [Next]_vars => ScanInv'
<1> SUFFICES ASSUME SnapInv, ScanInv, [Next]_vars PROVE ScanInv'
  OBVIOUS
<1> USE DEF scan, trees
<1>1. ASSUME NEW p \in Paths, ScanPath(p) PROVE ScanInv'
  <2>1. /\ ipc = "scan" /\ IsNextPath(p) /\ unscanned' = unscanned \ {p}
        /\ UNCHANGED <<checkout, ipc, snapshot, verdict>>
    BY <1>1 DEF ScanPath
  <2>2. unscanned \subseteq Nat /\ p \in unscanned
    BY <2>1, DiscoveredNat DEF SnapInv, IsNextPath
  <2>3. \A o \in unscanned' : p < o
    BY <2>1, <2>2 DEF IsNextPath
  <2>4. \A q \in Discovered(checkout) \ unscanned', o \in unscanned' : q < o
    BY <2>1, <2>3 DEF ScanInv
  <2> QED
    BY <1>1, <2>1, <2>4, ScanPathKeeps DEF ScanInv, Discovered, Full, Accepts
<1>2. CASE ScanBegin
  <2>1. /\ unscanned' = Discovered(mirror) /\ twice' = {} /\ ipc' = "scan" /\ scanned' = {}
        /\ owners' = [k \in Packages |-> 0] /\ verdict = "none"
        /\ UNCHANGED <<checkout, snapshot, verdict>> /\ mirror = checkout
    BY <1>2 DEF ScanBegin, SnapInv
  <2>2. \A k : Have(k)' = {}
    BY <2>1 DEF Have, PathsOf
  <2>3. OwnersAre' /\ TwiceIs'
    BY <2>1, <2>2 DEF OwnersAre, TwiceIs
  <2> QED
    BY <2>1, <2>3 DEF ScanInv, Discovered, Full
<1>3. ASSUME UNCHANGED <<checkout, unscanned, scanned, owners, twice>>, ipc' # "scan" \/ ipc = "scan",
             ipc' # "write" \/ ipc = "write" \/ (unscanned = {} /\ ipc = "scan"),
             snapshot'.state # "whole" \/ UNCHANGED snapshot
               \/ snapshot'.duplicates = DuplicatesOf(Full'),
             verdict' # "refused" \/ UNCHANGED <<verdict, snapshot>> \/ ~Accepts(snapshot)'
      PROVE  ScanInv'
  <2>1. \A k : Have(k)' = Have(k)
    BY <1>3 DEF Have, PathsOf
  <2>2. Discovered(checkout)' = Discovered(checkout) /\ (UNCHANGED snapshot => Full' = Full)
    BY <1>3 DEF Full, Discovered
  <2>3. (OwnersAre' <=> OwnersAre) /\ (TwiceIs' <=> TwiceIs)
    BY <1>3, <2>1 DEF OwnersAre, TwiceIs
  <2>4. UNCHANGED snapshot => (Accepts(snapshot)' <=> Accepts(snapshot))
    OBVIOUS
  <2>5. DuplicatesOf(Full)' = DuplicatesOf(Full')
    BY DEF DuplicatesOf
  <2> QED
    BY <1>3, <2>2, <2>3, <2>4, <2>5 DEF ScanInv
<1>4. CASE ScanEnd
  <2>1. /\ UNCHANGED <<checkout, unscanned, scanned, owners, twice, snapshot, verdict>>
        /\ ipc = "scan" /\ ipc' = "write" /\ unscanned = {}
    BY <1>4 DEF ScanEnd
  <2> QED
    BY <1>3, <2>1
<1>5. CASE WriteSnapshot
  <2>1. /\ UNCHANGED <<checkout, unscanned, scanned, owners, twice, verdict>>
        /\ ipc' = "stopped" /\ snapshot'.duplicates = twice /\ verdict = "none"
        /\ twice = DuplicatesOf(scanned) /\ Full' = scanned
    BY <1>5, TwiceAreDuplicates, SnapshotFields DEF WriteSnapshot, SnapInv, Full
  <2> QED
    BY <1>3, <2>1
<1>6. CASE ScanFails
  <2>1. /\ UNCHANGED <<checkout, unscanned, scanned, owners, twice, verdict>>
        /\ ipc' = "stopped" /\ verdict = "none"
        /\ snapshot'.state # "whole" \/ UNCHANGED snapshot
    BY <1>6, SnapshotFields DEF ScanFails, SnapInv
  <2> QED
    BY <1>3, <2>1
<1>7. CASE VerifySnapshot
  <2>1. /\ UNCHANGED <<checkout, unscanned, scanned, owners, twice, snapshot>>
        /\ ipc' = ipc /\ (verdict' = "refused" => ~Accepts(snapshot))
    BY <1>7 DEF VerifySnapshot
  <2>2. Accepts(snapshot)' <=> Accepts(snapshot)
    BY <2>1
  <2> QED
    BY <1>3, <2>1, <2>2
<1>u. ASSUME UNCHANGED <<checkout, unscanned, scanned, owners, twice, ipc, snapshot, verdict>>
      PROVE  ScanInv'
  BY <1>3, <1>u
<1>8. CASE Retain
  BY <1>u, <1>8 DEF Retain
<1>9. CASE MoveMirror
  BY <1>u, <1>9 DEF MoveMirror
<1>10. CASE ShiftMirror
  BY <1>u, <1>10 DEF ShiftMirror
<1>11. CASE UNCHANGED snapshotVars
  BY <1>u, <1>11 DEF snapshotVars
<1> QED
  BY <1>1, <1>2, <1>4, <1>5, <1>6, <1>7, <1>8, <1>9, <1>10, <1>11, StepsKeepSnapshot
  DEF SnapshotNext

\* Every reason code classify can give.
Codes ==
  ({MarkCodes[m] : m \in Marks} \ {None}) \cup
  {"UNRESOLVED_PACKAGE_NAMES", "KERNEL_TEMPLATE", "FLOATING_VCS", "MISSING_CHECKSUM",
   "SPLIT_PACKAGE", "UNSUPPORTED_SYNTAX"}

\* Names that PACKAGE_RE does not allow come from a .SRCINFO.
LEMMA UnnamedFromSrcinfo ==
  ASSUME NEW d, ~(Names(d) \subseteq Named)
  PROVE  d.pkgbuild.form = "text" /\ d.srcinfo # NoFile
BY DEF Names

LEMMA RecordPasses ==
  ASSUME Recorded(Full), Codes \subseteq Vocabulary, NEW r \in Full,
         ~(r.packages = {} /\ (r.pkgbuild.form # "text" \/ r.path \in KernelPaths)),
         ~(r.srcinfo # NoFile /\ ~(r.packages \subseteq Named))
  PROVE  RecordAccepted(r)
<1> DEFINE p == r.path
<1>1. PICK d \in Directories : d.pkgbuild # NoFile /\ r = RecordOf(p, d)
  BY DEF Recorded
<1>2. /\ r.pkgbuild = d.pkgbuild /\ r.packages = Names(d)
  BY <1>1, RecordFields
<1>3. d.pkgbuild.form = "text"
  BY <1>2 DEF Names
<1> HIDE DEF p
<1>4. r.sorted /\ r.reasons = Reasons(p, d) /\ r.admission = Admission(p, d) /\ r.srcinfo = d.srcinfo
  BY <1>1, <1>3 DEF RecordOf
<1>5. d.pkgbuild.marks \subseteq Marks
  BY <1>1 DEF Directories, Pkgbuilds
<1>6. Reasons(p, d) \subseteq Codes
  BY <1>5 DEF Reasons, Codes
<1>7. ASSUME Names(d) = {}
      PROVE  Admission(p, d) = "rejected" /\ "UNRESOLVED_PACKAGE_NAMES" \in Reasons(p, d)
  <2>1. "UNRESOLVED_PACKAGE_NAMES" \in Reasons(p, d)
    BY <1>7 DEF Reasons
  <2>2. ~IsKernel(p, d)
    BY <1>2, <1>3, <1>7 DEF IsKernel, p
  <2> QED
    BY <2>1, <2>2 DEF Admission, Fatal
<1>8. r.packages \subseteq Named
  BY <1>2, <1>4, UnnamedFromSrcinfo
<1> QED
  BY <1>2, <1>4, <1>6, <1>7, <1>8 DEF RecordAccepted

\* Where the policy's vocabulary has every code, the verifier refuses what the
\* inventory wrote only for a file that is no text, a kernel template without
\* package names, or a name from a .SRCINFO that is not valid: the two programs
\* count duplicates and outputs alike, whatever happened to the mirror meanwhile.
THEOREM RefusalsHaveCause ==
  ASSUME Codes \subseteq Vocabulary
  PROVE  Spec => []RefusedForCause
<1>1. SnapInv /\ ScanInv => RefusedForCause
  <2> SUFFICES ASSUME SnapInv, ScanInv, verdict = "refused", snapshot.state = "whole",
                      snapshot.records # {},
                      \A r \in snapshot.records :
                        /\ ~(r.packages = {} /\ (r.pkgbuild.form # "text" \/ r.path \in KernelPaths))
                        /\ ~(r.srcinfo # NoFile /\ ~(r.packages \subseteq Named))
               PROVE  FALSE
    BY DEF RefusedForCause
  <2>1. snapshot.records = Full /\ Recorded(Full)
    BY DEF SnapInv, Full
  <2>2. \A r \in Full : RecordAccepted(r)
    BY <2>1, RecordPasses
  <2>3. snapshot.duplicates = DuplicatesOf(Full)
    BY DEF ScanInv
  <2>4. Accepts(snapshot)
    BY <2>1, <2>2, <2>3 DEF Accepts, SnapInv
  <2> QED
    BY <2>4 DEF ScanInv
<1> QED
  BY <1>1, SnapInit, SnapStep, ScanInit, ScanStep, PTL DEF Spec
-----------------------------------------------------------------------------
(***************************************************************************)
(* The candidates.                                                         *)
(***************************************************************************)

AllOutputs == UNION {{r} \X r.packages : r \in Full}

\* Candidate c is of output o.
Is(c, o) == c.path = o[1].path /\ c.package = o[2]
Good(c) ==
  /\ c.state = "whole"
  /\ \E o \in AllOutputs : Is(c, o) /\ c.admission = o[1].admission /\ c.reasons = o[1].reasons
  /\ mirror = checkout => c.meta = MetadataOf(checkout[c.path])

Distinct(E) == \A c, d \in E : c # d => c.package # d.package
Covers(E) == \A o \in AllOutputs : \E c \in E : Is(c, o)
GoodSet(E) == (\A c \in E : Good(c)) /\ Distinct(E) /\ Covers(E)

On(E) == \A c \in E : candidates[c.package] = c

EmitterOK(e) ==
  /\ epc[e] \in {"stopped", "emit", "index"}
  /\ unemitted[e] \subseteq AllOutputs
  /\ \A c \in emitted[e] : Good(c)
  /\ Distinct(emitted[e])
  /\ open[e] # NoCandidate =>
       Good(open[e]) /\ \A c \in emitted[e] : c.package # open[e].package
  /\ epc[e] # "stopped" =>
       \A o \in AllOutputs :
         \/ o \in unemitted[e]
         \/ \E c \in emitted[e] : Is(c, o)
         \/ (open[e] # NoCandidate /\ Is(open[e], o))
  /\ epc[e] # "emit" => open[e] = NoCandidate /\ unemitted[e] = {}
  /\ epc[e] = "stopped" => emitted[e] = {}

FunctionOn(f, S) == f = [x \in S |-> f[x]]

EmitInv ==
  /\ FunctionOn(candidates, Packages)
  /\ FunctionOn(epc, Emitters) /\ FunctionOn(unemitted, Emitters)
  /\ FunctionOn(emitted, Emitters) /\ FunctionOn(open, Emitters)
  /\ \A e \in Emitters : EmitterOK(e)
  /\ index.state = "whole" => GoodSet(index.entries)

\* An emitter that is alone finds on disk what it has written.
AloneInv ==
  ~mixed =>
    /\ \A e, f \in AtWork : e = f
    /\ \A e \in AtWork :
         /\ stale /\ On(emitted[e])
         /\ open[e] # NoCandidate => candidates[open[e].package] = Emptied
    /\ ~stale /\ index.state = "whole" => On(index.entries)

\* What the verifier has compared, and nobody has touched since.
CheckInv ==
  /\ listed # {} => GoodSet(listed)
  /\ passed # {} => GoodSet(passed)
  /\ unchecked \subseteq listed
  /\ \A c \in (listed \ unchecked) \cup passed : c.package \in Named
  /\ ~overtaken => AtWork = {} /\ On(listed \ unchecked) /\ On(passed)

LEMMA StepsKeepCandidates ==
  [Next]_vars => (EmitNext /\ UNCHANGED <<snapshotVars, moved>>) \/ UNCHANGED emitVars
<1> SUFFICES ASSUME [Next]_vars, ~UNCHANGED emitVars
             PROVE  EmitNext /\ UNCHANGED <<snapshotVars, moved>>
  OBVIOUS
<1>1. ~PrepareStep
  BY DEF PrepareStep, Step, PrepareBegin, OpenRecord, StageOutput, WriteTemp,
     ReplaceArtifact, FinishStaging, VerifyOnly, VerifyEntry, EndVerify, CheckManifest,
     WriteManifest, Abandon, ingressVars
<1>2. ~(ClearOutput \/ UNCHANGED vars \/ MoveMirror \/ SnapshotStep)
  BY DEF ClearOutput, vars, MoveMirror, SnapshotStep, ingressVars
<1>3. EmitStep
  BY <1>1, <1>2 DEF Next
<1>4. UNCHANGED snapshotVars
  BY <1>3 DEF EmitStep, EmitNext, EmitBegin, EmitOutput, WriteCandidate, OpenIndex, WriteIndex,
     EmitFails, CheckBegin, CheckCandidate, CheckEnd, CheckRefuses
<1> QED
  BY <1>3, <1>4 DEF EmitStep

\* The mirror moves away from what was checked out, once.
LEMMA MirrorMoves ==
  ASSUME SnapInv, [Next]_vars
  PROVE  UNCHANGED checkout /\ (mirror' = checkout => mirror = checkout)
<1>1. ASSUME SnapshotNext PROVE UNCHANGED checkout /\ (UNCHANGED mirror \/ mirror = checkout)
  BY <1>1 DEF SnapInv, SnapshotNext, ScanBegin, ScanPath, ShiftMirror, ScanEnd, WriteSnapshot,
     ScanFails, VerifySnapshot, Retain, trees
<1>2. ASSUME MoveMirror PROVE UNCHANGED checkout /\ mirror = checkout
  BY <1>2 DEF MoveMirror, SnapInv
<1> QED
  BY <1>1, <1>2, StepsKeepSnapshot DEF snapshotVars, trees

LEMMA GoodStays ==
  ASSUME SnapInv, [Next]_vars, UNCHANGED snapshot
  PROVE  /\ AllOutputs' = AllOutputs
         /\ \A c : Good(c) => Good(c)'
         /\ \A E : GoodSet(E) => GoodSet(E)'
<1>1. AllOutputs' = AllOutputs
  BY DEF AllOutputs, Full
<1>2. \A c : Good(c) => Good(c)'
  BY <1>1, MirrorMoves DEF Good
<1> QED
  BY <1>1, <1>2 DEF GoodSet, Distinct, Covers

LEMMA EmitInvInit == EmitInit => EmitInv /\ AloneInv /\ CheckInv
BY DEF EmitInit, EmitInv, AloneInv, CheckInv, EmitterOK, FunctionOn, Index, On, AtWork, Distinct

LEMMA CandidateFields ==
  ASSUME NEW r, NEW k, NEW m
  PROVE  LET c == Candidate(r, k, m) IN
         /\ c.state = "whole" /\ c.path = r.path /\ c.package = k /\ c.admission = r.admission
         /\ c.reasons = r.reasons /\ c.meta = m /\ c # NoCandidate
BY DEF Candidate, NoCandidate
LEMMA EmitterStays ==
  ASSUME SnapInv, EmitInv, [Next]_vars, UNCHANGED snapshot, NEW f \in Emitters, epc'[f] = epc[f],
         unemitted'[f] = unemitted[f], emitted'[f] = emitted[f], open'[f] = open[f]
  PROVE  EmitterOK(f)'
<1>1. EmitterOK(f)
  BY DEF EmitInv
<1>2. AllOutputs' = AllOutputs /\ \A c : Good(c) => Good(c)'
  BY GoodStays
<1>3. /\ epc'[f] \in {"stopped", "emit", "index"}
      /\ unemitted'[f] \subseteq AllOutputs'
      /\ epc'[f] # "emit" => open'[f] = NoCandidate /\ unemitted'[f] = {}
      /\ epc'[f] = "stopped" => emitted'[f] = {}
  BY <1>1, <1>2 DEF EmitterOK
<1>4. Distinct(emitted[f])'
  BY <1>1 DEF EmitterOK, Distinct
<1>5. \A c \in emitted'[f] : Good(c)'
  BY <1>1, <1>2 DEF EmitterOK
<1>6. open'[f] # NoCandidate =>
        /\ Good(open[f])'
        /\ \A c \in emitted'[f] : c.package # open'[f].package
  <2>1. ASSUME NEW c, open'[f] = c, Good(c) PROVE Good(open[f])'
    BY <1>2, <2>1
  <2> QED
    BY <1>1, <2>1 DEF EmitterOK
<1>7. epc'[f] # "stopped" =>
        \A o \in AllOutputs' :
          \/ o \in unemitted'[f]
          \/ \E c \in emitted'[f] : Is(c, o)
          \/ (open'[f] # NoCandidate /\ Is(open'[f], o))
  BY <1>1, <1>2 DEF EmitterOK
<1> QED
  BY <1>3, <1>4, <1>5, <1>6, <1>7 DEF EmitterOK, Is

LEMMA EndedOK ==
  ASSUME EmitInv, NEW e \in Emitters, EndEmission(e)
  PROVE  EmitterOK(e)'
BY DEF EndEmission, EmitInv, FunctionOn, EmitterOK, Distinct

LEMMA EmitInvStep == SnapInv /\ EmitInv /\ [Next]_vars /\ UNCHANGED snapshot
  => EmitInv'
<1> SUFFICES ASSUME SnapInv, EmitInv, [Next]_vars, UNCHANGED snapshot PROVE EmitInv'
  OBVIOUS
<1> USE DEF emission, checking, emitHistory
<1>i. ASSUME UNCHANGED index PROVE (index.state = "whole" => GoodSet(index.entries))'
  BY <1>i, GoodStays DEF EmitInv
<1>1. ASSUME NEW e \in Emitters, EmitBegin(e) PROVE EmitInv'
  <2>1. /\ epc' = [epc EXCEPT ![e] = "emit"] /\ UNCHANGED <<candidates, index, emitted, open>>
        /\ unemitted' = [unemitted EXCEPT
                           ![e] = UNION {{r} \X r.packages : r \in snapshot.records}]
        /\ epc[e] = "stopped" /\ snapshot.state = "whole"
    BY <1>1 DEF EmitBegin
  <2>2. unemitted' = [unemitted EXCEPT ![e] = AllOutputs]
    BY <2>1 DEF Full, AllOutputs
  <2>3. ASSUME NEW f \in Emitters PROVE EmitterOK(f)'
    <3>1. CASE f # e
      BY <2>1, <2>2, <3>1, EmitterStays DEF EmitInv, FunctionOn
    <3>2. CASE f = e
      <4>1. /\ epc'[e] = "emit" /\ unemitted'[e] = AllOutputs /\ emitted'[e] = {}
            /\ open'[e] = NoCandidate
        BY <2>1, <2>2 DEF EmitInv, FunctionOn, EmitterOK
      <4> QED
        BY <3>2, <4>1, GoodStays DEF EmitterOK, Distinct
    <3> QED
      BY <3>1, <3>2
  <2> QED
    BY <1>i, <2>1, <2>2, <2>3 DEF EmitInv, FunctionOn
<1>2. ASSUME NEW e \in Emitters, NEW k \in Packages, EmitOutput(e, k) PROVE EmitInv'
  <2>1. PICK o \in unemitted[e] :
          /\ o[2] = k /\ (\A c \in emitted[e] : c.package # k)
          /\ open' = [open EXCEPT ![e] = Candidate(o[1], k, MetadataOf(mirror[o[1].path]))]
          /\ unemitted' = [unemitted EXCEPT ![e] = @ \ {o}]
    BY <1>2 DEF EmitOutput
  <2>2. /\ epc[e] = "emit" /\ open[e] = NoCandidate
        /\ candidates' = [candidates EXCEPT ![k] = Emptied]
        /\ UNCHANGED <<snapshotVars, index, epc, emitted>>
    BY <1>2 DEF EmitOutput
  <2> DEFINE c == Candidate(o[1], k, MetadataOf(mirror[o[1].path]))
  <2>3. /\ c.state = "whole" /\ c.path = o[1].path /\ c.package = k
        /\ c.admission = o[1].admission /\ c.reasons = o[1].reasons
        /\ c.meta = MetadataOf(mirror[o[1].path]) /\ c # NoCandidate
    BY CandidateFields
  <2> HIDE DEF c
  <2>4. EmitterOK(e)
    BY DEF EmitInv
  <2>5. Good(c) /\ Is(c, o) /\ o \in AllOutputs
    BY <2>1, <2>3, <2>4 DEF Good, Is, EmitterOK
  <2>6. /\ open'[e] = c /\ unemitted'[e] = unemitted[e] \ {o}
        /\ epc'[e] = "emit" /\ emitted'[e] = emitted[e]
    BY <2>1, <2>2 DEF c, EmitInv, FunctionOn
  <2>7. EmitterOK(e)'
    BY <2>1, <2>2, <2>3, <2>4, <2>5, <2>6, GoodStays DEF EmitterOK, Distinct, Is
  <2>8. ASSUME NEW f \in Emitters, f # e PROVE EmitterOK(f)'
    BY <2>1, <2>2, <2>8, EmitterStays DEF EmitInv, FunctionOn
  <2> QED
    BY <1>i, <2>1, <2>2, <2>7, <2>8 DEF EmitInv, FunctionOn
<1>3. ASSUME NEW e \in Emitters, WriteCandidate(e) PROVE EmitInv'
  <2> DEFINE c == open[e]
  <2>1. /\ c # NoCandidate
        /\ emitted' = [emitted EXCEPT ![e] = @ \cup {c}]
        /\ open' = [open EXCEPT ![e] = NoCandidate]
        /\ UNCHANGED <<index, epc, unemitted>>
    BY <1>3 DEF WriteCandidate
  <2>2. FunctionOn(candidates, Packages)'
    BY <1>3 DEF WriteCandidate, EmitInv, FunctionOn
  <2>3. EmitterOK(e)
    BY DEF EmitInv
  <2>4. /\ open'[e] = NoCandidate /\ emitted'[e] = emitted[e] \cup {c}
        /\ unemitted'[e] = unemitted[e] /\ epc'[e] = epc[e] /\ epc[e] = "emit"
    BY <2>1, <2>3 DEF EmitInv, FunctionOn, EmitterOK
  <2>5. Good(c) /\ \A d \in emitted[e] : d.package # c.package
    BY <2>1, <2>3 DEF EmitterOK
  <2>6. EmitterOK(e)'
    BY <2>1, <2>3, <2>4, <2>5, GoodStays DEF EmitterOK, Distinct
  <2>7. ASSUME NEW f \in Emitters, f # e PROVE EmitterOK(f)'
    BY <2>1, <2>7, EmitterStays DEF EmitInv, FunctionOn
  <2> QED
    BY <1>i, <2>1, <2>2, <2>6, <2>7 DEF EmitInv, FunctionOn
<1>4. ASSUME NEW e \in Emitters, OpenIndex(e) PROVE EmitInv'
  <2>1. /\ epc[e] = "emit" /\ open[e] = NoCandidate /\ unemitted[e] = {}
        /\ epc' = [epc EXCEPT ![e] = "index"]
        /\ index'.state = "torn"
        /\ UNCHANGED <<candidates, unemitted, emitted, open>>
    BY <1>4 DEF OpenIndex, Index
  <2>2. EmitterOK(e)
    BY DEF EmitInv
  <2>3. EmitterOK(e)'
    BY <2>1, <2>2, GoodStays DEF EmitterOK, Distinct, EmitInv, FunctionOn
  <2>4. ASSUME NEW f \in Emitters, f # e PROVE EmitterOK(f)'
    BY <2>1, <2>4, EmitterStays DEF EmitInv, FunctionOn
  <2> QED
    BY <2>1, <2>3, <2>4 DEF EmitInv, FunctionOn
<1>5. ASSUME NEW e \in Emitters, WriteIndex(e) \/ EmitFails(e) PROVE EmitInv'
  <2>1. EndEmission(e) /\ FunctionOn(candidates, Packages)'
    BY <1>5 DEF WriteIndex, EmitFails, EmitInv, FunctionOn
  <2>2. ASSUME index'.state = "whole", index' # index PROVE GoodSet(index'.entries)
    <3>1. index' = Index("whole", emitted[e]) /\ epc[e] = "index"
      BY <1>5, <2>2 DEF WriteIndex, EmitFails, Index
    <3>2. EmitterOK(e)
      BY DEF EmitInv
    <3> QED
      BY <3>1, <3>2 DEF EmitterOK, GoodSet, Covers, Index
  <2>3. (index.state = "whole" => GoodSet(index.entries))'
    <3>1. CASE index' = index
      BY <1>i, <3>1
    <3>2. CASE index' # index
      <4>1. ASSUME NEW E, index'.entries = E, GoodSet(E) PROVE (GoodSet(index.entries))'
        BY <4>1, GoodStays
      <4> QED
        BY <2>2, <3>2, <4>1
    <3> QED
      BY <3>1, <3>2
  <2>4. ASSUME NEW f \in Emitters, f # e PROVE EmitterOK(f)'
    BY <2>1, <2>4, EmitterStays DEF EmitInv, FunctionOn, EndEmission
  <2> QED
    BY <2>1, <2>3, <2>4, EndedOK DEF EmitInv, FunctionOn, EndEmission
<1>6. ASSUME UNCHANGED <<candidates, index, emission>> PROVE EmitInv'
  <2>1. \A f \in Emitters : EmitterOK(f)'
    BY <1>6, EmitterStays
  <2> QED
    BY <1>i, <1>6, <2>1 DEF EmitInv, FunctionOn
<1>7. CASE UNCHANGED emitVars
  BY <1>6, <1>7 DEF emitVars
<1>8. CASE EmitNext
  BY <1>1, <1>2, <1>3, <1>4, <1>5, <1>6, <1>8
  DEF EmitNext, CheckBegin, CheckCandidate, CheckEnd, CheckRefuses
<1> QED
  BY <1>7, <1>8, StepsKeepCandidates

LEMMA PackageOf ==
  ASSUME SnapInv, NEW c, Good(c)
  PROVE  c.package \in Packages
<1>1. PICK o \in AllOutputs : Is(c, o)
  BY DEF Good
<1>2. PICK r \in Full : o[1] = r /\ o[2] \in r.packages
  BY <1>1 DEF AllOutputs
<1>3. r.packages \subseteq Packages
  BY RecordTyped DEF SnapInv
<1> QED
  BY <1>1, <1>2, <1>3 DEF Is

LEMMA AloneStep == SnapInv /\ EmitInv /\ AloneInv /\ [Next]_vars /\ UNCHANGED snapshot
  => AloneInv'
<1> SUFFICES ASSUME SnapInv, EmitInv, AloneInv, [Next]_vars, UNCHANGED snapshot, ~mixed'
             PROVE  AloneInv'
  BY DEF AloneInv
<1> USE DEF emission, checking, emitHistory
<1>1. ASSUME NEW e \in Emitters, EmitBegin(e) PROVE AloneInv'
  <2>1. /\ AtWork = {} /\ stale' /\ epc' = [epc EXCEPT ![e] = "emit"]
        /\ epc[e] = "stopped" /\ UNCHANGED <<candidates, index, emitted, open>>
    BY <1>1 DEF EmitBegin
  <2>2. AtWork' = {e}
    BY <2>1 DEF AtWork, EmitInv, FunctionOn
  <2>3. emitted[e] = {} /\ open[e] = NoCandidate
    BY <2>1 DEF EmitInv, EmitterOK
  <2> QED
    BY <2>1, <2>2, <2>3 DEF AloneInv, On
<1>a. ASSUME NEW e \in Emitters, epc[e] # "stopped", UNCHANGED mixed
      PROVE  /\ AtWork = {e} /\ stale /\ On(emitted[e])
             /\ open[e] # NoCandidate => candidates[open[e].package] = Emptied
  BY <1>a DEF AloneInv, AtWork
<1>2. ASSUME NEW e \in Emitters, NEW k \in Packages, EmitOutput(e, k) PROVE AloneInv'
  <2>1. PICK o \in unemitted[e] :
          /\ o[2] = k /\ (\A c \in emitted[e] : c.package # k)
          /\ open' = [open EXCEPT ![e] = Candidate(o[1], k, MetadataOf(mirror[o[1].path]))]
    BY <1>2 DEF EmitOutput
  <2>2. /\ epc[e] = "emit" /\ candidates' = [candidates EXCEPT ![k] = Emptied]
        /\ UNCHANGED <<index, epc, emitted, stale, mixed>>
    BY <1>2 DEF EmitOutput
  <2>3. AtWork' = {e} /\ stale' /\ On(emitted[e])
    BY <1>a, <2>2 DEF AtWork
  <2>4. On(emitted[e])'
    BY <2>1, <2>2, <2>3 DEF On
  <2>5. open'[e].package = k /\ candidates'[k] = Emptied
    BY <2>1, <2>2, CandidateFields DEF EmitInv, FunctionOn
  <2> QED
    BY <2>3, <2>4, <2>5 DEF AloneInv
<1>3. ASSUME NEW e \in Emitters, WriteCandidate(e) PROVE AloneInv'
  <2> DEFINE c == open[e]
  <2>1. /\ c # NoCandidate /\ open' = [open EXCEPT ![e] = NoCandidate]
        /\ emitted' = [emitted EXCEPT ![e] = @ \cup {c}]
        /\ UNCHANGED <<index, epc, stale, mixed>>
        /\ (candidates[c.package] = Emptied =>
             candidates' = [candidates EXCEPT ![c.package] = c])
    BY <1>3 DEF WriteCandidate
  <2>2. epc[e] = "emit" /\ Good(c) /\ \A d \in emitted[e] : d.package # c.package
    BY <2>1 DEF EmitInv, EmitterOK
  <2>3. /\ AtWork' = {e} /\ stale' /\ On(emitted[e])
        /\ candidates' = [candidates EXCEPT ![c.package] = c]
    BY <1>a, <2>1, <2>2 DEF AtWork
  <2>4. c.package \in Packages
    BY <2>2, PackageOf
  <2>5. candidates'[c.package] = c /\ \A d \in emitted[e] : candidates'[d.package] = d
    BY <2>2, <2>3, <2>4 DEF On, EmitInv, FunctionOn
  <2>6. emitted'[e] = emitted[e] \cup {c} /\ open'[e] = NoCandidate
    BY <2>1 DEF EmitInv, FunctionOn
  <2>7. On(emitted[e])'
    BY <2>5, <2>6 DEF On
  <2> QED
    BY <2>3, <2>6, <2>7 DEF AloneInv
<1>4. ASSUME NEW e \in Emitters, OpenIndex(e) PROVE AloneInv'
  <2>1. /\ epc[e] = "emit" /\ epc' = [epc EXCEPT ![e] = "index"]
        /\ UNCHANGED <<candidates, emitted, open, stale, mixed>>
    BY <1>4 DEF OpenIndex
  <2>2. AtWork' = AtWork
    BY <2>1 DEF AtWork, EmitInv, FunctionOn
  <2> QED
    BY <1>a, <2>1, <2>2 DEF AloneInv, On
<1>5. ASSUME NEW e \in Emitters, WriteIndex(e) PROVE AloneInv'
  <2>1. /\ epc[e] = "index" /\ epc' = [epc EXCEPT ![e] = "stopped"]
        /\ index'.state = "whole" => index'.entries = emitted[e]
        /\ UNCHANGED <<candidates, mixed>>
    BY <1>5 DEF WriteIndex, EndEmission, Index
  <2>2. AtWork = {e} /\ On(emitted[e])
    BY <1>a, <2>1
  <2>3. AtWork' = {}
    BY <2>1, <2>2 DEF AtWork, EmitInv, FunctionOn
  <2> QED
    BY <2>1, <2>2, <2>3 DEF AloneInv, On
<1>6. ASSUME NEW e \in Emitters, EmitFails(e) PROVE AloneInv'
  <2>1. epc[e] # "stopped" /\ epc' = [epc EXCEPT ![e] = "stopped"] /\ UNCHANGED <<stale, mixed>>
    BY <1>6 DEF EmitFails, EndEmission
  <2>2. AtWork = {e} /\ stale
    BY <1>a, <2>1
  <2>3. AtWork' = {}
    BY <2>1, <2>2 DEF AtWork, EmitInv, FunctionOn
  <2> QED
    BY <2>1, <2>2, <2>3 DEF AloneInv
<1>7. ASSUME UNCHANGED <<candidates, index, epc, emitted, open, stale, mixed>> PROVE AloneInv'
  BY <1>7 DEF AloneInv, AtWork, On
<1>8. CASE EmitNext
  BY <1>1, <1>2, <1>3, <1>4, <1>5, <1>6, <1>7, <1>8
  DEF EmitNext, CheckBegin, CheckCandidate, CheckEnd, CheckRefuses
<1>9. CASE UNCHANGED emitVars
  BY <1>7, <1>9 DEF emitVars
<1> QED
  BY <1>8, <1>9, StepsKeepCandidates

LEMMA CheckStep ==
  SnapInv /\ EmitInv /\ CheckInv /\ [Next]_vars /\ UNCHANGED snapshot => CheckInv'
<1> SUFFICES ASSUME SnapInv, EmitInv, CheckInv, [Next]_vars, UNCHANGED snapshot PROVE CheckInv'
  OBVIOUS
<1> USE DEF emission, checking, emitHistory
<1>s. ASSUME UNCHANGED listed PROVE (listed # {} => GoodSet(listed))'
  BY <1>s, GoodStays DEF CheckInv
<1>p. ASSUME UNCHANGED passed PROVE (passed # {} => GoodSet(passed))'
  BY <1>p, GoodStays DEF CheckInv
<1>1. ASSUME NEW e \in Emitters, EmitBegin(e) PROVE CheckInv'
  BY <1>1, <1>s DEF EmitBegin, CheckInv
<1>2. ASSUME UNCHANGED <<checking, overtaken>>, AtWork # {} PROVE CheckInv'
  BY <1>2, <1>s, <1>p DEF CheckInv
<1>3. ASSUME NEW e \in Emitters, NEW k \in Packages, EmitOutput(e, k) PROVE CheckInv'
  BY <1>2, <1>3 DEF EmitOutput, AtWork
<1>4. ASSUME NEW e \in Emitters, WriteCandidate(e) PROVE CheckInv'
  <2>1. epc[e] # "stopped"
    BY <1>4 DEF WriteCandidate, EmitInv, EmitterOK
  <2> QED
    BY <1>2, <1>4, <2>1 DEF WriteCandidate, AtWork
<1>5. ASSUME NEW e \in Emitters, OpenIndex(e) \/ WriteIndex(e) \/ EmitFails(e) PROVE CheckInv'
  BY <1>2, <1>5 DEF OpenIndex, WriteIndex, EmitFails, AtWork
<1>6. CASE CheckBegin
  <2>1. /\ listed' = index.entries /\ unchecked' = index.entries /\ passed' = {}
        /\ index.state = "whole" /\ overtaken' = (AtWork # {}) /\ UNCHANGED <<epc, candidates>>
    BY <1>6 DEF CheckBegin
  <2>2. ASSUME NEW E, listed' = E, GoodSet(E) PROVE (GoodSet(listed))'
    BY <2>2, GoodStays
  <2>3. (listed # {} => GoodSet(listed))'
    BY <2>1, <2>2 DEF EmitInv
  <2> QED
    BY <2>1, <2>3 DEF CheckInv, On, AtWork
<1>7. ASSUME NEW c \in unchecked, CheckCandidate(c) PROVE CheckInv'
  <2>1. /\ candidates[c.package] = c /\ c.package \in Named /\ unchecked' = unchecked \ {c}
        /\ UNCHANGED <<epc, candidates, listed, passed, overtaken>>
    BY <1>7 DEF CheckCandidate
  <2> QED
    BY <2>1, <1>s, <1>p DEF CheckInv, On, AtWork
<1>8. ASSUME NEW b \in BOOLEAN, CheckEnd(b) PROVE CheckInv'
  <2>1. /\ listed # {} /\ unchecked = {} /\ passed' = listed /\ listed' = {}
        /\ UNCHANGED <<epc, candidates, unchecked, overtaken>>
    BY <1>8 DEF CheckEnd
  <2>2. ASSUME NEW E, passed' = E, GoodSet(E) PROVE (GoodSet(passed))'
    BY <2>2, GoodStays
  <2>3. (GoodSet(passed))'
    BY <2>1, <2>2 DEF CheckInv
  <2> QED
    BY <2>1, <2>3 DEF CheckInv, On, AtWork
<1>9. CASE CheckRefuses
  <2>1. listed' = {} /\ unchecked' = {} /\ UNCHANGED <<epc, candidates, passed, overtaken>>
    BY <1>9 DEF CheckRefuses
  <2> QED
    BY <2>1, <1>p DEF CheckInv, On, AtWork
<1>10. CASE EmitNext
  BY <1>1, <1>3, <1>4, <1>5, <1>6, <1>7, <1>8, <1>9, <1>10 DEF EmitNext
<1>11. CASE UNCHANGED emitVars
  BY <1>s, <1>p, <1>11 DEF emitVars, CheckInv, On, AtWork
<1> QED
  BY <1>10, <1>11, StepsKeepCandidates

\* Before the verifier has decided there is no candidate; afterwards the snapshot
\* they are of stays.
LEMMA CandidatesStep ==
  SnapInv /\ Settled /\ EmitInv /\ AloneInv /\ CheckInv /\ [Next]_vars
  => SnapInv' /\ Settled' /\ EmitInv' /\ AloneInv' /\ CheckInv'
<1> SUFFICES ASSUME SnapInv, Settled, EmitInv, AloneInv, CheckInv, [Next]_vars
             PROVE  SnapInv' /\ Settled' /\ EmitInv' /\ AloneInv' /\ CheckInv'
  OBVIOUS
<1>1. SnapInv' /\ Settled'
  BY SnapStep, SettledStep
<1>2. (EmitInit => EmitInv /\ AloneInv /\ CheckInv)'
  BY EmitInvInit, PTL
<1>3. CASE verdict' = "none"
  BY <1>1, <1>2, <1>3 DEF Settled
<1>4. CASE verdict' # "none"
  <2>1. UNCHANGED snapshot
    BY <1>4, SnapshotFrozen
  <2> QED
    BY <1>1, <2>1, EmitInvStep, AloneStep, CheckStep
<1> QED
  BY <1>3, <1>4

LEMMA CandidatesHold == Spec => [](SnapInv /\ Settled /\ EmitInv /\ AloneInv /\ CheckInv)
<1>1. Init => SnapInv /\ Settled /\ EmitInv /\ AloneInv /\ CheckInv
  BY SnapInit, SettledInit, EmitInvInit DEF Init
<1> QED
  BY <1>1, CandidatesStep, PTL DEF Spec

LEMMA AllOutputsAre ==
  /\ \A o \in AllOutputs : o[1] \in Full /\ o[2] \in o[1].packages
  /\ \A r \in Full : \A k \in r.packages :
       <<r, k>> \in AllOutputs /\ <<r, k>>[1] = r /\ <<r, k>>[2] = k
<1>1. ASSUME NEW o \in AllOutputs PROVE o[1] \in Full /\ o[2] \in o[1].packages
  <2>1. PICK r \in Full : o \in {r} \X r.packages
    BY DEF AllOutputs
  <2> QED
    BY <2>1
<1>2. ASSUME NEW r \in Full, NEW k \in r.packages
      PROVE  <<r, k>> \in AllOutputs /\ <<r, k>>[1] = r /\ <<r, k>>[2] = k
  BY DEF AllOutputs
<1> QED
  BY <1>1, <1>2

LEMMA OutputsAre ==
  \A u : u \in Outputs(Full) <=> \E o \in AllOutputs : u = <<o[1].path, o[2]>>
<1>1. \A u : u \in Outputs(Full) <=> \E r \in Full : \E k \in r.packages : u = <<r.path, k>>
  BY DEF Outputs
<1>2. ASSUME NEW r \in Full, NEW k \in r.packages
      PROVE  \E o \in AllOutputs : <<r.path, k>> = <<o[1].path, o[2]>>
  <2>1. <<r, k>> \in AllOutputs /\ <<r, k>>[1] = r /\ <<r, k>>[2] = k
    BY AllOutputsAre
  <2> QED
    BY <2>1
<1>3. ASSUME NEW o \in AllOutputs
      PROVE  \E r \in Full : \E k \in r.packages : <<o[1].path, o[2]>> = <<r.path, k>>
  BY AllOutputsAre
<1> QED
  BY <1>1, <1>2, <1>3

LEMMA GoodSetOutputs ==
  ASSUME NEW E, GoodSet(E)
  PROVE  /\ \A c \in E : <<c.path, c.package>> \in Outputs(Full)
         /\ \A u \in Outputs(Full) : \E c \in E : u = <<c.path, c.package>>
<1>1. \A c \in E : <<c.path, c.package>> \in Outputs(Full)
  BY OutputsAre DEF GoodSet, Good, Is
<1>2. \A u \in Outputs(Full) : \E c \in E : u = <<c.path, c.package>>
  BY OutputsAre DEF GoodSet, Covers, Is
<1> QED
  BY <1>1, <1>2

\* What the verifier of the candidates passes is the snapshot's set, with valid
\* names, for any number of emitters that overlap, fail or read a mirror that moved,
\* and on disk unless one was at work.
THEOREM PassedCandidatesAreSnapshots == Spec => []PassedIsSnapshotSet
<1>1. SnapInv /\ EmitInv /\ CheckInv => PassedIsSnapshotSet
  <2> SUFFICES ASSUME SnapInv, EmitInv, CheckInv, passed # {} PROVE PassedIsSnapshotSet
    BY DEF PassedIsSnapshotSet
  <2>1. GoodSet(passed)
    BY DEF CheckInv
  <2>2. ASSUME NEW c \in passed
        PROVE  LET r == RecordOf(c.path, checkout[c.path]) IN
               /\ c.package \in Named
               /\ ~shifted => c.package \in r.packages /\ c.admission = r.admission /\ c.reasons = r.reasons
               /\ mirror = checkout => c.meta = MetadataOf(checkout[c.path])
               /\ overtaken \/ candidates[c.package] = c
    <3>1. PICK o \in AllOutputs : Is(c, o) /\ c.admission = o[1].admission /\ c.reasons = o[1].reasons
      BY <2>1 DEF GoodSet, Good
    <3>2. o[1] \in Full /\ o[2] \in o[1].packages
      BY <3>1, AllOutputsAre
    <3>3. ~shifted => o[1] = RecordOf(o[1].path, checkout[o[1].path])
      BY <3>2 DEF SnapInv, FromCheckout
    <3>4. c.package \in Named /\ (overtaken \/ candidates[c.package] = c)
      BY DEF CheckInv, On
    <3>5. mirror = checkout => c.meta = MetadataOf(checkout[c.path])
      BY <2>1 DEF GoodSet, Good
    <3> QED
      BY <3>1, <3>2, <3>3, <3>4, <3>5 DEF Is
  <2>3. {<<c.path, c.package>> : c \in passed} = Outputs(Full)
    BY <2>1, GoodSetOutputs
  <2>4. \A c, d \in passed : c # d => c.package # d.package
    BY <2>1 DEF GoodSet, Distinct
  <2> QED
    BY <2>2, <2>3, <2>4 DEF PassedIsSnapshotSet, Full
<1> QED
  BY <1>1, CandidatesHold, PTL

LEMMA GoodSetListsOutputs ==
  ASSUME SnapInv, NEW E, GoodSet(E)
  PROVE  ListsOutputs(E)
<1>1. \A c \in E : <<c.path, c.package>> \in Outputs(Full)
  BY GoodSetOutputs
<1>2. \A u \in Outputs(Full) : \E c \in E : u = <<c.path, c.package>>
  BY GoodSetOutputs
<1> DEFINE f == [u \in Outputs(Full) |-> CHOOSE c \in E : u = <<c.path, c.package>>]
<1>3. \A u \in Outputs(Full) : f[u] \in E /\ u = <<f[u].path, f[u].package>>
  BY <1>2
<1>4. f \in [Outputs(Full) -> E]
  BY <1>3
<1>5. \A u, w \in Outputs(Full) : f[u] = f[w] => u = w
  BY <1>3
<1>6. \A c \in E : \E u \in Outputs(Full) : f[u] = c
  <2> SUFFICES ASSUME NEW c \in E PROVE \E u \in Outputs(Full) : f[u] = c
    OBVIOUS
  <2>1. PICK u \in Outputs(Full) : u = <<c.path, c.package>>
    BY <1>1
  <2> HIDE DEF f
  <2>2. f[u] \in E /\ f[u].package = c.package
    BY <1>3, <2>1
  <2> QED
    BY <2>2 DEF GoodSet, Distinct
<1> HIDE DEF f
<1>7. IsFiniteSet(E) /\ Cardinality(E) = Cardinality(Outputs(Full))
  BY <1>4, <1>5, <1>6, OutputsFinite, SameCount
<1> DEFINE names == {c.package : c \in E}
           g == [c \in E |-> c.package]
<1>8. g \in [E -> names] /\ (\A c, d \in E : g[c] = g[d] => c = d)
       /\ (\A k \in names : \E c \in E : g[c] = k)
  BY DEF GoodSet, Distinct
<1>9. Cardinality(names) = Cardinality(E)
  <2> HIDE DEF names, g
  <2> QED
    BY <1>7, <1>8, SameCount
<1>10. names = UNION {r.packages : r \in Full}
  <2>1. \A k : k \in UNION {r.packages : r \in Full} <=> \E o \in AllOutputs : k = o[2]
    <3>1. ASSUME NEW r \in Full, NEW k \in r.packages PROVE \E o \in AllOutputs : k = o[2]
      <4>1. <<r, k>> \in AllOutputs /\ <<r, k>>[2] = k
        BY AllOutputsAre
      <4> QED
        BY <4>1
    <3>2. ASSUME NEW o \in AllOutputs PROVE o[2] \in UNION {r.packages : r \in Full}
      BY AllOutputsAre
    <3> QED
      BY <3>1, <3>2
  <2>2. \A k \in names : \E o \in AllOutputs : k = o[2]
    BY DEF GoodSet, Good, Is
  <2>3. \A o \in AllOutputs : o[2] \in names
    BY DEF GoodSet, Covers, Is
  <2> QED
    BY <2>1, <2>2, <2>3
<1> QED
  BY <1>7, <1>9, <1>10 DEF ListsOutputs, Full

\* An emission that ends without another beside it leaves an index with the outputs
\* of the snapshot and the files it lists, whatever an earlier one left on disk, and
\* a name in it that is not valid is a .SRCINFO's.
THEOREM LoneEmissionVerifies == Spec => []EmissionVerifies
<1>1. SnapInv /\ EmitInv /\ AloneInv => EmissionVerifies
  <2> SUFFICES ASSUME SnapInv, EmitInv, AloneInv, index.state = "whole", ~stale, ~mixed,
                      snapshot.state = "whole"
               PROVE  /\ ListsOutputs(index.entries) /\ On(index.entries)
                      /\ \A c \in index.entries : c.package \notin Named =>
                           \E r \in snapshot.records : r.srcinfo # NoFile /\ c.package \in r.packages
    BY DEF EmissionVerifies, On
  <2>1. GoodSet(index.entries) /\ On(index.entries)
    BY DEF EmitInv, AloneInv
  <2>2. ASSUME NEW c \in index.entries, c.package \notin Named
        PROVE  \E r \in snapshot.records : r.srcinfo # NoFile /\ c.package \in r.packages
    <3>1. PICK o \in AllOutputs : Is(c, o)
      BY <2>1 DEF GoodSet, Good
    <3>2. o[1] \in Full /\ c.package \in o[1].packages
      BY <3>1, AllOutputsAre DEF Is
    <3>3. PICK d \in Directories : o[1] = RecordOf(o[1].path, d)
      BY <3>2 DEF SnapInv, Recorded
    <3>4. o[1].packages = Names(d)
      BY <3>3, RecordFields
    <3>5. d.pkgbuild.form = "text" /\ d.srcinfo # NoFile
      BY <2>2, <3>2, <3>4, UnnamedFromSrcinfo
    <3>6. o[1].srcinfo = d.srcinfo
      BY <3>3, <3>5 DEF RecordOf
    <3> QED
      BY <3>2, <3>5, <3>6 DEF Full
  <2> QED
    BY <2>1, <2>2, GoodSetListsOutputs
<1> QED
  BY <1>1, CandidatesHold, PTL

-----------------------------------------------------------------------------
(***************************************************************************)
(* The staging of the overlay.                                             *)
(***************************************************************************)

\* Entry e is of an output of the snapshot, with the variant of the policy.
Own(e) ==
  /\ <<e.path, e.package>> \in Outputs(Full)
  /\ e.variant = VariantOf(policy, e.path, e.package)
  /\ e.selected = (ChosenFor(policy, e.path, e.package) # {})
OwnIds(E) == \A e, f \in E : e # f => IdOf(e) # IdOf(f)
Staged(E) == (\A e \in E : Own(e)) /\ OwnIds(E)
Has(E, u) == \E e \in E : u = <<e.path, e.package>>

PolicyFits ==
  /\ retained.state = "whole"
  /\ VariantsValid(policy, retained)

PreparerOK(q) ==
  /\ PolicyFits
  /\ Staged(entries[q])
  /\ queue[q] \subseteq Outputs(Full)
  /\ \A u \in Outputs(Full) : u[1] \in unread[q] \/ u \in queue[q] \/ Has(entries[q], u)
  /\ pc[q] # "stage" => unread[q] = {} /\ queue[q] = {}
  /\ pc[q] \in {"check-new", "write-manifest"} => CountsAgree(entries[q])

StagedInv ==
  /\ FunctionOn(pc, Preparers) /\ FunctionOn(unread, Preparers)
  /\ FunctionOn(queue, Preparers) /\ FunctionOn(entries, Preparers)
  /\ policy \in Policies
  /\ retained.state = "whole" =>
       retained.records = Full /\ retained.duplicates = DuplicatesOf(Full)
  /\ \A q \in Preparers : pc[q] \in Preparing => PreparerOK(q)
  /\ \A q \in Preparers : pc[q] \notin Preparing => unread[q] = {} /\ queue[q] = {}
  /\ \A q \in Preparers : pc[q] = "stopped" => entries[q] = {}
  /\ manifest.state = "whole" =>
       /\ PolicyFits
       /\ Staged(manifest.entries)
       /\ \A u \in Outputs(Full) : Has(manifest.entries, u)
       /\ CountsAgree(manifest.entries)

LEMMA StagedInit == StageInit /\ retained = NoSnapshot => StagedInv
BY SnapshotFields DEF StageInit, StagedInv, FunctionOn, Preparing, NoManifest, Manifest,
   NoSnapshot

\* What a preparer reads outside the mirror never changes once it is retained.
LEMMA WorldStays ==
  ASSUME SnapInv, [Next]_vars, UNCHANGED snapshot
  PROVE  /\ Full' = Full /\ policy' = policy
         /\ retained.state = "whole" => UNCHANGED retained
         /\ PolicyFits => PolicyFits'
<1>1. Full' = Full
  BY DEF Full
<1>2. ASSUME SnapshotStep
      PROVE  UNCHANGED policy /\ (retained.state = "whole" => UNCHANGED retained)
  BY <1>2, SnapshotFields DEF SnapshotStep, SnapshotNext, ScanBegin, ScanPath, ShiftMirror, ScanEnd,
     WriteSnapshot, ScanFails, VerifySnapshot, Retain, NoSnapshot
<1>3. ASSUME PrepareStep PROVE UNCHANGED <<retained, policy>>
  BY <1>3 DEF PrepareStep, Step, PrepareBegin, OpenRecord, StageOutput, WriteTemp,
     ReplaceArtifact, FinishStaging, VerifyOnly, VerifyEntry, EndVerify, CheckManifest,
     WriteManifest, Abandon, ingressVars, snapshotVars
<1>4. ASSUME EmitStep PROVE UNCHANGED <<retained, policy>>
  BY <1>4, StepsKeepSnapshot DEF EmitStep, EmitNext, EmitBegin, EmitOutput, WriteCandidate,
     OpenIndex, WriteIndex, EmitFails, CheckBegin, CheckCandidate, CheckEnd, CheckRefuses,
     snapshotVars
<1>5. ASSUME ClearOutput \/ MoveMirror \/ UNCHANGED vars PROVE UNCHANGED <<retained, policy>>
  BY <1>5 DEF ClearOutput, MoveMirror, vars, ingressVars, snapshotVars
<1>6. policy' = policy /\ (retained.state = "whole" => UNCHANGED retained)
  BY <1>2, <1>3, <1>4, <1>5 DEF Next
<1>7. PolicyFits => PolicyFits'
  BY <1>6 DEF PolicyFits
<1> QED
  BY <1>1, <1>6, <1>7

LEMMA StagedStays ==
  ASSUME SnapInv, [Next]_vars, UNCHANGED snapshot
  PROVE  \A E : Staged(E) => Staged(E)'
BY WorldStays DEF Staged, Own, OwnIds, IdOf

\* The records of a snapshot that is retained later were accepted.
LEMMA RetainedStays ==
  ASSUME SnapInv, StagedInv, [Next]_vars, UNCHANGED snapshot
  PROVE  retained'.state = "whole" =>
           retained'.records = Full' /\ retained'.duplicates = DuplicatesOf(Full')
<1>1. Full' = Full
  BY WorldStays
<1>2. CASE UNCHANGED retained
  BY <1>1, <1>2 DEF StagedInv
<1>3. CASE ~UNCHANGED retained
  <2>1. SnapshotNext
    BY <1>3, StepsKeepSnapshot DEF MoveMirror, snapshotVars
  <2>2. retained' = snapshot /\ Accepts(snapshot)
    BY <1>3, <2>1 DEF SnapshotNext, ScanBegin, ScanPath, ShiftMirror, ScanEnd, WriteSnapshot,
       ScanFails,
       VerifySnapshot, Retain, SnapInv
  <2> QED
    BY <1>1, <2>2 DEF Accepts, Full
<1> QED
  BY <1>2, <1>3

LEMMA PreparerStays ==
  ASSUME SnapInv, StagedInv, [Next]_vars, UNCHANGED snapshot, NEW q \in Preparers,
         pc'[q] \in Preparing => pc[q] \in Preparing /\ (pc[q] # "stage" => pc'[q] # "stage"),
         unread'[q] = unread[q], queue'[q] = queue[q], entries'[q] = entries[q],
         pc'[q] \in Preparing /\ pc[q] = "stage" /\ pc'[q] # "stage" =>
           unread[q] = {} /\ queue[q] = {},
         pc'[q] \in {"check-new", "write-manifest"} =>
           pc[q] \in {"check-new", "write-manifest"} \/ CountsAgree(entries[q])
  PROVE  pc'[q] \in Preparing => PreparerOK(q)'
<1> SUFFICES ASSUME pc'[q] \in Preparing PROVE PreparerOK(q)'
  OBVIOUS
<1>1. PreparerOK(q)
  BY DEF StagedInv
<1>2. Staged(entries[q])'
  <2>1. ASSUME NEW E, E = entries'[q], Staged(E) PROVE Staged(entries[q])'
    BY <2>1, StagedStays
  <2> QED
    BY <1>1, <2>1 DEF PreparerOK
<1>3. PolicyFits' /\ Full' = Full
  BY <1>1, WorldStays DEF PreparerOK
<1>4. Outputs(Full)' = Outputs(Full)
  BY <1>3 DEF Outputs
<1>5. \A u \in Outputs(Full)' : u[1] \in unread'[q] \/ u \in queue'[q] \/ Has(entries[q], u)'
  BY <1>1, <1>4 DEF PreparerOK, Has
<1>6. queue'[q] \subseteq Outputs(Full)' /\ (pc'[q] # "stage" => unread'[q] = {} /\ queue'[q] = {})
  BY <1>1, <1>4 DEF PreparerOK
<1>7. pc'[q] \in {"check-new", "write-manifest"} => CountsAgree(entries[q])'
  BY <1>1 DEF PreparerOK, CountsAgree
<1> QED
  BY <1>2, <1>3, <1>5, <1>6, <1>7 DEF PreparerOK

LEMMA DuplicatedHas ==
  ASSUME SnapInv, NEW r \in Full, NEW s \in Full, r # s, NEW k \in r.packages, k \in s.packages
  PROVE  \E d \in DuplicatesOf(Full) : d.package = k /\ r.path \in {d.first, d.second}
<1>1. r.path \in PathsOf(Full, k) /\ s.path \in PathsOf(Full, k) /\ r.path # s.path
  BY FullPath DEF PathsOf
<1>2. k \in UNION {t.packages : t \in Full}
  OBVIOUS
<1>3. \A p \in PathsOf(Full, k) \ {FirstOf(Full, k)} :
        [package |-> k, first |-> FirstOf(Full, k), second |-> p] \in DuplicatesOf(Full)
  BY <1>2, DuplicatesAre
<1> DEFINE Twice(p) == [package |-> k, first |-> FirstOf(Full, k), second |-> p]
<1>4. \A p : Twice(p).package = k /\ Twice(p).first = FirstOf(Full, k) /\ Twice(p).second = p
  OBVIOUS
<1> HIDE DEF Twice
<1>5. CASE r.path = FirstOf(Full, k)
  <2>1. Twice(s.path) \in DuplicatesOf(Full)
    BY <1>1, <1>3, <1>5 DEF Twice
  <2> QED
    BY <1>4, <1>5, <2>1
<1>6. CASE r.path # FirstOf(Full, k)
  <2>1. Twice(r.path) \in DuplicatesOf(Full)
    BY <1>1, <1>3, <1>6 DEF Twice
  <2> QED
    BY <1>4, <2>1
<1> QED
  BY <1>5, <1>6

LEMMA OutputOf ==
  \A p, k : <<p, k>> \in Outputs(Full) => \E r \in Full : r.path = p /\ k \in r.packages
BY DEF Outputs

\* Where several paths emit a package, the policy gives each a variant.
LEMMA AlternativeSelected ==
  ASSUME SnapInv, StagedInv, PolicyFits, NEW p, NEW o, NEW k, p # o,
         <<p, k>> \in Outputs(Full), <<o, k>> \in Outputs(Full)
  PROVE  ChosenFor(policy, p, k) # {}
<1>1. PICK r \in Full : r.path = p /\ k \in r.packages
  BY OutputOf
<1>2. PICK s \in Full : s.path = o /\ k \in s.packages
  BY OutputOf
<1>3. PICK d \in retained.duplicates : d.package = k /\ p \in {d.first, d.second}
  BY <1>1, <1>2, DuplicatedHas DEF StagedInv, PolicyFits
<1>4. k \in Duplicated(retained) /\ p \in DuplicatePaths(retained, k)
  <2>1. d \in {e \in retained.duplicates : e.package = k}
    BY <1>3
  <2> QED
    BY <1>3, <2>1 DEF Duplicated, DuplicatePaths
<1>5. PICK g \in policy : k \in g.packages
  BY <1>4 DEF PolicyFits, VariantsValid
<1>6. p \in PathsIn(g)
  BY <1>4, <1>5 DEF PolicyFits, VariantsValid, GroupValid
<1>7. PICK c \in g.candidates : c[1] = p
  BY <1>6 DEF PathsIn
<1>8. g \in Groups
  BY OverlayStageAssumption DEF StagedInv
<1>9. c = <<p, c[2]>> /\ c[2] \in Variants
  BY <1>7, <1>8 DEF Groups
<1> QED
  BY <1>5, <1>7, <1>9 DEF ChosenFor

LEMMA EntryFields ==
  ASSUME NEW r, NEW k
  PROVE  LET e == EntryFor(r, k) IN
         /\ e.path = r.path /\ e.package = k /\ e.variant = VariantOf(policy, r.path, k)
         /\ e.selected = (ChosenFor(policy, r.path, k) # {})
         /\ e.admission = r.admission
         /\ e.version = MetadataOf(mirror[r.path]).version
         /\ e.native = MetadataOf(mirror[r.path]).native
BY DEF EntryFor

LEMMA StageOutputOK ==
  ASSUME StagedInv, NEW q \in Preparers, StageOutput(q)
  PROVE  PreparerOK(q)'
<1>1. /\ pc[q] \in Preparing /\ PreparerOK(q)
      /\ UNCHANGED <<retained, policy, snapshot, pc, unread>> /\ pc[q] = "stage"
  BY DEF StagedInv, StageOutput, Between, Preparing, ingressVars, snapshotVars
<1>2. PICK r \in retained.records, k \in Packages :
        /\ <<r.path, k>> \in queue[q]
        /\ \A f \in entries[q] : IdOf(f) # IdOf(EntryFor(r, k))
        /\ entries' = [entries EXCEPT ![q] = @ \cup {EntryFor(r, k)}]
        /\ queue' = [queue EXCEPT ![q] = @ \ {<<r.path, k>>}]
  BY DEF StageOutput, IsNextStaged
<1> DEFINE e == EntryFor(r, k)
<1>3. /\ e.path = r.path /\ e.package = k /\ e.variant = VariantOf(policy, r.path, k)
      /\ e.selected = (ChosenFor(policy, r.path, k) # {})
  BY EntryFields
<1> HIDE DEF e
<1>4. entries'[q] = entries[q] \cup {e} /\ queue'[q] = queue[q] \ {<<r.path, k>>}
  BY <1>2 DEF StagedInv, FunctionOn, e
<1>5. Full' = Full
  BY <1>1 DEF Full
<1>6. <<r.path, k>> \in Outputs(Full) /\ Outputs(Full)' = Outputs(Full)
  BY <1>1, <1>2, <1>5 DEF PreparerOK, Outputs
<1>7. \A f \in entries'[q] : Own(f)'
  BY <1>1, <1>3, <1>4, <1>6 DEF PreparerOK, Staged, Own
<1>8. OwnIds(entries[q])'
  BY <1>1, <1>2, <1>4 DEF PreparerOK, Staged, OwnIds, IdOf, e
<1>9. \A u \in Outputs(Full)' : u[1] \in unread'[q] \/ u \in queue'[q] \/ Has(entries[q], u)'
  BY <1>1, <1>3, <1>4, <1>6 DEF PreparerOK, Has
<1>10. PolicyFits'
  BY <1>1 DEF PreparerOK, PolicyFits
<1>11. queue'[q] \subseteq Outputs(Full)'
  BY <1>1, <1>4, <1>6 DEF PreparerOK
<1> QED
  BY <1>1, <1>7, <1>8, <1>9, <1>10, <1>11 DEF PreparerOK, Staged

LEMMA OpenRecordOK ==
  ASSUME SnapInv, StagedInv, NEW q \in Preparers, OpenRecord(q)
  PROVE  PreparerOK(q)'
<1>1. /\ pc[q] \in Preparing /\ PreparerOK(q)
      /\ UNCHANGED <<retained, policy, snapshot, pc, entries>> /\ pc[q] = "stage"
  BY DEF StagedInv, OpenRecord, Between, Preparing, ingressVars, snapshotVars
<1>2. PICK r \in retained.records :
        /\ unread' = [unread EXCEPT ![q] = @ \ {r.path}]
        /\ queue' = [queue EXCEPT ![q] = {r.path} \X r.packages]
  BY DEF OpenRecord
<1>3. unread'[q] = unread[q] \ {r.path} /\ queue'[q] = {r.path} \X r.packages /\ queue[q] = {}
  BY <1>2 DEF StagedInv, FunctionOn, OpenRecord
<1>4. Full' = Full /\ r \in Full
  BY <1>1 DEF Full, StagedInv, PreparerOK, PolicyFits
<1>5. Outputs(Full)' = Outputs(Full)
  BY <1>4 DEF Outputs
<1>6. \A u \in Outputs(Full) : u[1] = r.path => u \in {r.path} \X r.packages
  <2> SUFFICES ASSUME NEW u \in Outputs(Full), u[1] = r.path PROVE u \in {r.path} \X r.packages
    OBVIOUS
  <2>1. PICK s \in Full : u \in {s.path} \X s.packages
    BY DEF Outputs
  <2>2. s = r
    BY <1>4, <2>1, FullPath
  <2> QED
    BY <2>1, <2>2
<1>7. \A u \in Outputs(Full)' : u[1] \in unread'[q] \/ u \in queue'[q] \/ Has(entries[q], u)'
  BY <1>1, <1>3, <1>5, <1>6 DEF PreparerOK, Has
<1>8. queue'[q] \subseteq Outputs(Full)'
  BY <1>3, <1>4, <1>5 DEF Outputs
<1>9. Staged(entries[q])' /\ PolicyFits'
  BY <1>1, <1>5 DEF PreparerOK, Staged, Own, OwnIds, IdOf, PolicyFits
<1> QED
  BY <1>1, <1>7, <1>8, <1>9 DEF PreparerOK

LEMMA PrepareBeginOK ==
  ASSUME StagedInv, NEW q \in Preparers, PrepareBegin(q)
  PROVE  PreparerOK(q)'
<1>1. /\ UNCHANGED <<retained, policy, snapshot, entries, queue>> /\ PolicyFits
      /\ entries[q] = {} /\ queue[q] = {}
  BY DEF PrepareBegin, ingressVars, snapshotVars, PolicyFits, StagedInv, Preparing
<1>2. Full' = Full /\ retained.records = Full
  BY <1>1 DEF Full, StagedInv, PolicyFits
<1>3. unread'[q] = {r.path : r \in Full} /\ pc'[q] = "stage"
  BY <1>2 DEF PrepareBegin, StagedInv, FunctionOn, Goto
<1>4. \A u \in Outputs(Full)' : u[1] \in unread'[q]
  BY <1>2, <1>3 DEF Outputs
<1>5. Staged(entries[q])' /\ queue'[q] \subseteq Outputs(Full)' /\ PolicyFits'
  BY <1>1 DEF Staged, OwnIds, PolicyFits
<1> QED
  BY <1>3, <1>4, <1>5 DEF PreparerOK

\* A preparer changes nothing of another.
LEMMA StepIsOwn ==
  ASSUME StagedInv, NEW q \in Preparers, Step(q)
  PROVE  /\ FunctionOn(pc, Preparers)' /\ FunctionOn(unread, Preparers)'
         /\ FunctionOn(queue, Preparers)' /\ FunctionOn(entries, Preparers)'
         /\ \A o \in Preparers \ {q} :
              /\ pc'[o] = pc[o] /\ unread'[o] = unread[o] /\ queue'[o] = queue[o]
              /\ entries'[o] = entries[o]
<1> USE DEF StagedInv, FunctionOn
<1>1. CASE PrepareBegin(q) BY <1>1 DEF PrepareBegin, Goto
<1>2. CASE OpenRecord(q)
  <2>1. PICK X, Y : unread' = [unread EXCEPT ![q] = X] /\ queue' = [queue EXCEPT ![q] = Y]
    BY <1>2 DEF OpenRecord
  <2> QED
    BY <1>2, <2>1 DEF OpenRecord
<1>3. CASE StageOutput(q)
  <2>1. PICK X, Y : entries' = [entries EXCEPT ![q] = X] /\ queue' = [queue EXCEPT ![q] = Y]
    BY <1>3 DEF StageOutput
  <2> QED
    BY <1>3, <2>1 DEF StageOutput
<1>4. CASE WriteTemp(q) BY <1>4 DEF WriteTemp, local
<1>5. CASE ReplaceArtifact(q) BY <1>5 DEF ReplaceArtifact
<1>6. CASE FinishStaging(q) BY <1>6 DEF FinishStaging, Goto
<1>7. CASE VerifyOnly(q) BY <1>7 DEF VerifyOnly, Goto
<1>8. CASE VerifyEntry(q) BY <1>8 DEF VerifyEntry
<1>9. CASE EndVerify(q) BY <1>9 DEF EndVerify, Goto, Stop, local
<1>10. CASE CheckManifest(q) BY <1>10 DEF CheckManifest, Goto, local
<1>11. CASE WriteManifest(q) BY <1>11 DEF WriteManifest, Stop, Goto
<1>12. CASE Abandon(q) BY <1>12 DEF Abandon, Stop, Goto
<1> QED
  BY <1>1, <1>2, <1>3, <1>4, <1>5, <1>6, <1>7, <1>8, <1>9, <1>10, <1>11, <1>12 DEF Step

\* Steps of nobody's, which clear the manifest at most.
LEMMA OtherSteps ==
  ASSUME [Next]_vars, ~PrepareStep
  PROVE  UNCHANGED <<pc, local>> /\ (UNCHANGED disk \/ ClearOutput)
BY DEF Next, vars, SnapshotStep, EmitStep, MoveMirror, ClearOutput

\* A manifest is written from the entries of its preparer.
LEMMA NewManifest ==
  ASSUME [Next]_vars, manifest'.state = "whole"
  PROVE  UNCHANGED manifest \/ \E q \in Preparers : WriteManifest(q) /\ manifest'.entries = entries[q]
<1>1. ~ClearOutput
  BY DEF ClearOutput, NoManifest, Manifest
<1>2. CASE ~PrepareStep
  BY <1>1, <1>2, OtherSteps DEF disk
<1>3. ASSUME NEW q \in Preparers, Step(q) PROVE UNCHANGED manifest \/ WriteManifest(q)
  BY <1>3 DEF Step, PrepareBegin, OpenRecord, StageOutput, WriteTemp, ReplaceArtifact,
     FinishStaging, VerifyOnly, VerifyEntry, EndVerify, CheckManifest, Abandon, disk, Manifest
<1>4. \A q \in Preparers : WriteManifest(q) => manifest'.entries = entries[q]
  BY DEF WriteManifest, Manifest
<1> QED
  BY <1>2, <1>3, <1>4 DEF PrepareStep

LEMMA StoppedOK ==
  ASSUME StagedInv, NEW q \in Preparers, Stop(q)
  PROVE  pc'[q] = "stopped" /\ unread'[q] = {} /\ queue'[q] = {} /\ entries'[q] = {}
BY DEF Stop, Goto, StagedInv, FunctionOn

\* The preparer that takes a step.
LEMMA StepOK ==
  ASSUME SnapInv, StagedInv, [Next]_vars, UNCHANGED snapshot, NEW q \in Preparers, Step(q)
  PROVE  /\ pc'[q] \in Preparing => PreparerOK(q)'
         /\ pc'[q] \notin Preparing => unread'[q] = {} /\ queue'[q] = {}
         /\ pc'[q] = "stopped" => entries'[q] = {}
<1>1. CASE PrepareBegin(q)
  <2>1. pc'[q] = "stage"
    BY <1>1 DEF PrepareBegin, Goto, StagedInv, FunctionOn
  <2> QED
    BY <1>1, <2>1, PrepareBeginOK DEF Preparing
<1>2. CASE OpenRecord(q)
  <2>1. pc'[q] = "stage"
    BY <1>2 DEF OpenRecord, Between
  <2> QED
    BY <1>2, <2>1, OpenRecordOK DEF Preparing
<1>3. CASE StageOutput(q)
  <2>1. pc'[q] = "stage"
    BY <1>3 DEF StageOutput, Between
  <2> QED
    BY <1>3, <2>1, StageOutputOK DEF Preparing
<1>4. CASE WriteTemp(q) \/ ReplaceArtifact(q)
  <2>1. UNCHANGED <<pc, unread, queue, entries>> /\ pc[q] = "stage"
    BY <1>4 DEF WriteTemp, ReplaceArtifact, local
  <2> QED
    BY <2>1, PreparerStays DEF Preparing
<1>5. CASE FinishStaging(q)
  <2>1. /\ UNCHANGED <<unread, queue, entries>> /\ pc[q] = "stage" /\ pc'[q] = "verify"
        /\ unread[q] = {} /\ queue[q] = {}
    BY <1>5 DEF FinishStaging, Between, Goto, StagedInv, FunctionOn
  <2> QED
    BY <2>1, PreparerStays DEF Preparing
<1>6. CASE VerifyOnly(q)
  <2>1. UNCHANGED <<unread, queue>> /\ pc[q] = "stopped" /\ pc'[q] = "verify-only"
    BY <1>6 DEF VerifyOnly, Goto, StagedInv, FunctionOn
  <2> QED
    BY <2>1 DEF StagedInv, Preparing
<1>7. CASE VerifyEntry(q)
  <2>1. UNCHANGED <<pc, unread, queue, entries>> /\ pc[q] \in {"verify", "verify-only"}
    BY <1>7 DEF VerifyEntry
  <2>2. pc'[q] \in Preparing => PreparerOK(q)'
    BY <2>1, PreparerStays DEF Preparing
  <2> QED
    BY <2>1, <2>2 DEF StagedInv
<1>8. CASE EndVerify(q)
  <2>1. CASE pc[q] = "verify"
    <3>1. /\ UNCHANGED <<unread, queue, entries>> /\ pc'[q] = "check-new"
          /\ CountsAgree(entries[q])
      BY <1>8, <2>1 DEF EndVerify, Goto, StagedInv, FunctionOn, local
    <3> QED
      BY <2>1, <3>1, PreparerStays DEF Preparing
  <2>2. CASE pc[q] # "verify"
    <3>1. Stop(q)
      BY <1>8, <2>2 DEF EndVerify
    <3> QED
      BY <3>1, StoppedOK DEF Preparing
  <2> QED
    BY <2>1, <2>2
<1>9. CASE CheckManifest(q)
  <2>1. /\ UNCHANGED <<unread, queue, entries>>
        /\ pc[q] = "check-new" /\ pc'[q] = "write-manifest"
    BY <1>9 DEF CheckManifest, Goto, StagedInv, FunctionOn, local
  <2> QED
    BY <2>1, PreparerStays DEF Preparing
<1>10. CASE WriteManifest(q) \/ Abandon(q)
  <2>1. Stop(q)
    BY <1>10 DEF WriteManifest, Abandon
  <2> QED
    BY <2>1, StoppedOK DEF Preparing
<1> QED
  BY <1>1, <1>2, <1>3, <1>4, <1>5, <1>6, <1>7, <1>8, <1>9, <1>10 DEF Step

\* The manifest a preparer writes lists its entries.
LEMMA ManifestIsStaged ==
  ASSUME SnapInv, StagedInv, [Next]_vars, UNCHANGED snapshot, manifest'.state = "whole"
  PROVE  /\ PolicyFits'
         /\ Staged(manifest.entries)'
         /\ \A u \in Outputs(Full)' : Has(manifest.entries, u)'
         /\ CountsAgree(manifest.entries)'
<1>1. Full' = Full
  BY WorldStays
<1>2. Outputs(Full)' = Outputs(Full)
  BY <1>1 DEF Outputs
<1>3. ASSUME NEW E, E = manifest'.entries, PolicyFits, Staged(E), \A u \in Outputs(Full) : Has(E, u),
             CountsAgree(E)
      PROVE  /\ PolicyFits'
             /\ Staged(manifest.entries)'
             /\ \A u \in Outputs(Full)' : Has(manifest.entries, u)'
             /\ CountsAgree(manifest.entries)'
  <2>1. Staged(E)' /\ PolicyFits'
    BY <1>3, StagedStays, WorldStays
  <2> QED
    BY <1>2, <1>3, <2>1 DEF Has, CountsAgree
<1>4. CASE UNCHANGED manifest
  BY <1>3, <1>4 DEF StagedInv
<1>5. ASSUME NEW q \in Preparers, WriteManifest(q)
      PROVE  /\ PolicyFits'
             /\ Staged(manifest.entries)'
             /\ \A u \in Outputs(Full)' : Has(manifest.entries, u)'
             /\ CountsAgree(manifest.entries)'
  <2>1. pc[q] = "write-manifest" /\ manifest'.entries = entries[q] /\ PreparerOK(q)
    BY <1>5 DEF WriteManifest, Manifest, StagedInv, Preparing
  <2>2. /\ PolicyFits /\ Staged(entries[q]) /\ CountsAgree(entries[q])
        /\ \A u \in Outputs(Full) : Has(entries[q], u)
    BY <2>1 DEF PreparerOK
  <2> QED
    BY <1>3, <2>1, <2>2
<1> QED
  BY <1>4, <1>5, NewManifest

LEMMA StagedStep == SnapInv /\ StagedInv /\ [Next]_vars /\ UNCHANGED snapshot => StagedInv'
<1> SUFFICES ASSUME SnapInv, StagedInv, [Next]_vars, UNCHANGED snapshot PROVE StagedInv'
  OBVIOUS
<1>1. policy' \in Policies
  BY WorldStays DEF StagedInv
<1>2. CASE ~PrepareStep
  <2>1. UNCHANGED <<pc, unread, queue, entries>>
    BY <1>2, OtherSteps DEF local
  <2>2. \A q \in Preparers : pc'[q] \in Preparing => PreparerOK(q)'
    BY <2>1, PreparerStays
  <2>3. /\ FunctionOn(pc, Preparers)' /\ FunctionOn(unread, Preparers)'
        /\ FunctionOn(queue, Preparers)' /\ FunctionOn(entries, Preparers)'
        /\ \A q \in Preparers : pc'[q] \notin Preparing => unread'[q] = {} /\ queue'[q] = {}
        /\ \A q \in Preparers : pc'[q] = "stopped" => entries'[q] = {}
    BY <2>1 DEF StagedInv, FunctionOn
  <2> QED
    BY <1>1, <2>2, <2>3, RetainedStays, ManifestIsStaged DEF StagedInv
<1>3. CASE PrepareStep
  <2>1. PICK q \in Preparers : Step(q)
    BY <1>3 DEF PrepareStep
  <2>2. \A o \in Preparers \ {q} :
          /\ pc'[o] \in Preparing => PreparerOK(o)'
          /\ pc'[o] \notin Preparing => unread'[o] = {} /\ queue'[o] = {}
          /\ pc'[o] = "stopped" => entries'[o] = {}
    <3> SUFFICES ASSUME NEW o \in Preparers \ {q}
                 PROVE  /\ pc'[o] \in Preparing => PreparerOK(o)'
                        /\ pc'[o] \notin Preparing => unread'[o] = {} /\ queue'[o] = {}
                        /\ pc'[o] = "stopped" => entries'[o] = {}
      OBVIOUS
    <3>1. /\ pc'[o] = pc[o] /\ unread'[o] = unread[o] /\ queue'[o] = queue[o]
          /\ entries'[o] = entries[o]
      BY <2>1, StepIsOwn
    <3> QED
      BY <3>1, PreparerStays DEF StagedInv
  <2>3. \A o \in Preparers :
          /\ pc'[o] \in Preparing => PreparerOK(o)'
          /\ pc'[o] \notin Preparing => unread'[o] = {} /\ queue'[o] = {}
          /\ pc'[o] = "stopped" => entries'[o] = {}
    BY <2>1, <2>2, StepOK
  <2>4. /\ FunctionOn(pc, Preparers)' /\ FunctionOn(unread, Preparers)'
        /\ FunctionOn(queue, Preparers)' /\ FunctionOn(entries, Preparers)'
    BY <2>1, StepIsOwn
  <2> QED
    BY <1>1, <2>3, <2>4, RetainedStays, ManifestIsStaged DEF StagedInv
<1> QED
  BY <1>2, <1>3

LEMMA StagedInvHolds == Spec => [](SnapInv /\ Settled /\ StagedInv)
<1>1. Init => SnapInv /\ Settled /\ StagedInv
  BY SnapInit, SettledInit, StagedInit DEF Init, SnapshotInit
<1>2. SnapInv /\ Settled /\ StagedInv /\ [Next]_vars => SnapInv' /\ Settled' /\ StagedInv'
  <2> SUFFICES ASSUME SnapInv, Settled, StagedInv, [Next]_vars
               PROVE  SnapInv' /\ Settled' /\ StagedInv'
    OBVIOUS
  <2>1. SnapInv' /\ Settled'
    BY SnapStep, SettledStep
  <2>2. (StageInit /\ retained = NoSnapshot => StagedInv)'
    BY StagedInit, PTL
  <2>3. CASE verdict' = "none"
    BY <2>1, <2>2, <2>3 DEF Settled
  <2>4. CASE verdict' # "none"
    BY <2>1, <2>4, SnapshotFrozen, StagedStep
  <2> QED
    BY <2>3, <2>4
<1> QED
  BY <1>1, <1>2, PTL DEF Spec

\* A manifest has as many entries as the snapshot has outputs.
LEMMA EntriesFinite ==
  ASSUME SnapInv, NEW E, Staged(E), \A u \in Outputs(Full) : Has(E, u)
  PROVE  IsFiniteSet(E)
<1> DEFINE f == [u \in Outputs(Full) |-> CHOOSE e \in E : u = <<e.path, e.package>>]
<1>1. \A u \in Outputs(Full) : f[u] \in E /\ u = <<f[u].path, f[u].package>>
  BY DEF Has
<1>2. f \in [Outputs(Full) -> E]
  BY <1>1
<1>3. \A u, w \in Outputs(Full) : f[u] = f[w] => u = w
  BY <1>1
<1>4. ASSUME NEW e \in E PROVE \E u \in Outputs(Full) : f[u] = e
  <2>1. PICK u \in Outputs(Full) : u = <<e.path, e.package>>
    BY DEF Staged, Own
  <2> HIDE DEF f
  <2>2. f[u] \in E /\ f[u].path = e.path /\ f[u].package = e.package
    BY <1>1, <2>1
  <2>3. IdOf(f[u]) = IdOf(e)
    BY <2>2 DEF Staged, Own, IdOf
  <2> QED
    BY <2>2, <2>3 DEF Staged, OwnIds
<1> HIDE DEF f
<1> QED
  BY <1>2, <1>3, <1>4, OutputsFinite, SameCount

\* Where the counts agree, no variant of the policy is named like the default.
LEMMA SelectedIsNamed ==
  ASSUME NEW E, IsFiniteSet(E), \A e \in E : Own(e), CountsAgree(E)
  PROVE  \A e \in E : e.selected => e.variant # Default
<1> DEFINE S == {e \in E : e.selected}
           T == {e \in E : e.variant # Default}
<1>1. T \in SUBSET S
  <2> SUFFICES ASSUME NEW e \in E, e.variant # Default PROVE e.selected
    OBVIOUS
  <2> QED
    BY DEF Own, VariantOf
<1>2. IsFiniteSet(S)
  <2>1. S \in SUBSET E
    OBVIOUS
  <2> QED
    BY <2>1, FS_Subset
<1>3. Cardinality(S) = Cardinality(T)
  BY DEF CountsAgree
<1>4. S = T
  <2> HIDE DEF S, T
  <2> QED
    BY <1>1, <1>2, <1>3, FS_Subset
<1> QED
  BY <1>4

\* In a staging manifest every output of the snapshot has an entry with an
\* identity of its own, and alternatives have each a variant of the policy.
THEOREM ManifestSelectsAlternatives == Spec => []AlternativesSelected
<1>1. SnapInv /\ StagedInv => AlternativesSelected
  <2> SUFFICES ASSUME SnapInv, StagedInv, manifest.state = "whole" PROVE AlternativesSelected
    BY DEF AlternativesSelected
  <2> DEFINE E == manifest.entries
  <2>1. PolicyFits /\ Staged(E) /\ (\A u \in Outputs(Full) : Has(E, u)) /\ CountsAgree(E)
    BY DEF StagedInv
  <2>2. retained.records = Full
    BY <2>1 DEF StagedInv, PolicyFits
  <2> HIDE DEF E
  <2>3. {<<e.path, e.package>> : e \in E} = Outputs(retained.records)
    <3>1. \A e \in E : <<e.path, e.package>> \in Outputs(Full)
      BY <2>1 DEF Staged, Own
    <3>2. \A u \in Outputs(Full) : \E e \in E : u = <<e.path, e.package>>
      BY <2>1 DEF Has
    <3> QED
      BY <2>2, <3>1, <3>2
  <2>4. ASSUME NEW e \in E, NEW f \in E, e # f
        PROVE  /\ IdOf(e) # IdOf(f)
               /\ e.package = f.package =>
                    e.variant # f.variant /\ Default \notin {e.variant, f.variant}
    <3>1. IdOf(e) # IdOf(f) /\ Own(e) /\ Own(f)
      BY <2>1, <2>4 DEF Staged, OwnIds
    <3> SUFFICES ASSUME e.package = f.package
                 PROVE  e.variant # f.variant /\ Default \notin {e.variant, f.variant}
      BY <3>1
    <3>2. e.path # f.path
      BY <3>1 DEF Own, IdOf
    <3>3. e.selected /\ f.selected
      BY <2>1, <3>1, <3>2, AlternativeSelected DEF Own
    <3>4. Default \notin {e.variant, f.variant}
      BY <2>1, <3>3, EntriesFinite, SelectedIsNamed DEF Staged
    <3>5. e.variant # f.variant
      BY <3>1, <3>3 DEF IdOf, Own
    <3> QED
      BY <3>4, <3>5
  <2> QED
    BY <2>3, <2>4 DEF AlternativesSelected, E
<1> QED
  BY <1>1, StagedInvHolds, PTL

(***************************************************************************)
(* What a preparer has in memory, and the order in which it stages.        *)
(***************************************************************************)

Before(u, e) == u[1] < e.path \/ (u[1] = e.path /\ u[2] < e.package)

\* With an output, every earlier one is staged.
Closed(E) == \A e \in E : \A u \in Outputs(Full) : Before(u, e) => Has(E, u)

\* What is left to write of the artifacts of e.
Rests(e) ==
  LET A == ArtifactsOf(e) IN {A, <<A[2], A[3]>>, <<A[3]>>, << >>}
Left(w) == {w[i] : i \in 1..Len(w)}

Memory(q) ==
  /\ pc[q] \in Preparing =>
       /\ unread[q] \subseteq {r.path : r \in Full}
       /\ \A u, w \in queue[q] : u[1] = w[1]
       /\ \A u \in queue[q] : \A p \in unread[q] : u[1] < p
       /\ writing[q] # << >> =>
            pc[q] = "stage" /\ last[q] \in entries[q] /\ writing[q] \in Rests(last[q])
  /\ pc[q] \notin Preparing => writing[q] = << >>
  /\ pc[q] \in Running => Staged(entries[q]) /\ Closed(entries[q])
  /\ pc[q] \in Running \ {"stage"} => entries[q] # {}
  /\ unverified[q] \subseteq entries[q]

MemoryInv ==
  /\ FunctionOn(writing, Preparers) /\ FunctionOn(last, Preparers)
  /\ FunctionOn(unverified, Preparers)
  /\ \A q \in Preparers : Memory(q)
  /\ manifest.state = "whole" => manifest.entries # {}

LEMMA RestsOf ==
  ASSUME NEW e
  PROVE  /\ Left(ArtifactsOf(e)) = ArtifactSet(e) /\ Left(<< >>) = {}
         /\ ArtifactsOf(e) \in Rests(e) /\ ArtifactsOf(e) # << >>
         /\ \A w \in Rests(e) : w # << >> =>
              /\ Head(w) \in ArtifactSet(e) /\ Tail(w) \in Rests(e)
              /\ \A a \in Left(w) : a = Head(w) \/ a \in Left(Tail(w))
<1> DEFINE A == ArtifactsOf(e)
<1>1. PICK a, b, c : A = <<a, b, c>>
  BY DEF ArtifactsOf
<1>2. ArtifactSet(e) = {a, b, c}
  <2>1. 1..3 = {1, 2, 3}
    OBVIOUS
  <2> QED
    BY <1>1, <2>1 DEF ArtifactSet
<1>3. \A x, y, z : Left(<<x, y, z>>) = {x, y, z} /\ Left(<<y, z>>) = {y, z} /\ Left(<<z>>) = {z}
  <2>1. 1..3 = {1, 2, 3} /\ 1..2 = {1, 2} /\ 1..1 = {1}
    OBVIOUS
  <2> QED
    BY <2>1 DEF Left
<1>4. Left(<< >>) = {}
  BY DEF Left
<1>5. Rests(e) = {<<a, b, c>>, <<b, c>>, <<c>>, << >>}
  BY <1>1 DEF Rests
<1>6. /\ Head(<<a, b, c>>) = a /\ Tail(<<a, b, c>>) = <<b, c>>
      /\ Head(<<b, c>>) = b /\ Tail(<<b, c>>) = <<c>>
      /\ Head(<<c>>) = c /\ Tail(<<c>>) = << >>
  OBVIOUS
<1>7. \A w \in Rests(e) : w # << >> =>
        /\ Head(w) \in ArtifactSet(e) /\ Tail(w) \in Rests(e)
        /\ \A x \in Left(w) : x = Head(w) \/ x \in Left(Tail(w))
  <2> SUFFICES ASSUME NEW w \in {<<a, b, c>>, <<b, c>>, <<c>>}
               PROVE  /\ Head(w) \in ArtifactSet(e) /\ Tail(w) \in Rests(e)
                      /\ \A x \in Left(w) : x = Head(w) \/ x \in Left(Tail(w))
    BY <1>5
  <2>1. CASE w = <<a, b, c>> BY <1>2, <1>3, <1>5, <1>6, <2>1
  <2>2. CASE w = <<b, c>> BY <1>2, <1>3, <1>5, <1>6, <2>2
  <2>3. CASE w = <<c>> BY <1>2, <1>3, <1>5, <1>6, <2>3
  <2> QED
    BY <2>1, <2>2, <2>3
<1>8. A # << >> /\ A \in Rests(e) /\ Left(A) = ArtifactSet(e)
  BY <1>1, <1>2, <1>3, <1>5
<1> QED
  BY <1>4, <1>7, <1>8

LEMMA MemoryInit == StageInit => MemoryInv
BY DEF StageInit, MemoryInv, Memory, FunctionOn, Preparing, Running, NoManifest, Manifest

LEMMA MemoryIsOwn ==
  ASSUME MemoryInv, NEW q \in Preparers, Step(q)
  PROVE  /\ FunctionOn(writing, Preparers)' /\ FunctionOn(last, Preparers)'
         /\ FunctionOn(unverified, Preparers)'
         /\ \A o \in Preparers \ {q} :
              writing'[o] = writing[o] /\ last'[o] = last[o] /\ unverified'[o] = unverified[o]
<1> USE DEF MemoryInv, FunctionOn
<1>1. CASE PrepareBegin(q) \/ OpenRecord(q)
  BY <1>1 DEF PrepareBegin, OpenRecord
<1>3. CASE StageOutput(q)
  <2>1. PICK X, Y : writing' = [writing EXCEPT ![q] = X] /\ last' = [last EXCEPT ![q] = Y]
    BY <1>3 DEF StageOutput
  <2> QED
    BY <1>3, <2>1 DEF StageOutput
<1>4. CASE WriteTemp(q) BY <1>4 DEF WriteTemp, local
<1>5. CASE ReplaceArtifact(q) BY <1>5 DEF ReplaceArtifact
<1>6. CASE FinishStaging(q) BY <1>6 DEF FinishStaging
<1>7. CASE VerifyOnly(q) BY <1>7 DEF VerifyOnly
<1>8. CASE VerifyEntry(q)
  <2>1. PICK X : unverified' = [unverified EXCEPT ![q] = X]
    BY <1>8 DEF VerifyEntry
  <2> QED
    BY <1>8, <2>1 DEF VerifyEntry
<1>9. CASE EndVerify(q) BY <1>9 DEF EndVerify, Stop, local
<1>10. CASE CheckManifest(q) BY <1>10 DEF CheckManifest, local
<1>11. CASE WriteManifest(q) BY <1>11 DEF WriteManifest, Stop
<1>12. CASE Abandon(q) BY <1>12 DEF Abandon, Stop
<1> QED
  BY <1>1, <1>3, <1>4, <1>5, <1>6, <1>7, <1>8, <1>9, <1>10, <1>11, <1>12 DEF Step

LEMMA ClosedStays ==
  ASSUME SnapInv, [Next]_vars, UNCHANGED snapshot
  PROVE  \A E : Closed(E) => Closed(E)'
<1>1. Outputs(Full)' = Outputs(Full)
  BY WorldStays DEF Outputs
<1> QED
  BY <1>1 DEF Closed, Has, Before

\* A step that adds nothing to the memory of q keeps what is known of it.
LEMMA MemoryStays ==
  ASSUME SnapInv, MemoryInv, [Next]_vars, UNCHANGED snapshot, NEW q \in Preparers,
         entries'[q] = entries[q], unread'[q] = unread[q], queue'[q] = queue[q], last'[q] = last[q],
         unverified'[q] \subseteq unverified[q],
         writing'[q] = writing[q] \/ (writing[q] # << >> /\ writing'[q] = Tail(writing[q])),
         pc'[q] = pc[q] \/ (pc'[q] \in Running /\ pc[q] \in Preparing \ {"stage"}
                             /\ pc'[q] \in Preparing \ {"stage"})
  PROVE  Memory(q)'
<1>1. Memory(q)
  BY DEF MemoryInv
<1>2. Full' = Full
  BY WorldStays
<1>3. pc'[q] \in Preparing => pc[q] \in Preparing
  OBVIOUS
<1>4. pc'[q] \in Running => pc[q] \in Running
  BY DEF Running
<1>5. pc'[q] \in Running => Staged(entries[q])' /\ Closed(entries[q])'
  <2>1. ASSUME NEW E, E = entries'[q], Staged(E), Closed(E)
        PROVE  Staged(entries[q])' /\ Closed(entries[q])'
    BY <2>1, StagedStays, ClosedStays
  <2> QED
    BY <1>1, <1>4, <2>1 DEF Memory
<1>6. pc'[q] \in Preparing /\ writing'[q] # << >> =>
        pc'[q] = "stage" /\ last'[q] \in entries'[q] /\ writing'[q] \in Rests(last'[q])
  <2> SUFFICES ASSUME pc'[q] \in Preparing, writing'[q] # << >>
               PROVE  pc'[q] = "stage" /\ last'[q] \in entries'[q] /\ writing'[q] \in Rests(last'[q])
    OBVIOUS
  <2>1. writing[q] # << >>
    OBVIOUS
  <2>2. pc[q] = "stage" /\ last[q] \in entries[q] /\ writing[q] \in Rests(last[q])
    BY <1>1, <1>3, <2>1 DEF Memory
  <2>3. Tail(writing[q]) \in Rests(last[q])
    BY <2>1, <2>2, RestsOf
  <2> QED
    BY <2>2, <2>3
<1>7. pc'[q] \notin Preparing => writing'[q] = << >>
  BY <1>1 DEF Memory, Running
<1>8. pc'[q] \in Running \ {"stage"} => entries'[q] # {}
  BY <1>1 DEF Memory, Running
<1>9. pc'[q] \in Preparing =>
        /\ unread'[q] \subseteq {r.path : r \in Full'}
        /\ \A u, w \in queue'[q] : u[1] = w[1]
        /\ \A u \in queue'[q] : \A p \in unread'[q] : u[1] < p
  BY <1>1, <1>2, <1>3 DEF Memory
<1>10. unverified'[q] \subseteq entries'[q]
  BY <1>1 DEF Memory
<1>11. Rests(last[q])' = Rests(last'[q])
  BY DEF Rests, ArtifactsOf, IdOf, Disposition
<1> QED
  BY <1>5, <1>6, <1>7, <1>8, <1>9, <1>10, <1>11 DEF Memory

LEMMA FullPathNat == SnapInv => \A r \in Full : r.path \in Nat \ {0}
BY RecordTyped DEF SnapInv

LEMMA OutputNat ==
  ASSUME SnapInv
  PROVE  \A u \in Outputs(Full) :
           /\ u = <<u[1], u[2]>>
           /\ u[1] \in Paths /\ u[1] \in Nat /\ u[2] \in Packages /\ u[2] \in Nat
<1> SUFFICES ASSUME NEW u \in Outputs(Full)
             PROVE  /\ u = <<u[1], u[2]>>
                    /\ u[1] \in Paths /\ u[1] \in Nat /\ u[2] \in Packages /\ u[2] \in Nat
  OBVIOUS
<1>1. PICK r \in Full : u \in {r.path} \X r.packages
  BY DEF Outputs
<1>2. r.path \in Paths /\ r.path \in Nat /\ r.packages \subseteq Packages
  BY RecordTyped DEF SnapInv
<1>3. u = <<u[1], u[2]>> /\ u[1] = r.path /\ u[2] \in Packages
  BY <1>1, <1>2
<1>4. Packages \subseteq Nat
  BY CachySnapshotAssumption
<1> QED
  BY <1>2, <1>3, <1>4

LEMMA PrepareBeginMemory ==
  ASSUME StagedInv, MemoryInv, NEW q \in Preparers, PrepareBegin(q)
  PROVE  Memory(q)'
<1>1. /\ UNCHANGED <<retained, snapshot, entries, queue, writing, unverified>> /\ PolicyFits
      /\ pc[q] = "stopped" /\ entries[q] = {} /\ queue[q] = {}
  BY DEF PrepareBegin, ingressVars, snapshotVars, PolicyFits, StagedInv, Preparing
<1>2. writing[q] = << >> /\ unverified[q] = {}
  BY <1>1 DEF MemoryInv, Memory, Preparing
<1>3. Full' = Full /\ retained.records = Full
  BY <1>1 DEF Full, StagedInv, PolicyFits
<1>4. unread'[q] = {r.path : r \in Full} /\ pc'[q] = "stage"
  BY <1>3 DEF PrepareBegin, StagedInv, FunctionOn, Goto
<1>5. Staged(entries[q])' /\ Closed(entries[q])'
  BY <1>1 DEF Staged, OwnIds, Closed
<1> QED
  BY <1>1, <1>2, <1>3, <1>4, <1>5 DEF Memory, Preparing, Running

LEMMA OpenRecordMemory ==
  ASSUME SnapInv, StagedInv, MemoryInv, [Next]_vars, UNCHANGED snapshot,
         NEW q \in Preparers, OpenRecord(q)
  PROVE  Memory(q)'
<1>1. /\ UNCHANGED <<retained, snapshot, pc, entries, writing, last, unverified>>
      /\ pc[q] = "stage" /\ writing[q] = << >>
  BY DEF OpenRecord, Between, ingressVars, snapshotVars
<1>2. PICK r \in retained.records :
        /\ \A p \in unread[q] : r.path <= p
        /\ unread' = [unread EXCEPT ![q] = @ \ {r.path}]
        /\ queue' = [queue EXCEPT ![q] = {r.path} \X r.packages]
  BY DEF OpenRecord
<1>3. unread'[q] = unread[q] \ {r.path} /\ queue'[q] = {r.path} \X r.packages
  BY <1>2 DEF StagedInv, FunctionOn
<1>4. Memory(q) /\ PreparerOK(q)
  BY <1>1 DEF MemoryInv, StagedInv, Preparing
<1>5. Full' = Full /\ r \in Full
  BY <1>1, <1>4 DEF Full, StagedInv, PreparerOK, PolicyFits
<1>6. unread[q] \subseteq {s.path : s \in Full} /\ unread[q] \subseteq Nat /\ r.path \in Nat
  BY <1>1, <1>4, <1>5, FullPathNat DEF Memory, Preparing
<1>7. \A u \in queue'[q] : u[1] = r.path
  BY <1>3
<1>8. \A p \in unread'[q] : r.path < p
  BY <1>2, <1>3, <1>6
<1>9. Staged(entries[q])' /\ Closed(entries[q])'
  <2>1. ASSUME NEW E, E = entries'[q], Staged(E), Closed(E)
        PROVE  Staged(entries[q])' /\ Closed(entries[q])'
    BY <2>1, StagedStays, ClosedStays
  <2> QED
    BY <1>1, <1>4, <2>1 DEF Memory, Running, Preparing
<1>10. /\ unread'[q] \subseteq {s.path : s \in Full'}
       /\ \A u, w \in queue'[q] : u[1] = w[1]
       /\ \A u \in queue'[q] : \A p \in unread'[q] : u[1] < p
  BY <1>3, <1>5, <1>6, <1>7, <1>8
<1>11. unverified'[q] \subseteq entries'[q]
  BY <1>1, <1>4 DEF Memory
<1> QED
  BY <1>1, <1>9, <1>10, <1>11 DEF Memory, Preparing, Running

LEMMA StageOutputMemory ==
  ASSUME SnapInv, StagedInv, MemoryInv, [Next]_vars, UNCHANGED snapshot,
         NEW q \in Preparers, StageOutput(q)
  PROVE  Memory(q)'
<1>1. /\ UNCHANGED <<retained, snapshot, policy, pc, unread, unverified>>
      /\ pc[q] = "stage" /\ writing[q] = << >>
  BY DEF StageOutput, Between, ingressVars, snapshotVars
<1>2. PICK r \in retained.records, k \in Packages :
        /\ <<r.path, k>> \in queue[q]
        /\ \A u \in queue[q] : k <= u[2]
        /\ last' = [last EXCEPT ![q] = EntryFor(r, k)]
        /\ entries' = [entries EXCEPT ![q] = @ \cup {EntryFor(r, k)}]
        /\ writing' = [writing EXCEPT ![q] = ArtifactsOf(EntryFor(r, k))]
        /\ queue' = [queue EXCEPT ![q] = @ \ {<<r.path, k>>}]
  BY DEF StageOutput, IsNextStaged
<1> DEFINE e == EntryFor(r, k)
<1>3. e.path = r.path /\ e.package = k
  BY EntryFields
<1> HIDE DEF e
<1>4. /\ last'[q] = e /\ entries'[q] = entries[q] \cup {e} /\ writing'[q] = ArtifactsOf(e)
      /\ queue'[q] = queue[q] \ {<<r.path, k>>}
  BY <1>2 DEF StagedInv, MemoryInv, FunctionOn, e
<1>5. Memory(q) /\ PreparerOK(q)
  BY <1>1 DEF MemoryInv, StagedInv, Preparing
<1>6. Full' = Full /\ Outputs(Full)' = Outputs(Full)
  BY <1>1 DEF Full, Outputs
<1>7. Staged(entries[q])'
  BY StageOutputOK DEF PreparerOK
<1>8. \A u \in Outputs(Full) : Before(u, e) => Has(entries[q], u)
  <2> SUFFICES ASSUME NEW u \in Outputs(Full), Before(u, e) PROVE Has(entries[q], u)
    OBVIOUS
  <2>1. u = <<u[1], u[2]>> /\ u[1] \in Nat /\ u[2] \in Nat /\ r.path \in Nat /\ k \in Nat
    BY <1>2, <1>5, OutputNat DEF PreparerOK
  <2>2. u[1] < r.path \/ (u[1] = r.path /\ u[2] < k)
    BY <1>3 DEF Before
  <2>3. u[1] \notin unread[q]
    <3>1. \A p \in unread[q] : r.path < p
      BY <1>1, <1>2, <1>5 DEF Memory, Preparing
    <3> QED
      BY <2>1, <2>2, <3>1
  <2>4. u \notin queue[q]
    <3>1. u \in queue[q] => u[1] = r.path /\ k <= u[2]
      BY <1>1, <1>2, <1>5 DEF Memory, Preparing
    <3> QED
      BY <2>1, <2>2, <3>1
  <2> QED
    BY <1>5, <2>3, <2>4 DEF PreparerOK
<1>9. Closed(entries[q])'
  <2>1. Closed(entries[q])
    BY <1>1, <1>5 DEF Memory, Running, Preparing
  <2>2. \A u : Has(entries[q], u) => Has(entries[q], u)'
    BY <1>4 DEF Has
  <2>3. \A u \in Outputs(Full) : \A f \in entries'[q] : Before(u, f) => Has(entries[q], u)
    BY <1>4, <1>8, <2>1 DEF Closed
  <2> QED
    BY <1>6, <2>2, <2>3 DEF Closed, Before
<1>10. writing'[q] \in Rests(last[q])'
  <2>1. Rests(last[q])' = Rests(e)
    BY <1>4 DEF Rests, ArtifactsOf, IdOf, Disposition
  <2> QED
    BY <1>4, <2>1, RestsOf
<1>11. /\ unread'[q] \subseteq {s.path : s \in Full'}
       /\ \A u, w \in queue'[q] : u[1] = w[1]
       /\ \A u \in queue'[q] : \A p \in unread'[q] : u[1] < p
  BY <1>1, <1>4, <1>5, <1>6 DEF Memory, Preparing
<1>12. unverified'[q] \subseteq entries'[q] /\ last'[q] \in entries'[q]
  BY <1>1, <1>4, <1>5 DEF Memory
<1> QED
  BY <1>1, <1>7, <1>9, <1>10, <1>11, <1>12 DEF Memory, Preparing, Running

LEMMA FinishStagingMemory ==
  ASSUME SnapInv, StagedInv, MemoryInv, [Next]_vars, UNCHANGED snapshot,
         NEW q \in Preparers, FinishStaging(q)
  PROVE  Memory(q)'
<1>1. /\ UNCHANGED <<snapshot, entries, unread, queue, writing, last>>
      /\ pc[q] = "stage" /\ writing[q] = << >> /\ pc'[q] = "verify" /\ unverified'[q] = entries[q]
  BY DEF FinishStaging, Between, Goto, StagedInv, MemoryInv, FunctionOn, ingressVars, snapshotVars
<1>2. entries[q] # {}
  BY FS_EmptySet, CachySnapshotAssumption DEF FinishStaging
<1>3. Memory(q)
  BY DEF MemoryInv
<1>4. Full' = Full
  BY WorldStays
<1>5. Staged(entries[q])' /\ Closed(entries[q])'
  <2>1. ASSUME NEW E, E = entries'[q], Staged(E), Closed(E)
        PROVE  Staged(entries[q])' /\ Closed(entries[q])'
    BY <2>1, StagedStays, ClosedStays
  <2> QED
    BY <1>1, <1>3, <2>1 DEF Memory, Running, Preparing
<1> QED
  BY <1>1, <1>2, <1>3, <1>4, <1>5 DEF Memory, Preparing, Running

LEMMA CoveringIsClosed ==
  \A E : (\A u \in Outputs(Full) : Has(E, u)) => Closed(E)
BY DEF Closed

LEMMA VerifyOnlyMemory ==
  ASSUME SnapInv, StagedInv, MemoryInv, [Next]_vars, UNCHANGED snapshot,
         NEW q \in Preparers, VerifyOnly(q)
  PROVE  Memory(q)'
<1>1. /\ UNCHANGED <<writing, unread, queue>> /\ pc[q] = "stopped" /\ pc'[q] = "verify-only"
      /\ entries'[q] = manifest.entries /\ unverified'[q] = manifest.entries
      /\ manifest.state = "whole"
  BY DEF VerifyOnly, Goto, StagedInv, MemoryInv, FunctionOn
<1>2. Staged(manifest.entries) /\ Closed(manifest.entries) /\ manifest.entries # {}
  BY <1>1, CoveringIsClosed DEF StagedInv, MemoryInv
<1>3. Staged(entries[q])' /\ Closed(entries[q])'
  <2>1. ASSUME NEW E, E = entries'[q], Staged(E), Closed(E)
        PROVE  Staged(entries[q])' /\ Closed(entries[q])'
    BY <2>1, StagedStays, ClosedStays
  <2> QED
    BY <1>1, <1>2, <2>1
<1>4. writing'[q] = << >>
  BY <1>1 DEF MemoryInv, Memory, Preparing
<1> QED
  BY <1>1, <1>2, <1>3, <1>4 DEF Memory, Preparing, Running

LEMMA StopMemory ==
  ASSUME StagedInv, MemoryInv, NEW q \in Preparers, Stop(q)
  PROVE  Memory(q)'
<1>1. pc'[q] = "stopped" /\ writing'[q] = << >> /\ unverified'[q] = {}
  BY DEF Stop, Goto, StagedInv, MemoryInv, FunctionOn
<1> QED
  BY <1>1 DEF Memory, Preparing, Running

LEMMA MemoryStep ==
  SnapInv /\ StagedInv /\ MemoryInv /\ [Next]_vars /\ UNCHANGED snapshot => MemoryInv'
<1> SUFFICES ASSUME SnapInv, StagedInv, MemoryInv, [Next]_vars, UNCHANGED snapshot PROVE MemoryInv'
  OBVIOUS
<1>1. CASE ~PrepareStep
  <2>1. UNCHANGED <<pc, local>> /\ (UNCHANGED manifest \/ manifest' = NoManifest)
    BY <1>1, OtherSteps DEF disk, ClearOutput
  <2>2. \A q \in Preparers : Memory(q)'
    BY <2>1, MemoryStays DEF local
  <2> QED
    BY <2>1, <2>2 DEF MemoryInv, FunctionOn, local, NoManifest, Manifest
<1>2. CASE PrepareStep
  <2>1. PICK q \in Preparers : Step(q)
    BY <1>2 DEF PrepareStep
  <2>2. \A o \in Preparers \ {q} : Memory(o)'
    <3> SUFFICES ASSUME NEW o \in Preparers \ {q} PROVE Memory(o)'
      OBVIOUS
    <3>1. /\ pc'[o] = pc[o] /\ unread'[o] = unread[o] /\ queue'[o] = queue[o]
          /\ entries'[o] = entries[o]
      BY <2>1, StepIsOwn
    <3>2. writing'[o] = writing[o] /\ last'[o] = last[o] /\ unverified'[o] = unverified[o]
      BY <2>1, MemoryIsOwn
    <3> QED
      BY <3>1, <3>2, MemoryStays
  <2>3. Memory(q)'
    <3>1. CASE PrepareBegin(q) BY <3>1, PrepareBeginMemory
    <3>2. CASE OpenRecord(q) BY <3>2, OpenRecordMemory
    <3>3. CASE StageOutput(q) BY <3>3, StageOutputMemory
    <3>4. CASE FinishStaging(q) BY <3>4, FinishStagingMemory
    <3>5. CASE VerifyOnly(q) BY <3>5, VerifyOnlyMemory
    <3>6. CASE WriteTemp(q)
      BY <3>6, MemoryStays DEF WriteTemp, local
    <3>7. CASE ReplaceArtifact(q)
      <4>1. /\ UNCHANGED <<pc, unread, queue, last, entries, unverified>>
            /\ writing[q] # << >> /\ writing'[q] = Tail(writing[q])
        BY <3>7 DEF ReplaceArtifact, MemoryInv, FunctionOn
      <4> QED
        BY <4>1, MemoryStays
    <3>8. CASE VerifyEntry(q)
      <4>1. /\ UNCHANGED <<pc, unread, queue, last, entries, writing>>
            /\ unverified'[q] \subseteq unverified[q]
        BY <3>8 DEF VerifyEntry, MemoryInv, FunctionOn
      <4> QED
        BY <4>1, MemoryStays
    <3>9. CASE EndVerify(q) /\ pc[q] = "verify"
      <4>1. UNCHANGED local /\ pc'[q] = "check-new"
        BY <3>9 DEF EndVerify, Goto, StagedInv, FunctionOn
      <4> QED
        BY <3>9, <4>1, MemoryStays DEF local, Preparing, Running
    <3>10. CASE EndVerify(q) /\ pc[q] # "verify"
      BY <3>10, StopMemory DEF EndVerify
    <3>11. CASE CheckManifest(q)
      <4>1. UNCHANGED local /\ pc[q] = "check-new" /\ pc'[q] = "write-manifest"
        BY <3>11 DEF CheckManifest, Goto, StagedInv, FunctionOn
      <4> QED
        BY <4>1, MemoryStays DEF local, Preparing, Running
    <3>12. CASE WriteManifest(q) \/ Abandon(q)
      BY <3>12, StopMemory DEF WriteManifest, Abandon
    <3> QED
      BY <2>1, <3>1, <3>2, <3>3, <3>4, <3>5, <3>6, <3>7, <3>8, <3>9, <3>10, <3>11, <3>12 DEF Step
  <2>4. manifest'.state = "whole" => manifest'.entries # {}
    <3>1. CASE UNCHANGED manifest
      BY <3>1 DEF MemoryInv
    <3>2. CASE WriteManifest(q)
      BY <3>2 DEF WriteManifest, Manifest, MemoryInv, Memory, Running, Preparing
    <3>3. UNCHANGED manifest \/ WriteManifest(q) \/ manifest'.state # "whole"
      BY <2>1 DEF Step, PrepareBegin, OpenRecord, StageOutput, WriteTemp, ReplaceArtifact,
         FinishStaging, VerifyOnly, VerifyEntry, EndVerify, CheckManifest, Abandon, disk, Manifest
    <3> QED
      BY <3>1, <3>2, <3>3
  <2> QED
    BY <2>1, <2>2, <2>3, <2>4, MemoryIsOwn DEF MemoryInv
<1> QED
  BY <1>1, <1>2

(***************************************************************************)
(* The staging directory.                                                  *)
(***************************************************************************)

\* Entry e was rendered from the mirror as it is.
Rendered(e) == \E r \in Full : \E k \in r.packages : e = EntryFor(r, k)

\* As long as the mirror was not moved, whoever staged it.
RenderedInv ==
  ~moved =>
    /\ \A q \in Preparers : \A e \in entries[q] : Rendered(e)
    /\ manifest.state = "whole" => \A e \in manifest.entries : Rendered(e)
    /\ \A a \in Artifacts : stage[a] # NoEntry => Rendered(stage[a]) /\ a \in ArtifactSet(stage[a])

\* Everything on the stage is of an entry of E.
OnlyOf(E) == \A a \in Artifacts : stage[a] # NoEntry => \E e \in E : a \in ArtifactSet(e)

\* As long as preparers did not overlap.
LonelyInv ==
  ~raced =>
    /\ \A p, q \in Preparers : pc[p] \in Preparing /\ pc[q] \in Preparing => p = q
    /\ \A q \in Preparers : pc[q] \in Preparing =>
         /\ manifest.state # "whole"
         /\ \A o \in Preparers : pc[o] # "verify-only"
         /\ \A t \in temps : writing[q] # << >> /\ t = <<Head(writing[q]), q>>
         /\ OnlyOf(entries[q])
    /\ manifest.state = "whole" => temps = {} /\ OnlyOf(manifest.entries)

Present(E) == \A e \in E : \A a \in ArtifactSet(e) : stage[a] = e
Written(q) ==
  \A e \in entries[q] : \A a \in ArtifactSet(e) :
    stage[a] = e \/ (e = last[q] /\ a \in Left(writing[q]))

PresentInv ==
  Undisturbed =>
    /\ \A q \in Preparers : pc[q] \in Running => Written(q)
    /\ manifest.state = "whole" => Present(manifest.entries)

CountedInv == \A q \in Preparers : pc[q] = "verify-only" => CountsAgree(entries[q])

DiskInv == FunctionOn(stage, Artifacts) /\ RenderedInv /\ LonelyInv /\ PresentInv /\ CountedInv

LEMMA DiskInit == StageInit => DiskInv
<1> SUFFICES ASSUME StageInit PROVE DiskInv
  OBVIOUS
<1>1. FunctionOn(stage, Artifacts) /\ \A a \in Artifacts : stage[a] = NoEntry
  BY DEF StageInit, FunctionOn
<1>2. manifest.state = "absent" /\ \A q \in Preparers : pc[q] = "stopped" /\ entries[q] = {}
  BY DEF StageInit, NoManifest, Manifest
<1> QED
  BY <1>1, <1>2 DEF DiskInv, RenderedInv, LonelyInv, PresentInv, CountedInv, Preparing, Running

\* What an artifact says of its entry.
LEMMA ArtifactId ==
  ASSUME NEW e, NEW a \in ArtifactSet(e)
  PROVE  a[2] = IdOf(e)
<1>1. 1..3 = {1, 2, 3}
  OBVIOUS
<1> QED
  BY <1>1 DEF ArtifactSet, ArtifactsOf

LEMMA OwnTyped ==
  ASSUME SnapInv, StagedInv, NEW e, Own(e)
  PROVE  ArtifactSet(e) \subseteq Artifacts /\ e # NoEntry
<1>1. e.package \in Packages /\ e.path \in Paths
  BY OutputNat DEF Own
<1>2. e.variant \in Variants \cup {Default} /\ e.selected \in BOOLEAN
  BY DEF Own, VariantOf, ChosenFor
<1>3. IdOf(e) \in Ids
  BY <1>1, <1>2, OverlayStageAssumption DEF IdOf
<1>4. Disposition(e) \in Kinds
  BY DEF Disposition, Kinds, Dispositions
<1>5. ArtifactSet(e) \subseteq Artifacts
  <2>1. 1..3 = {1, 2, 3}
    OBVIOUS
  <2>2. ArtifactSet(e) = {<<"candidate", IdOf(e)>>, <<"lock", IdOf(e)>>, <<Disposition(e), IdOf(e)>>}
    BY <2>1 DEF ArtifactSet, ArtifactsOf
  <2> QED
    BY <1>3, <1>4, <2>2 DEF Artifacts, Kinds
<1>6. e # NoEntry
  <2>1. NoEntry.path = 0
    BY DEF NoEntry
  <2>2. e.path # 0
    BY <1>1, CachySnapshotAssumption
  <2> QED
    BY <2>1, <2>2
<1> QED
  BY <1>5, <1>6

LEMMA RenderedIs ==
  ASSUME NEW e, Rendered(e)
  PROVE  <<e.path, e.package>> \in Outputs(Full)
<1>1. PICK r \in Full : \E k \in r.packages : e = EntryFor(r, k)
  BY DEF Rendered
<1>2. e.path = r.path /\ e.package \in r.packages
  BY <1>1, EntryFields
<1> QED
  BY <1>2 DEF Outputs

\* One mirror renders one entry of an output.
LEMMA RenderedOnce ==
  ASSUME SnapInv, NEW e, NEW f, Rendered(e), Rendered(f), e.path = f.path, e.package = f.package
  PROVE  e = f
<1>1. PICK r \in Full : \E k \in r.packages : e = EntryFor(r, k)
  BY DEF Rendered
<1>2. PICK s \in Full : \E k \in s.packages : f = EntryFor(s, k)
  BY DEF Rendered
<1>3. e.path = r.path /\ e = EntryFor(r, e.package)
  BY <1>1, EntryFields
<1>4. f.path = s.path /\ f = EntryFor(s, f.package)
  BY <1>2, EntryFields
<1>5. r = s
  BY <1>3, <1>4, FullPath
<1> QED
  BY <1>3, <1>4, <1>5

\* Of two entries with one identity, each with every earlier output of its
\* preparer beside it, neither can be the later one.
LEMMA SameId ==
  ASSUME SnapInv, NEW E, NEW F, Closed(E), Closed(F), OwnIds(E), OwnIds(F),
         \A e \in E \cup F : Rendered(e),
         NEW e \in E, NEW f \in F, IdOf(e) = IdOf(f)
  PROVE  e = f
<1> DEFINE u == <<e.path, e.package>>
           w == <<f.path, f.package>>
<1>1. u \in Outputs(Full) /\ w \in Outputs(Full)
  BY RenderedIs
<1>2. u[1] = e.path /\ u[2] = e.package /\ w[1] = f.path /\ w[2] = f.package
  OBVIOUS
<1> HIDE DEF u, w
<1>3. CASE u[1] = w[1] /\ u[2] = w[2]
  BY <1>2, <1>3, RenderedOnce
<1>4. CASE Before(u, f)
  <2>1. PICK g \in F : u = <<g.path, g.package>>
    BY <1>1, <1>4 DEF Closed, Has
  <2>2. g = e
    BY <1>2, <2>1, RenderedOnce
  <2> QED
    BY <2>1, <2>2 DEF OwnIds
<1>5. CASE Before(w, e)
  <2>1. PICK g \in E : w = <<g.path, g.package>>
    BY <1>1, <1>5 DEF Closed, Has
  <2>2. g = f
    BY <1>2, <2>1, RenderedOnce
  <2> QED
    BY <2>1, <2>2 DEF OwnIds
<1>6. u[1] \in Nat /\ u[2] \in Nat /\ w[1] \in Nat /\ w[2] \in Nat
  BY <1>1, OutputNat
<1> QED
  BY <1>2, <1>3, <1>4, <1>5, <1>6 DEF Before

\* Once the verifier has decided, the mirror changes only by being moved.
LEMMA MirrorStays ==
  ASSUME SnapInv, [Next]_vars, verdict' # "none", ~moved'
  PROVE  UNCHANGED mirror
<1>1. ASSUME SnapshotNext PROVE UNCHANGED mirror
  BY <1>1 DEF SnapInv, SnapshotNext, ScanBegin, ScanPath, ShiftMirror, ScanEnd, WriteSnapshot,
     ScanFails, VerifySnapshot, Retain, trees
<1>2. ~MoveMirror
  BY DEF MoveMirror
<1> QED
  BY <1>1, <1>2, StepsKeepSnapshot DEF snapshotVars, trees

LEMMA RenderedStays ==
  ASSUME SnapInv, [Next]_vars, UNCHANGED snapshot, verdict' # "none", ~moved'
  PROVE  ~moved /\ \A e : Rendered(e) => Rendered(e)'
<1>1. UNCHANGED mirror
  BY MirrorStays
<1>2. Full' = Full /\ policy' = policy
  BY WorldStays
<1>3. ~moved
  <2>1. moved => moved'
    BY DEF Next, vars, SnapshotStep, EmitStep, PrepareStep, MoveMirror, ClearOutput, Step,
       PrepareBegin,
       OpenRecord, StageOutput, WriteTemp, ReplaceArtifact, FinishStaging, VerifyOnly, VerifyEntry,
       EndVerify, CheckManifest, WriteManifest, Abandon
  <2> QED
    BY <2>1
<1> QED
  BY <1>1, <1>2, <1>3 DEF Rendered, EntryFor

\* The stage changes by a rename or by being cleared.
LEMMA StageChanges ==
  ASSUME [Next]_vars
  PROVE  \/ UNCHANGED stage
         \/ ClearOutput
         \/ \E q \in Preparers : ReplaceArtifact(q)
BY OtherSteps DEF disk, PrepareStep, Step, PrepareBegin, OpenRecord, StageOutput, WriteTemp,
   FinishStaging, VerifyOnly, VerifyEntry, EndVerify, CheckManifest, WriteManifest, Abandon

\* The rename that preparer q makes.
LEMMA ReplaceIs ==
  ASSUME SnapInv, StagedInv, MemoryInv, DiskInv, NEW q \in Preparers, ReplaceArtifact(q)
  PROVE  LET a == Head(writing[q]) IN
         /\ a \in ArtifactSet(last[q]) /\ a \in Artifacts
         /\ last[q] \in entries[q] /\ Own(last[q]) /\ last[q] # NoEntry
         /\ stage'[a] = last[q] /\ \A b \in Artifacts \ {a} : stage'[b] = stage[b]
         /\ writing'[q] = Tail(writing[q])
         /\ \A b \in Left(writing[q]) : b = a \/ b \in Left(Tail(writing[q]))
<1> DEFINE a == Head(writing[q])
<1>1. pc[q] = "stage" /\ writing[q] # << >> /\ Memory(q)
  BY DEF ReplaceArtifact, MemoryInv
<1>2. last[q] \in entries[q] /\ writing[q] \in Rests(last[q]) /\ Staged(entries[q])
  BY <1>1 DEF Memory, Preparing, Running
<1>3. a \in ArtifactSet(last[q]) /\ \A b \in Left(writing[q]) : b = a \/ b \in Left(Tail(writing[q]))
  BY <1>1, <1>2, RestsOf
<1>4. Own(last[q]) /\ last[q] # NoEntry /\ a \in Artifacts
  BY <1>2, <1>3, OwnTyped DEF Staged
<1>5. stage' = [stage EXCEPT ![a] = last[q]] /\ writing'[q] = Tail(writing[q])
  BY DEF ReplaceArtifact, MemoryInv, FunctionOn
<1> QED
  BY <1>2, <1>3, <1>4, <1>5 DEF DiskInv, FunctionOn

\* What the memory of a preparer may have after a step.
LEMMA NewEntries ==
  ASSUME SnapInv, StagedInv, [Next]_vars, UNCHANGED snapshot, NEW q \in Preparers
  PROVE  \/ entries'[q] \subseteq entries[q]
         \/ manifest.state = "whole" /\ entries'[q] = manifest.entries
         \/ /\ StageOutput(q)
            /\ \E r \in Full : \E k \in r.packages : entries'[q] = entries[q] \cup {EntryFor(r, k)}
<1>1. CASE ~PrepareStep
  BY <1>1, OtherSteps DEF local
<1>2. ASSUME NEW o \in Preparers, Step(o), o # q PROVE entries'[q] = entries[q]
  BY <1>2, StepIsOwn
<1>3. CASE StageOutput(q)
  <2>1. PICK r \in retained.records, k \in Packages :
          /\ <<r.path, k>> \in queue[q]
          /\ entries' = [entries EXCEPT ![q] = @ \cup {EntryFor(r, k)}]
    BY <1>3 DEF StageOutput, IsNextStaged
  <2>2. entries'[q] = entries[q] \cup {EntryFor(r, k)}
    BY <2>1 DEF StagedInv, FunctionOn
  <2>3. PreparerOK(q)
    BY <1>3 DEF StagedInv, StageOutput, Between, Preparing
  <2>4. r \in Full /\ <<r.path, k>> \in Outputs(Full)
    BY <2>1, <2>3 DEF PreparerOK, PolicyFits, StagedInv
  <2>5. PICK s \in Full : s.path = r.path /\ k \in s.packages
    BY <2>4, OutputOf
  <2>6. k \in r.packages
    BY <2>4, <2>5, FullPath
  <2> QED
    BY <1>3, <2>2, <2>4, <2>6
<1>4. ASSUME Step(q), ~StageOutput(q)
      PROVE  \/ entries'[q] \subseteq entries[q]
             \/ manifest.state = "whole" /\ entries'[q] = manifest.entries
  <2>1. CASE VerifyOnly(q)
    BY <2>1 DEF VerifyOnly, StagedInv, FunctionOn
  <2>2. CASE Stop(q)
    BY <2>2, StoppedOK
  <2>3. UNCHANGED entries \/ VerifyOnly(q) \/ Stop(q)
    BY <1>4 DEF Step, PrepareBegin, OpenRecord, WriteTemp, ReplaceArtifact, FinishStaging,
       VerifyEntry,
       EndVerify, CheckManifest, WriteManifest, Abandon, local
  <2> QED
    BY <2>1, <2>2, <2>3
<1> QED
  BY <1>1, <1>2, <1>3, <1>4 DEF PrepareStep

LEMMA RenderedStep ==
  ASSUME SnapInv, StagedInv, MemoryInv, DiskInv, [Next]_vars, UNCHANGED snapshot,
         verdict' # "none"
  PROVE  FunctionOn(stage, Artifacts)' /\ RenderedInv'
<1>1. FunctionOn(stage, Artifacts)'
  <2>1. CASE ClearOutput
    BY <2>1 DEF ClearOutput, FunctionOn
  <2>2. ASSUME NEW q \in Preparers, ReplaceArtifact(q) PROVE FunctionOn(stage, Artifacts)'
    BY <2>2 DEF ReplaceArtifact, DiskInv, FunctionOn
  <2>3. CASE UNCHANGED stage
    BY <2>3 DEF DiskInv, FunctionOn
  <2> QED
    BY <2>1, <2>2, <2>3, StageChanges
<1> SUFFICES ASSUME ~moved' PROVE RenderedInv'
  BY <1>1 DEF RenderedInv
<1>2. ~moved /\ \A e : Rendered(e) => Rendered(e)'
  BY RenderedStays
<1>3. /\ \A q \in Preparers : \A e \in entries[q] : Rendered(e)
      /\ manifest.state = "whole" => \A e \in manifest.entries : Rendered(e)
      /\ \A a \in Artifacts : stage[a] # NoEntry => Rendered(stage[a]) /\ a \in ArtifactSet(stage[a])
  BY <1>2 DEF DiskInv, RenderedInv
<1>4. ASSUME NEW q \in Preparers, NEW e \in entries'[q] PROVE Rendered(e)
  BY <1>3, NewEntries DEF Rendered
<1>5. ASSUME manifest'.state = "whole", NEW e \in manifest'.entries PROVE Rendered(e)
  BY <1>3, <1>5, NewManifest
<1>6. ASSUME NEW a \in Artifacts, stage'[a] # NoEntry
      PROVE  Rendered(stage'[a]) /\ a \in ArtifactSet(stage'[a])
  <2>1. ~ClearOutput
    BY <1>6 DEF ClearOutput
  <2>2. CASE UNCHANGED stage
    BY <1>3, <1>6, <2>2
  <2>3. ASSUME NEW q \in Preparers, ReplaceArtifact(q)
        PROVE  Rendered(stage'[a]) /\ a \in ArtifactSet(stage'[a])
    BY <1>3, <1>6, <2>3, ReplaceIs
  <2> QED
    BY <2>1, <2>2, <2>3, StageChanges
<1>7. ASSUME NEW a \in Artifacts, stage'[a] # NoEntry
      PROVE  Rendered(stage[a])' /\ (a \in ArtifactSet(stage[a]))'
  <2>1. ASSUME NEW e, e = stage'[a], Rendered(e) PROVE Rendered(stage[a])'
    BY <1>2, <2>1
  <2>2. ArtifactSet(stage[a])' = ArtifactSet(stage'[a])
    BY DEF ArtifactSet, ArtifactsOf, IdOf, Disposition
  <2> QED
    BY <1>6, <1>7, <2>1, <2>2
<1> QED
  BY <1>2, <1>4, <1>5, <1>7 DEF RenderedInv

\* The histories: no step but the clearing of the output forgets an overlap.
LEMMA HistoryStays ==
  ASSUME [Next]_vars, ~ClearOutput
  PROVE  (raced => raced') /\ (moved => moved') /\ (Undisturbed' => Undisturbed)
<1>1. ASSUME NEW q \in Preparers, Step(q) PROVE (raced => raced') /\ (moved => moved')
  <2>1. CASE PrepareBegin(q)
    BY <2>1 DEF PrepareBegin
  <2>2. UNCHANGED <<raced, moved>> \/ PrepareBegin(q)
    BY <1>1 DEF Step, OpenRecord, StageOutput, WriteTemp, ReplaceArtifact, FinishStaging,
       VerifyOnly,
       VerifyEntry, EndVerify, CheckManifest, WriteManifest, Abandon
  <2> QED
    BY <2>1, <2>2
<1>2. CASE ~PrepareStep
  <2>1. SnapshotStep \/ EmitStep \/ MoveMirror \/ UNCHANGED vars
    BY <1>2 DEF Next
  <2>2. UNCHANGED <<raced, moved>> \/ MoveMirror
    BY <2>1 DEF SnapshotStep, EmitStep, vars
  <2> QED
    BY <2>2 DEF MoveMirror, Undisturbed
<1> QED
  BY <1>1, <1>2 DEF PrepareStep, Undisturbed

\* Entries that are there are artifacts that are there.
LEMMA PresentShows ==
  ASSUME SnapInv, StagedInv, NEW E, Staged(E), E # {}, Present(E)
  PROVE  ~OutputEmpty
<1>1. PICK e \in E : TRUE
  OBVIOUS
<1>2. e # NoEntry /\ ArtifactSet(e) \subseteq Artifacts
  BY OwnTyped DEF Staged
<1>3. PICK a \in ArtifactSet(e) : TRUE
  BY RestsOf DEF ArtifactSet
<1> QED
  BY <1>1, <1>2, <1>3 DEF Present, OutputEmpty

\* A preparation that begins alone begins with nothing on the stage, no
\* manifest and nobody who verifies one.
LEMMA BeginsAlone ==
  ASSUME SnapInv, StagedInv, MemoryInv, DiskInv, NEW q \in Preparers, PrepareBegin(q), ~raced
  PROVE  manifest.state # "whole" /\ \A o \in Preparers : pc[o] # "verify-only"
<1>1. OutputEmpty /\ Undisturbed
  BY DEF PrepareBegin, Undisturbed
<1>2. manifest.state # "whole"
  <2> SUFFICES ASSUME manifest.state = "whole" PROVE FALSE
    OBVIOUS
  <2>1. Present(manifest.entries)
    BY <1>1 DEF DiskInv, PresentInv
  <2>2. Staged(manifest.entries) /\ manifest.entries # {}
    BY DEF StagedInv, MemoryInv
  <2> QED
    BY <1>1, <2>1, <2>2, PresentShows
<1>3. ASSUME NEW o \in Preparers, pc[o] = "verify-only" PROVE FALSE
  <2>1. Written(o) /\ Memory(o)
    BY <1>1, <1>3 DEF DiskInv, PresentInv, MemoryInv, Running
  <2>2. Staged(entries[o]) /\ entries[o] # {} /\ writing[o] = << >>
    BY <1>3, <2>1 DEF Memory, Running, Preparing
  <2>3. Present(entries[o])
    BY <2>1, <2>2, RestsOf DEF Written, Present
  <2> QED
    BY <1>1, <2>2, <2>3, PresentShows
<1> QED
  BY <1>2, <1>3

\* What a preparer that is alone may find.
Alone(q) ==
  /\ manifest.state # "whole"
  /\ \A o \in Preparers : pc[o] # "verify-only"
  /\ \A t \in temps : writing[q] # << >> /\ t = <<Head(writing[q]), q>>
  /\ OnlyOf(entries[q])

\* The steps of a preparer that is and stays alone.
LEMMA AloneStays ==
  ASSUME SnapInv, StagedInv, MemoryInv, DiskInv, [Next]_vars, UNCHANGED snapshot, ~raced',
         NEW q \in Preparers,
         Step(q), pc'[q] \in Preparing
  PROVE  Alone(q)'
<1>1. \A o \in Preparers \ {q} : pc'[o] = pc[o]
  BY StepIsOwn
<1>2. ~ClearOutput /\ ~raced
  BY HistoryStays DEF PrepareStep, ClearOutput, Preparing
<1>3. CASE PrepareBegin(q)
  <2>1. pc'[q] = "stage" /\ UNCHANGED <<disk, entries>> /\ temps = {}
        /\ \A a \in Artifacts : stage[a] = NoEntry
    BY <1>3 DEF PrepareBegin, Goto, StagedInv, FunctionOn, OutputEmpty
  <2> QED
    BY <1>1, <1>2, <1>3, <2>1, BeginsAlone DEF Alone, OnlyOf, disk
<1>4. CASE ~PrepareBegin(q)
  <2>1. pc[q] \in Preparing
    BY <1>4, StoppedOK DEF Step, OpenRecord, StageOutput, WriteTemp, ReplaceArtifact, FinishStaging,
       VerifyOnly, VerifyEntry, EndVerify, CheckManifest, WriteManifest, Abandon, Between,
       Preparing,
       Goto, StagedInv, FunctionOn
  <2>2. Alone(q)
    BY <1>2, <2>1 DEF DiskInv, LonelyInv, Alone
  <2>3. \A o \in Preparers : pc'[o] # "verify-only"
    BY <1>1, <2>2 DEF Alone, Preparing
  <2>4. CASE StageOutput(q)
    <3>1. UNCHANGED disk /\ writing[q] = << >>
      BY <2>4 DEF StageOutput, Between
    <3>2. entries[q] \subseteq entries'[q]
      BY <2>4 DEF StageOutput, StagedInv, FunctionOn
    <3> QED
      BY <2>2, <2>3, <3>1, <3>2 DEF Alone, OnlyOf, disk
  <2>5. CASE WriteTemp(q)
    <3>1. /\ UNCHANGED <<manifest, stage, local>> /\ writing[q] # << >>
          /\ temps' = temps \cup {<<Head(writing[q]), q>>}
      BY <2>5 DEF WriteTemp
    <3> QED
      BY <2>2, <2>3, <3>1 DEF Alone, OnlyOf, local
  <2>6. CASE ReplaceArtifact(q)
    <3>1. /\ UNCHANGED <<manifest, entries>> /\ temps' = temps \ {<<Head(writing[q]), q>>}
      BY <2>6 DEF ReplaceArtifact
    <3>2. temps' = {}
      BY <2>2, <3>1 DEF Alone
    <3>3. OnlyOf(entries[q])'
      BY <2>2, <2>6, <3>1, ReplaceIs DEF Alone, OnlyOf
    <3> QED
      BY <2>2, <2>3, <3>1, <3>2, <3>3 DEF Alone
  <2>7. CASE OpenRecord(q) \/ FinishStaging(q) \/ VerifyEntry(q) \/ EndVerify(q) \/ CheckManifest(q)
    <3>1. UNCHANGED <<disk, entries, writing>>
      <4>1. ~Stop(q)
        BY StoppedOK DEF Preparing
      <4> QED
        BY <2>7, <4>1 DEF OpenRecord, FinishStaging, VerifyEntry, EndVerify, CheckManifest, local
    <3> QED
      BY <2>2, <2>3, <3>1 DEF Alone, OnlyOf, disk
  <2>8. ~VerifyOnly(q) /\ ~WriteManifest(q) /\ ~Abandon(q)
    BY <2>1, StoppedOK DEF VerifyOnly, WriteManifest, Abandon, Preparing
  <2> QED
    BY <1>4, <2>4, <2>5, <2>6, <2>7, <2>8 DEF Step
<1> QED
  BY <1>3, <1>4

LEMMA LonelyStep ==
  ASSUME SnapInv, StagedInv, MemoryInv, DiskInv, [Next]_vars, UNCHANGED snapshot
  PROVE  LonelyInv'
<1> SUFFICES ASSUME ~raced' PROVE LonelyInv'
  BY DEF LonelyInv
<1>1. CASE ClearOutput
  BY <1>1 DEF ClearOutput, LonelyInv, Preparing, NoManifest, Manifest
<1>2. CASE ~ClearOutput /\ ~PrepareStep
  <2>1. UNCHANGED <<pc, local, disk>> /\ ~raced
    BY <1>2, OtherSteps, HistoryStays
  <2> QED
    BY <2>1 DEF DiskInv, LonelyInv, OnlyOf, local, disk
<1>3. CASE ~ClearOutput /\ PrepareStep
  <2>1. PICK q \in Preparers : Step(q)
    BY <1>3 DEF PrepareStep
  <2>2. /\ ~raced
        /\ \A o, p \in Preparers : pc[o] \in Preparing /\ pc[p] \in Preparing => o = p
        /\ \A o \in Preparers : pc[o] \in Preparing => Alone(o)
        /\ manifest.state = "whole" => temps = {} /\ OnlyOf(manifest.entries)
    BY <1>3, HistoryStays DEF DiskInv, LonelyInv, Alone
  <2>3. \A o \in Preparers \ {q} : pc'[o] = pc[o] /\ entries'[o] = entries[o]
    BY <2>1, StepIsOwn
  <2>4. \A o \in Preparers \ {q} : pc[o] \notin Preparing
    <3> SUFFICES ASSUME NEW o \in Preparers \ {q}, pc[o] \in Preparing PROVE FALSE
      OBVIOUS
    <3>1. pc[q] \notin Preparing /\ pc[q] # "verify-only" /\ ~VerifyOnly(q)
      BY <2>2 DEF Alone, VerifyOnly
    <3>2. PrepareBegin(q)
      BY <2>1, <3>1 DEF Step, OpenRecord, StageOutput, WriteTemp, ReplaceArtifact, FinishStaging,
         VerifyEntry, EndVerify, CheckManifest, WriteManifest, Abandon, Between, Preparing, Running
    <3> QED
      BY <3>2 DEF PrepareBegin
  <2>5. \A o \in Preparers : pc'[o] \in Preparing => o = q /\ Alone(o)'
    BY <2>1, <2>3, <2>4, AloneStays
  <2>6. manifest'.state = "whole" => temps' = {} /\ OnlyOf(manifest.entries)'
    <3> SUFFICES ASSUME manifest'.state = "whole" PROVE temps' = {} /\ OnlyOf(manifest.entries)'
      OBVIOUS
    <3>1. CASE UNCHANGED manifest
      <4>1. ~WriteTemp(q) /\ ~ReplaceArtifact(q)
        BY <2>2, <3>1 DEF Alone, WriteTemp, ReplaceArtifact, Preparing
      <4>2. UNCHANGED <<stage, temps>>
        BY <2>1, <4>1 DEF Step, PrepareBegin, OpenRecord, StageOutput, FinishStaging, VerifyOnly,
           VerifyEntry, EndVerify, CheckManifest, WriteManifest, Abandon, disk
      <4> QED
        BY <2>2, <3>1, <4>2 DEF OnlyOf
    <3>2. ASSUME NEW o \in Preparers, WriteManifest(o), manifest'.entries = entries[o]
          PROVE  temps' = {} /\ OnlyOf(manifest.entries)'
      <4>1. pc[o] = "write-manifest" /\ UNCHANGED <<stage, temps>> /\ Alone(o) /\ Memory(o)
        BY <2>2, <3>2 DEF WriteManifest, Preparing, MemoryInv
      <4>2. writing[o] = << >>
        BY <4>1 DEF Memory, Preparing
      <4> QED
        BY <3>2, <4>1, <4>2 DEF Alone, OnlyOf
    <3> QED
      BY <3>1, <3>2, NewManifest
  <2> QED
    BY <2>5, <2>6 DEF LonelyInv, Alone
<1> QED
  BY <1>1, <1>2, <1>3

LEMMA WrittenStays ==
  ASSUME NEW q \in Preparers, Written(q), UNCHANGED stage, entries'[q] = entries[q],
         last'[q] = last[q], writing'[q] = writing[q]
  PROVE  Written(q)'
BY DEF Written, Left

\* A rename does not disturb what is on the stage: where it finds an artifact
\* of an entry of E, it writes it from the same entry.
LEMMA ReplaceKeeps ==
  ASSUME SnapInv, StagedInv, MemoryInv, DiskInv, NEW q \in Preparers, ReplaceArtifact(q),
         ~moved, NEW E, Staged(E), Closed(E), \A e \in E : Rendered(e),
         NEW e \in E, NEW a \in ArtifactSet(e), a = Head(writing[q])
  PROVE  last[q] = e
<1>1. a \in ArtifactSet(last[q]) /\ last[q] \in entries[q]
  BY ReplaceIs
<1>2. IdOf(e) = IdOf(last[q])
  BY <1>1, ArtifactId
<1>3. pc[q] = "stage" /\ Memory(q)
  BY DEF ReplaceArtifact, MemoryInv
<1>4. Staged(entries[q]) /\ Closed(entries[q])
  BY <1>3 DEF Memory, Running, Preparing
<1>5. \A f \in entries[q] : Rendered(f)
  BY DEF DiskInv, RenderedInv
<1> QED
  BY <1>1, <1>2, <1>4, <1>5, SameId DEF Staged

LEMMA ReplacePresent ==
  ASSUME SnapInv, StagedInv, MemoryInv, DiskInv, [Next]_vars, UNCHANGED snapshot, Undisturbed,
         NEW q \in Preparers, ReplaceArtifact(q)
  PROVE  /\ \A o \in Preparers : pc'[o] \in Running => Written(o)'
         /\ manifest'.state = "whole" => Present(manifest.entries)'
<1> DEFINE h == Head(writing[q])
<1>1. /\ UNCHANGED <<pc, entries, last, manifest>> /\ pc[q] = "stage" /\ Memory(q)
  BY DEF ReplaceArtifact, MemoryInv
<1>2. /\ h \in ArtifactSet(last[q]) /\ last[q] \in entries[q]
      /\ stage'[h] = last[q] /\ \A b \in Artifacts \ {h} : stage'[b] = stage[b]
      /\ writing'[q] = Tail(writing[q])
      /\ \A b \in Left(writing[q]) : b = h \/ b \in Left(Tail(writing[q]))
  BY ReplaceIs
<1> HIDE DEF h
<1>3. \A E : \A e \in E : Staged(E) => ArtifactSet(e) \subseteq Artifacts
  BY OwnTyped DEF Staged
<1>4. ASSUME NEW o \in Preparers, pc[o] \in Running PROVE Written(o)'
  <2>1. Written(o) /\ Memory(o) /\ Staged(entries[o]) /\ Closed(entries[o])
    BY <1>4 DEF DiskInv, PresentInv, MemoryInv, Memory
  <2>2. CASE o = q
    <3> SUFFICES ASSUME NEW e \in entries[q], NEW a \in ArtifactSet(e)
                 PROVE  stage'[a] = e \/ (e = last[q] /\ a \in Left(Tail(writing[q])))
      <4>1. entries'[q] = entries[q] /\ last'[q] = last[q] /\ writing'[q] = Tail(writing[q])
        BY <1>1, <1>2
      <4> QED
        BY <2>2, <4>1 DEF Written, Left
    <3>1. CASE a = h
      <4>1. IdOf(e) = IdOf(last[q])
        BY <1>2, <3>1, ArtifactId
      <4>2. e = last[q]
        BY <1>2, <2>1, <2>2, <4>1 DEF Staged, OwnIds
      <4> QED
        BY <1>2, <3>1, <4>2
    <3>2. CASE a # h
      <4>1. a \in Artifacts /\ stage'[a] = stage[a]
        BY <1>2, <1>3, <2>1, <2>2, <3>2
      <4> QED
        BY <1>2, <2>1, <2>2, <3>2, <4>1 DEF Written
    <3> QED
      BY <3>1, <3>2
  <2>3. CASE o # q
    <3>1. ~moved
      <4>1. raced
        BY <1>1, <1>4, <2>3 DEF DiskInv, LonelyInv, Running, Preparing
      <4> QED
        BY <4>1 DEF Undisturbed
    <3>2. writing'[o] = writing[o]
      BY <2>3 DEF ReplaceArtifact, MemoryInv, FunctionOn
    <3>3. \A e \in entries[o] : Rendered(e)
      BY <3>1 DEF DiskInv, RenderedInv
    <3>4. ASSUME NEW e \in entries[o], NEW a \in ArtifactSet(e)
          PROVE  stage'[a] = e \/ (e = last[o] /\ a \in Left(writing[o]))
      <4>1. CASE a = h
        BY <1>2, <2>1, <3>1, <3>3, <4>1, ReplaceKeeps DEF h
      <4>2. CASE a # h
        BY <1>2, <1>3, <2>1, <4>2 DEF Written
      <4> QED
        BY <4>1, <4>2
    <3> QED
      BY <1>1, <3>2, <3>4 DEF Written, Left
  <2> QED
    BY <2>2, <2>3
<1>5. ASSUME manifest.state = "whole" PROVE Present(manifest.entries)'
  <2>1. Present(manifest.entries) /\ Staged(manifest.entries) /\ Closed(manifest.entries)
    BY <1>5, CoveringIsClosed DEF DiskInv, PresentInv, StagedInv
  <2>2. ~moved
    <3>1. raced
      BY <1>1, <1>5 DEF DiskInv, LonelyInv, Preparing
    <3> QED
      BY <3>1 DEF Undisturbed
  <2>3. \A e \in manifest.entries : Rendered(e)
    BY <1>5, <2>2 DEF DiskInv, RenderedInv
  <2>4. ASSUME NEW e \in manifest.entries, NEW a \in ArtifactSet(e) PROVE stage'[a] = e
    <3>1. CASE a = h
      BY <1>2, <2>1, <2>2, <2>3, <3>1, ReplaceKeeps DEF h
    <3>2. CASE a # h
      BY <1>2, <1>3, <2>1, <3>2 DEF Present
    <3> QED
      BY <3>1, <3>2
  <2> QED
    BY <1>1, <2>4 DEF Present
<1> QED
  BY <1>1, <1>4, <1>5

LEMMA PresentStep ==
  ASSUME SnapInv, StagedInv, MemoryInv, DiskInv, [Next]_vars, UNCHANGED snapshot
  PROVE  PresentInv'
<1> SUFFICES ASSUME Undisturbed' PROVE PresentInv'
  BY DEF PresentInv
<1>1. CASE ClearOutput
  BY <1>1 DEF ClearOutput, PresentInv, Running, Preparing, NoManifest, Manifest
<1>2. CASE ~ClearOutput
  <2>1. Undisturbed
    BY <1>2, HistoryStays
  <2>2. /\ \A o \in Preparers : pc[o] \in Running => Written(o)
        /\ manifest.state = "whole" => Present(manifest.entries)
    BY <2>1 DEF DiskInv, PresentInv
  <2>3. CASE \E q \in Preparers : ReplaceArtifact(q)
    BY <2>1, <2>3, ReplacePresent DEF PresentInv
  <2>4. CASE ~\E q \in Preparers : ReplaceArtifact(q)
    <3>1. UNCHANGED stage
      BY <1>2, <2>4, StageChanges
    <3>2. manifest'.state = "whole" => Present(manifest.entries)'
      <4> SUFFICES ASSUME manifest'.state = "whole" PROVE Present(manifest.entries)'
        OBVIOUS
      <4>1. CASE UNCHANGED manifest
        BY <2>2, <3>1, <4>1 DEF Present
      <4>2. ASSUME NEW q \in Preparers, WriteManifest(q), manifest'.entries = entries[q]
            PROVE  Present(manifest.entries)'
        <5>1. pc[q] = "write-manifest" /\ Memory(q)
          BY <4>2 DEF WriteManifest, MemoryInv
        <5>2. writing[q] = << >> /\ Written(q)
          BY <2>2, <5>1 DEF Memory, Preparing, Running
        <5> QED
          BY <3>1, <4>2, <5>2, RestsOf DEF Written, Present
      <4> QED
        BY <4>1, <4>2, NewManifest
    <3>3. ASSUME NEW o \in Preparers, pc'[o] \in Running PROVE Written(o)'
      <4>1. CASE ~PrepareStep
        BY <2>2, <3>1, <3>3, <4>1, OtherSteps, WrittenStays DEF local
      <4>2. ASSUME NEW q \in Preparers, Step(q), q # o PROVE Written(o)'
        <5>1. pc'[o] = pc[o] /\ entries'[o] = entries[o]
          BY <4>2, StepIsOwn
        <5>2. writing'[o] = writing[o] /\ last'[o] = last[o]
          BY <4>2, MemoryIsOwn
        <5> QED
          BY <2>2, <3>1, <3>3, <5>1, <5>2, WrittenStays
      <4>3. CASE Step(o)
        <5>1. CASE PrepareBegin(o)
          <6>1. entries'[o] = {}
            BY <5>1 DEF PrepareBegin, StagedInv
          <6> QED
            BY <6>1 DEF Written
        <5>2. CASE VerifyOnly(o)
          <6>1. entries'[o] = manifest.entries /\ manifest.state = "whole"
            BY <5>2 DEF VerifyOnly, StagedInv, FunctionOn
          <6> QED
            BY <2>2, <3>1, <6>1 DEF Written, Present
        <5>3. CASE StageOutput(o)
          <6>1. PICK r \in retained.records, k \in Packages :
                  /\ last' = [last EXCEPT ![o] = EntryFor(r, k)]
                  /\ entries' = [entries EXCEPT ![o] = @ \cup {EntryFor(r, k)}]
                  /\ writing' = [writing EXCEPT ![o] = ArtifactsOf(EntryFor(r, k))]
            BY <5>3 DEF StageOutput
          <6> DEFINE e == EntryFor(r, k)
          <6>2. /\ last'[o] = e /\ entries'[o] = entries[o] \cup {e} /\ writing'[o] = ArtifactsOf(e)
            BY <6>1 DEF StagedInv, MemoryInv, FunctionOn
          <6>3. pc[o] = "stage" /\ writing[o] = << >>
            BY <5>3 DEF StageOutput, Between
          <6> HIDE DEF e
          <6>4. \A f \in entries[o] : \A a \in ArtifactSet(f) : stage[a] = f
            BY <2>2, <6>3, RestsOf DEF Written, Running, Preparing
          <6>5. \A a \in ArtifactSet(e) : a \in Left(writing'[o])
            BY <6>2, RestsOf
          <6> QED
            BY <3>1, <6>2, <6>4, <6>5 DEF Written, Left
        <5>4. UNCHANGED <<entries, last, writing>>
              \/ PrepareBegin(o) \/ VerifyOnly(o) \/ StageOutput(o)
          <6>1. ~Stop(o)
            BY <3>3, StoppedOK DEF Running, Preparing
          <6> QED
            BY <2>4, <4>3, <6>1 DEF Step, OpenRecord, WriteTemp, FinishStaging, VerifyEntry,
               EndVerify,
               CheckManifest, WriteManifest, Abandon, local
        <5>5. CASE UNCHANGED <<entries, last, writing>> /\ ~PrepareBegin(o) /\ ~VerifyOnly(o)
          <6>1. pc[o] \in Running
            <7>1. ~Stop(o)
              BY <3>3, StoppedOK DEF Running, Preparing
            <7> QED
              BY <2>4, <4>3, <5>5, <7>1 DEF Step, OpenRecord, StageOutput, WriteTemp, FinishStaging,
                 VerifyEntry, EndVerify, CheckManifest, WriteManifest, Abandon, Between, Running,
                 Preparing
          <6> QED
            BY <2>2, <3>1, <5>5, <6>1, WrittenStays
        <5> QED
          BY <5>1, <5>2, <5>3, <5>4, <5>5
      <4> QED
        BY <4>1, <4>2, <4>3 DEF PrepareStep
    <3> QED
      BY <3>2, <3>3 DEF PresentInv
  <2> QED
    BY <2>3, <2>4
<1> QED
  BY <1>1, <1>2

LEMMA CountedStep ==
  ASSUME SnapInv, StagedInv, DiskInv, [Next]_vars
  PROVE  CountedInv'
<1> SUFFICES ASSUME NEW q \in Preparers, pc'[q] = "verify-only" PROVE CountsAgree(entries'[q])
  BY DEF CountedInv, CountsAgree
<1>1. pc[q] = "verify-only" => CountsAgree(entries[q])
  BY DEF DiskInv, CountedInv
<1>2. CASE ~PrepareStep
  BY <1>1, <1>2, OtherSteps DEF local
<1>3. ASSUME NEW o \in Preparers, Step(o), o # q PROVE CountsAgree(entries'[q])
  BY <1>1, <1>3, StepIsOwn
<1>4. CASE Step(q)
  <2>1. CASE VerifyOnly(q)
    <3>1. entries'[q] = manifest.entries /\ manifest.state = "whole"
      BY <2>1 DEF VerifyOnly, StagedInv, FunctionOn
    <3> QED
      BY <3>1 DEF StagedInv
  <2>2. CASE ~VerifyOnly(q)
    <3>1. ~Stop(q)
      BY StoppedOK
    <3>2. UNCHANGED <<pc, entries>> \/ pc'[q] \in Preparing
      BY <1>4, <2>2, <3>1 DEF Step, PrepareBegin, OpenRecord, StageOutput, WriteTemp,
         ReplaceArtifact, FinishStaging, VerifyEntry, EndVerify, CheckManifest, WriteManifest,
         Abandon, Between, Preparing, Goto, StagedInv, FunctionOn, local
    <3> QED
      BY <1>1, <3>2 DEF Preparing
  <2> QED
    BY <2>1, <2>2
<1> QED
  BY <1>2, <1>3, <1>4 DEF PrepareStep

LEMMA DiskHolds == Spec => [](SnapInv /\ Settled /\ StagedInv /\ MemoryInv /\ DiskInv)
<1>1. Init => SnapInv /\ Settled /\ StagedInv /\ MemoryInv /\ DiskInv
  BY SnapInit, SettledInit, StagedInit, MemoryInit, DiskInit DEF Init, SnapshotInit
<1>2. SnapInv /\ Settled /\ StagedInv /\ MemoryInv /\ DiskInv /\ [Next]_vars
        => SnapInv' /\ Settled' /\ StagedInv' /\ MemoryInv' /\ DiskInv'
  <2> SUFFICES ASSUME SnapInv, Settled, StagedInv, MemoryInv, DiskInv, [Next]_vars
               PROVE  SnapInv' /\ Settled' /\ StagedInv' /\ MemoryInv' /\ DiskInv'
    OBVIOUS
  <2>1. SnapInv' /\ Settled'
    BY SnapStep, SettledStep
  <2>2. (StageInit /\ retained = NoSnapshot => StagedInv)'
    BY StagedInit, PTL
  <2>3. (StageInit => MemoryInv /\ DiskInv)'
    BY MemoryInit, DiskInit, PTL
  <2>4. CASE verdict' = "none"
    BY <2>1, <2>2, <2>3, <2>4 DEF Settled
  <2>5. CASE verdict' # "none"
    <3>1. UNCHANGED snapshot
      BY <2>5, SnapshotFrozen
    <3>2. StagedInv' /\ MemoryInv'
      BY <3>1, StagedStep, MemoryStep
    <3>3. DiskInv'
      BY <2>5, <3>1, RenderedStep, LonelyStep, PresentStep, CountedStep DEF DiskInv
    <3> QED
      BY <2>1, <3>2, <3>3
  <2> QED
    BY <2>4, <2>5
<1> QED
  BY <1>1, <1>2, PTL DEF Spec

\* A staging manifest describes the staging directory, whatever failed before
\* and whoever else prepared it from the same mirror.
THEOREM ManifestMatchesStage == Spec => []ManifestDescribesStage
<1>1. SnapInv /\ StagedInv /\ DiskInv => ManifestDescribesStage
  <2> SUFFICES ASSUME SnapInv, StagedInv, DiskInv, manifest.state = "whole", Undisturbed
               PROVE  /\ Present(manifest.entries)
                      /\ OnlyOf(manifest.entries)
                      /\ ~raced => temps = {}
    BY DEF ManifestDescribesStage, Present, OnlyOf
  <2>1. Present(manifest.entries)
    BY DEF DiskInv, PresentInv
  <2>2. CASE ~raced
    BY <2>1, <2>2 DEF DiskInv, LonelyInv
  <2>3. CASE raced
    <3>1. ~moved
      BY <2>3 DEF Undisturbed
    <3>2. ASSUME NEW a \in Artifacts, stage[a] # NoEntry
          PROVE  \E e \in manifest.entries : a \in ArtifactSet(e)
      <4>1. Rendered(stage[a]) /\ a \in ArtifactSet(stage[a])
        BY <3>1, <3>2 DEF DiskInv, RenderedInv
      <4>2. PICK e \in manifest.entries : e.path = stage[a].path /\ e.package = stage[a].package
        <5> DEFINE u == <<stage[a].path, stage[a].package>>
        <5>1. u \in Outputs(Full)
          BY <4>1, RenderedIs
        <5>2. PICK e \in manifest.entries : u = <<e.path, e.package>>
          BY <5>1 DEF StagedInv, Has
        <5> QED
          BY <5>2
      <4>3. e = stage[a]
        BY <3>1, <4>1, <4>2, RenderedOnce DEF DiskInv, RenderedInv
      <4> QED
        BY <4>1, <4>3
    <3> QED
      BY <2>1, <2>3, <3>2 DEF OnlyOf
  <2> QED
    BY <2>2, <2>3
<1> QED
  BY <1>1, DiskHolds, PTL

\* A policy that names no variant "default" leaves nothing to disagree about.
LEMMA CountsOfOwn ==
  ASSUME NEW E, \A e \in E : Own(e), \A g \in policy : Default \notin VariantsIn(g)
  PROVE  CountsAgree(E)
<1>1. ASSUME NEW e \in E PROVE e.selected <=> e.variant # Default
  <2> DEFINE C == ChosenFor(policy, e.path, e.package)
  <2>1. e.variant = (IF C = {} THEN Default ELSE CHOOSE v \in C : TRUE) /\ e.selected = (C # {})
    BY DEF Own, VariantOf
  <2>2. ASSUME NEW v \in C PROVE v # Default
    <3>1. PICK g \in policy : <<e.path, v>> \in g.candidates
      BY <2>2 DEF ChosenFor
    <3>2. v \in VariantsIn(g)
      BY <3>1 DEF VariantsIn
    <3> QED
      BY <3>2
  <2> HIDE DEF C
  <2> QED
    BY <2>1, <2>2
<1>2. {e \in E : e.selected} = {e \in E : e.variant # Default}
  BY <1>1
<1> QED
  BY <1>2 DEF CountsAgree

\* The verifier passes what a preparer staged, in the preparation, unless the
\* policy names a variant "default", and later.
THEOREM PreparedStageVerifies == Spec => []StageVerifies
<1>1. MemoryInv /\ DiskInv => StageVerifies
  <2> SUFFICES ASSUME MemoryInv, DiskInv, Undisturbed, NEW q \in Preparers,
                      pc[q] \in {"verify", "verify-only"}
               PROVE  /\ \A e \in unverified[q] : Verifies(e, entries[q])
                      /\ \/ CountsAgree(entries[q])
                         \/ pc[q] = "verify" /\ \E g \in policy : Default \in VariantsIn(g)
    BY DEF StageVerifies
  <2>1. Memory(q) /\ Written(q)
    BY DEF MemoryInv, DiskInv, PresentInv, Running, Preparing
  <2>2. /\ unverified[q] \subseteq entries[q] /\ writing[q] = << >>
        /\ OwnIds(entries[q]) /\ \A e \in entries[q] : Own(e)
    BY <2>1 DEF Memory, Running, Preparing, Staged
  <2>3. ASSUME NEW e \in unverified[q] PROVE Verifies(e, entries[q])
    <3>1. \A a \in ArtifactSet(e) : stage[a] = e
      BY <2>1, <2>2, RestsOf DEF Written
    <3>2. ASSUME NEW f \in entries[q], f # e
          PROVE  IdOf(f) # IdOf(e) /\ Identity(f) # Identity(e)
      <4>1. IdOf(f) # IdOf(e)
        BY <2>2, <3>2 DEF OwnIds
      <4>2. Identity(f) = Identity(e) => f.package = e.package /\ f.path = e.path
        BY DEF Identity
      <4>3. f.package = e.package /\ f.path = e.path => IdOf(f) = IdOf(e)
        BY <2>2 DEF Own, IdOf
      <4> QED
        BY <4>1, <4>2, <4>3
    <3> QED
      BY <3>1, <3>2 DEF Verifies
  <2>4. \/ CountsAgree(entries[q])
        \/ pc[q] = "verify" /\ \E g \in policy : Default \in VariantsIn(g)
    BY <2>2, CountsOfOwn DEF DiskInv, CountedInv
  <2> QED
    BY <2>3, <2>4
<1> QED
  BY <1>1, DiskHolds, PTL

-----------------------------------------------------------------------------
(***************************************************************************)
(* Types.                                                                  *)
(***************************************************************************)

WorldTypes == moved \in BOOLEAN /\ raced \in BOOLEAN

LEMMA WorldTypesStep == WorldTypes /\ [Next]_vars => WorldTypes'
<1> SUFFICES ASSUME WorldTypes, [Next]_vars PROVE WorldTypes'
  OBVIOUS
<1>1. ASSUME SnapshotStep PROVE UNCHANGED <<moved, raced>>
  BY <1>1 DEF SnapshotStep, SnapshotNext, ScanBegin, ScanPath, ShiftMirror, ScanEnd,
     WriteSnapshot, ScanFails, VerifySnapshot, Retain
<1>2. ASSUME EmitStep PROVE UNCHANGED <<moved, raced>>
  BY <1>2 DEF EmitStep, EmitNext, EmitBegin, EmitOutput, WriteCandidate, OpenIndex, WriteIndex,
     EmitFails, CheckBegin, CheckCandidate, CheckEnd, CheckRefuses, snapshotVars
<1>3. ASSUME PrepareStep PROVE UNCHANGED moved /\ raced' \in BOOLEAN
  BY <1>3 DEF PrepareStep, Step, PrepareBegin, OpenRecord, StageOutput, WriteTemp,
     ReplaceArtifact, FinishStaging, VerifyOnly, VerifyEntry, EndVerify, CheckManifest,
     WriteManifest, Abandon, ingressVars, snapshotVars, WorldTypes
<1>4. ASSUME MoveMirror PROVE moved' = TRUE /\ UNCHANGED raced
  BY <1>4 DEF MoveMirror
<1>5. ASSUME ClearOutput PROVE UNCHANGED moved /\ raced' = FALSE
  BY <1>5 DEF ClearOutput, ingressVars, snapshotVars
<1>6. ASSUME UNCHANGED vars PROVE UNCHANGED <<moved, raced>>
  BY <1>6 DEF vars, ingressVars, snapshotVars
<1> QED
  BY <1>1, <1>2, <1>3, <1>4, <1>5, <1>6 DEF Next, WorldTypes

LEMMA MetadataTyped ==
  ASSUME NEW t \in Trees, NEW p \in Paths
  PROVE  MetadataOf(t[p]) \in Metadata
<1>1. t[p] \in Directories
  BY CachySnapshotAssumption
<1>2. t[p].pkgbuild \in Pkgbuilds \cup {NoFile} /\ t[p].srcinfo \in Srcinfos \cup {NoFile}
  BY <1>1 DEF Directories
<1>3. t[p].srcinfo # NoFile => t[p].srcinfo.meta \in Metadata
  BY <1>2 DEF Srcinfos
<1>4. t[p].pkgbuild.form = "text" => t[p].pkgbuild.meta \in Metadata
  <2>1. NoFile.form # "text"
    BY DEF NoFile
  <2> QED
    BY <1>2, <2>1 DEF Pkgbuilds
<1>5. NoMetadata \in Metadata
  BY DEF NoMetadata, Metadata
<1> QED
  BY <1>3, <1>4, <1>5 DEF MetadataOf

EmitterTypes(e) ==
  /\ \A c \in emitted[e] : c.meta \in Metadata
  /\ open[e] # NoCandidate => open[e].meta \in Metadata

CandidateTypes ==
  /\ \A k \in Packages : candidates[k].state = "whole" => candidates[k].package = k
  /\ index.state \in {"absent", "torn", "whole"}
  /\ index.state # "whole" => index.entries = {}
  /\ \A e \in Emitters : EmitterTypes(e)
  /\ stale \in BOOLEAN /\ mixed \in BOOLEAN /\ overtaken \in BOOLEAN

LEMMA CandidateTypesStep ==
  ASSUME SnapInv, EmitInv, CandidateTypes, [Next]_vars
  PROVE  CandidateTypes'
<1> USE DEF emission, checking, emitHistory
<1>f. /\ FunctionOn(candidates, Packages)
      /\ FunctionOn(emitted, Emitters) /\ FunctionOn(open, Emitters)
  BY DEF EmitInv
<1>h. UNCHANGED <<stale, mixed, overtaken>> =>
        stale' \in BOOLEAN /\ mixed' \in BOOLEAN /\ overtaken' \in BOOLEAN
  BY DEF CandidateTypes
<1>1. ASSUME NEW e \in Emitters, EmitBegin(e) PROVE CandidateTypes'
  <2>1. UNCHANGED <<candidates, index, emitted, open>>
    BY <1>1 DEF EmitBegin
  <2>2. stale' \in BOOLEAN /\ mixed' \in BOOLEAN /\ overtaken' \in BOOLEAN
    BY <1>1 DEF EmitBegin
  <2> QED
    BY <2>1, <2>2 DEF CandidateTypes, EmitterTypes
<1>2. ASSUME NEW e \in Emitters, NEW k \in Packages, EmitOutput(e, k) PROVE CandidateTypes'
  <2>1. PICK o \in unemitted[e] :
          open' = [open EXCEPT ![e] = Candidate(o[1], k, MetadataOf(mirror[o[1].path]))]
    BY <1>2 DEF EmitOutput
  <2>2. o \in AllOutputs
    BY DEF EmitInv, EmitterOK
  <2>3. o[1].path \in Paths
    BY <2>2, RecordTyped DEF AllOutputs, SnapInv
  <2>4. Candidate(o[1], k, MetadataOf(mirror[o[1].path])).meta \in Metadata
    BY <2>3, MetadataTyped, CandidateFields DEF SnapInv
  <2>5. /\ candidates' = [candidates EXCEPT ![k] = Emptied]
        /\ UNCHANGED <<index, emitted, stale, mixed, overtaken>>
    BY <1>2 DEF EmitOutput
  <2>6. \A p \in Packages : candidates'[p].state = "whole" => candidates'[p].package = p
    BY <1>f, <2>5 DEF CandidateTypes, Emptied, FunctionOn
  <2>7. ASSUME NEW x \in Emitters PROVE EmitterTypes(x)'
    BY <1>f, <2>1, <2>4, <2>5 DEF CandidateTypes, EmitterTypes, FunctionOn
  <2> QED
    BY <1>h, <2>5, <2>6, <2>7 DEF CandidateTypes
<1>3. ASSUME NEW e \in Emitters, WriteCandidate(e) PROVE CandidateTypes'
  <2> DEFINE c == open[e]
  <2>1. /\ c # NoCandidate
        /\ emitted' = [emitted EXCEPT ![e] = @ \cup {c}]
        /\ open' = [open EXCEPT ![e] = NoCandidate]
        /\ UNCHANGED <<index, stale, mixed, overtaken>>
    BY <1>3 DEF WriteCandidate
  <2>2. PICK text \in {c, Mixture} : candidates' = [candidates EXCEPT ![c.package] = text]
    BY <1>3 DEF WriteCandidate
  <2>3. \A p \in Packages : candidates'[p].state = "whole" => candidates'[p].package = p
    BY <1>f, <2>2 DEF CandidateTypes, Mixture, FunctionOn
  <2>4. ASSUME NEW x \in Emitters PROVE EmitterTypes(x)'
    BY <1>f, <2>1 DEF CandidateTypes, EmitterTypes, FunctionOn
  <2> QED
    BY <1>h, <2>1, <2>3, <2>4 DEF CandidateTypes
<1>4. ASSUME NEW e \in Emitters, OpenIndex(e) PROVE CandidateTypes'
  <2>1. index'.state = "torn" /\ index'.entries = {}
    BY <1>4 DEF OpenIndex, Index
  <2>2. UNCHANGED <<candidates, emitted, open, stale, mixed, overtaken>>
    BY <1>4 DEF OpenIndex
  <2> QED
    BY <1>h, <2>1, <2>2 DEF CandidateTypes, EmitterTypes
<1>5. ASSUME NEW e \in Emitters, WriteIndex(e) \/ EmitFails(e) PROVE CandidateTypes'
  <2>1. EndEmission(e)
    BY <1>5 DEF WriteIndex, EmitFails
  <2>2. ASSUME NEW x \in Emitters PROVE EmitterTypes(x)'
    BY <1>f, <2>1 DEF CandidateTypes, EmitterTypes, FunctionOn, EndEmission
  <2>3. \/ UNCHANGED index
        \/ index'.state = "torn" /\ index'.entries = {}
        \/ index'.state = "whole"
    BY <1>5 DEF WriteIndex, EmitFails, Index
  <2>4. \/ UNCHANGED candidates
        \/ \E p : \E text \in {candidates[p], Mixture} : candidates' = [candidates EXCEPT ![p] = text]
    BY <1>5 DEF WriteIndex, EmitFails
  <2>5. \A p \in Packages : candidates'[p].state = "whole" => candidates'[p].package = p
    BY <1>f, <2>4 DEF CandidateTypes, Mixture, FunctionOn
  <2>6. stale' \in BOOLEAN /\ mixed' \in BOOLEAN /\ overtaken' \in BOOLEAN
    BY <1>5 DEF WriteIndex, EmitFails, CandidateTypes
  <2> QED
    BY <2>2, <2>3, <2>5, <2>6 DEF CandidateTypes
<1>6. CASE CheckBegin
  <2>1. UNCHANGED <<candidates, index, emitted, open, stale, mixed>> /\ overtaken' \in BOOLEAN
    BY <1>6 DEF CheckBegin
  <2> QED
    BY <2>1 DEF CandidateTypes, EmitterTypes
<1>7. ASSUME UNCHANGED <<candidates, index, emission, emitHistory>> PROVE CandidateTypes'
  BY <1>7 DEF CandidateTypes, EmitterTypes
<1>8. CASE UNCHANGED emitVars
  BY <1>7, <1>8 DEF emitVars
<1>9. CASE EmitNext
  BY <1>1, <1>2, <1>3, <1>4, <1>5, <1>6, <1>7, <1>9
  DEF EmitNext, CheckCandidate, CheckEnd, CheckRefuses
<1> QED
  BY <1>8, <1>9, StepsKeepCandidates

PreparerTypes(q) ==
  /\ pc[q] \in Running \cup {"stopped"}
  /\ last[q] \in Entries \cup {NoEntry}
  /\ entries[q] \subseteq Entries

PrepareTypes ==
  /\ \A a \in Artifacts : stage[a] \in Entries \cup {NoEntry}
  /\ temps \subseteq Artifacts \X Preparers
  /\ manifest.state \in {"absent", "torn", "whole"}
  /\ manifest.entries \subseteq Entries
  /\ \A q \in Preparers : PreparerTypes(q)

\* An entry has the version and the architecture that its metadata gives.
LEMMA EntryTyped ==
  ASSUME SnapInv, NEW r \in Full, NEW k \in r.packages, Renderable(mirror[r.path])
  PROVE  EntryFor(r, k) \in Entries
<1> DEFINE m == MetadataOf(mirror[r.path])
           v == VariantOf(policy, r.path, k)
           s == ChosenFor(policy, r.path, k) # {}
<1>1. PICK d \in Directories : r = RecordOf(r.path, d)
  BY DEF SnapInv, Recorded
<1>2. r.path \in Paths /\ k \in Packages
  BY RecordTyped DEF SnapInv
<1>3. r.admission \in {"template", "rejected", "sealed-script", "meta", "static"}
  <2> DEFINE p == r.path
  <2>1. Admission(p, d) \in {"template", "rejected", "sealed-script", "meta", "static"}
    <3>1. CASE IsKernel(p, d)
      BY <3>1 DEF Admission
    <3>2. CASE ~IsKernel(p, d) /\ Reasons(p, d) \cap Fatal # {}
      BY <3>2 DEF Admission
    <3>3. CASE ~IsKernel(p, d) /\ ~(Reasons(p, d) \cap Fatal # {})
      <4>1. Admission(p, d) =
              IF Scripted(d) THEN "sealed-script"
              ELSE IF d.pkgbuild.sources = "none" /\ "depends" \in d.pkgbuild.marks
              THEN "meta" ELSE "static"
        BY <3>3 DEF Admission
      <4> QED
        BY <4>1
    <3> QED
      BY <3>1, <3>2, <3>3
  <2>2. r.admission = IF d.pkgbuild.form = "text" THEN Admission(p, d) ELSE "rejected"
    <3>1. \A q : RecordOf(q, d).admission =
                   IF d.pkgbuild.form = "text" THEN Admission(q, d) ELSE "rejected"
      BY DEF RecordOf
    <3> QED
      BY <1>1, <3>1
  <2> QED
    BY <2>1, <2>2
<1>4. v \in Variants \cup {Default} /\ s \in BOOLEAN
  BY DEF VariantOf, ChosenFor
<1>5. m \in Metadata /\ m.version # None
  BY <1>2, MetadataTyped DEF SnapInv, Renderable
<1>6. m.version \in Versions /\ m.native \in BOOLEAN
  BY <1>5 DEF Metadata
<1>7. EntryFor(r, k) = [path |-> r.path, package |-> k, variant |-> v, selected |-> s,
                        version |-> m.version, native |-> m.native, admission |-> r.admission]
  BY DEF EntryFor
<1> HIDE DEF m, v, s
<1> QED
  BY <1>2, <1>3, <1>4, <1>6, <1>7 DEF Entries

LEMMA StageOutputTyped ==
  ASSUME SnapInv, StagedInv, NEW q \in Preparers, StageOutput(q)
  PROVE  \E e \in Entries : /\ last' = [last EXCEPT ![q] = e]
                            /\ entries' = [entries EXCEPT ![q] = @ \cup {e}]
<1>1. PICK r \in retained.records, k \in Packages :
        /\ <<r.path, k>> \in queue[q]
        /\ Renderable(mirror[r.path])
        /\ last' = [last EXCEPT ![q] = EntryFor(r, k)]
        /\ entries' = [entries EXCEPT ![q] = @ \cup {EntryFor(r, k)}]
  BY DEF StageOutput, IsNextStaged
<1>2. PreparerOK(q)
  BY DEF StagedInv, StageOutput, Between, Preparing
<1>3. r \in Full /\ <<r.path, k>> \in Outputs(Full)
  BY <1>1, <1>2 DEF PreparerOK, PolicyFits, StagedInv
<1>4. PICK s \in Full : s.path = r.path /\ k \in s.packages
  BY <1>3, OutputOf
<1>5. k \in r.packages
  BY <1>3, <1>4, FullPath
<1>6. EntryFor(r, k) \in Entries
  BY <1>1, <1>3, <1>5, EntryTyped
<1> QED
  BY <1>1, <1>6

\* What is in memory of the preparer that takes a step.
LEMMA OwnTypesStay ==
  ASSUME SnapInv, StagedInv, MemoryInv, PrepareTypes, NEW q \in Preparers, Step(q)
  PROVE  PreparerTypes(q)'
<1>f. /\ FunctionOn(pc, Preparers) /\ FunctionOn(entries, Preparers)
      /\ FunctionOn(last, Preparers)
  BY DEF StagedInv, MemoryInv
<1>t. PreparerTypes(q) /\ manifest.entries \subseteq Entries
  BY DEF PrepareTypes
<1> USE DEF PreparerTypes, FunctionOn
<1>s. ASSUME Stop(q) PROVE PreparerTypes(q)'
  BY <1>f, <1>s DEF Stop, Goto
<1>1. CASE PrepareBegin(q)
  BY <1>f, <1>t, <1>1 DEF PrepareBegin, Goto, Running, Preparing
<1>2. CASE StageOutput(q)
  <2>1. PICK e \in Entries : /\ last' = [last EXCEPT ![q] = e]
                             /\ entries' = [entries EXCEPT ![q] = @ \cup {e}]
    BY <1>2, StageOutputTyped
  <2>2. UNCHANGED pc
    BY <1>2 DEF StageOutput
  <2> QED
    BY <1>f, <1>t, <2>1, <2>2
<1>3. CASE OpenRecord(q)
  <2>1. UNCHANGED <<pc, last, entries>>
    BY <1>3 DEF OpenRecord
  <2> QED
    BY <1>t, <2>1
<1>4. CASE WriteTemp(q) \/ ReplaceArtifact(q) \/ VerifyEntry(q)
  <2>1. UNCHANGED <<pc, last, entries>>
    BY <1>4 DEF WriteTemp, ReplaceArtifact, VerifyEntry, local
  <2> QED
    BY <1>t, <2>1
<1>5. CASE FinishStaging(q)
  BY <1>f, <1>t, <1>5 DEF FinishStaging, Goto, Running, Preparing
<1>6. CASE VerifyOnly(q)
  <2>1. /\ pc' = [pc EXCEPT ![q] = "verify-only"] /\ UNCHANGED last
        /\ entries' = [entries EXCEPT ![q] = manifest.entries]
    BY <1>6 DEF VerifyOnly, Goto
  <2> QED
    BY <1>f, <1>t, <2>1 DEF Running
<1>7. CASE EndVerify(q)
  <2>1. Stop(q) \/ (Goto(q, "check-new") /\ UNCHANGED local)
    BY <1>7 DEF EndVerify
  <2> QED
    BY <1>f, <1>t, <1>s, <2>1 DEF Goto, local, Running, Preparing
<1>8. CASE CheckManifest(q)
  BY <1>f, <1>t, <1>8 DEF CheckManifest, Goto, local, Running, Preparing
<1>9. CASE WriteManifest(q) \/ Abandon(q)
  BY <1>s, <1>9 DEF WriteManifest, Abandon
<1> QED
  BY <1>1, <1>2, <1>3, <1>4, <1>5, <1>6, <1>7, <1>8, <1>9 DEF Step

\* last of the others.
LEMMA OthersLast ==
  ASSUME MemoryInv, NEW q \in Preparers, Step(q), NEW o \in Preparers \ {q}
  PROVE  last'[o] = last[o]
<1>f. FunctionOn(last, Preparers)
  BY DEF MemoryInv
<1>1. CASE StageOutput(q)
  <2>1. PICK e : last' = [last EXCEPT ![q] = e]
    BY <1>1 DEF StageOutput
  <2> QED
    BY <1>f, <2>1 DEF FunctionOn
<1>2. CASE Stop(q)
  BY <1>f, <1>2 DEF Stop, FunctionOn
<1>3. CASE ~StageOutput(q) /\ ~Stop(q)
  <2>1. UNCHANGED last
    BY <1>3 DEF Step, PrepareBegin, OpenRecord, WriteTemp, ReplaceArtifact, FinishStaging,
       VerifyOnly, VerifyEntry, EndVerify, CheckManifest, WriteManifest, Abandon, local
  <2> QED
    BY <2>1
<1> QED
  BY <1>1, <1>2, <1>3

LEMMA PrepareTypesStep ==
  ASSUME SnapInv, StagedInv, MemoryInv, DiskInv, PrepareTypes, [Next]_vars
  PROVE  PrepareTypes'
<1>1. \A a \in Artifacts : stage'[a] \in Entries \cup {NoEntry}
  <2>1. CASE UNCHANGED stage
    BY <2>1 DEF PrepareTypes
  <2>2. CASE ClearOutput
    BY <2>2 DEF ClearOutput
  <2>3. ASSUME NEW q \in Preparers, ReplaceArtifact(q)
        PROVE  \A a \in Artifacts : stage'[a] \in Entries \cup {NoEntry}
    <3>1. last[q] \in Entries \cup {NoEntry}
      BY DEF PrepareTypes, PreparerTypes
    <3> QED
      BY <2>3, <3>1, ReplaceIs DEF PrepareTypes
  <2> QED
    BY <2>1, <2>2, <2>3, StageChanges
<1>2. temps' \subseteq Artifacts \X Preparers
  <2>1. ASSUME NEW q \in Preparers, WriteTemp(q) PROVE temps' \subseteq Artifacts \X Preparers
    <3>1. pc[q] = "stage" /\ writing[q] # << >> /\ Memory(q)
      BY <2>1 DEF WriteTemp, MemoryInv
    <3>2. last[q] \in entries[q] /\ writing[q] \in Rests(last[q]) /\ Staged(entries[q])
      BY <3>1 DEF Memory, Preparing, Running
    <3>3. Head(writing[q]) \in Artifacts
      BY <3>1, <3>2, RestsOf, OwnTyped DEF Staged
    <3>4. temps' = temps \cup {<<Head(writing[q]), q>>}
      BY <2>1 DEF WriteTemp
    <3> QED
      BY <3>3, <3>4 DEF PrepareTypes
  <2>2. ASSUME NEW q \in Preparers, Step(q), ~WriteTemp(q) PROVE temps' \subseteq temps
    BY <2>2 DEF Step, PrepareBegin, OpenRecord, StageOutput, ReplaceArtifact, FinishStaging,
       VerifyOnly, VerifyEntry, EndVerify, CheckManifest, WriteManifest, Abandon, disk
  <2>3. CASE ~PrepareStep
    BY <2>3, OtherSteps DEF disk, ClearOutput, PrepareTypes
  <2> QED
    BY <2>1, <2>2, <2>3 DEF PrepareStep, PrepareTypes
<1>3. manifest'.state \in {"absent", "torn", "whole"} /\ manifest'.entries \subseteq Entries
  <2>1. ASSUME NEW q \in Preparers, Step(q)
        PROVE  \/ UNCHANGED manifest
               \/ manifest' = Manifest("torn", {})
               \/ manifest' = Manifest("whole", entries[q])
    BY <2>1 DEF Step, PrepareBegin, OpenRecord, StageOutput, WriteTemp, ReplaceArtifact,
       FinishStaging, VerifyOnly, VerifyEntry, EndVerify, CheckManifest, WriteManifest, Abandon,
       disk
  <2>2. \/ UNCHANGED manifest
        \/ manifest' = Manifest("torn", {})
        \/ \E q \in Preparers : manifest' = Manifest("whole", entries[q])
        \/ manifest' = NoManifest
    BY <2>1, OtherSteps DEF PrepareStep, disk, ClearOutput
  <2>3. \A q \in Preparers : entries[q] \subseteq Entries
    BY DEF PrepareTypes, PreparerTypes
  <2> QED
    BY <2>2, <2>3 DEF PrepareTypes, Manifest, NoManifest
<1>4. ASSUME NEW o \in Preparers PROVE PreparerTypes(o)'
  <2>1. PreparerTypes(o)
    BY DEF PrepareTypes
  <2>2. CASE ~PrepareStep
    BY <2>1, <2>2, OtherSteps DEF PreparerTypes, local
  <2>3. ASSUME NEW q \in Preparers, Step(q), q # o PROVE PreparerTypes(o)'
    BY <2>1, <2>3, StepIsOwn, OthersLast DEF PreparerTypes
  <2>4. CASE Step(o)
    BY <2>4, OwnTypesStay
  <2> QED
    BY <2>2, <2>3, <2>4 DEF PrepareStep
<1> QED
  BY <1>1, <1>2, <1>3, <1>4 DEF PrepareTypes

LEMMA TypesInit == Init => WorldTypes /\ CandidateTypes /\ PrepareTypes
<1> SUFFICES ASSUME Init PROVE WorldTypes /\ CandidateTypes /\ PrepareTypes
  OBVIOUS
<1>1. WorldTypes
  BY DEF Init, StageInit, WorldTypes
<1>2. CandidateTypes
  BY DEF Init, EmitInit, CandidateTypes, EmitterTypes, Index, NoCandidate
<1>3. PrepareTypes
  BY DEF Init, StageInit, PrepareTypes, PreparerTypes, NoManifest, Manifest
<1> QED
  BY <1>1, <1>2, <1>3

\* What an entry has left to write is a sequence of artifacts.
LEMMA RestsTyped ==
  ASSUME NEW e, ArtifactSet(e) \subseteq Artifacts
  PROVE  \A w \in Rests(e) : w \in Seq(Artifacts)
<1>1. PICK a, b, c : ArtifactsOf(e) = <<a, b, c>>
  BY DEF ArtifactsOf
<1>2. a \in Artifacts /\ b \in Artifacts /\ c \in Artifacts
  <2>1. 1..3 = {1, 2, 3}
    OBVIOUS
  <2>2. ArtifactSet(e) = {a, b, c}
    BY <1>1, <2>1 DEF ArtifactSet
  <2> QED
    BY <2>2
<1>3. Rests(e) = {<<a, b, c>>, <<b, c>>, <<c>>, << >>}
  BY <1>1 DEF Rests
<1>4. /\ <<a, b, c>> \in Seq(Artifacts) /\ <<b, c>> \in Seq(Artifacts)
      /\ <<c>> \in Seq(Artifacts) /\ << >> \in Seq(Artifacts)
  BY <1>2
<1> QED
  BY <1>3, <1>4

LEMMA EmitTyped ==
  ASSUME EmitInv, CheckInv, CandidateTypes
  PROVE  EmitTypeOK
<1>1. DOMAIN candidates = Packages
  BY DEF EmitInv, FunctionOn
<1>2. epc \in [Emitters -> {"stopped", "emit", "index"}]
  <2>1. epc = [e \in Emitters |-> epc[e]]
    BY DEF EmitInv, FunctionOn
  <2>2. \A e \in Emitters : epc[e] \in {"stopped", "emit", "index"}
    BY DEF EmitInv, EmitterOK
  <2> QED
    BY <2>1, <2>2
<1>3. ASSUME NEW e \in Emitters
      PROVE  /\ epc[e] = "stopped" => unemitted[e] = {} /\ emitted[e] = {} /\ open[e] = NoCandidate
             /\ epc[e] = "index" => unemitted[e] = {} /\ open[e] = NoCandidate
             /\ \A c \in emitted[e] : c.state = "whole" /\ c.meta \in Metadata
  <2>1. EmitterOK(e) /\ EmitterTypes(e)
    BY DEF EmitInv, CandidateTypes
  <2> QED
    BY <2>1 DEF EmitterOK, EmitterTypes, Good
<1> QED
  BY <1>1, <1>2, <1>3 DEF EmitTypeOK, CheckInv, CandidateTypes

LEMMA MemoryTyped ==
  ASSUME SnapInv, StagedInv, MemoryInv, PrepareTypes, NEW q \in Preparers
  PROVE  /\ unread[q] \subseteq Paths
         /\ queue[q] \subseteq Paths \X Packages
         /\ writing[q] \in Seq(Artifacts)
         /\ last[q] \in Entries \cup {NoEntry}
         /\ entries[q] \subseteq Entries
         /\ unverified[q] \subseteq entries[q]
         /\ writing[q] # << >> => last[q] \in entries[q]
<1>1. PreparerTypes(q) /\ Memory(q)
  BY DEF PrepareTypes, MemoryInv
<1>2. CASE pc[q] \notin Preparing
  <2>1. unread[q] = {} /\ queue[q] = {}
    BY <1>2 DEF StagedInv
  <2>2. writing[q] = << >> /\ unverified[q] \subseteq entries[q]
    BY <1>1, <1>2 DEF Memory
  <2>3. writing[q] \in Seq(Artifacts)
    BY <2>2
  <2> QED
    BY <1>1, <2>1, <2>2, <2>3 DEF PreparerTypes
<1>3. CASE pc[q] \in Preparing
  <2>1. unread[q] \subseteq Paths
    <3>1. \A r \in Full : r.path \in Paths
      BY RecordTyped DEF SnapInv
    <3> QED
      BY <1>1, <1>3, <3>1 DEF Memory
  <2>2. queue[q] \subseteq Paths \X Packages
    <3>1. queue[q] \subseteq Outputs(Full)
      BY <1>3 DEF StagedInv, PreparerOK
    <3> QED
      BY <3>1, OutputNat
  <2>3. writing[q] \in Seq(Artifacts)
    <3>1. CASE writing[q] = << >>
      BY <3>1
    <3>2. CASE writing[q] # << >>
      <4>1. last[q] \in entries[q] /\ writing[q] \in Rests(last[q]) /\ Staged(entries[q])
        BY <1>1, <1>3, <3>2 DEF Memory, Running
      <4>2. ArtifactSet(last[q]) \subseteq Artifacts
        BY <4>1, OwnTyped DEF Staged
      <4> QED
        BY <4>1, <4>2, RestsTyped
    <3> QED
      BY <3>1, <3>2
  <2> QED
    BY <1>1, <1>3, <2>1, <2>2, <2>3 DEF Memory, PreparerTypes
<1> QED
  BY <1>2, <1>3

\* Emitters and preparers, which write what they rendered from trees that may
\* change meanwhile, leave every variable in its type.
THEOREM OverlayTypeCorrect == Spec => []TypeOK
<1> DEFINE Known == SnapInv /\ EmitInv /\ CheckInv /\ StagedInv /\ MemoryInv /\ DiskInv
           Types == WorldTypes /\ CandidateTypes /\ PrepareTypes
           I == Known /\ Types
<1>1. Spec => []Known
  BY CandidatesHold, DiskHolds, PTL
<1>2. Known /\ Types /\ [Next]_vars => Types'
  BY WorldTypesStep, CandidateTypesStep, PrepareTypesStep
<1>3. I => TypeOK
  <2> SUFFICES ASSUME I PROVE TypeOK
    OBVIOUS
  <2>1. EmitTypeOK
    BY EmitTyped
  <2>2. policy \in Policies /\ moved \in BOOLEAN /\ raced \in BOOLEAN
    BY DEF StagedInv, WorldTypes
  <2>3. stage \in [Artifacts -> Entries \cup {NoEntry}]
    <3>1. stage = [a \in Artifacts |-> stage[a]]
      BY DEF DiskInv, FunctionOn
    <3>2. \A a \in Artifacts : stage[a] \in Entries \cup {NoEntry}
      BY DEF PrepareTypes
    <3> QED
      BY <3>1, <3>2
  <2>4. pc \in [Preparers -> Running \cup {"stopped"}]
    <3>1. pc = [q \in Preparers |-> pc[q]]
      BY DEF StagedInv, FunctionOn
    <3>2. \A q \in Preparers : pc[q] \in Running \cup {"stopped"}
      BY DEF PrepareTypes, PreparerTypes
    <3> QED
      BY <3>1, <3>2
  <2>5. /\ temps \subseteq Artifacts \X Preparers
        /\ manifest.state \in {"absent", "torn", "whole"}
        /\ manifest.entries \subseteq Entries
    BY DEF PrepareTypes
  <2> HIDE DEF I
  <2>6. ASSUME NEW q \in Preparers
        PROVE  /\ unread[q] \subseteq Paths
               /\ queue[q] \subseteq Paths \X Packages
               /\ writing[q] \in Seq(Artifacts)
               /\ last[q] \in Entries \cup {NoEntry}
               /\ entries[q] \subseteq Entries
               /\ unverified[q] \subseteq entries[q]
               /\ writing[q] # << >> => last[q] \in entries[q]
    BY MemoryTyped DEF I
  <2> QED
    BY <2>1, <2>2, <2>3, <2>4, <2>5, <2>6 DEF TypeOK
<1>4. Init => Types
  BY TypesInit
<1> HIDE DEF Known, Types
<1> QED
  BY <1>1, <1>2, <1>3, <1>4, PTL DEF Spec
-----------------------------------------------------------------------------
(***************************************************************************)
(* The overlay is published whole.                                         *)
(***************************************************************************)

\* An unmoved mirror renders one set of entries for the outputs of the snapshot.
LEMMA OneRendering ==
  ASSUME SnapInv, NEW E, NEW F, \A e \in E \cup F : Rendered(e),
         \A u \in Outputs(Full) : Has(E, u) /\ Has(F, u)
  PROVE  E = F
<1>1. ASSUME NEW A, NEW B, \A e \in A \cup B : Rendered(e), \A u \in Outputs(Full) : Has(B, u),
             NEW e \in A
      PROVE  e \in B
  <2>1. PICK f \in B : <<e.path, e.package>> = <<f.path, f.package>>
    BY <1>1, RenderedIs DEF Has
  <2> QED
    BY <1>1, <2>1, RenderedOnce
<1>2. E \subseteq F
  BY <1>1
<1>3. F \subseteq E
  BY <1>1
<1> QED
  BY <1>2, <1>3

\* A manifest that is written over another one was written beside it.
LEMMA WrittenBeside ==
  ASSUME MemoryInv, DiskInv, Undisturbed, manifest.state = "whole",
         NEW q \in Preparers, pc[q] \in Preparing
  PROVE  raced /\ ~moved
BY DEF DiskInv, LonelyInv, Undisturbed

\* A rename after the manifest writes what is there.
LEMMA RenamesTheSame ==
  ASSUME SnapInv, StagedInv, MemoryInv, DiskInv, Undisturbed, manifest.state = "whole",
         NEW q \in Preparers, ReplaceArtifact(q)
  PROVE  UNCHANGED stage
<1> DEFINE h == Head(writing[q])
<1>1. ~moved /\ pc[q] = "stage"
  BY WrittenBeside DEF ReplaceArtifact, Preparing
<1>2. /\ h \in ArtifactSet(last[q]) /\ last[q] \in entries[q] /\ Own(last[q])
      /\ stage' = [stage EXCEPT ![h] = last[q]]
  BY ReplaceIs DEF ReplaceArtifact
<1> HIDE DEF h
<1>3. Rendered(last[q])
  BY <1>1, <1>2 DEF DiskInv, RenderedInv
<1>4. PICK e \in manifest.entries : <<last[q].path, last[q].package>> = <<e.path, e.package>>
  BY <1>2 DEF StagedInv, Own, Has
<1>5. Rendered(e)
  BY <1>1 DEF DiskInv, RenderedInv
<1>6. e = last[q]
  BY <1>3, <1>4, <1>5, RenderedOnce
<1>7. stage[h] = last[q]
  BY <1>2, <1>6 DEF DiskInv, PresentInv, Present
<1> QED
  BY <1>2, <1>7 DEF DiskInv, FunctionOn

\* What a reader finds beside a whole manifest stays, whoever is still at work.
LEMMA PublishedStays ==
  ASSUME SnapInv, StagedInv, MemoryInv, DiskInv, [Next]_vars, manifest.state = "whole",
         manifest'.state = "whole", Undisturbed'
  PROVE  Undisturbed /\ manifest'.entries = manifest.entries /\ UNCHANGED stage
<1>1. ~ClearOutput
  BY DEF ClearOutput, NoManifest, Manifest
<1>2. Undisturbed
  BY <1>1, HistoryStays
<1>3. UNCHANGED stage
  BY <1>1, <1>2, StageChanges, RenamesTheSame
<1>4. ASSUME NEW q \in Preparers, WriteManifest(q), manifest'.entries = entries[q]
      PROVE  manifest'.entries = manifest.entries
  <2>1. pc[q] = "write-manifest" /\ PreparerOK(q) /\ ~moved
    BY <1>2, <1>4, WrittenBeside DEF WriteManifest, StagedInv, Preparing
  <2>2. \A u \in Outputs(Full) : Has(entries[q], u) /\ Has(manifest.entries, u)
    BY <2>1 DEF PreparerOK, StagedInv
  <2>3. \A e \in entries[q] \cup manifest.entries : Rendered(e)
    BY <2>1 DEF DiskInv, RenderedInv
  <2> QED
    BY <1>4, <2>2, <2>3, OneRendering
<1> QED
  BY <1>2, <1>3, <1>4, NewManifest

\* A stage whose manifest appears is whole, by what the manifest says then.
LEMMA AppearsWhole ==
  ASSUME TypeOK', ManifestDescribesStage', AlternativesSelected', manifest'.state = "whole",
         Undisturbed', UNCHANGED retained
  PROVE  PublishedStage' \in {d \in Stages : IsWholeStage(d)}
<1> DEFINE d == PublishedStage'
<1>1. /\ d = [entries |-> manifest'.entries, files |-> stage',
              temps |-> IF raced' THEN {} ELSE temps']
      /\ d.entries = manifest'.entries /\ d.files = stage' /\ d.temps = {}
  BY DEF PublishedStage, ManifestDescribesStage
<1>2. manifest'.entries \in SUBSET Entries /\ stage' \in [Artifacts -> Entries \cup {NoEntry}]
  BY DEF TypeOK
<1>3. /\ \A e \in manifest'.entries : \A a \in ArtifactSet(e) : stage'[a] = e
      /\ \A a \in Artifacts : stage'[a] # NoEntry =>
           \E e \in manifest'.entries : a \in ArtifactSet(e)
  BY DEF ManifestDescribesStage
<1>4. /\ {<<e.path, e.package>> : e \in manifest'.entries} = Outputs(retained.records)
      /\ \A e, f \in manifest'.entries : e # f => IdOf(e) # IdOf(f)
  BY DEF AlternativesSelected
<1> HIDE DEF d
<1>5. d \in Stages
  BY <1>1, <1>2 DEF Stages
<1>6. IsWholeStage(d)
  BY <1>1, <1>3, <1>4 DEF IsWholeStage
<1> QED
  BY <1>5, <1>6 DEF d

\* The staging implements a publication: for any trees, packages and policies, and
\* any number of preparers that fail, are killed, start again or overlap, the
\* output directory shows nothing or one whole stage, which stays to the last
\* artifact until the operator removes it, a preparer that overlapped tears the
\* manifest, or the mirror moves between preparers that overlapped.
THEOREM OverlayIsPublished == Spec => PublishesWhole
<1> DEFINE Inv == SnapInv /\ StagedInv /\ MemoryInv /\ DiskInv
           Kept == TypeOK /\ ManifestDescribesStage /\ AlternativesSelected
           Step1 == [Published!Publish \/ Published!Withdraw]_PublishedStage
<1>1. Init => Published!Init
  BY DEF Init, StageInit, NoManifest, Manifest, Published!Init, PublishedStage
<1>2. Inv /\ Kept' /\ [Next]_vars => Step1
  <2> SUFFICES ASSUME Inv, Kept', [Next]_vars PROVE Step1
    OBVIOUS
  <2>1. CASE ~(manifest'.state = "whole" /\ Undisturbed')
    <3>1. PublishedStage' = NoStage
      BY <2>1 DEF PublishedStage
    <3> QED
      BY <3>1 DEF Published!Withdraw
  <2>2. CASE manifest'.state = "whole" /\ Undisturbed' /\ manifest.state = "whole"
    <3>1. Undisturbed /\ manifest'.entries = manifest.entries /\ UNCHANGED stage
      BY <2>2, PublishedStays
    <3>2. (raced \/ temps = {}) /\ (raced' \/ temps' = {})
      BY <2>2, <3>1 DEF DiskInv, LonelyInv, ManifestDescribesStage
    <3>3. UNCHANGED PublishedStage
      BY <2>2, <3>1, <3>2 DEF PublishedStage
    <3> QED
      BY <3>3
  <2>3. CASE manifest'.state = "whole" /\ Undisturbed' /\ manifest.state # "whole"
    <3>1. PublishedStage = NoStage
      BY <2>3 DEF PublishedStage
    <3>2. \E q \in Preparers : WriteManifest(q)
      BY <2>3, NewManifest
    <3>3. UNCHANGED retained
      BY <3>2 DEF WriteManifest, ingressVars, snapshotVars
    <3>4. PublishedStage' \in {d \in Stages : IsWholeStage(d)}
      BY <2>3, <3>3, AppearsWhole
    <3> QED
      BY <3>1, <3>4 DEF Published!Publish, Published!Withdraw
  <2> QED
    BY <2>1, <2>2, <2>3
<1>3. Spec => []Inv
  BY DiskHolds, PTL
<1>4. Spec => []Kept
  BY OverlayTypeCorrect, ManifestMatchesStage, ManifestSelectsAlternatives, PTL
<1> HIDE DEF Inv, Kept
<1> QED
  BY <1>1, <1>2, <1>3, <1>4, PTL DEF Spec, PublishesWhole, Published!Spec
=============================================================================
