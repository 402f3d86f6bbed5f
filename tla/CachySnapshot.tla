---------------------------- MODULE CachySnapshot ----------------------------
(***************************************************************************)
(* The snapshot of the CachyOS package tree: inventory_cachyos.py scans a  *)
(* mirror whose HEAD is the pinned revision, classifies every PKGBUILD and *)
(* writes one record for each; verify_cachyos_ingress.py accepts or        *)
(* refuses what it wrote, and an accepted snapshot is retained in the      *)
(* repository.  What is scanned is the working tree: it may hold files     *)
(* that git does not track, and may change while it is scanned.            *)
(*                                                                         *)
(* A PKGBUILD is what classify can tell about it: the names it declares,   *)
(* its sources, and a set of marks (functions, shell constructs, hooks).   *)
(* A mirror is a function from paths to directories.                       *)
(***************************************************************************)
EXTENDS Naturals, FiniteSets

CONSTANTS
  Paths,          \* the paths of PKGBUILD files, in their order
  Packages,       \* package names, in their order
  Named,          \* those that match PACKAGE_RE
  KernelPaths,    \* paths that contain a kernel package prefix
  KernelPackages, \* names that begin with one
  Vocabulary,     \* reason_codes of the policy
  Versions,
  Target,         \* target_package_outputs of the policy
  Trees,          \* the states a mirror can be in
  Later           \* those of other revisions it may be moved to

None == "none"
NoFile == [form |-> "absent"]

Marks == {"pkgver", "eval", "substitution", "install", "hook", "phase",
          "package_", "helper", "depends"}

\* Sources that are downloads, pinned commits, or floating branches.
Sources == {"none", "files", "pinned", "floating"}

Metadata == [version : Versions \cup {None}, native : BOOLEAN]

\* "text" is a regular file in UTF-8 that is not empty, "bytes" any other
\* regular file, "odd" a symlink, or a file above the bound.
Pkgbuilds ==
  [form : {"text", "bytes", "odd"}, names : SUBSET Packages, marks : SUBSET Marks,
   sources : Sources, sums : BOOLEAN, meta : Metadata]
Srcinfos == [form : {"text", "odd"}, names : SUBSET Packages, meta : Metadata]
Directories == [pkgbuild : Pkgbuilds \cup {NoFile}, srcinfo : Srcinfos \cup {NoFile}]

ASSUME CachySnapshotAssumption ==
  /\ Paths \subseteq Nat \ {0} /\ IsFiniteSet(Paths)
  /\ Packages \subseteq Nat /\ IsFiniteSet(Packages)
  /\ KernelPaths \subseteq Paths /\ KernelPackages \subseteq Packages
  /\ Named \subseteq Packages
  /\ None \notin Versions
  /\ Target \in Nat \ {0}
  /\ Trees \subseteq [Paths -> Directories]
  /\ Later \subseteq Trees

VARIABLES
  pinned,     \* the tree of the policy's mirror_revision
  checkout,   \* the working tree with that revision checked out
  mirror,     \* the working tree now
  shifted,    \* another revision was checked out while the tree was scanned
  ipc,        \* the inventory: "stopped", "scan" or "write"
  unscanned,  \* paths it has yet to read
  scanned,    \* its records
  owners,     \* package_owners, 0 for a package not seen
  twice,      \* duplicate_packages
  snapshot,   \* the manifest on disk
  verdict,    \* of the verifier, on the snapshot on disk
  retained    \* the snapshot kept in the repository

scan == <<unscanned, scanned, owners, twice>>
trees == <<pinned, checkout, mirror, shifted>>
snapshotVars == <<trees, ipc, scan, snapshot, verdict, retained>>

-----------------------------------------------------------------------------
(***************************************************************************)
(* classify: what a record says of a directory.                            *)
(***************************************************************************)

\* .SRCINFO decides when it names any package, whatever the names; it is not
\* opened for a PKGBUILD that is no text.  Of a PKGBUILD with an invalid name
\* none is taken.
Names(d) ==
  IF d.pkgbuild.form # "text" THEN {}
  ELSE IF d.srcinfo # NoFile /\ d.srcinfo.names # {} THEN d.srcinfo.names
  ELSE IF d.pkgbuild.names \subseteq Named THEN d.pkgbuild.names ELSE {}

IsKernel(p, d) == p \in KernelPaths \/ Names(d) \cap KernelPackages # {}

IsSplit(d) == Cardinality(Names(d)) > 1 \/ "package_" \in d.pkgbuild.marks

\* Pinned commits need no checksum, provided that every source is one.
MissingChecksum(f) == f.sources \in {"files", "floating"} /\ ~f.sums

MarkCodes ==
  [m \in Marks |-> CASE m = "pkgver" -> "DYNAMIC_PKGVER"
                     [] m = "eval" -> "EVAL"
                     [] m = "substitution" -> "SHELL_SUBSTITUTION"
                     [] m = "install" -> "INSTALL_HOOK"
                     [] m = "hook" -> "PACMAN_HOOK"
                     [] m = "helper" -> "UNPARSED_FUNCTION"
                     [] OTHER -> None]

Reasons(p, d) ==
  LET f == d.pkgbuild
      When(condition, code) == IF condition THEN {code} ELSE {} IN
  ({MarkCodes[m] : m \in f.marks} \ {None})
    \cup When(Names(d) = {}, "UNRESOLVED_PACKAGE_NAMES")
    \cup When(IsKernel(p, d), "KERNEL_TEMPLATE")
    \cup When(f.sources = "floating", "FLOATING_VCS")
    \cup When(MissingChecksum(f), "MISSING_CHECKSUM")
    \cup When(IsSplit(d), "SPLIT_PACKAGE")

Scripted(d) ==
  \/ d.pkgbuild.marks \cap {"pkgver", "phase", "package_", "helper", "substitution"} # {}
  \/ IsSplit(d)

Fatal == {"UNRESOLVED_PACKAGE_NAMES", "EVAL"}

Admission(p, d) ==
  CASE IsKernel(p, d) -> "template"
    [] ~IsKernel(p, d) /\ Reasons(p, d) \cap Fatal # {} -> "rejected"
    [] OTHER ->
         IF Scripted(d) THEN "sealed-script"
         ELSE IF d.pkgbuild.sources = "none" /\ "depends" \in d.pkgbuild.marks
         THEN "meta" ELSE "static"

\* The record of a path.  The codes of a file that is no text are a literal
\* list, which is not sorted.
RecordOf(p, d) ==
  LET text == d.pkgbuild.form = "text" IN
  [path |-> p, pkgbuild |-> d.pkgbuild,
   srcinfo |-> IF text THEN d.srcinfo ELSE NoFile, packages |-> Names(d),
   admission |-> IF text THEN Admission(p, d) ELSE "rejected",
   reasons |-> IF text THEN Reasons(p, d)
               ELSE {"UNSUPPORTED_SYNTAX", "UNRESOLVED_PACKAGE_NAMES"},
   sorted |-> text]

Readable(d) ==
  /\ d.pkgbuild # NoFile /\ d.pkgbuild.form # "odd"
  /\ d.pkgbuild.form = "text" /\ d.srcinfo # NoFile => d.srcinfo.form = "text"

Discovered(t) == {p \in Paths : t[p].pkgbuild # NoFile}

\* A working tree without tracked modifications: there may be other files in it.
Clean(worktree, tree) ==
  \A p \in Paths :
    /\ tree[p].pkgbuild # NoFile => worktree[p].pkgbuild = tree[p].pkgbuild
    /\ tree[p].srcinfo # NoFile => worktree[p].srcinfo = tree[p].srcinfo

\* The outputs of a set of records, as pairs of a path and a package.
Outputs(R) == UNION {{r.path} \X r.packages : r \in R}
Unresolved(R) == {r \in R : r.packages = {}}

\* Mutant: packages that two paths emit do not matter.
CompleteByCount(R, dups) == Cardinality(Outputs(R)) = Target /\ Unresolved(R) = {}

Complete(R, dups) ==
  Cardinality(Outputs(R)) = Target /\ Unresolved(R) = {} /\ dups = {}

Snapshot(state, R, dups) ==
  [state |-> state, records |-> R, duplicates |-> dups, complete |-> Complete(R, dups)]
NoSnapshot == Snapshot("absent", {}, {})

-----------------------------------------------------------------------------
(***************************************************************************)
(* inventory_cachyos.py.                                                   *)
(***************************************************************************)

SnapshotInit ==
  /\ pinned \in Trees /\ checkout \in Trees
  /\ mirror = checkout /\ shifted = FALSE
  /\ ipc = "stopped"
  /\ unscanned = {} /\ scanned = {} /\ twice = {}
  /\ owners = [k \in Packages |-> 0]
  /\ snapshot = NoSnapshot
  /\ verdict = "none"
  /\ retained = NoSnapshot

\* HEAD is the policy's revision, and no tracked file is modified; neither is
\* looked at again.
ScanBegin ==
  /\ ipc = "stopped" /\ verdict = "none"
  /\ ~shifted /\ Clean(mirror, pinned)
  /\ ipc' = "scan"
  /\ unscanned' = Discovered(mirror)
  /\ scanned' = {} /\ twice' = {}
  /\ owners' = [k \in Packages |-> 0]
  /\ UNCHANGED <<trees, snapshot, verdict, retained>>

IsNextPath(p) == p \in unscanned /\ \A o \in unscanned : p <= o

\* Mutant: a PKGBUILD whose package names are unknown gets no record.
ScanPathSkipsUnresolved(p) ==
  /\ ipc = "scan" /\ IsNextPath(p)
  /\ Readable(mirror[p])
  /\ LET r == RecordOf(p, mirror[p])
         seen == {k \in r.packages : owners[k] # 0} IN
     /\ scanned' = IF r.packages = {} THEN scanned ELSE scanned \cup {r}
     /\ owners' = [k \in Packages |-> IF k \in r.packages \ seen THEN p ELSE owners[k]]
     /\ twice' = twice \cup
          {[package |-> k, first |-> owners[k], second |-> p] : k \in seen}
  /\ unscanned' = unscanned \ {p}
  /\ UNCHANGED <<trees, ipc, snapshot, verdict, retained>>

\* Mutant: a duplicate names the latest path as the first.
ScanPathTracksLatest(p) ==
  /\ ipc = "scan" /\ IsNextPath(p)
  /\ Readable(mirror[p])
  /\ LET r == RecordOf(p, mirror[p])
         seen == {k \in r.packages : owners[k] # 0} IN
     /\ scanned' = scanned \cup {r}
     /\ owners' = [k \in Packages |-> IF k \in r.packages THEN p ELSE owners[k]]
     /\ twice' = twice \cup
          {[package |-> k, first |-> owners[k], second |-> p] : k \in seen}
  /\ unscanned' = unscanned \ {p}
  /\ UNCHANGED <<trees, ipc, snapshot, verdict, retained>>

ScanPath(p) ==
  /\ ipc = "scan" /\ IsNextPath(p)
  /\ Readable(mirror[p])
  /\ LET r == RecordOf(p, mirror[p])
         seen == {k \in r.packages : owners[k] # 0} IN
     /\ scanned' = scanned \cup {r}
     /\ owners' = [k \in Packages |-> IF k \in r.packages \ seen THEN p ELSE owners[k]]
     /\ twice' = twice \cup
          {[package |-> k, first |-> owners[k], second |-> p] : k \in seen}
  /\ unscanned' = unscanned \ {p}
  /\ UNCHANGED <<trees, ipc, snapshot, verdict, retained>>

\* Another revision is checked out beside the inventory.
ShiftMirror ==
  /\ ipc = "scan" /\ ~shifted
  /\ mirror' \in Later \ {mirror}
  /\ shifted' = TRUE
  /\ UNCHANGED <<pinned, checkout, ipc, scan, snapshot, verdict, retained>>

ScanEnd ==
  /\ ipc = "scan" /\ unscanned = {}
  /\ ipc' = "write"
  /\ UNCHANGED <<trees, scan, snapshot, verdict, retained>>

\* write_manifest replaces the file in place.
WriteSnapshot ==
  /\ ipc = "write"
  /\ snapshot' = Snapshot("whole", scanned, twice)
  /\ ipc' = "stopped"
  /\ UNCHANGED <<trees, scan, verdict, retained>>

\* A file that cannot be read or is gone, a signal or a full disk; a write under
\* way leaves a torn file.
ScanFails ==
  /\ ipc # "stopped"
  /\ ipc' = "stopped"
  /\ \/ UNCHANGED snapshot
     \/ ipc = "write" /\ snapshot' = Snapshot("torn", {}, {})
  /\ UNCHANGED <<trees, scan, verdict, retained>>

-----------------------------------------------------------------------------
(***************************************************************************)
(* verify_cachyos_ingress.py.                                              *)
(***************************************************************************)

\* What the verifier demands of one record.
RecordAccepted(r) ==
  /\ r.sorted
  /\ r.reasons \subseteq Vocabulary
  /\ r.packages = {} =>
       r.admission = "rejected" /\ "UNRESOLVED_PACKAGE_NAMES" \in r.reasons
  /\ r.packages \subseteq Named

\* The duplicates as the verifier computes them, from records in path order.
DuplicatesOf(R) ==
  LET Emitting(k) == {r.path : r \in {s \in R : k \in s.packages}}
      First(k) == CHOOSE p \in Emitting(k) : \A o \in Emitting(k) : p <= o IN
  UNION {{[package |-> k, first |-> First(k), second |-> p] :
            p \in Emitting(k) \ {First(k)}} : k \in UNION {r.packages : r \in R}}

Accepts(s) ==
  /\ s.state = "whole" /\ s.records # {}
  /\ \A r \in s.records : RecordAccepted(r)
  /\ s.duplicates = DuplicatesOf(s.records)
  /\ s.complete <=> Complete(s.records, s.duplicates)

VerifySnapshot ==
  /\ ipc = "stopped" /\ snapshot.state # "absent" /\ verdict = "none"
  /\ verdict' = IF Accepts(snapshot) THEN "accepted" ELSE "refused"
  /\ UNCHANGED <<trees, ipc, scan, snapshot, retained>>

\* An accepted snapshot is committed to the repository.
Retain ==
  /\ verdict = "accepted" /\ retained = NoSnapshot
  /\ retained' = snapshot
  /\ UNCHANGED <<trees, ipc, scan, snapshot, verdict>>

SnapshotNext ==
  \/ ScanBegin
  \/ \E p \in Paths : ScanPath(p)
  \/ ShiftMirror
  \/ ScanEnd
  \/ WriteSnapshot
  \/ ScanFails
  \/ VerifySnapshot
  \/ Retain

-----------------------------------------------------------------------------
(***************************************************************************)
(* Properties.                                                             *)
(***************************************************************************)

\* A snapshot on disk has exactly one record for each PKGBUILD that was in the
\* mirror when the scan began, those of the pinned tree among them, and unless
\* another revision was checked out meanwhile with the bytes it had there; and an
\* accepted one gives each path a package or quarantines it (PKGBUILD_INGRESS.md:
\* "No path may disappear between inventory and classification").
SnapshotCoversTree ==
  snapshot.state = "whole" =>
    /\ {r.path : r \in snapshot.records} = Discovered(checkout)
    /\ Cardinality(snapshot.records) = Cardinality(Discovered(checkout))
    /\ Discovered(pinned) \subseteq Discovered(checkout)
    /\ ~shifted => \A r \in snapshot.records :
         /\ r.pkgbuild = checkout[r.path].pkgbuild
         /\ r.path \in Discovered(pinned) => r.pkgbuild = pinned[r.path].pkgbuild
    /\ verdict = "accepted" =>
         \A r \in snapshot.records : r.packages = {} => r.admission = "rejected"

\* The two programs agree on duplicates and completeness, which each computes
\* its own way, also of a tree that changed during the scan: the verifier refuses
\* what the inventory wrote only for a file that is no text, for a kernel template
\* without package names, or for an invalid name in a .SRCINFO.
RefusedForCause ==
  verdict = "refused" /\ snapshot.state = "whole" =>
    \/ snapshot.records = {}
    \/ \E r \in snapshot.records :
         \/ r.packages = {} /\ (r.pkgbuild.form # "text" \/ r.path \in KernelPaths)
         \/ r.srcinfo # NoFile /\ ~(r.packages \subseteq Named)

\* An accepted snapshot that says complete is a one-to-one map: every path has
\* a package, every package one path, Target of them.
CompleteOwnsOnce ==
  verdict = "accepted" /\ snapshot.complete =>
    /\ \A r, s \in snapshot.records : r # s => r.packages \cap s.packages = {}
    /\ \A r \in snapshot.records : r.packages # {}
    /\ Cardinality(UNION {r.packages : r \in snapshot.records}) = Target

\* PKGBUILD_INGRESS.md: input that cannot be safely represented "receives a
\* quarantine record and one or more stable reason codes", so a snapshot that
\* the inventory completed is never refused.
InventoryAccepted ==
  snapshot.state = "whole" /\ snapshot.records # {} => verdict # "refused"
=============================================================================
