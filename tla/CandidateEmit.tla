---------------------------- MODULE CandidateEmit ----------------------------
(***************************************************************************)
(* emit_cachyos_candidates.py writes one candidate file for every package  *)
(* output of the snapshot, each in place, and then the index of what it    *)
(* has written; verify_cachyos_candidates.py compares the two with the     *)
(* snapshot.  Emitters may overlap, fail or be killed at any step, and the *)
(* mirror they read may have been moved to another revision: an emitter    *)
(* does not look whether it was.                                           *)
(*                                                                         *)
(* A file is known by what was written to it: its digest is that.          *)
(***************************************************************************)
EXTENDS CachySnapshot

CONSTANTS
  Emitters,
  MaxEmissions \* bound: how many are ever begun

ASSUME CandidateEmitAssumption == MaxEmissions \in Nat

VARIABLES
  candidates, \* the candidate file of each package
  index,      \* the candidate index
  emissions,  \* how many were begun
  epc,        \* each emitter: "stopped", "emit" or "index"
  unemitted,  \* pairs of a record and a package it has yet to emit
  emitted,    \* the candidates it has written: the entries of its index
  open,       \* the candidate it has opened the file for
  listed,     \* the verifier: the entries of the index it has read
  unchecked,  \* those whose file it has yet to read
  passed,     \* the entries it accepted last, if nothing was emitted since
  stale,      \* history: an emitter began, and none has written its index since
  mixed,      \* history: the last emitter to begin was not alone
  overtaken   \* history: an emitter was at work during the verification

emission == <<emissions, epc, unemitted, emitted, open>>
checking == <<listed, unchecked, passed>>
emitHistory == <<stale, mixed, overtaken>>
emitVars == <<candidates, index, emission, checking, emitHistory>>

NoCandidate == [state |-> "absent"]
Emptied == [state |-> "empty"]
Mixture == [state |-> "mixed"]
Index(state, E) == [state |-> state, entries |-> E]

AtWork == {e \in Emitters : epc[e] # "stopped"}

\* No emitter was ever begun.
NothingEmitted == emissions = 0

-----------------------------------------------------------------------------
(***************************************************************************)
(* record_metadata and render_candidate.                                   *)
(***************************************************************************)

NoMetadata == [version |-> None, native |-> FALSE]

\* .SRCINFO decides when there is one, although the record's digest of it is
\* not compared.  A PKGBUILD that is no text has none.
MetadataOf(d) ==
  IF d.srcinfo # NoFile THEN d.srcinfo.meta
  ELSE IF d.pkgbuild.form = "text" THEN d.pkgbuild.meta ELSE NoMetadata

\* Without a .SRCINFO the PKGBUILD is read.
MetadataReadable(d) ==
  IF d.srcinfo # NoFile THEN d.srcinfo.form = "text"
  ELSE d.pkgbuild # NoFile /\ d.pkgbuild.form # "odd"

Candidate(r, k, m) ==
  [state |-> "whole", path |-> r.path, package |-> k, admission |-> r.admission,
   reasons |-> r.reasons, meta |-> m]

-----------------------------------------------------------------------------
EmitInit ==
  /\ candidates = [k \in Packages |-> NoCandidate]
  /\ index = Index("absent", {})
  /\ emissions = 0
  /\ epc = [e \in Emitters |-> "stopped"]
  /\ unemitted = [e \in Emitters |-> {}]
  /\ emitted = [e \in Emitters |-> {}]
  /\ open = [e \in Emitters |-> NoCandidate]
  /\ listed = {} /\ unchecked = {} /\ passed = {}
  /\ stale = FALSE /\ mixed = FALSE /\ overtaken = FALSE

\* A manifest that is no JSON ends the emitter without an effect; whether it was
\* accepted is not asked.
EmitBegin(e) ==
  /\ epc[e] = "stopped" /\ snapshot.state = "whole"
  /\ emissions < MaxEmissions
  /\ emissions' = emissions + 1
  /\ epc' = [epc EXCEPT ![e] = "emit"]
  /\ unemitted' = [unemitted EXCEPT ![e] = UNION {{r} \X r.packages : r \in snapshot.records}]
  /\ passed' = {}
  /\ stale' = TRUE /\ mixed' = (AtWork # {}) /\ overtaken' = TRUE
  /\ UNCHANGED <<snapshotVars, candidates, index, emitted, open, listed, unchecked>>

\* Records come in path order, their packages in name order.
IsNextOutput(o, S) ==
  /\ o \in S
  /\ \A u \in S :
       \/ o[1].path < u[1].path
       \/ o[1].path = u[1].path /\ o[2] <= u[2]

\* Mutant: a package that was emitted before is emitted again.
EmitOutputAgain(e, k) ==
  /\ epc[e] = "emit" /\ open[e] = NoCandidate
  /\ \E o \in unemitted[e] :
       /\ IsNextOutput(o, unemitted[e]) /\ o[2] = k
       /\ MetadataReadable(mirror[o[1].path])
       /\ open' = [open EXCEPT ![e] = Candidate(o[1], k, MetadataOf(mirror[o[1].path]))]
       /\ unemitted' = [unemitted EXCEPT ![e] = @ \ {o}]
  /\ candidates' = [candidates EXCEPT ![k] = Emptied]
  /\ UNCHANGED <<snapshotVars, index, emissions, epc, emitted, checking, emitHistory>>

\* The next output, which must be the first of its package: its metadata is read
\* from the mirror and its file opened, which empties it.
EmitOutput(e, k) ==
  /\ epc[e] = "emit" /\ open[e] = NoCandidate
  /\ \E o \in unemitted[e] :
       /\ IsNextOutput(o, unemitted[e]) /\ o[2] = k
       /\ \A c \in emitted[e] : c.package # k
       /\ MetadataReadable(mirror[o[1].path])
       /\ open' = [open EXCEPT ![e] = Candidate(o[1], k, MetadataOf(mirror[o[1].path]))]
       /\ unemitted' = [unemitted EXCEPT ![e] = @ \ {o}]
  /\ candidates' = [candidates EXCEPT ![k] = Emptied]
  /\ UNCHANGED <<snapshotVars, index, emissions, epc, emitted, checking, emitHistory>>

\* The text goes over what another emitter has meanwhile written there, the end
\* of which stays if it is longer.
WriteCandidate(e) ==
  /\ open[e] # NoCandidate
  /\ LET c == open[e]  before == candidates[c.package] IN
     /\ \E text \in IF before \in {Emptied, c} THEN {c} ELSE {c, Mixture} :
          candidates' = [candidates EXCEPT ![c.package] = text]
     /\ emitted' = [emitted EXCEPT ![e] = @ \cup {c}]
  /\ open' = [open EXCEPT ![e] = NoCandidate]
  /\ UNCHANGED <<snapshotVars, index, emissions, epc, unemitted, checking, emitHistory>>

OpenIndex(e) ==
  /\ epc[e] = "emit" /\ open[e] = NoCandidate /\ unemitted[e] = {}
  /\ epc' = [epc EXCEPT ![e] = "index"]
  /\ index' = Index("torn", {})
  /\ UNCHANGED <<snapshotVars, candidates, emissions, unemitted, emitted, open, checking, emitHistory>>

EndEmission(e) ==
  /\ UNCHANGED emissions
  /\ epc' = [epc EXCEPT ![e] = "stopped"]
  /\ unemitted' = [unemitted EXCEPT ![e] = {}]
  /\ emitted' = [emitted EXCEPT ![e] = {}]
  /\ open' = [open EXCEPT ![e] = NoCandidate]

\* Over the longer index of another emitter, a text that is no JSON.
WriteIndex(e) ==
  /\ epc[e] = "index"
  /\ LET whole == Index("whole", emitted[e]) IN
     index' \in IF index \in {Index("torn", {}), whole} THEN {whole}
                ELSE {whole, Index("torn", {})}
  /\ EndEmission(e)
  /\ stale' = FALSE
  /\ UNCHANGED <<snapshotVars, candidates, checking, mixed, overtaken>>

\* A package for the second time, metadata that cannot be read, a signal, SIGKILL
\* or a full disk; what was being written is cut short.
EmitFails(e) ==
  /\ epc[e] # "stopped"
  /\ IF open[e] = NoCandidate THEN UNCHANGED candidates
     ELSE \E text \in {candidates[open[e].package], Mixture} :
            candidates' = [candidates EXCEPT ![open[e].package] = text]
  /\ \/ UNCHANGED index
     \/ epc[e] = "index" /\ index' = Index("torn", {})
  /\ EndEmission(e)
  /\ UNCHANGED <<snapshotVars, checking, emitHistory>>

-----------------------------------------------------------------------------
(***************************************************************************)
(* verify_cachyos_candidates.py.                                           *)
(***************************************************************************)

\* The list of packages is the sorted list of those the manifest has, and no
\* path is listed twice, which two entries of one package would share.
ListsOutputs(E) ==
  /\ {c.package : c \in E} = UNION {r.packages : r \in snapshot.records}
  /\ Cardinality(E) = Cardinality(Outputs(snapshot.records))
  /\ Cardinality({c.package : c \in E}) = Cardinality(E)

CheckBegin ==
  /\ listed = {} /\ index.state = "whole" /\ snapshot.state = "whole"
  /\ ListsOutputs(index.entries)
  /\ listed' = index.entries /\ unchecked' = index.entries
  /\ passed' = {}
  /\ overtaken' = (AtWork # {})
  /\ UNCHANGED <<snapshotVars, candidates, index, emission, stale, mixed>>

\* Mutant: that the file exists is enough.
CheckCandidateExists(c) ==
  /\ c \in unchecked /\ \A o \in unchecked : c.package <= o.package
  /\ c.package \in Named
  /\ candidates[c.package] # NoCandidate
  /\ unchecked' = unchecked \ {c}
  /\ UNCHANGED <<snapshotVars, candidates, index, emission, listed, passed, emitHistory>>

\* Its name is valid, and its digest that of the entry.
CheckCandidate(c) ==
  /\ c \in unchecked /\ \A o \in unchecked : c.package <= o.package
  /\ c.package \in Named
  /\ candidates[c.package] = c
  /\ unchecked' = unchecked \ {c}
  /\ UNCHANGED <<snapshotVars, candidates, index, emission, listed, passed, emitHistory>>

CheckEnd(requireComplete) ==
  /\ listed # {} /\ unchecked = {}
  /\ requireComplete => Cardinality(listed) = Target
  /\ passed' = listed
  /\ listed' = {}
  /\ UNCHANGED <<snapshotVars, candidates, index, emission, unchecked, emitHistory>>

\* A check that fails, or a signal.
CheckRefuses ==
  /\ listed # {}
  /\ listed' = {} /\ unchecked' = {}
  /\ UNCHANGED <<snapshotVars, candidates, index, emission, passed, emitHistory>>

EmitNext ==
  \/ \E e \in Emitters :
       \/ EmitBegin(e)
       \/ \E k \in Packages : EmitOutput(e, k)
       \/ WriteCandidate(e)
       \/ OpenIndex(e)
       \/ WriteIndex(e)
       \/ EmitFails(e)
  \/ CheckBegin
  \/ \E c \in unchecked : CheckCandidate(c)
  \/ \E requireComplete \in BOOLEAN : CheckEnd(requireComplete)
  \/ CheckRefuses

-----------------------------------------------------------------------------
(***************************************************************************)
(* Properties.                                                             *)
(***************************************************************************)

\* The shape of the state.
EmitTypeOK ==
  /\ DOMAIN candidates = Packages
  /\ \A k \in Packages : candidates[k].state = "whole" => candidates[k].package = k
  /\ index.state \in {"absent", "torn", "whole"}
  /\ index.state # "whole" => index.entries = {}
  /\ epc \in [Emitters -> {"stopped", "emit", "index"}]
  /\ \A e \in Emitters :
       /\ epc[e] = "stopped" => unemitted[e] = {} /\ emitted[e] = {} /\ open[e] = NoCandidate
       /\ epc[e] = "index" => unemitted[e] = {} /\ open[e] = NoCandidate
       /\ \A c \in emitted[e] : c.state = "whole" /\ c.meta \in Metadata
  /\ unchecked \subseteq listed
  /\ stale \in BOOLEAN /\ mixed \in BOOLEAN /\ overtaken \in BOOLEAN

\* What the verifier accepted is the candidate set of the snapshot: one candidate
\* with a valid name for each package of each path; unless another revision was
\* checked out during the scan, with the admission of the tree that was scanned
\* and, unless it was moved since, its metadata; and it is what is on disk, unless
\* an emitter was at work meanwhile.  No crash, retry or overlap of emitters makes
\* the verifier pass anything else.
PassedIsSnapshotSet ==
  passed # {} =>
    /\ {<<c.path, c.package>> : c \in passed} = Outputs(snapshot.records)
    /\ \A c, d \in passed : c # d => c.package # d.package
    /\ \A c \in passed :
         LET r == RecordOf(c.path, checkout[c.path]) IN
         /\ c.package \in Named
         /\ ~shifted => c.package \in r.packages /\ c.admission = r.admission /\ c.reasons = r.reasons
         /\ mirror = checkout => c.meta = MetadataOf(checkout[c.path])
         /\ overtaken \/ candidates[c.package] = c

\* An emission that ends undisturbed leaves what the verifier accepts, whatever
\* an earlier one that failed has left there: a name that the snapshot has from a
\* .SRCINFO, and no verifier of the snapshot was asked about, is all it can refuse.
EmissionVerifies ==
  index.state = "whole" /\ ~stale /\ ~mixed /\ snapshot.state = "whole" =>
    /\ ListsOutputs(index.entries)
    /\ \A c \in index.entries :
         /\ candidates[c.package] = c
         /\ c.package \notin Named =>
              \E r \in snapshot.records : r.srcinfo # NoFile /\ c.package \in r.packages
=============================================================================
