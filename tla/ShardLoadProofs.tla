--------------------------- MODULE ShardLoadProofs ---------------------------
(***************************************************************************)
(* Theorems about ShardLoad for any invocations, shards and number of      *)
(* publications.  The invariants the runs check speak of loaded            *)
(* invocations only; they are made inductive by following each read from   *)
(* the step that takes it: what has been read is no newer than what is on  *)
(* disk now, and is still on disk as long as nothing was published.        *)
(***************************************************************************)
EXTENDS ShardLoad, TLAPS

Hashed == {"parse", "stale", "unlink", "preflight", "vet", "check"}
Parsed == Hashed \ {"parse"}

\* What invocation b has read so far, compared with the files.
Reads(b) ==
  /\ pc[b] \in Hashed =>
       /\ sha[b] <= manifest
       /\ b \notin republished => sha[b] = manifest
  /\ pc[b] \in Parsed =>
       /\ sha[b] <= doc[b] /\ doc[b] <= manifest
       /\ Absent \notin {sha[b], doc[b]}
       /\ b \notin republished => doc[b] = manifest
  /\ pc[b] \in {"vet", "check"} =>
       /\ doc[b] <= input[b] /\ input[b] <= manifest
       /\ b \notin republished => input[b] = manifest

\* The preflight path of an invocation that is alone in its shard holds no
\* report until corinth-corpus has accepted, and then only one of its input, and
\* no corinth-corpus of a killed invocation is there to write another.
OwnPreflight(b) ==
  b \notin overlapped =>
    /\ pc[b] \in Loading => \A o \in orphans : o.shard # Shard[b]
    /\ pc[b] \in {"preflight", "vet"} => preflight[Shard[b]] = Absent
    /\ pc[b] = "check" =>
         /\ preflight[Shard[b]] \in {Absent, input[b]}
         /\ input[b] <= signature

Loaded(b) ==
  pc[b] = "loaded" =>
    /\ sha[b] <= doc[b] /\ vetted[b] # Absent
    /\ b \notin republished => sha[b] = doc[b]
    /\ b \notin overlapped => doc[b] <= vetted[b] /\ vetted[b] <= signature
    /\ b \notin overlapped \cup republished => doc[b] = vetted[b]

\* Two invocations that load one shard at the same time are both marked.
RivalsOverlap ==
  \A b, o \in Builders :
    /\ b # o /\ Shard[b] = Shard[o]
    /\ pc[b] \in Loading /\ pc[o] \in Loading
    => b \in overlapped

IndInv ==
  /\ TypeOK
  /\ RivalsOverlap
  /\ \A b \in Builders : pc[b] = "parse" => sha[b] # Absent
  /\ \A b \in Builders : Reads(b) /\ OwnPreflight(b) /\ Loaded(b)

USE DEF Absent, Files, Loading, Hashed, Parsed

LEMMA IndInit == Init => IndInv
BY ShardLoadAssumption DEF Init, IndInv, TypeOK, RivalsOverlap, Reads, OwnPreflight, Loaded

LEMMA IndStep == IndInv /\ [Next]_vars => IndInv'
<1> SUFFICES ASSUME IndInv, [Next]_vars PROVE IndInv'
  OBVIOUS
<1> USE ShardLoadAssumption DEF IndInv, TypeOK, RivalsOverlap, Reads, OwnPreflight,
        Loaded, Goto, Stop, Rivals, Alone, memory, history, published
<1>1. ASSUME NEW x \in Builders, Begin(x) PROVE IndInv'
  BY <1>1, SMTT(60) DEF Begin
<1>2. ASSUME NEW x \in Builders, HashManifest(x) PROVE IndInv'
  BY <1>2, SMTT(60) DEF HashManifest
<1>3. ASSUME NEW x \in Builders, ParseManifest(x) PROVE IndInv'
  BY <1>3, SMTT(60) DEF ParseManifest
<1>4. ASSUME NEW x \in Builders, FindPreflight(x) PROVE IndInv'
  BY <1>4, SMTT(60) DEF FindPreflight
<1>5. ASSUME NEW x \in Builders, UnlinkPreflight(x) PROVE IndInv'
  BY <1>5, SMTT(60) DEF UnlinkPreflight
<1>6. ASSUME NEW x \in Builders, PreflightReads(x) PROVE IndInv'
  BY <1>6, SMTT(60) DEF PreflightReads
<1>7. ASSUME NEW x \in Builders, PreflightAccepts(x) PROVE IndInv'
  BY <1>7, SMTT(60) DEF PreflightAccepts
<1>8. ASSUME NEW x \in Builders, PreflightRejects(x) PROVE IndInv'
  BY <1>8, SMTT(60) DEF PreflightRejects
<1>9. ASSUME NEW x \in Builders, ReadPreflight(x) PROVE IndInv'
  BY <1>9, SMTT(60) DEF ReadPreflight
<1>10. ASSUME NEW x \in Builders, Abandon(x) PROVE IndInv'
  BY <1>10, SMTT(60) DEF Abandon
<1>11. CASE PublishManifest
  BY <1>11, SMTT(60) DEF PublishManifest
<1>12. CASE PublishSignature
  BY <1>12, SMTT(60) DEF PublishSignature
<1>13. CASE UNCHANGED vars
  BY <1>13 DEF vars
<1>14. ASSUME NEW x \in Builders, Kill(x) PROVE IndInv'
  BY <1>14, SMTT(60) DEF Kill
<1>15. ASSUME NEW o \in orphans, OrphanReads(o) PROVE IndInv'
  BY <1>15, SMTT(60) DEF OrphanReads
<1>16. ASSUME NEW o \in orphans, OrphanWrites(o) PROVE IndInv'
  BY <1>16, SMTT(60) DEF OrphanWrites
<1>17. ASSUME NEW o \in orphans, OrphanExits(o) PROVE IndInv'
  BY <1>17, SMTT(60) DEF OrphanExits
<1> QED
  BY <1>1, <1>2, <1>3, <1>4, <1>5, <1>6, <1>7, <1>8, <1>9, <1>10, <1>11, <1>12,
     <1>13, <1>14, <1>15, <1>16, <1>17 DEF Next, Step, OrphanStep

LEMMA IndInvHolds == Spec => []IndInv
BY IndInit, IndStep, PTL DEF Spec

\* The digest and the entries of a shard report are of one manifest when nothing
\* was published during the load, and the preflight in it is of that manifest when
\* nothing else could write the shard's preflight report meanwhile.
THEOREM OneManifestLoaded == Spec => []LoadsOneManifest
<1>1. IndInv => LoadsOneManifest
  BY DEF IndInv, Loaded, LoadsOneManifest
<1> QED
  BY <1>1, IndInvHolds, PTL

\* The two reads of every invocation move forward, and so does the third, by
\* corinth-corpus, when nothing else could write the shard's preflight report.
THEOREM ReadsMoveForward == Spec => []LoadsInOrder
<1>1. IndInv => LoadsInOrder
  BY DEF IndInv, Loaded, LoadsInOrder
<1> QED
  BY <1>1, IndInvHolds, PTL

\* Every value keeps its type, and a loaded invocation has read everything.
THEOREM TypeCorrect == Spec => []TypeOK
<1>1. IndInv => TypeOK
  BY DEF IndInv
<1> QED
  BY <1>1, IndInvHolds, PTL
=============================================================================
