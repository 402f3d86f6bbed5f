----------------------------- MODULE ShardLoad -----------------------------
(***************************************************************************)
(* How scripts/build_recipe_corpus_shard.py gets the manifest it builds    *)
(* from.  Before the entry loop of ShardBuild starts, an invocation reads  *)
(* the manifest file twice itself, once for the digest its report carries  *)
(* and once to parse it, and has corinth-corpus read it a third time, with *)
(* its signature, to verify the pair and leave a preflight report.         *)
(* Meanwhile the release process replaces the two files one after the      *)
(* other.  Manifests and signatures are numbered in the order of their     *)
(* publication, so a number stands for a publication and not for a text: a *)
(* manifest that is taken back is a publication of its own.  A signature   *)
(* fits the manifest with its number.                                      *)
(***************************************************************************)
EXTENDS Naturals

CONSTANTS
  Builders,    \* process ids of invocations
  Shards,
  Shard,       \* the --shard of each invocation, one --work directory for all
  LastManifest \* bound: how many manifests are ever published

ASSUME ShardLoadAssumption ==
  /\ Shard \in [Builders -> Shards]
  /\ LastManifest \in Nat \ {0}

VARIABLES
  manifest,    \* the manifest file
  signature,   \* the signature file
  preflight,   \* the preflight report file of each shard: the manifest it is about
  pc,          \* where each invocation is
  sha,         \* the manifest whose digest the shard report will carry
  doc,         \* the manifest whose entries are built
  input,       \* the manifest corinth-corpus has read
  vetted,      \* the manifest the preflight report that was read is about
  orphans,     \* corinth-corpus children whose parent was killed: the shard whose
               \* report they write and the manifest they have read.  A member stands
               \* for any number of them.
  republished, \* history: invocations that saw a publication step while loading
  overlapped   \* history: invocations that loaded while another of their shard did,
               \* or while a corinth-corpus of a killed one was still running

memory == <<sha, doc, input, vetted>>
history == <<republished, overlapped>>
published == <<manifest, signature>>
vars == <<manifest, signature, preflight, pc, sha, doc, input, vetted, orphans,
          republished, overlapped>>

Absent == 0
Files == 0..LastManifest
Loading == {"hash", "parse", "stale", "unlink", "preflight", "vet", "check"}

Goto(b, label) == pc' = [pc EXCEPT ![b] = label]

Stop(b) ==
  /\ Goto(b, "stopped")
  /\ sha' = [sha EXCEPT ![b] = Absent]
  /\ doc' = [doc EXCEPT ![b] = Absent]
  /\ input' = [input EXCEPT ![b] = Absent]
  /\ vetted' = [vetted EXCEPT ![b] = Absent]

\* The other invocations that are loading the same shard.
Rivals(b) == {o \in Builders \ {b} : Shard[o] = Shard[b] /\ pc[o] \in Loading}

\* Nothing but b itself can write the preflight report of its shard.
Alone(b) == Rivals(b) = {} /\ \A o \in orphans : o.shard # Shard[b]

-----------------------------------------------------------------------------
Init ==
  /\ manifest = 1
  /\ signature = 1
  /\ preflight = [s \in Shards |-> Absent]
  /\ pc = [b \in Builders |-> "stopped"]
  /\ sha = [b \in Builders |-> Absent]
  /\ doc = [b \in Builders |-> Absent]
  /\ input = [b \in Builders |-> Absent]
  /\ vetted = [b \in Builders |-> Absent]
  /\ orphans = {}
  /\ republished = {}
  /\ overlapped = {}

Begin(b) ==
  /\ pc[b] = "stopped"
  /\ Goto(b, "hash")
  /\ republished' = republished \ {b}
  /\ overlapped' = IF Alone(b) THEN overlapped \ {b}
                   ELSE overlapped \cup Rivals(b) \cup {b}
  /\ UNCHANGED <<published, preflight, memory, orphans>>

\* manifest_bytes = manifest_path.read_bytes()
HashManifest(b) ==
  /\ pc[b] = "hash"
  /\ sha' = [sha EXCEPT ![b] = manifest]
  /\ Goto(b, "parse")
  /\ UNCHANGED <<published, preflight, doc, input, vetted, orphans, history>>

\* manifest = load_json(manifest_path)
ParseManifest(b) ==
  /\ pc[b] = "parse"
  /\ doc' = [doc EXCEPT ![b] = manifest]
  /\ Goto(b, "stale")
  /\ UNCHANGED <<published, preflight, sha, input, vetted, orphans, history>>

\* Mutant: a preflight report that is already there is kept.
FindPreflightKept(b) ==
  /\ pc[b] = "stale"
  /\ Goto(b, "preflight")
  /\ UNCHANGED <<published, preflight, memory, orphans, history>>

\* A preflight report that an earlier invocation left is looked for ...
FindPreflight(b) ==
  /\ pc[b] = "stale"
  /\ Goto(b, IF preflight[Shard[b]] = Absent THEN "preflight" ELSE "unlink")
  /\ UNCHANGED <<published, preflight, memory, orphans, history>>

\* ... and removed, unless someone else has just done so, which is an error.
UnlinkPreflight(b) ==
  /\ pc[b] = "unlink"
  /\ IF preflight[Shard[b]] = Absent
     THEN Stop(b)
     ELSE Goto(b, "preflight") /\ UNCHANGED memory
  /\ preflight' = [preflight EXCEPT ![Shard[b]] = Absent]
  /\ UNCHANGED <<published, orphans, history>>

-----------------------------------------------------------------------------
(***************************************************************************)
(* corinth-corpus, an external program.                                    *)
(***************************************************************************)

PreflightReads(b) ==
  /\ pc[b] = "preflight"
  /\ input' = [input EXCEPT ![b] = manifest]
  /\ Goto(b, "vet")
  /\ UNCHANGED <<published, preflight, sha, doc, vetted, orphans, history>>

\* It exits with status 0 only for a signed manifest.  That it then has left a
\* report is what the script checks.
PreflightAccepts(b) ==
  /\ pc[b] = "vet"
  /\ signature = input[b]
  /\ \/ preflight' = [preflight EXCEPT ![Shard[b]] = input[b]]
     \/ UNCHANGED preflight
  /\ Goto(b, "check")
  /\ UNCHANGED <<published, memory, orphans, history>>

\* It fails, for a signature that does not fit or for any other reason, with or
\* without a report, and run_command raises.
PreflightRejects(b) ==
  /\ pc[b] = "vet"
  /\ \/ preflight' = [preflight EXCEPT ![Shard[b]] = input[b]]
     \/ UNCHANGED preflight
  /\ Stop(b)
  /\ UNCHANGED <<published, orphans, history>>

-----------------------------------------------------------------------------
\* Mutant: the report that was not produced is not missed.
ReadPreflightUnchecked(b) ==
  /\ pc[b] = "check"
  /\ vetted' = [vetted EXCEPT ![b] = preflight[Shard[b]]]
  /\ Goto(b, "loaded")
  /\ UNCHANGED <<published, preflight, sha, doc, input, orphans, history>>

\* Mutant: the digest is taken when the shard report is put together.
ReadPreflightThenHash(b) ==
  /\ pc[b] = "check"
  /\ IF preflight[Shard[b]] = Absent
     THEN Stop(b)
     ELSE /\ vetted' = [vetted EXCEPT ![b] = preflight[Shard[b]]]
          /\ sha' = [sha EXCEPT ![b] = manifest]
          /\ Goto(b, "loaded")
          /\ UNCHANGED <<doc, input>>
  /\ UNCHANGED <<published, preflight, orphans, history>>

\* The report must be there; its content goes into the shard report.
ReadPreflight(b) ==
  /\ pc[b] = "check"
  /\ IF preflight[Shard[b]] = Absent
     THEN Stop(b)
     ELSE /\ vetted' = [vetted EXCEPT ![b] = preflight[Shard[b]]]
          /\ Goto(b, "loaded")
          /\ UNCHANGED <<sha, doc, input>>
  /\ UNCHANGED <<published, preflight, orphans, history>>

\* An invalid or unreadable manifest, an interrupt, on which subprocess.run kills
\* the child, or the end of the entry loop.
Abandon(b) ==
  /\ pc[b] # "stopped"
  /\ Stop(b)
  /\ UNCHANGED <<published, preflight, orphans, history>>

\* SIGKILL or SIGTERM while run_command waits for corinth-corpus, which goes on.
Kill(b) ==
  /\ pc[b] \in {"preflight", "vet"}
  /\ Stop(b)
  /\ orphans' = orphans \cup {[shard |-> Shard[b], input |-> input[b]]}
  /\ UNCHANGED <<published, preflight, history>>

OrphanReads(o) ==
  /\ o.input = Absent
  /\ orphans' = orphans \cup {[o EXCEPT !.input = manifest]}
  /\ UNCHANGED <<published, preflight, pc, memory, history>>

OrphanWrites(o) ==
  /\ o.input # Absent
  /\ preflight' = [preflight EXCEPT ![o.shard] = o.input]
  /\ UNCHANGED <<published, pc, memory, orphans, history>>

OrphanExits(o) ==
  /\ orphans' = orphans \ {o}
  /\ UNCHANGED <<published, preflight, pc, memory, history>>

\* The release process: manifest and signature in either order, one release
\* at a time.
PublishManifest ==
  /\ manifest < LastManifest /\ manifest <= signature
  /\ manifest' = manifest + 1
  /\ republished' = republished \cup {b \in Builders : pc[b] \in Loading}
  /\ UNCHANGED <<signature, preflight, pc, memory, orphans, overlapped>>

PublishSignature ==
  /\ signature < LastManifest /\ signature <= manifest
  /\ signature' = signature + 1
  /\ republished' = republished \cup {b \in Builders : pc[b] \in Loading}
  /\ UNCHANGED <<manifest, preflight, pc, memory, orphans, overlapped>>

Step(b) ==
  \/ Begin(b)
  \/ HashManifest(b)
  \/ ParseManifest(b)
  \/ FindPreflight(b)
  \/ UnlinkPreflight(b)
  \/ PreflightReads(b)
  \/ PreflightAccepts(b)
  \/ PreflightRejects(b)
  \/ ReadPreflight(b)
  \/ Abandon(b)
  \/ Kill(b)

OrphanStep(o) == OrphanReads(o) \/ OrphanWrites(o) \/ OrphanExits(o)

Next ==
  \/ \E b \in Builders : Step(b)
  \/ \E o \in orphans : OrphanStep(o)
  \/ PublishManifest
  \/ PublishSignature

Spec == Init /\ [][Next]_vars

-----------------------------------------------------------------------------
(***************************************************************************)
(* Properties.                                                             *)
(***************************************************************************)

TypeOK ==
  /\ manifest \in Files \ {Absent}
  /\ signature \in Files \ {Absent}
  /\ preflight \in [Shards -> Files]
  /\ pc \in [Builders -> Loading \cup {"stopped", "loaded"}]
  /\ sha \in [Builders -> Files]
  /\ doc \in [Builders -> Files]
  /\ input \in [Builders -> Files]
  /\ vetted \in [Builders -> Files]
  /\ orphans \subseteq [shard : Shards, input : Files]
  /\ republished \subseteq Builders
  /\ overlapped \subseteq Builders
  /\ \A b \in Builders :
       /\ pc[b] \in {"vet", "check"} => input[b] # Absent
       /\ pc[b] = "loaded" => Absent \notin {sha[b], doc[b], vetted[b]}

\* What is built is what was verified: when nothing was published during the
\* load, the digest in the report and the entries that are built are of one
\* manifest, whoever else was loading; and when nothing else could write the
\* preflight report of the shard, neither another invocation nor a
\* corinth-corpus that outlived its own, the preflight in the report is of that
\* manifest too, however many earlier invocations failed, were killed or left
\* their report behind.
LoadsOneManifest ==
  \A b \in Builders \ republished :
    pc[b] = "loaded" =>
      /\ sha[b] = doc[b]
      /\ b \notin overlapped => doc[b] = vetted[b]

\* Through any number of publications the reads of an invocation only move
\* forward: the report never claims a newer manifest than the one that was
\* built, and is never without a preflight.  When nothing else could write the
\* preflight report of the shard, the preflight is not of an older manifest than
\* the one that was built, and of one whose signature has been published.
LoadsInOrder ==
  \A b \in Builders :
    pc[b] = "loaded" =>
      /\ sha[b] <= doc[b] /\ vetted[b] # Absent
      /\ b \notin overlapped => doc[b] <= vetted[b] /\ vetted[b] <= signature

=============================================================================
