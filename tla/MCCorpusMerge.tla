---------------------------- MODULE MCCorpusMerge ----------------------------
(***************************************************************************)
(* Three upstreams whose canonical order is not the alphabetical one, and  *)
(* inventories that are valid, collide with one another or break one rule. *)
(***************************************************************************)
EXTENDS CorpusMerge, TLC

ThreeUpstreams == <<"arch", "alpine", "github">>
Dictionary == [u \in {"arch", "alpine", "github"} |->
                 CASE u = "alpine" -> 1 [] u = "arch" -> 2 [] OTHER -> 3]

\* An entry whose files are named n; i and t name the signatures.
EntryOf(p, v, strategy, n, i, t) ==
  [package |-> p, version |-> v, strategy |-> strategy,
   paths |-> [g \in Fields |->
     CASE g = "recipe" -> n
       [] g = "ingress_signature" -> i
       [] g = "target_signature" -> t
       [] OTHER -> IF strategy = "static-importer" THEN None ELSE n]]
StaticEntry(p, v, n, i, t) == EntryOf(p, v, "static-importer", n, i, t)
WorkerEntry(p, v, n, i, t) == EntryOf(p, v, "deterministic-worker", n, i, t)
Inventory(u, s) == [upstream |-> u, entries |-> s]

Arch == Inventory("arch", <<StaticEntry(1, 1, "a1", "a1i", "a1t"),
                            WorkerEntry(1, 2, "a2", "a2i", "a2t")>>)
ArchAgain == Inventory("arch", <<StaticEntry(2, 1, "b1", "b1i", "b1t")>>)
Alpine == Inventory("alpine", <<StaticEntry(1, 1, "l1", "l1i", "l1t")>>)
\* Its worker request is that of Arch's second entry.
AlpineSharesWorker ==
  Inventory("alpine",
    <<[WorkerEntry(1, 1, "a2", "l1i", "l1t") EXCEPT !.paths["recipe"] = "l1"]>>)
\* Its target signature is the ingress signature of Arch's first entry.
AlpineSharesSignature ==
  Inventory("alpine", <<StaticEntry(1, 1, "l1", "l1i", "a1i")>>)
AlpineTwice ==
  Inventory("alpine", <<StaticEntry(1, 1, "l1", "l1i", "l1t"),
                        StaticEntry(1, 1, "l2", "l2i", "l2t")>>)
\* The signatures of its two entries are crossed.
AlpineCrossed ==
  Inventory("alpine", <<StaticEntry(1, 1, "l1", "l1i", "l1t"),
                        StaticEntry(2, 1, "l2", "l1t", "l2t")>>)
AlpineThree ==
  Inventory("alpine", <<StaticEntry(1, 1, "l1", "l1i", "l1t"),
                        StaticEntry(2, 1, "l2", "l2i", "l2t"),
                        StaticEntry(3, 1, "l3", "l3i", "l3t")>>)
Github == Inventory("github", <<WorkerEntry(1, 1, "g1", "g1i", "g1t")>>)
GithubStatic == Inventory("github", <<StaticEntry(1, 1, "g1", "g1i", "g1t")>>)

\* Its worker request is that of Arch's second entry, spelt otherwise.
AlpineRespells ==
  Inventory("alpine",
    <<[WorkerEntry(1, 1, "./a2", "l1i", "l1t") EXCEPT !.paths["recipe"] = "l1"]>>)

PlainNames == {n \o m : n \in {"a1", "a2", "b1", "l1", "l2", "l3", "g1"}, m \in {"", "i", "t"}}
AllNames == PlainNames \cup {"./a2"}
Denoted == [n \in AllNames |-> IF n = "./a2" THEN "a2" ELSE n]

\* What is accepted, in two orders or with a file of two spellings, and one list for every way to be rejected:
\* by itself, against an inventory before it or after it, or as a whole.
SomeInputs ==
  {<<Github, Alpine, Arch>>, <<Alpine, Github, Arch>>,
   <<Arch, ArchAgain>>, <<AlpineTwice>>, <<AlpineCrossed>>, <<Github, GithubStatic>>,
   <<GithubStatic>>, <<AlpineThree, Arch, Github>>, <<Github, Arch, AlpineSharesWorker>>,
   <<AlpineSharesWorker, Arch>>, <<Arch, AlpineSharesSignature>>,
   <<AlpineSharesSignature, Arch>>, <<AlpineThree, ArchAgain>>,
   <<Arch, AlpineRespells>>}
CompleteInputs == {<<Arch>>, <<Github, Alpine, Arch>>}

RunSymmetry == Permutations(Runs)
=============================================================================
