----------------------------- MODULE MCTreeShard -----------------------------
(***************************************************************************)
(* Revisions g and h are of a tree of ebuilds, c is of a crate index.  "B" *)
(* and "b" differ in case and shard, "C" and "c" in case only.             *)
(***************************************************************************)
EXTENDS TreeShard

MCLower == [d \in Dirs |-> CASE d = "B" -> "b" [] d = "C" -> "c" [] OTHER -> d]
MCShard == [d \in Dirs |-> IF d = "b" THEN 2 ELSE 1]

Entry(d, v, b) == [type |-> "entry", dir |-> d, version |-> v, blob |-> b]
Evidence(d, b) == [Entry(d, "v1", b) EXCEPT !.type = "manifest"]
Odd(t) == [Entry("a", "v1", "good") EXCEPT !.type = t]

Newer == <<Entry("a", "v2", "good"), Evidence("a", "good")>>
Index == <<Entry("a", "v1", "good"), Odd("other"), Entry("c", "v1", "bad"), Entry("b", "v1", "good")>>

\* One for each way an ebuild is classified, for names in either case, for a tree
\* that is refused and for one too large.
EbuildTrees ==
  {<<Evidence("a", m), Entry("a", "v1", b), Entry("b", "v1", "good")>> :
      m \in {"good", "bad"}, b \in {"good", "dynamic", "big"}}
  \cup {<<Entry("a", "v1", "good"), Entry("a", "v2", "bad"), Evidence("c", "bad")>>,
        <<Entry("c", "v1", "good"), Entry("a", "v2", "good"), Evidence("c", "good")>>,
        <<Entry("B", "v1", "good"), Evidence("B", "good")>>,
        <<Entry("C", "v1", "good"), Entry("c", "v2", "good"), Evidence("c", "good")>>,
        <<Entry("C", "v1", "good"), Entry("c", "v1", "good")>>,
        <<Entry("a", "v1", "good"), Odd("malformed")>>,
        <<Entry("a", "v1", "good"), Entry("a", "v2", "good"), Entry("c", "v1", "good")>>}
CrateTrees == {Index, <<Entry("C", "v1", "good"), Entry("a", "v1", "big")>>}

Repository(g, c) == [r \in Revisions |-> CASE r = "g" -> g [] r = "h" -> Newer [] OTHER -> c]
MCTrees == {Repository(g, Index) : g \in EbuildTrees} \cup {Repository(Newer, c) : c \in CrateTrees}

Job(t, r, s) == [tool |-> t, revision |-> r, shard |-> s, out |-> "out"]
MCJobs == {Job("gentoo", "g", 1), Job("gentoo", "g", 2), Job("gentoo", "h", 1),
           Job("cargo", "c", 1), Job("tree", "g", 0)}
CaseJobs == {Job("gentoo", "g", 1)}
=============================================================================
