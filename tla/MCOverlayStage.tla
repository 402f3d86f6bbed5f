--------------------------- MODULE MCOverlayStage ---------------------------
(***************************************************************************)
(* Trees of up to four directories: one for every way classify can decide, *)
(* some with files the verifier may not like, and a few in which the paths *)
(* 2 and 3 are variants of package 2, which are staged.                    *)
(***************************************************************************)
EXTENDS OverlayStage, TLC

MCPaths == 1..4   \* 4 is below a kernel directory
MCPackages == 1..5 \* 4 is a kernel package, 5 has a name that is not valid

Meta(v) == [version |-> v, native |-> TRUE]
Text(names, marks, sources, sums) ==
  [form |-> "text", names |-> names, marks |-> marks, sources |-> sources,
   sums |-> sums, meta |-> Meta("v1")]
Dir(pkgbuild, srcinfo) == [pkgbuild |-> pkgbuild, srcinfo |-> srcinfo]
Absent == Dir(NoFile, NoFile)
Plain(names) == Dir(Text(names, {}, "files", TRUE), NoFile)
Marked(names, marks) == Dir(Text(names, marks, "none", FALSE), NoFile)
Info(names, v) == [form |-> "text", names |-> names, meta |-> Meta(v)]

Tree(a, b, c, d) == <<a, b, c, d>>

\* What a directory can be to classify and to the verifiers, by itself ...
Alone ==
  {Dir(Text({1}, M, s, b), NoFile) : M \in {{m} : m \in Marks}, s \in {"none", "files"}, b \in {FALSE}}
  \cup {Dir(Text({1}, {}, s, b), NoFile) : s \in Sources, b \in BOOLEAN}
  \cup {Marked({1, 3}, {}), Plain({1, 5})}
  \cup {Dir(Text({1}, {}, "files", TRUE), i) :
          i \in {Info({1, 3}, "v1"), Info({}, "v1"), Info({1, 5}, "v1"),
                 [Info({1}, "v1") EXCEPT !.form = "odd"]}}

\* ... and beside another.
Beside ==
  {Plain({1}), Plain({2}), Marked({}, {}), Marked({4}, {}),
   Dir([Text({1}, {}, "none", FALSE) EXCEPT !.form = "bytes"], NoFile),
   Dir([Text({1}, {}, "none", FALSE) EXCEPT !.form = "odd"], NoFile)}

\* Path 2 has a .SRCINFO, which another revision changes.
Staged(first, v) ==
  Tree(first, Dir(Text({2}, {"phase"}, "files", TRUE), Info({2}, v)), Plain({2}), Absent)

Older == Staged(Marked({1}, {"depends"}), "v1")
Newer == Staged(Marked({1}, {"depends"}), "v2")

MCTrees ==
  {Tree(Absent, s, Absent, Absent) : s \in Alone}
  \cup {Tree(s, Plain({2}), Absent, Absent) : s \in Beside}
  \cup {Tree(Plain({1}), Absent, Absent, Marked(n, {})) : n \in {{}, {1}, {4}}}
  \cup {Tree(Plain({1}), Plain({2}), Plain({3}), Absent),
        Older, Newer,
        Tree(Plain({2}), Plain({2}), Plain({1}), Absent),
        Tree(Plain({2}), Plain({2}), Absent, Absent), \* which does not track path 3
        Staged(Plain({2}), "v1"),            \* a third variant
        Staged(Plain({3}), "v1"),            \* a name that is a variant's identity
        Staged(Dir([Text({1}, {}, "files", TRUE) EXCEPT !.meta = Meta(None)], NoFile), "v1")}
MCLater == {Newer}

\* Of two trees, each with a policy that is valid for it.
Variant(p, v, o, w) == [packages |-> {2}, candidates |-> {<<p, v>>, <<o, w>>}]
MCPolicies == {{Variant(2, "plain", 3, "pgo")}, {Variant(1, Default, 2, "pgo")}}

\* Package 3 is named like the first variant of package 2; the packages 4 and 5
\* are in no snapshot that is staged.
MCId ==
  [o \in MCPackages \X {"plain", "pgo", Default} \X BOOLEAN |->
     CASE o[1] = 1 -> 10
       [] o[1] = 2 /\ o[3] -> IF o[2] = "pgo" THEN 22 ELSE 21
       [] o[1] = 2 /\ ~o[3] -> 20
       [] o[1] = 3 -> 21
       [] OTHER -> 30]
MCIds == {MCId[o] : o \in DOMAIN MCId}

MCVocabulary ==
  {"DYNAMIC_PKGVER", "EVAL", "FLOATING_VCS", "INSTALL_HOOK", "KERNEL_TEMPLATE",
   "MISSING_CHECKSUM", "PACMAN_HOOK", "SHELL_SUBSTITUTION", "SPLIT_PACKAGE",
   "UNPARSED_FUNCTION", "UNRESOLVED_PACKAGE_NAMES", "UNSUPPORTED_ARCHITECTURE",
   "UNSUPPORTED_SOURCE", "UNSUPPORTED_SYNTAX"}
ProcessSymmetry == Permutations(Preparers) \cup Permutations(Emitters)
=============================================================================
