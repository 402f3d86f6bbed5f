----------------------------- MODULE MerkleRoot -----------------------------
(***************************************************************************)
(* merkle_root of scripts/validate_recipe_corpus.py.  SHA-256 is taken to  *)
(* be injective: a digest is a tree that holds what it is the digest of.   *)
(* The identity of a leaf is longer than the 64 bytes of two digests, so a *)
(* leaf is no node.                                                        *)
(***************************************************************************)
EXTENDS Naturals, Sequences, FiniteSets

LeafDigest(l) == <<"leaf", l>>
NodeDigest(x, y) == <<"node", x, y>>

\* A last digest without a partner is paired with itself.
PairUp(level) ==
  LET padded == IF Len(level) % 2 = 1 THEN Append(level, level[Len(level)]) ELSE level
  IN [i \in 1..(Len(padded) \div 2) |-> NodeDigest(padded[2*i - 1], padded[2*i])]

RECURSIVE RootOf(_)
RootOf(level) == IF Len(level) = 1 THEN level[1] ELSE RootOf(PairUp(level))

Root(identities) == RootOf([i \in DOMAIN identities |-> LeafDigest(identities[i])])

\* CorpusAudit compares the leaves where the code compares their roots.  For a
\* corpus of a given size that is the same: different leaves have different roots.
\* Corpora of different sizes may share one, as <<1, 2, 3>> and <<1, 2, 3, 3>> do.
ASSUME RootDeterminesLeaves ==
  /\ \A n \in 1..7 :
       Cardinality({Root(s) : s \in [1..n -> 1..3]}) = Cardinality([1..n -> 1..3])
  /\ Root(<<1, 2, 3>>) = Root(<<1, 2, 3, 3>>)
=============================================================================
