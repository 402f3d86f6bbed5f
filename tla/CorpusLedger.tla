---------------------------- MODULE CorpusLedger ----------------------------
(***************************************************************************)
(* What the builds of a recipe corpus promise to whoever reads their       *)
(* reports.  Each package has a pair of files in the store, and each shard *)
(* a claim: the pair that its report relies on for every package it lists  *)
(* as built.  A pair that a claim relies on is never written, and a new    *)
(* claim relies on nothing but what is in the store.  The promise is given *)
(* up, for good, for a package that becomes shared: two processes could    *)
(* write it at once.  Module ShardBuild implements this specification.     *)
(***************************************************************************)
CONSTANTS
  Packages,
  Shards,
  Pairs,     \* what can be at the two paths of a package
  NoClaim

VARIABLES
  store,     \* the pair of each package
  claim,     \* the pairs that the report of each shard relies on
  shared     \* the packages the promise is given up for

ledgerVars == <<store, claim, shared>>

Claims == [Packages -> Pairs \cup {NoClaim}]

\* Some report relies on the pair of p.
Claimed(p) == \E s \in Shards : claim[s][p] # NoClaim

Init ==
  /\ store \in [Packages -> Pairs]
  /\ claim = [s \in Shards |-> [p \in Packages |-> NoClaim]]
  /\ shared = {}

\* The pair of a package is written, in one of its files or in both.
Build(p) ==
  /\ Claimed(p) => p \in shared
  /\ \E f \in Pairs : store' = [store EXCEPT ![p] = f]
  /\ UNCHANGED <<claim, shared>>

\* The report of a shard takes the place of the one before.
Conclude(s) ==
  /\ claim' \in [Shards -> Claims]
  /\ \A t \in Shards \ {s} : claim'[t] = claim[t]
  /\ \A p \in Packages \ shared : claim'[s][p] \in {NoClaim, store[p]}
  /\ UNCHANGED <<store, shared>>

\* The writers of some packages come to overlap.
Share ==
  /\ shared \subseteq shared' /\ shared' \subseteq Packages
  /\ UNCHANGED <<store, claim>>

Next ==
  \/ \E p \in Packages : Build(p)
  \/ \E s \in Shards : Conclude(s)
  \/ Share

Spec == Init /\ [][Next]_ledgerVars

-----------------------------------------------------------------------------
\* A claim on a package that is not shared is true for as long as it stands.
ClaimsHold ==
  \A s \in Shards : \A p \in Packages \ shared :
    claim[s][p] \in {NoClaim, store[p]}
=============================================================================
