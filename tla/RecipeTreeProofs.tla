-------------------------- MODULE RecipeTreeProofs --------------------------
(***************************************************************************)
(* Whatever the recipes are, a tree the lint accepts can be installed and  *)
(* takes the pinned components from the bundle, and a tree it rejects for  *)
(* its graph has the fault it is rejected for.                             *)
(*                                                                         *)
(* The invariant follows the stages: what is known of the tree once a      *)
(* stage is past, and of the recipes before "next" within it.  While the   *)
(* graph is taken apart, a set of packages that waits for itself never     *)
(* loses a member, and a package only waits for packages still there.      *)
(***************************************************************************)
EXTENDS RecipeTree, TLAPS

Claimed(i) == \A c \in Names : Provides(i, c) => c \in DOMAIN providers /\ providers[c] = Package(i)

Resolved(i) == tree[i].depends \subseteq DOMAIN providers

\* A set of packages that each need one of the set.
Closed(S) == S \subseteq DOMAIN tree /\ \A i \in S : \E j \in S : Needs(i, j)

PastReading == {"capabilities", "dependencies", "release", "lock", "bundle"}
PastCapabilities == {"dependencies", "release", "lock", "bundle"}
PastDependencies == {"release", "lock", "bundle"}

DistinctSoFar ==
  pc = "read" => \A i, j \in 1..(next - 1) : Package(i) = Package(j) => i = j

Distinct == pc \in PastReading => ~Repeated

ProvidersProvide ==
  pc \in PastReading =>
    /\ \A c \in DOMAIN providers : \E i \in DOMAIN tree : Package(i) = providers[c] /\ Provides(i, c)
    /\ \A p \in Packages : p \in DOMAIN providers /\ providers[p] = p

ClaimedSoFar == pc = "capabilities" => \A i \in 1..(next - 1) : Claimed(i)

AllClaimed == pc \in PastCapabilities => \A i \in DOMAIN tree : Claimed(i)

ResolvedSoFar ==
  pc = "dependencies" =>
    /\ DOMAIN required = {Package(i) : i \in 1..(next - 1)}
    /\ \A i \in 1..(next - 1) :
         Resolved(i) /\ required[Package(i)] = {providers[d] : d \in tree[i].depends}

NothingRequired == pc \in {"read", "capabilities"} => DOMAIN required = {}

AllResolved == pc \in PastDependencies => \A i \in DOMAIN tree : Resolved(i)

\* A package waits for exactly those it needs that are still there.
WaitsForNeeded ==
  pc = "release" =>
    \A i \in DOMAIN tree : Package(i) \in DOMAIN required =>
      \A j \in DOMAIN tree :
        Package(j) \in required[Package(i)] <=> Needs(i, j) /\ Package(j) \in DOMAIN required

ClosedStays ==
  pc = "release" =>
    \A S \in SUBSET DOMAIN tree : Closed(S) => \A i \in S : Package(i) \in DOMAIN required

NoCycleLeft == pc \in {"lock", "bundle"} => ~Cyclic

Stage ==
  /\ DistinctSoFar /\ Distinct
  /\ ProvidersProvide /\ ClaimedSoFar /\ AllClaimed
  /\ NothingRequired /\ ResolvedSoFar /\ AllResolved
  /\ WaitsForNeeded /\ ClosedStays /\ NoCycleLeft

Verdicts == AcceptedTreeInstalls /\ PinnedComponentsStay /\ RejectedForCause

IndInv == TypeOK /\ Stage /\ Verdicts

-----------------------------------------------------------------------------
\* What the assumptions and the type invariant say of one recipe.
LEMMA Shape ==
  ASSUME TypeOK
  PROVE  /\ Len(tree) \in Nat
         /\ DOMAIN tree = 1..Len(tree)
         /\ next \in Nat
         /\ \A i \in DOMAIN tree : /\ Package(i) \in Names
                                   /\ tree[i].name = Package(i)
                                   /\ Package(i) \in Packages
                                   /\ tree[i].provides \subseteq Names
                                   /\ tree[i].depends \subseteq Names
<1>1. tree \in Seq(Recipe) /\ next \in 1..(Len(tree) + 1)
  BY DEF TypeOK
<1>2. Len(tree) \in Nat /\ DOMAIN tree = 1..Len(tree) /\ next \in Nat
  BY <1>1
<1>3. ASSUME NEW i \in DOMAIN tree
      PROVE  tree[i] \in Recipe
  BY <1>1, <1>3
<1>4. ASSUME NEW i \in DOMAIN tree
      PROVE  /\ tree[i].name \in Names
             /\ tree[i].provides \subseteq Names
             /\ tree[i].depends \subseteq Names
  BY <1>3, <1>4 DEF Recipe
<1> QED
  BY <1>2, <1>4 DEF Package, Packages

\* What a recipe provides is a name.
LEMMA ProvidesNames ==
  ASSUME TypeOK, NEW i \in DOMAIN tree, NEW c, Provides(i, c)
  PROVE  c \in Names
BY Shape DEF Provides

\* Once every recipe has claimed what it provides, nothing has two providers.
LEMMA ClaimsSettle ==
  ASSUME TypeOK, ~Repeated, \A i \in DOMAIN tree : Claimed(i)
  PROVE  ~Contested
BY Shape DEF Repeated, Claimed, Contested

\* A package needs those that the providers of its dependencies are.
LEMMA NeedsProvider ==
  ASSUME TypeOK, ~Repeated, \A i \in DOMAIN tree : Claimed(i), ProvidersProvide,
         pc \in PastReading, NEW i \in DOMAIN tree, NEW j \in DOMAIN tree, Resolved(i)
  PROVE  Needs(i, j) <=> \E d \in tree[i].depends : providers[d] = Package(j)
<1>1. ASSUME NEW d \in tree[i].depends, Provides(j, d)
      PROVE  providers[d] = Package(j)
  BY <1>1, Shape DEF Claimed
<1>2. ASSUME NEW d \in tree[i].depends, providers[d] = Package(j)
      PROVE  Provides(j, d)
  <2>1. PICK k \in DOMAIN tree : Package(k) = providers[d] /\ Provides(k, d)
    BY <1>2 DEF Resolved, ProvidersProvide
  <2>2. k = j
    BY <1>2, <2>1 DEF Repeated
  <2> QED
    BY <2>1, <2>2
<1> QED
  BY <1>1, <1>2 DEF Needs

\* The tree and what is read off it do not change.
LEMMA TreeStays ==
  ASSUME Next
  PROVE  tree' = tree /\ lock' = lock
BY DEF Next, FindNoRecipes, ReadRecipe, RejectRecipe, ProvideNames, ClaimCapabilities,
       RejectCapability, EndCapabilities, ResolveDependencies, RejectDependency,
       EndDependencies, Release, EndRelease, CheckLock, CheckBundle, Finish

LEMMA InitInd == Init => IndInv
<1> SUFFICES ASSUME Init
             PROVE  IndInv
  OBVIOUS
<1>1. tree \in Seq(Recipe) /\ lock \in Seq(LockedComponent)
  BY RecipeTreeAssumption DEF Init
<1>2. DOMAIN providers = {} /\ DOMAIN required = {}
  BY DEF Init
<1>3. TypeOK
  <2>1. next \in 1..(Len(tree) + 1)
    <3>1. Len(tree) \in Nat
      BY <1>1
    <3> QED
      BY <3>1 DEF Init
  <2> QED
    BY <1>1, <1>2, <2>1 DEF Init, TypeOK, Stages, Errors
<1>4. Stage
  BY <1>2 DEF Init, Stage, DistinctSoFar, Distinct, ProvidersProvide, ClaimedSoFar, AllClaimed,
     ResolvedSoFar, AllResolved, WaitsForNeeded, ClosedStays, NoCycleLeft, NothingRequired, PastReading,
     PastCapabilities, PastDependencies
<1>5. Verdicts
  BY DEF Init, Verdicts, AcceptedTreeInstalls, PinnedComponentsStay, RejectedForCause
<1> QED
  BY <1>3, <1>4, <1>5 DEF IndInv

-----------------------------------------------------------------------------
\* Ending the lint keeps what the stages know: nothing is claimed of "done".
LEMMA FinishStage ==
  ASSUME NEW v, TypeOK, pc # "done", Finish(v), v \in {"accepted"} \cup Errors
  PROVE  TypeOK' /\ Stage'
<1>1. TypeOK'
  <2>1. UNCHANGED <<tree, lock, next, providers, required>>
    BY DEF Finish
  <2>2. pc' = "done" /\ verdict' = v
    BY DEF Finish
  <2>3. v # "none" /\ v \in {"none", "accepted"} \cup Errors
    BY DEF Errors
  <2>4. Packages' = Packages
    BY <2>1 DEF Packages, Package
  <2> HIDE DEF Packages, Errors
  <2> QED
    BY <2>1, <2>2, <2>3, <2>4 DEF TypeOK, Stages
<1>2. pc' = "done"
  BY DEF Finish
<1>3. Stage'
  BY <1>2 DEF Stage, DistinctSoFar, Distinct, ProvidersProvide, ClaimedSoFar, AllClaimed,
     ResolvedSoFar, AllResolved, WaitsForNeeded, ClosedStays, NoCycleLeft, NothingRequired, PastReading,
     PastCapabilities, PastDependencies
<1> QED
  BY <1>1, <1>3

\* An error keeps the verdicts when its cause is there.
LEMMA ErrorVerdict ==
  ASSUME NEW v \in Errors, Finish(v),
         v = "duplicate" => Repeated,
         v = "provided" => Contested,
         v = "unresolved" => Unprovided,
         v = "self" => \E i \in DOMAIN tree : Needs(i, i),
         v = "cycle" => Cyclic
  PROVE  Verdicts'
<1>1. verdict' = v /\ tree' = tree /\ v # "accepted"
  BY DEF Finish, Errors
<1>2. AcceptedTreeInstalls' /\ PinnedComponentsStay'
  BY <1>1 DEF AcceptedTreeInstalls, PinnedComponentsStay
<1>3. RejectedForCause'
  <2>1. Repeated' = Repeated
    BY <1>1 DEF Repeated, Package
  <2>2. Contested' = Contested
    BY <1>1 DEF Contested, Provides, Package
  <2>3. Unprovided' = Unprovided
    BY <1>1 DEF Unprovided, Provides, Package
  <2>4. /\ Cyclic' = Cyclic
        /\ \A i : (i \in DOMAIN tree')  = (i \in DOMAIN tree)
        /\ \A i : Needs(i, i)' = Needs(i, i)
    BY <1>1 DEF Cyclic, Needs, Provides, Package
  <2> HIDE DEF Repeated, Contested, Unprovided, Cyclic, Needs
  <2> QED
    BY <1>1, <2>1, <2>2, <2>3, <2>4 DEF RejectedForCause
<1> QED
  BY <1>2, <1>3 DEF Verdicts

\* A step that does not end the lint leaves it without a verdict.
LEMMA NoVerdict ==
  ASSUME TypeOK, pc # "done", verdict' = verdict
  PROVE  Verdicts'
BY DEF TypeOK, Verdicts, AcceptedTreeInstalls, PinnedComponentsStay, RejectedForCause

\* What is read off the tree stays.
LEMMA SameTree ==
  ASSUME tree' = tree
  PROVE  /\ Packages' = Packages
         /\ Repeated' <=> Repeated
         /\ Cyclic' <=> Cyclic
         /\ Contested' <=> Contested
         /\ Unprovided' <=> Unprovided
         /\ \A S : Closed(S)' <=> Closed(S)
         /\ \A i : Package(i)' = Package(i)
         /\ \A i, c : Provides(i, c)' <=> Provides(i, c)
         /\ \A i, j : Needs(i, j)' <=> Needs(i, j)
BY DEF Packages, Package, Repeated, Cyclic, Closed, Needs, Provides, Contested, Unprovided

-----------------------------------------------------------------------------
(* One lemma per stage.                                                    *)

LEMMA ReadStep ==
  ASSUME IndInv, ReadRecipe
  PROVE  IndInv'
<1> USE DEF IndInv
<1>1. /\ tree' = tree /\ lock' = lock /\ pc' = pc /\ next' = next + 1 /\ verdict' = verdict
      /\ providers' = providers /\ required' = required
      /\ pc = "read" /\ next \in DOMAIN tree
  BY DEF ReadRecipe
<1>2. TypeOK'
  <2>1. next' \in 1..(Len(tree) + 1)
    BY <1>1, Shape
  <2> QED
    BY <1>1, <2>1, SameTree DEF TypeOK
<1>3. DistinctSoFar'
  <2> SUFFICES ASSUME NEW i \in 1..next, NEW j \in 1..next, Package(i) = Package(j)
               PROVE  i = j
    BY <1>1, Shape, SameTree DEF DistinctSoFar
  <2>1. \A k \in 1..(next - 1) : Package(k) # Package(next)
    BY DEF ReadRecipe
  <2>2. (i \in 1..(next - 1) \/ i = next) /\ (j \in 1..(next - 1) \/ j = next)
    BY Shape
  <2> QED
    BY <1>1, <2>1, <2>2 DEF Stage, DistinctSoFar
<1>4. Stage'
  BY <1>1, <1>3 DEF Stage, Distinct, ProvidersProvide, ClaimedSoFar, AllClaimed, ResolvedSoFar,
     AllResolved, WaitsForNeeded, ClosedStays, NoCycleLeft, NothingRequired, PastReading, PastCapabilities,
     PastDependencies
<1>5. Verdicts'
  BY <1>1, NoVerdict
<1> QED
  BY <1>2, <1>4, <1>5

LEMMA RejectReadStep ==
  ASSUME IndInv, FindNoRecipes \/ RejectRecipe
  PROVE  IndInv'
<1> USE DEF IndInv
<1>1. pc = "read"
  BY DEF FindNoRecipes, RejectRecipe
<1>2. PICK v \in {"empty", "invalid", "duplicate"} :
        Finish(v) /\ (v = "duplicate" => \E i \in 1..(next - 1) : Package(i) = Package(next))
                  /\ (v # "empty" => next \in DOMAIN tree)
  BY DEF FindNoRecipes, RejectRecipe
<1>3. v = "duplicate" => Repeated
  <2> SUFFICES ASSUME v = "duplicate"
               PROVE  Repeated
    OBVIOUS
  <2>1. PICK i \in 1..(next - 1) : Package(i) = Package(next)
    BY <1>2
  <2>2. i \in DOMAIN tree /\ next \in DOMAIN tree /\ i # next
    BY <1>2, Shape
  <2> QED
    BY <2>1, <2>2 DEF Repeated
<1>4. v \in Errors
  BY DEF Errors
<1>5. TypeOK' /\ Stage'
  BY <1>1, <1>2, <1>4, FinishStage
<1>6. Verdicts'
  BY <1>2, <1>3, <1>4, ErrorVerdict
<1> QED
  BY <1>5, <1>6

LEMMA ProvideStep ==
  ASSUME IndInv, ProvideNames
  PROVE  IndInv'
<1> USE DEF IndInv
<1>1. /\ tree' = tree /\ lock' = lock /\ pc' = "capabilities" /\ next' = 1 /\ verdict' = verdict
      /\ providers' = [p \in Packages |-> p] /\ required' = required
      /\ pc = "read" /\ next = Len(tree) + 1
  BY DEF ProvideNames
<1>2. Packages \subseteq Names
  BY Shape DEF Packages
<1>3. TypeOK'
  <2>1. next' \in 1..(Len(tree') + 1)
    BY <1>1, Shape
  <2>2. /\ DOMAIN providers' \subseteq Names
        /\ \A c \in DOMAIN providers' : providers'[c] \in Packages'
    BY <1>1, <1>2, SameTree
  <2>3. pc' \in Stages
    BY <1>1 DEF Stages
  <2> QED
    BY <1>1, <2>1, <2>2, <2>3, SameTree DEF TypeOK
<1>4. ~Repeated
  BY <1>1, Shape DEF Stage, DistinctSoFar, Repeated
<1>5. ProvidersProvide'
  <2>1. \A c \in Packages : \E i \in DOMAIN tree : Package(i) = c /\ Provides(i, c)
    BY DEF Packages, Provides
  <2> QED
    BY <1>1, <2>1, SameTree DEF ProvidersProvide
<1>6. ClaimedSoFar'
  BY <1>1 DEF ClaimedSoFar
<1>7. Stage'
  BY <1>1, <1>4, <1>5, <1>6, SameTree DEF Stage, DistinctSoFar, Distinct, AllClaimed, ResolvedSoFar,
     AllResolved, WaitsForNeeded, ClosedStays, NoCycleLeft, NothingRequired,
     PastCapabilities, PastDependencies
<1>8. Verdicts'
  BY <1>1, NoVerdict
<1> QED
  BY <1>3, <1>7, <1>8

LEMMA ClaimStep ==
  ASSUME IndInv, ClaimCapabilities
  PROVE  IndInv'
<1> USE DEF IndInv
<1> DEFINE r == tree[next]
<1>1. /\ tree' = tree /\ lock' = lock /\ pc' = pc /\ next' = next + 1 /\ verdict' = verdict
      /\ required' = required /\ pc = "capabilities" /\ next \in DOMAIN tree
      /\ \A c \in r.provides : c \in DOMAIN providers => providers[c] = r.name
      /\ providers' = [c \in DOMAIN providers \cup r.provides |->
                         IF c \in DOMAIN providers THEN providers[c] ELSE r.name]
  BY DEF ClaimCapabilities, Taken
<1>2. r.provides \subseteq Names /\ r.name \in Packages /\ r.name = Package(next)
  BY <1>1, Shape
<1>3. TypeOK'
  <2>1. next' \in 1..(Len(tree') + 1)
    BY <1>1, Shape
  <2>2. /\ DOMAIN providers' \subseteq Names
        /\ \A c \in DOMAIN providers' : providers'[c] \in Packages
    BY <1>1, <1>2 DEF TypeOK
  <2> QED
    BY <1>1, <2>1, <2>2, SameTree DEF TypeOK
<1>4. pc \in PastReading
  BY <1>1 DEF PastReading
<1>5. \A p \in Packages : p \in DOMAIN providers /\ providers[p] = p
  BY <1>4 DEF Stage, ProvidersProvide
<1>6. ProvidersProvide'
  <2>1. ASSUME NEW c \in DOMAIN providers'
        PROVE  \E i \in DOMAIN tree : Package(i) = providers'[c] /\ Provides(i, c)
    <3>1. CASE c \in DOMAIN providers
      BY <1>1, <1>4, <3>1 DEF Stage, ProvidersProvide
    <3>2. CASE c \notin DOMAIN providers
      <4>1. c \in r.provides /\ providers'[c] = r.name
        BY <1>1, <3>2
      <4> QED
        BY <1>1, <1>2, <4>1 DEF Provides
    <3> QED
      BY <3>1, <3>2
  <2>2. \A p \in Packages : p \in DOMAIN providers' /\ providers'[p] = p
    BY <1>1, <1>5
  <2> QED
    BY <1>1, <2>1, <2>2, SameTree DEF ProvidersProvide
<1>7. ASSUME NEW i \in 1..next
      PROVE  Claimed(i)'
  <2> SUFFICES ASSUME NEW c \in Names, Provides(i, c)
               PROVE  c \in DOMAIN providers' /\ providers'[c] = Package(i)
    BY <1>1, SameTree DEF Claimed
  <2>1. CASE i \in 1..(next - 1)
    BY <1>1, <2>1 DEF Stage, ClaimedSoFar, Claimed
  <2>2. CASE i = next /\ c = Package(next)
    BY <1>1, <1>2, <1>5, <2>2
  <2>3. CASE i = next /\ c \in r.provides
    BY <1>1, <1>2, <2>3
  <2> QED
    BY <2>1, <2>2, <2>3, Shape DEF Provides
<1>8. ClaimedSoFar'
  BY <1>1, <1>7, Shape DEF ClaimedSoFar
<1>9. Stage'
  BY <1>1, <1>6, <1>8, SameTree DEF Stage, DistinctSoFar, Distinct, AllClaimed, ResolvedSoFar,
     AllResolved, WaitsForNeeded, ClosedStays, NoCycleLeft, NothingRequired,
     PastCapabilities, PastDependencies
<1>10. Verdicts'
  BY <1>1, NoVerdict
<1> QED
  BY <1>3, <1>9, <1>10

LEMMA RejectCapabilityStep ==
  ASSUME IndInv, RejectCapability
  PROVE  IndInv'
<1> USE DEF IndInv
<1>1. pc = "capabilities" /\ next \in DOMAIN tree /\ Finish("provided")
  BY DEF RejectCapability
<1>2. PICK c \in tree[next].provides : c \in DOMAIN providers /\ providers[c] # Package(next)
  BY DEF RejectCapability, Taken
<1>3. PICK i \in DOMAIN tree : Package(i) = providers[c] /\ Provides(i, c)
  BY <1>1, <1>2 DEF Stage, ProvidersProvide, PastReading
<1>4. c \in Names /\ Provides(next, c) /\ i # next
  BY <1>1, <1>2, <1>3, Shape DEF Provides
<1>5. Contested
  BY <1>1, <1>3, <1>4 DEF Contested
<1>6. "provided" \in Errors
  BY DEF Errors
<1>7. TypeOK' /\ Stage'
  BY <1>1, <1>6, FinishStage
<1>8. Verdicts'
  BY <1>1, <1>5, <1>6, ErrorVerdict
<1> QED
  BY <1>7, <1>8

LEMMA EndCapabilitiesStep ==
  ASSUME IndInv, EndCapabilities
  PROVE  IndInv'
<1> USE DEF IndInv
<1>1. /\ tree' = tree /\ lock' = lock /\ pc' = "dependencies" /\ next' = 1 /\ verdict' = verdict
      /\ required' = required /\ providers' = providers
      /\ pc = "capabilities" /\ next = Len(tree) + 1
  BY DEF EndCapabilities
<1>2. TypeOK'
  <2>1. next' \in 1..(Len(tree') + 1) /\ pc' \in Stages
    BY <1>1, Shape DEF Stages
  <2> QED
    BY <1>1, <2>1, SameTree DEF TypeOK
<1>3. AllClaimed'
  <2>1. \A i \in DOMAIN tree : Claimed(i)
    BY <1>1, Shape DEF Stage, ClaimedSoFar
  <2> QED
    BY <1>1, <2>1, SameTree DEF AllClaimed, Claimed
<1>4. Distinct' /\ ProvidersProvide'
  BY <1>1, SameTree DEF Stage, Distinct, ProvidersProvide, PastReading
<1>5. ResolvedSoFar'
  <2>1. DOMAIN required = {}
    BY <1>1 DEF Stage, NothingRequired
  <2> QED
    BY <1>1, <2>1 DEF ResolvedSoFar
<1>6. Stage'
  BY <1>1, <1>3, <1>4, <1>5 DEF Stage, DistinctSoFar, ClaimedSoFar,
     AllResolved, WaitsForNeeded, ClosedStays, NoCycleLeft, PastDependencies, NothingRequired
<1>7. Verdicts'
  BY <1>1, NoVerdict
<1> QED
  BY <1>2, <1>6, <1>7

LEMMA ResolveStep ==
  ASSUME IndInv, ResolveDependencies
  PROVE  IndInv'
<1> USE DEF IndInv
<1> DEFINE r == tree[next]
<1>1. /\ tree' = tree /\ lock' = lock /\ pc' = pc /\ next' = next + 1 /\ verdict' = verdict
      /\ providers' = providers /\ pc = "dependencies" /\ next \in DOMAIN tree
      /\ \A d \in r.depends : d \in DOMAIN providers
      /\ required' = [p \in DOMAIN required \cup {r.name} |->
                        IF p = r.name THEN {providers[d] : d \in r.depends} ELSE required[p]]
  BY DEF ResolveDependencies
<1>2. r.name = Package(next) /\ r.name \in Packages
  BY <1>1, Shape
<1>3. TypeOK'
  <2>1. next' \in 1..(Len(tree') + 1)
    BY <1>1, Shape
  <2>2. {providers[d] : d \in r.depends} \subseteq Packages
    BY <1>1 DEF TypeOK
  <2>3. /\ DOMAIN required' \subseteq Packages
        /\ \A p \in DOMAIN required' : required'[p] \subseteq Packages
    BY <1>1, <1>2, <2>2 DEF TypeOK
  <2> QED
    BY <1>1, <2>1, <2>3, SameTree DEF TypeOK
<1>4. ~Repeated
  BY <1>1 DEF Stage, Distinct, PastReading
<1>5. /\ DOMAIN required = {Package(i) : i \in 1..(next - 1)}
      /\ \A i \in 1..(next - 1) :
           Resolved(i) /\ required[Package(i)] = {providers[d] : d \in tree[i].depends}
  BY <1>1 DEF Stage, ResolvedSoFar
<1>6. 1..next = 1..(next - 1) \cup {next} /\ 1..(next - 1) \subseteq DOMAIN tree
      /\ next \notin 1..(next - 1) /\ (next + 1) - 1 = next
  BY <1>1, Shape
<1>7. ResolvedSoFar'
  <2>1. DOMAIN required' = {Package(i) : i \in 1..next}
    BY <1>1, <1>2, <1>5, <1>6
  <2>2. ASSUME NEW i \in 1..next
        PROVE  /\ tree[i].depends \subseteq DOMAIN providers
               /\ required'[Package(i)] = {providers[d] : d \in tree[i].depends}
    <3>1. CASE i = next
      BY <1>1, <1>2, <3>1
    <3>2. CASE i \in 1..(next - 1)
      <4>1. Package(i) # Package(next)
        BY <1>1, <1>4, <1>6, <3>2 DEF Repeated
      <4> QED
        BY <1>1, <1>2, <1>5, <3>2, <4>1 DEF Resolved
    <3> QED
      BY <1>6, <3>1, <3>2
  <2>3. next' - 1 = next
    BY <1>1, <1>6
  <2>4. DOMAIN required' = {Package(i)' : i \in 1..(next' - 1)}
    BY <1>1, <2>1, <2>3, SameTree
  <2>5. ASSUME NEW i \in 1..(next' - 1)
        PROVE  /\ Resolved(i)'
               /\ required'[Package(i)'] = {providers'[d] : d \in tree'[i].depends}
    <3>1. i \in 1..next
      BY <2>3
    <3>2. /\ tree[i].depends \subseteq DOMAIN providers
          /\ required'[Package(i)] = {providers[d] : d \in tree[i].depends}
      BY <2>2, <3>1
    <3>3. tree' = tree /\ providers' = providers
      BY <1>1
    <3>4. Package(i)' = Package(i)
      BY <3>3, SameTree
    <3> HIDE DEF r
    <3> QED
      BY <3>2, <3>3, <3>4 DEF Resolved
  <2> HIDE DEF r
  <2> QED
    BY <2>4, <2>5 DEF ResolvedSoFar
<1>8. Stage'
  BY <1>1, <1>7, SameTree DEF Stage, DistinctSoFar, Distinct, ProvidersProvide, ClaimedSoFar,
     AllClaimed, Claimed, AllResolved, WaitsForNeeded, ClosedStays, NoCycleLeft, PastDependencies,
     NothingRequired
<1>9. Verdicts'
  BY <1>1, NoVerdict
<1> QED
  BY <1>3, <1>8, <1>9

LEMMA RejectDependencyStep ==
  ASSUME IndInv, RejectDependency
  PROVE  IndInv'
<1> USE DEF IndInv
<1>1. pc = "dependencies" /\ next \in DOMAIN tree
  BY DEF RejectDependency
<1>2. PICK d \in tree[next].depends :
        \/ d \notin DOMAIN providers /\ Finish("unresolved")
        \/ d \in DOMAIN providers /\ providers[d] = Package(next) /\ Finish("self")
  BY DEF RejectDependency
<1>3. d \in Names
  BY <1>1, <1>2, Shape
<1>4. "unresolved" \in Errors /\ "self" \in Errors
  BY DEF Errors
<1>5. CASE d \notin DOMAIN providers /\ Finish("unresolved")
  <2>1. \A j \in DOMAIN tree : ~Provides(j, d)
    BY <1>1, <1>3, <1>5 DEF Stage, AllClaimed, Claimed, PastCapabilities
  <2>2. Unprovided
    BY <1>1, <1>2, <2>1 DEF Unprovided
  <2>3. TypeOK' /\ Stage'
    BY <1>1, <1>4, <1>5, FinishStage
  <2>4. Verdicts'
    BY <1>4, <1>5, <2>2, ErrorVerdict
  <2> QED
    BY <2>3, <2>4
<1>6. CASE d \in DOMAIN providers /\ providers[d] = Package(next) /\ Finish("self")
  <2>1. PICK i \in DOMAIN tree : Package(i) = providers[d] /\ Provides(i, d)
    BY <1>1, <1>6 DEF Stage, ProvidersProvide, PastReading
  <2>2. i = next
    BY <1>1, <1>6, <2>1 DEF Stage, Distinct, PastReading, Repeated
  <2>3. \E k \in DOMAIN tree : Needs(k, k)
    BY <1>1, <1>2, <2>1, <2>2 DEF Needs
  <2>4. TypeOK' /\ Stage'
    BY <1>1, <1>4, <1>6, FinishStage
  <2>5. Verdicts'
    BY <1>4, <1>6, <2>3, ErrorVerdict
  <2> QED
    BY <2>4, <2>5
<1> QED
  BY <1>2, <1>5, <1>6

\* When the graph is resolved, every package waits for the packages it needs.
LEMMA EndDependenciesStep ==
  ASSUME IndInv, EndDependencies
  PROVE  IndInv'
<1> USE DEF IndInv
<1>1. /\ tree' = tree /\ lock' = lock /\ pc' = "release" /\ next' = next /\ verdict' = verdict
      /\ required' = required /\ providers' = providers
      /\ pc = "dependencies" /\ next = Len(tree) + 1
  BY DEF EndDependencies
<1>2. TypeOK'
  <2>1. pc' \in Stages
    BY DEF EndDependencies, Stages
  <2> QED
    BY <1>1, <2>1, SameTree DEF TypeOK
<1>3. 1..(next - 1) = DOMAIN tree
  BY <1>1, Shape
<1>4. ~Repeated /\ ProvidersProvide /\ pc \in PastReading /\ \A i \in DOMAIN tree : Claimed(i)
  BY <1>1 DEF Stage, Distinct, AllClaimed, PastReading, PastCapabilities
<1>5. /\ DOMAIN required = Packages
      /\ \A i \in DOMAIN tree :
           Resolved(i) /\ required[Package(i)] = {providers[d] : d \in tree[i].depends}
  BY <1>1, <1>3 DEF Stage, ResolvedSoFar, Packages
<1>6. AllResolved'
  BY <1>1, <1>5 DEF AllResolved, Resolved
<1>7. WaitsForNeeded'
  <2> SUFFICES ASSUME NEW i \in DOMAIN tree, NEW j \in DOMAIN tree
               PROVE  Package(j) \in required[Package(i)] <=>
                        Needs(i, j) /\ Package(j) \in DOMAIN required
    BY <1>1, SameTree DEF WaitsForNeeded
  <2>1. Needs(i, j) <=> \E d \in tree[i].depends : providers[d] = Package(j)
    BY <1>4, <1>5, NeedsProvider
  <2>2. Package(j) \in DOMAIN required
    BY <1>5 DEF Packages
  <2> QED
    BY <1>5, <2>1, <2>2
<1>8. ClosedStays'
  <2>1. \A i \in DOMAIN tree : Package(i) \in DOMAIN required
    BY <1>5 DEF Packages
  <2> QED
    BY <1>1, <2>1, SameTree DEF ClosedStays
<1>9. Distinct' /\ ProvidersProvide' /\ AllClaimed'
  BY <1>1, <1>4, SameTree DEF Distinct, ProvidersProvide, AllClaimed, Claimed
<1>10. Stage'
  BY <1>1, <1>6, <1>7, <1>8, <1>9 DEF Stage, DistinctSoFar, ClaimedSoFar, ResolvedSoFar, NoCycleLeft,
     NothingRequired
<1>11. Verdicts'
  BY <1>1, NoVerdict
<1> QED
  BY <1>2, <1>10, <1>11

\* A package that waits for nothing is in no closed set: releasing it keeps
\* every closed set whole.
LEMMA ReleaseStep ==
  ASSUME IndInv, Release
  PROVE  IndInv'
<1> USE DEF IndInv
<1>1. PICK p \in DOMAIN required :
        required[p] = {} /\ required' = [q \in DOMAIN required \ {p} |-> required[q] \ {p}]
  BY DEF Release, Ready
<1>2. /\ tree' = tree /\ lock' = lock /\ pc' = pc /\ next' = next /\ verdict' = verdict
      /\ providers' = providers /\ pc = "release"
  BY DEF Release
<1>3. TypeOK'
  <2>1. /\ DOMAIN required' \subseteq Packages
        /\ \A q \in DOMAIN required' : required'[q] \subseteq Packages
    BY <1>1 DEF TypeOK
  <2> QED
    BY <1>2, <2>1, SameTree DEF TypeOK
<1>4. \A i, j \in DOMAIN tree : Package(i) \in DOMAIN required =>
        (Package(j) \in required[Package(i)] <=> Needs(i, j) /\ Package(j) \in DOMAIN required)
  BY <1>2 DEF Stage, WaitsForNeeded
<1>5. WaitsForNeeded'
  <2> SUFFICES ASSUME NEW i \in DOMAIN tree, Package(i) \in DOMAIN required',
                      NEW j \in DOMAIN tree
               PROVE  Package(j) \in required'[Package(i)] <=>
                        Needs(i, j) /\ Package(j) \in DOMAIN required'
    BY <1>2, SameTree DEF WaitsForNeeded
  <2> QED
    BY <1>1, <1>4
<1>6. ClosedStays'
  <2> SUFFICES ASSUME NEW S \in SUBSET DOMAIN tree, Closed(S), NEW i \in S
               PROVE  Package(i) \in DOMAIN required'
    BY <1>2, SameTree DEF ClosedStays
  <2>1. \A k \in S : Package(k) \in DOMAIN required
    BY <1>2 DEF Stage, ClosedStays
  <2>2. PICK j \in S : Needs(i, j)
    BY DEF Closed
  <2>3. Package(j) \in required[Package(i)]
    BY <1>4, <2>1, <2>2
  <2> QED
    BY <1>1, <2>1, <2>3
<1>7. Stage'
  BY <1>2, <1>5, <1>6, SameTree DEF Stage, DistinctSoFar, Distinct, ProvidersProvide, ClaimedSoFar,
     AllClaimed, Claimed, ResolvedSoFar, AllResolved, Resolved, NoCycleLeft, NothingRequired
<1>8. Verdicts'
  BY <1>2, NoVerdict
<1> QED
  BY <1>3, <1>7, <1>8

\* What is left when nothing is ready is a closed set; what is gone is in none.
LEMMA EndReleaseStep ==
  ASSUME IndInv, EndRelease
  PROVE  IndInv'
<1> USE DEF IndInv
<1>1. pc = "release" /\ \A p \in DOMAIN required : required[p] # {}
  BY DEF EndRelease, Ready
<1>2. \A i, j \in DOMAIN tree : Package(i) \in DOMAIN required =>
        (Package(j) \in required[Package(i)] <=> Needs(i, j) /\ Package(j) \in DOMAIN required)
  BY <1>1 DEF Stage, WaitsForNeeded
<1>3. DOMAIN required \subseteq Packages
      /\ \A p \in DOMAIN required : required[p] \subseteq Packages
  BY DEF TypeOK
<1>4. CASE DOMAIN required # {} /\ Finish("cycle")
  <2> DEFINE S == {i \in DOMAIN tree : Package(i) \in DOMAIN required}
  <2>1. S # {}
    BY <1>3, <1>4 DEF Packages
  <2>2. ASSUME NEW i \in S
        PROVE  \E j \in S : Needs(i, j)
    <3>1. PICK p \in required[Package(i)] : TRUE
      BY <1>1
    <3>2. PICK j \in DOMAIN tree : Package(j) = p
      BY <1>3, <3>1 DEF Packages
    <3> QED
      BY <1>2, <3>1, <3>2
  <2>3. Cyclic
    BY <2>1, <2>2 DEF Cyclic
  <2>4. "cycle" \in Errors
    BY DEF Errors
  <2>5. TypeOK' /\ Stage'
    BY <1>1, <1>4, <2>4, FinishStage
  <2>6. Verdicts'
    BY <1>4, <2>3, <2>4, ErrorVerdict
  <2> QED
    BY <2>5, <2>6
<1>5. CASE DOMAIN required = {} /\ pc' = "lock"
           /\ UNCHANGED <<tree, lock, next, providers, required, verdict>>
  <2>1. TypeOK'
    BY <1>1, <1>5, SameTree DEF TypeOK, Stages
  <2>2. ~Cyclic
    <3> SUFFICES ASSUME NEW S \in SUBSET DOMAIN tree, S # {}, Closed(S)
                 PROVE  FALSE
      BY DEF Cyclic, Closed
    <3> QED
      BY <1>1, <1>5 DEF Stage, ClosedStays
  <2>3. Stage'
    BY <1>1, <1>5, <2>2, SameTree DEF Stage, DistinctSoFar, Distinct, ProvidersProvide, ClaimedSoFar,
       AllClaimed, Claimed, ResolvedSoFar, AllResolved, Resolved, WaitsForNeeded, ClosedStays,
       NoCycleLeft, NothingRequired, PastReading, PastCapabilities, PastDependencies
  <2>4. Verdicts'
    BY <1>1, <1>5, NoVerdict
  <2> QED
    BY <2>1, <2>3, <2>4
<1> QED
  BY <1>4, <1>5 DEF EndRelease

LEMMA LockStep ==
  ASSUME IndInv, CheckLock
  PROVE  IndInv'
<1> USE DEF IndInv
<1>1. pc = "lock"
  BY DEF CheckLock
<1>2. CASE Finish("lock")
  <2>1. "lock" \in Errors
    BY DEF Errors
  <2>2. TypeOK' /\ Stage'
    BY <1>1, <1>2, <2>1, FinishStage
  <2>3. Verdicts'
    BY <1>2, <2>1, ErrorVerdict
  <2> QED
    BY <2>2, <2>3
<1>3. CASE pc' = "bundle" /\ UNCHANGED <<tree, lock, next, providers, required, verdict>>
  <2>1. TypeOK'
    BY <1>1, <1>3, SameTree DEF TypeOK, Stages
  <2>2. Stage'
    BY <1>1, <1>3, SameTree DEF Stage, DistinctSoFar, Distinct, ProvidersProvide, ClaimedSoFar,
       AllClaimed, Claimed, ResolvedSoFar, AllResolved, Resolved, WaitsForNeeded, ClosedStays,
       NoCycleLeft, NothingRequired, PastReading, PastCapabilities, PastDependencies
  <2>3. Verdicts'
    BY <1>1, <1>3, NoVerdict
  <2> QED
    BY <2>1, <2>2, <2>3
<1> QED
  BY <1>2, <1>3 DEF CheckLock

LEMMA BundleStep ==
  ASSUME IndInv, CheckBundle
  PROVE  IndInv'
<1> USE DEF IndInv
<1>1. pc = "bundle"
  BY DEF CheckBundle
<1>2. CASE Finish("bundle")
  <2>1. "bundle" \in Errors
    BY DEF Errors
  <2>2. TypeOK' /\ Stage'
    BY <1>1, <1>2, <2>1, FinishStage
  <2>3. Verdicts'
    BY <1>2, <2>1, ErrorVerdict
  <2> QED
    BY <2>2, <2>3
<1>3. CASE (\E i \in DOMAIN tree : ValidBundle(tree[i])) /\ Finish("accepted")
  <2>1. PICK b \in DOMAIN tree : Package(b) = Bundle /\ tree[b].pinned
                                 /\ Components \subseteq tree[b].provides
    BY <1>3 DEF ValidBundle, Package
  <2>2. ~Repeated /\ ~Cyclic /\ (\A i \in DOMAIN tree : Claimed(i)) /\ ProvidersProvide
        /\ pc \in PastReading /\ \A i \in DOMAIN tree : Resolved(i)
    BY <1>1 DEF Stage, Distinct, NoCycleLeft, AllClaimed, AllResolved, PastReading,
       PastCapabilities, PastDependencies
  <2>3. ~Contested
    BY <2>2, ClaimsSettle
  <2>4. ~Unprovided
    BY <2>2 DEF Unprovided, Resolved, ProvidersProvide
  <2>5. \A c \in Components : \A i \in DOMAIN tree : Provides(i, c) => i = b
    BY <2>1, <2>3, ProvidesNames DEF Contested, Provides
  <2>6. tree' = tree /\ verdict' = "accepted"
    BY <1>3 DEF Finish
  <2>7. AcceptedTreeInstalls'
    <3>1. ~Repeated' /\ ~Contested' /\ ~Unprovided' /\ ~Cyclic'
      BY <2>2, <2>3, <2>4, <2>6, SameTree
    <3> QED
      BY <3>1 DEF AcceptedTreeInstalls
  <2>8. PinnedComponentsStay'
    <3>1. ASSUME NEW c \in Components, NEW i \in DOMAIN tree, Provides(i, c)
          PROVE  Package(i) = Bundle /\ tree[i].pinned
      BY <2>1, <2>5, <3>1
    <3>2. \A i, c : Provides(i, c)' <=> Provides(i, c)
      BY <2>6, SameTree
    <3>3. \A i : Package(i)' = Package(i)
      BY <2>6, SameTree
    <3> QED
      BY <2>6, <3>1, <3>2, <3>3 DEF PinnedComponentsStay
  <2>9. RejectedForCause'
    BY <2>6 DEF RejectedForCause
  <2>10. TypeOK' /\ Stage'
    BY <1>1, <1>3, FinishStage
  <2> QED
    BY <2>7, <2>8, <2>9, <2>10 DEF Verdicts
<1> QED
  BY <1>2, <1>3 DEF CheckBundle

LEMMA StutterStep ==
  ASSUME IndInv, UNCHANGED vars
  PROVE  IndInv'
<1>1. /\ tree' = tree /\ lock' = lock /\ pc' = pc /\ next' = next /\ verdict' = verdict
      /\ providers' = providers /\ required' = required
  BY DEF vars
<1>2. TypeOK'
  BY <1>1, SameTree DEF IndInv, TypeOK
<1>3. Stage'
  <2>1. (Distinct /\ DistinctSoFar /\ ProvidersProvide)'
    BY <1>1, SameTree DEF IndInv, Stage, DistinctSoFar, Distinct, ProvidersProvide
  <2>2. (ClaimedSoFar /\ AllClaimed)'
    BY <1>1, SameTree DEF IndInv, Stage, ClaimedSoFar, AllClaimed, Claimed
  <2>3. (NothingRequired /\ ResolvedSoFar /\ AllResolved)'
    <3>1. NothingRequired' /\ AllResolved'
      BY <1>1, SameTree DEF IndInv, Stage, NothingRequired, AllResolved, Resolved
    <3>2. ResolvedSoFar => ResolvedSoFar'
      <4>1. \A i : Package(i)' = Package(i)
        BY <1>1, SameTree
      <4>2. {Package(i) : i \in 1..(next - 1)}' = {Package(i) : i \in 1..(next - 1)}
        BY <1>1, <4>1
      <4>3. \A i : Resolved(i)' <=> Resolved(i)
        BY <1>1 DEF Resolved
      <4> QED
        BY <1>1, <4>1, <4>2, <4>3 DEF ResolvedSoFar
    <3> QED
      BY <3>1, <3>2 DEF IndInv, Stage
  <2>4. (WaitsForNeeded /\ ClosedStays /\ NoCycleLeft)'
    BY <1>1, SameTree DEF IndInv, Stage, WaitsForNeeded, ClosedStays, NoCycleLeft
  <2> QED
    BY <2>1, <2>2, <2>3, <2>4 DEF Stage
<1>4. AcceptedTreeInstalls' /\ RejectedForCause'
  <2>1. /\ Repeated' <=> Repeated
        /\ Contested' <=> Contested
        /\ Unprovided' <=> Unprovided
        /\ Cyclic' <=> Cyclic
        /\ \A i : Needs(i, i)' <=> Needs(i, i)
    BY <1>1, SameTree
  <2> QED
    BY <1>1, <2>1 DEF IndInv, Verdicts, AcceptedTreeInstalls, RejectedForCause
<1>5. PinnedComponentsStay'
  BY <1>1 DEF IndInv, Verdicts, PinnedComponentsStay, Provides, Package
<1> QED
  BY <1>2, <1>3, <1>4, <1>5 DEF IndInv, Verdicts

LEMMA IndStep == IndInv /\ [Next]_vars => IndInv'
BY ReadStep, RejectReadStep, ProvideStep, ClaimStep, RejectCapabilityStep, EndCapabilitiesStep,
   ResolveStep, RejectDependencyStep, EndDependenciesStep, ReleaseStep, EndReleaseStep, LockStep,
   BundleStep, StutterStep DEF Next

-----------------------------------------------------------------------------
\* The state keeps its shape.
THEOREM TypeCorrect == Spec => []TypeOK
<1>1. IndInv => TypeOK
  BY DEF IndInv
<1> QED
  BY <1>1, InitInd, IndStep, PTL DEF Spec

\* Whatever recipes there are, the tree the lint accepts has an order to
\* install in, one provider for everything, and a provider for every need.
THEOREM AcceptedInstalls == Spec => []AcceptedTreeInstalls
<1>1. IndInv => AcceptedTreeInstalls
  BY DEF IndInv, Verdicts
<1> QED
  BY <1>1, InitInd, IndStep, PTL DEF Spec

\* Whatever recipes there are, no recipe takes the place of a component that
\* the lock pins in a tree the lint accepts.
THEOREM PinnedStay == Spec => []PinnedComponentsStay
<1>1. IndInv => PinnedComponentsStay
  BY DEF IndInv, Verdicts
<1> QED
  BY <1>1, InitInd, IndStep, PTL DEF Spec

\* Whatever recipes there are, a rejection for the graph names a fault the
\* graph has.
THEOREM RejectionsHaveCause == Spec => []RejectedForCause
<1>1. IndInv => RejectedForCause
  BY DEF IndInv, Verdicts
<1> QED
  BY <1>1, InitInd, IndStep, PTL DEF Spec
=============================================================================
