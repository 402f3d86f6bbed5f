----------------------------- MODULE RecipeTree -----------------------------
(***************************************************************************)
(* validate_tree of src/lib.rs: the lint of every recipe below recipes/    *)
(* and of the COSMIC lock.  The recipes are read in the order of their     *)
(* paths, then names, capabilities and dependencies are resolved against   *)
(* each other, the dependency graph is taken apart from its leaves, and    *)
(* the pinned desktop is checked last.  The first error ends the lint.     *)
(*                                                                         *)
(* A recipe is what these steps look at: its name, the capabilities it     *)
(* provides, what it depends on, whether it passes the checks that look at *)
(* one recipe only ("valid": parse_recipe and validate_recipe), and        *)
(* whether it is a native COSMIC workspace recipe whose one Git source is  *)
(* the locked revision with its submodules ("pinned").  validate_recipe    *)
(* refuses repeated names in provides and depends, so both are sets; which *)
(* of two errors in one list is reported first is left open.               *)
(***************************************************************************)
EXTENDS Naturals, Sequences

CONSTANTS
  Names,      \* package and capability names: one name space
  Position,   \* where a name stands in the order of names
  Bundle,     \* cosmic-desktop
  Components, \* COSMIC_REQUIRED_COMPONENTS
  Trees,      \* the trees to lint: recipes in the order of their paths
  Locks       \* the COSMIC locks: sequences of components

Recipe == [name : Names, provides : SUBSET Names, depends : SUBSET Names,
           valid : BOOLEAN, pinned : BOOLEAN]

LockedComponent == [name : Names, required : BOOLEAN]

ASSUME RecipeTreeAssumption ==
  /\ Position \in [Names -> Nat]
  /\ \A m, n \in Names : Position[m] = Position[n] => m = n
  /\ Bundle \in Names
  /\ Components \subseteq Names
  /\ Trees \subseteq Seq(Recipe)
  /\ Locks \subseteq Seq(LockedComponent)

VARIABLES
  tree,      \* the recipes
  lock,      \* the COSMIC lock
  pc,        \* the stage of the lint
  next,      \* the recipe the stage looks at
  providers, \* name or capability -> the package that provides it
  required,  \* package -> the packages it still waits for
  verdict    \* "none", "accepted", or the error reported

vars == <<tree, lock, pc, next, providers, required, verdict>>

Errors == {"empty", "invalid", "duplicate", "provided", "unresolved", "self",
           "cycle", "lock", "bundle"}

Stages == {"read", "capabilities", "dependencies", "release", "lock", "bundle", "done"}

Init ==
  /\ tree \in Trees
  /\ lock \in Locks
  /\ pc = "read"
  /\ next = 1
  /\ providers = <<>>
  /\ required = <<>>
  /\ verdict = "none"

Finish(v) ==
  /\ pc' = "done"
  /\ verdict' = v
  /\ UNCHANGED <<tree, lock, next, providers, required>>

Package(i) == tree[i].name
Packages == {Package(i) : i \in DOMAIN tree}

-----------------------------------------------------------------------------
(* One recipe after the other.                                             *)

FindNoRecipes ==
  /\ pc = "read"
  /\ tree = <<>>
  /\ Finish("empty")

ReadRecipe ==
  /\ pc = "read"
  /\ next \in DOMAIN tree
  /\ tree[next].valid
  /\ \A i \in 1..(next - 1) : Package(i) # Package(next)
  /\ next' = next + 1
  /\ UNCHANGED <<tree, lock, pc, providers, required, verdict>>

RejectRecipe ==
  /\ pc = "read"
  /\ next \in DOMAIN tree
  /\ \/ ~tree[next].valid /\ Finish("invalid")
     \/ /\ tree[next].valid
        /\ \E i \in 1..(next - 1) : Package(i) = Package(next)
        /\ Finish("duplicate")

\* Every package name is taken before any capability is looked at.
ProvideNames ==
  /\ pc = "read"
  /\ tree # <<>>
  /\ next = Len(tree) + 1
  /\ pc' = "capabilities"
  /\ next' = 1
  /\ providers' = [p \in Packages |-> p]
  /\ UNCHANGED <<tree, lock, required, verdict>>

-----------------------------------------------------------------------------
(* Capabilities.                                                           *)

Taken(c, p) == c \in DOMAIN providers /\ providers[c] # p

\* Mutant: a capability two packages provide goes to the later one.
ClaimCapabilitiesLastWins ==
  /\ pc = "capabilities"
  /\ next \in DOMAIN tree
  /\ LET r == tree[next] IN
       providers' = [c \in DOMAIN providers \cup r.provides |->
                       IF c \in r.provides THEN r.name ELSE providers[c]]
  /\ next' = next + 1
  /\ UNCHANGED <<tree, lock, pc, required, verdict>>

ClaimCapabilities ==
  /\ pc = "capabilities"
  /\ next \in DOMAIN tree
  /\ LET r == tree[next] IN
       /\ \A c \in r.provides : ~Taken(c, r.name)
       /\ providers' = [c \in DOMAIN providers \cup r.provides |->
                          IF c \in DOMAIN providers THEN providers[c] ELSE r.name]
  /\ next' = next + 1
  /\ UNCHANGED <<tree, lock, pc, required, verdict>>

\* Mutant: a package that lists its own name as a capability is refused.
RejectCapabilityEvenOwn ==
  /\ pc = "capabilities"
  /\ next \in DOMAIN tree
  /\ \E c \in tree[next].provides : c \in DOMAIN providers
  /\ Finish("provided")

RejectCapability ==
  /\ pc = "capabilities"
  /\ next \in DOMAIN tree
  /\ \E c \in tree[next].provides : Taken(c, Package(next))
  /\ Finish("provided")

EndCapabilities ==
  /\ pc = "capabilities"
  /\ next = Len(tree) + 1
  /\ pc' = "dependencies"
  /\ next' = 1
  /\ UNCHANGED <<tree, lock, providers, required, verdict>>

-----------------------------------------------------------------------------
(* Dependencies.                                                           *)

\* Mutant: a package waits for the names it lists, not for their providers.
ResolveToCapabilities ==
  /\ pc = "dependencies"
  /\ next \in DOMAIN tree
  /\ LET r == tree[next] IN
       /\ \A d \in r.depends : d \in DOMAIN providers /\ providers[d] # r.name
       /\ required' = [p \in DOMAIN required \cup {r.name} |->
                         IF p = r.name THEN r.depends ELSE required[p]]
  /\ next' = next + 1
  /\ UNCHANGED <<tree, lock, pc, providers, verdict>>

ResolveDependencies ==
  /\ pc = "dependencies"
  /\ next \in DOMAIN tree
  /\ LET r == tree[next] IN
       /\ \A d \in r.depends : d \in DOMAIN providers /\ providers[d] # r.name
       /\ required' = [p \in DOMAIN required \cup {r.name} |->
                         IF p = r.name THEN {providers[d] : d \in r.depends} ELSE required[p]]
  /\ next' = next + 1
  /\ UNCHANGED <<tree, lock, pc, providers, verdict>>

RejectDependency ==
  /\ pc = "dependencies"
  /\ next \in DOMAIN tree
  /\ \E d \in tree[next].depends :
       \/ d \notin DOMAIN providers /\ Finish("unresolved")
       \/ /\ d \in DOMAIN providers
          /\ providers[d] = Package(next)
          /\ Finish("self")

EndDependencies ==
  /\ pc = "dependencies"
  /\ next = Len(tree) + 1
  /\ pc' = "release"
  /\ UNCHANGED <<tree, lock, next, providers, required, verdict>>

-----------------------------------------------------------------------------
(* The graph is taken apart: the first package in the order of names that  *)
(* waits for nothing goes, and nobody waits for it any more.               *)

Ready == {p \in DOMAIN required : required[p] = {}}

\* Mutant: the package goes, and is still waited for.
ReleaseOnly ==
  /\ pc = "release"
  /\ \E p \in Ready :
       /\ \A q \in Ready : Position[p] <= Position[q]
       /\ required' = [q \in DOMAIN required \ {p} |-> required[q]]
  /\ UNCHANGED <<tree, lock, pc, next, providers, verdict>>

Release ==
  /\ pc = "release"
  /\ \E p \in Ready :
       /\ \A q \in Ready : Position[p] <= Position[q]
       /\ required' = [q \in DOMAIN required \ {p} |-> required[q] \ {p}]
  /\ UNCHANGED <<tree, lock, pc, next, providers, verdict>>

EndRelease ==
  /\ pc = "release"
  /\ Ready = {}
  /\ \/ /\ DOMAIN required # {}
        /\ Finish("cycle")
     \/ /\ DOMAIN required = {}
        /\ pc' = "lock"
        /\ UNCHANGED <<tree, lock, next, providers, required, verdict>>

-----------------------------------------------------------------------------
(* The pinned desktop.                                                     *)

\* validate_cosmic_lock; repositories and revisions are taken to be well formed.
ValidLock ==
  /\ \A i, j \in DOMAIN lock : lock[i].name = lock[j].name => i = j
  /\ \A i \in DOMAIN lock : lock[i].required
  /\ {lock[i].name : i \in DOMAIN lock} = Components

CheckLock ==
  /\ pc = "lock"
  /\ \/ ~ValidLock /\ Finish("lock")
     \/ /\ ValidLock
        /\ pc' = "bundle"
        /\ UNCHANGED <<tree, lock, next, providers, required, verdict>>

\* Mutant: the lock is checked, what the bundle provides is not.
ValidBundleShape(r) == r.name = Bundle /\ r.pinned

\* validate_cosmic_bundle
ValidBundle(r) ==
  /\ r.name = Bundle
  /\ r.pinned
  /\ Components \subseteq r.provides

\* A lint that finds no recipe with the bundle's name fails as one that finds a bad one.
CheckBundle ==
  /\ pc = "bundle"
  /\ \/ (\E i \in DOMAIN tree : ValidBundle(tree[i])) /\ Finish("accepted")
     \/ ~(\E i \in DOMAIN tree : ValidBundle(tree[i])) /\ Finish("bundle")

-----------------------------------------------------------------------------
Next ==
  \/ FindNoRecipes \/ ReadRecipe \/ RejectRecipe \/ ProvideNames
  \/ ClaimCapabilities \/ RejectCapability \/ EndCapabilities
  \/ ResolveDependencies \/ RejectDependency \/ EndDependencies
  \/ Release \/ EndRelease
  \/ CheckLock \/ CheckBundle

Spec == Init /\ [][Next]_vars

-----------------------------------------------------------------------------
(* What docs/RECIPE_FORMAT.md promises of a tree, read off the tree alone. *)

Provides(i, c) == c = Package(i) \/ c \in tree[i].provides

Needs(i, j) == \E d \in tree[i].depends : Provides(j, d)

Repeated == \E i, j \in DOMAIN tree : i # j /\ Package(i) = Package(j)

Contested == \E i, j \in DOMAIN tree : i # j /\ \E c \in Names : Provides(i, c) /\ Provides(j, c)

Unprovided ==
  \E i \in DOMAIN tree : \E d \in tree[i].depends : \A j \in DOMAIN tree : ~Provides(j, d)

\* Some packages each need one of them: there is no order to install them in.
Cyclic ==
  \E S \in SUBSET DOMAIN tree : S # {} /\ \A i \in S : \E j \in S : Needs(i, j)

-----------------------------------------------------------------------------
\* The shape of the state.
TypeOK ==
  /\ tree \in Seq(Recipe)
  /\ lock \in Seq(LockedComponent)
  /\ pc \in Stages
  /\ next \in 1..(Len(tree) + 1)
  /\ DOMAIN providers \subseteq Names
  /\ \A c \in DOMAIN providers : providers[c] \in Packages
  /\ DOMAIN required \subseteq Packages
  /\ \A p \in DOMAIN required : required[p] \subseteq Packages
  /\ verdict \in {"none", "accepted"} \cup Errors
  /\ pc = "done" <=> verdict # "none"

\* An accepted tree can be installed: no name or capability has two providers,
\* every dependency has one, and no set of packages waits for itself
\* (docs/RECIPE_FORMAT.md:28-30; validate_dependency_graph).
AcceptedTreeInstalls ==
  verdict = "accepted" => ~Repeated /\ ~Contested /\ ~Unprovided /\ ~Cyclic

\* In an accepted tree each component the lock pins comes from the bundle and
\* from nothing else, however the component recipes are named: the bundle has
\* to provide them all, and a recipe of that name would contest the bundle
\* (docs/RECIPE_FORMAT.md:38-39; validate_cosmic_bundle).
PinnedComponentsStay ==
  verdict = "accepted" =>
    \A c \in Components : \A i \in DOMAIN tree : Provides(i, c) => Package(i) = Bundle /\ tree[i].pinned

\* The lint refuses a tree only for a fault it has: a rejection for the graph
\* names a fault of the graph, whatever the order of paths and names.
RejectedForCause ==
  /\ verdict = "duplicate" => Repeated
  /\ verdict = "provided" => Contested
  /\ verdict = "unresolved" => Unprovided
  /\ verdict = "self" => \E i \in DOMAIN tree : Needs(i, i)
  /\ verdict = "cycle" => Cyclic

=============================================================================
