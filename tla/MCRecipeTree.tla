---------------------------- MODULE MCRecipeTree ----------------------------
(* Small trees for RecipeTree.                                             *)
EXTENDS RecipeTree

MCNames == {"applet", "cap", "desktop", "p", "q"}
MCPosition == [n \in MCNames |->
  CASE n = "applet" -> 1 [] n = "cap" -> 2 [] n = "desktop" -> 3 [] n = "p" -> 4 [] n = "q" -> 5]

Plain(n, gives, needs) ==
  [name |-> n, provides |-> gives, depends |-> needs, valid |-> TRUE, pinned |-> FALSE]

Desktop(gives, needs) == [Plain("desktop", gives, needs) EXCEPT !.pinned = TRUE]

\* Every dependency graph on three packages and a capability one of them has.
GraphTrees ==
  {<<Desktop({"applet"}, d), Plain("p", {"cap"}, e), Plain("q", {}, f)>> :
     d \in SUBSET {"p", "cap", "q"}, e \in SUBSET {"applet", "q"},
     f \in SUBSET {"desktop", "cap", "p"}}

\* Two recipes that may repeat names, contest capabilities or stand for a
\* component, on either side of the bundle.
AnyRecipe ==
  {Plain(n, g, d) : n \in {"applet", "desktop", "p", "q"}, g \in {{}, {"p"}, {"cap"}, {"applet", "q"}},
                    d \in {{}, {"cap"}, {"p", "q"}}}

ClashTrees ==
  {<<Desktop(g, {}), r, s>> : g \in {{}, {"applet"}}, r, s \in AnyRecipe}
  \cup {<<r, s, Desktop({"applet"}, {"cap"})>> : r, s \in AnyRecipe}

\* Trees that fail before the graph, or for want of a bundle.
OddTrees ==
  {<<>>, <<Plain("p", {}, {})>>, <<Plain("desktop", {"applet"}, {})>>,
   <<Desktop({"applet"}, {}), [Plain("p", {}, {}) EXCEPT !.valid = FALSE]>>}

MCTrees == GraphTrees \cup ClashTrees \cup OddTrees

Pinned == [name |-> "applet", required |-> TRUE]

GoodLock == <<Pinned>>
BadLocks == {<<>>, <<Pinned, Pinned>>, <<[Pinned EXCEPT !.required = FALSE]>>,
             <<Pinned, [Pinned EXCEPT !.name = "cap"]>>}

MCLocks == {GoodLock} \cup BadLocks
=============================================================================
