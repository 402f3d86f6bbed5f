------------------------ MODULE AggregateStatusProofs ------------------------
(***************************************************************************)
(* Proofs about module AggregateStatus, for any workflows, any number of   *)
(* jobs, pushes and conclusions: the type invariant, and that a settled    *)
(* head shows what is, but for the two ways a job can spoil it.            *)
(***************************************************************************)
EXTENDS AggregateStatus, FiniteSetTheorems, WellFoundedInduction, TLAPS

Typed ==
  /\ TypeOK
  /\ \A a \in Jobs : sha[a] <= head
  /\ \A a \in Jobs : pc[a] \in {"idle", "queued"} => found[a] = {} /\ todo[a] = {}

LEMMA TriggerTyped ==
  ASSUME Typed, NEW a \in Jobs, NEW c \in Commits, Trigger(a, c)
  PROVE  /\ pc' = [pc EXCEPT ![a] = "queued"]
         /\ pc' \in [Jobs -> {"idle", "queued", "loop", "post"}]
         /\ sha' = [sha EXCEPT ![a] = c] /\ sha' \in [Jobs -> Commits]
         /\ jobs' \in 0..MaxJobs
         /\ broken' \subseteq Commits /\ overlapped' \subseteq Commits
         /\ UNCHANGED <<status, todo, seen, found, obsolete>>
         /\ \A o \in Jobs : pc'[o] = "post" => seen'[o] # Unobserved
         /\ \A o \in Jobs : pc'[o] \in {"idle", "queued"} => found'[o] = {} /\ todo'[o] = {}
<1>1. jobs' \in 0..MaxJobs
  BY AggregateStatusAssumption DEF Trigger, Typed, TypeOK
<1>2. overlapped' \subseteq Commits
  BY DEF Trigger, Typed, TypeOK
<1>3. /\ pc[a] = "idle" /\ pc' = [pc EXCEPT ![a] = "queued"]
      /\ UNCHANGED <<status, todo, seen, found, obsolete>>
  BY DEF Trigger, IsFree, Goto, memory
<1>4. \A o \in Jobs : pc'[o] = "post" => seen'[o] # Unobserved
  BY <1>3 DEF Typed, TypeOK
<1>5. \A o \in Jobs : pc'[o] \in {"idle", "queued"} => found'[o] = {} /\ todo'[o] = {}
  BY <1>3 DEF Typed, TypeOK
<1> QED
  BY <1>1, <1>2, <1>3, <1>4, <1>5 DEF Trigger, Typed, TypeOK

LEMMA ExitTyped ==
  ASSUME Typed, NEW a \in Jobs, Exit(a)
  PROVE  /\ pc' \in [Jobs -> {"idle", "queued", "loop", "post"}]
         /\ sha' \in [Jobs -> Commits] /\ (\A o \in Jobs : sha'[o] <= head)
         /\ todo' \in [Jobs -> SUBSET Workflows]
         /\ seen' \in [Jobs -> Runs]
         /\ found' \in [Jobs -> SUBSET States]
         /\ \A o \in Jobs : pc'[o] = "post" => seen'[o] # Unobserved
         /\ \A o \in Jobs : pc'[o] \in {"idle", "queued"} => found'[o] = {} /\ todo'[o] = {}
BY AggregateStatusAssumption DEF Exit, Goto, Typed, TypeOK, Runs, Commits

LEMMA StateTyped == \A r : State(r) \in States
BY DEF State, States

LEMMA SummaryTyped == \A S : Summary(S) \in States
BY DEF Summary, States

LEMMA PostTyped ==
  ASSUME Typed, NEW a \in Jobs, NEW x \in Contexts, NEW state \in States,
         PostStatus(a, x, state)
  PROVE  /\ status' \in [Commits -> [Contexts -> States \cup {"none"}]]
         /\ obsolete' \subseteq Commits \X Contexts
<1>1. sha[a] \in Commits
  BY DEF Typed, TypeOK
<1>2. obsolete' \subseteq Commits \X Contexts
  <2>1. CASE state = Truth(x)
    BY <2>1 DEF PostStatus, Typed, TypeOK
  <2>2. CASE state # Truth(x)
    BY <1>1, <2>2 DEF PostStatus, Typed, TypeOK
  <2> QED
    BY <2>1, <2>2
<1> QED
  BY <1>1, <1>2 DEF PostStatus, Typed, TypeOK

LEMMA TypedInit == Init => Typed
BY AggregateStatusAssumption DEF Init, Typed, TypeOK, Commits, Contexts, Runs, States

LEMMA TypedStep == Typed /\ [Next]_vars => Typed'
<1> SUFFICES ASSUME Typed, [Next]_vars PROVE Typed'
  OBVIOUS
<1> USE AggregateStatusAssumption DEF memory, history
<1>h. head \in Nat /\ head \in Commits /\ Commits = 0..MaxPushes /\ \A a \in Jobs : sha[a] \in Nat
  BY DEF Typed, TypeOK, Commits
<1>1. ASSUME NEW a \in Jobs, Push(a) PROVE Typed'
  <2>1. head' = head + 1 /\ head' \in Commits /\ Trigger(a, head + 1)
    BY <1>1, <1>h DEF Push
  <2>2. latest' \in [Workflows -> Runs]
    BY <1>1 DEF Push, Typed, TypeOK, Runs
  <2>3. /\ pc' = [pc EXCEPT ![a] = "queued"]
        /\ pc' \in [Jobs -> {"idle", "queued", "loop", "post"}]
        /\ sha' = [sha EXCEPT ![a] = head'] /\ sha' \in [Jobs -> Commits]
        /\ jobs' \in 0..MaxJobs
        /\ broken' \subseteq Commits /\ overlapped' \subseteq Commits
        /\ UNCHANGED <<status, todo, seen, found, obsolete>>
        /\ \A o \in Jobs : pc'[o] = "post" => seen'[o] # Unobserved
        /\ \A o \in Jobs : pc'[o] \in {"idle", "queued"} => found'[o] = {} /\ todo'[o] = {}
    BY <2>1, TriggerTyped
  <2>4. \A o \in Jobs : sha'[o] <= head'
    BY <1>h, <2>1, <2>3 DEF Typed, TypeOK
  <2> QED
    BY <2>1, <2>2, <2>3, <2>4 DEF Typed, TypeOK
<1>2. ASSUME NEW a \in Jobs, Trigger(a, head), UNCHANGED head, latest' \in [Workflows -> Runs]
      PROVE  Typed'
  <2>1. /\ pc' = [pc EXCEPT ![a] = "queued"]
        /\ pc' \in [Jobs -> {"idle", "queued", "loop", "post"}]
        /\ sha' = [sha EXCEPT ![a] = head] /\ sha' \in [Jobs -> Commits]
        /\ jobs' \in 0..MaxJobs
        /\ broken' \subseteq Commits /\ overlapped' \subseteq Commits
        /\ UNCHANGED <<status, todo, seen, found, obsolete>>
        /\ \A o \in Jobs : pc'[o] = "post" => seen'[o] # Unobserved
        /\ \A o \in Jobs : pc'[o] \in {"idle", "queued"} => found'[o] = {} /\ todo'[o] = {}
    BY <1>h, <1>2, TriggerTyped
  <2>2. \A o \in Jobs : sha'[o] <= head'
    BY <1>h, <1>2, <2>1 DEF Typed, TypeOK
  <2> QED
    BY <1>2, <2>1, <2>2 DEF Typed, TypeOK
<1>3. ASSUME NEW a \in Jobs, Dispatch(a) PROVE Typed'
  BY <1>2, <1>3 DEF Dispatch, Typed, TypeOK
<1>4. ASSUME NEW a \in Jobs, NEW w \in Workflows, NEW k \in Conclusions, CompleteRun(a, w, k)
      PROVE  Typed'
  BY <1>2, <1>4 DEF CompleteRun, Typed, TypeOK, Runs
<1>5. ASSUME NEW w \in Workflows, StartRun(w) PROVE Typed'
  BY <1>5 DEF StartRun, Typed, TypeOK, Runs
<1>6. ASSUME NEW a \in Jobs, List(a) \/ ListFails(a) PROVE Typed'
  BY <1>6 DEF List, ListFails, Goto, Typed, TypeOK
<1>7. ASSUME NEW a \in Jobs, NEW w \in Workflows, Read(a, w) PROVE Typed'
  BY <1>7 DEF Read, Goto, Typed, TypeOK
<1>8. ASSUME NEW a \in Jobs, NEW w \in Workflows, Post(a, w) PROVE Typed'
  <2>1. w \in Contexts /\ State(seen[a]) \in States
    BY StateTyped DEF Contexts
  <2>2. /\ status' \in [Commits -> [Contexts -> States \cup {"none"}]]
        /\ obsolete' \subseteq Commits \X Contexts
    BY <1>8, <2>1, PostTyped DEF Post
  <2>3. found' \in [Jobs -> SUBSET States]
    BY <1>8, <2>1 DEF Post, Typed, TypeOK
  <2> QED
    BY <1>8, <2>2, <2>3 DEF Post, Goto, Typed, TypeOK, Runs
<1>9. ASSUME NEW a \in Jobs, PostAggregate(a) PROVE Typed'
  <2>1. /\ status' \in [Commits -> [Contexts -> States \cup {"none"}]]
        /\ obsolete' \subseteq Commits \X Contexts
    BY <1>9, PostTyped, SummaryTyped DEF PostAggregate, Contexts
  <2> QED
    BY <1>9, <2>1, ExitTyped DEF PostAggregate, Typed, TypeOK
<1>10. ASSUME NEW a \in Jobs, BreakOff(a) PROVE Typed'
  BY <1>10, ExitTyped DEF BreakOff, Typed, TypeOK
<1>11. CASE UNCHANGED vars
  BY <1>11 DEF vars, Typed, TypeOK
<1> QED
  BY <1>1, <1>3, <1>4, <1>5, <1>6, <1>7, <1>8, <1>9, <1>10, <1>11 DEF Next, Step

\* Every state is well typed.
THEOREM TypeCorrect == Spec => []TypeOK
<1>1. Typed => TypeOK
  BY DEF Typed
<1> QED
  BY <1>1, TypedInit, TypedStep, PTL DEF Spec

-----------------------------------------------------------------------------
(***************************************************************************)
(* Every context that is not shown as it is, is owed by a job of the head. *)
(***************************************************************************)

AtHead(a) == pc[a] # "idle" /\ sha[a] = head

\* Job a has yet to post context x on the head.
WillPost(a, x) == AtHead(a) /\ (x = Aggregate \/ pc[a] = "queued" \/ x \in todo[a])

Quiet == \A w \in Workflows : latest[w] # Active

Shown(x) ==
  \/ status[head][x] = Truth(x)
  \/ head \in overlapped /\ <<head, x>> \in obsolete
  \/ head \in broken
  \/ \E a \in Jobs : WillPost(a, x)

WorkflowsShown ==
  \A w \in Workflows : latest[w] \notin {Unobserved, Active} => Shown(w)

AggregateShown == Quiet /\ jobs > 0 => Shown(Aggregate)

\* What a job of the head has read, and not yet posted, is so unless the run
\* ended since, which triggered another job.
ReadsAreTrue ==
  \A a \in Jobs, w \in Workflows :
    AtHead(a) /\ pc[a] = "post" /\ IsNext(a, w) /\ latest[w] # Active =>
      seen[a] = latest[w] \/ head \in overlapped

\* And what it has posted makes the summary of those it is done with.
Done(a) == {State(latest[w]) : w \in Observed \ todo[a]}
FoundIsTrue ==
  \A a \in Jobs :
    AtHead(a) /\ pc[a] # "queued" /\ Quiet =>
      found[a] = Done(a) \/ head \in overlapped \/ head \in broken

Inv == Typed /\ WorkflowsShown /\ AggregateShown /\ ReadsAreTrue /\ FoundIsTrue

LEMMA SummaryIsTruth == Summary({State(latest[w]) : w \in Observed}) = Truth(Aggregate)
<1> DEFINE S == {State(latest[w]) : w \in Observed}
<1>1. S = {} <=> Observed = {}
  OBVIOUS
<1>2. S \cap {"failure", "error"} # {}
        <=> \E w \in Observed : latest[w] \notin {Active, "success", "neutral", "skipped"}
  BY DEF State, Active
<1>3. "pending" \in S <=> \E w \in Observed : latest[w] = Active
  BY DEF State, Active
<1> HIDE DEF S
<1>4. Summary(S) = Truth(Aggregate)
  BY <1>1, <1>2, <1>3 DEF Summary, Truth
<1> QED
  BY <1>4 DEF S

\* A job that is triggered at the head owes every context, and marks every
\* other job of the head as overlapped.
LEMMA TriggerOwes ==
  ASSUME Inv, NEW a \in Jobs, NEW c \in Commits, Trigger(a, c), head' = c, Typed',
         c # head => c > head
  PROVE  WorkflowsShown' /\ AggregateShown' /\ ReadsAreTrue' /\ FoundIsTrue'
<1>1. /\ pc[a] = "idle" /\ pc' = [pc EXCEPT ![a] = "queued"] /\ sha' = [sha EXCEPT ![a] = c]
      /\ \A o \in Jobs : pc[o] # "idle" /\ sha[o] = c => c \in overlapped'
  BY TriggerTyped DEF Inv, Trigger, IsFree
<1>2. AtHead(a)' /\ pc'[a] = "queued"
  BY <1>1 DEF AtHead, Inv, Typed, TypeOK
<1>3. \A x : Shown(x)'
  BY <1>2 DEF Shown, WillPost
<1>4. \A o \in Jobs : AtHead(o)' /\ pc'[o] # "queued" => head' \in overlapped'
  BY <1>1 DEF AtHead, Inv, Typed, TypeOK
<1> QED
  BY <1>3, <1>4 DEF WorkflowsShown, AggregateShown, ReadsAreTrue, FoundIsTrue

\* The end of a job takes nothing from what others owe.
LEMMA ExitKeeps ==
  ASSUME Inv, NEW a \in Jobs, Exit(a), UNCHANGED <<head, latest, overlapped, jobs>>,
         broken \subseteq broken'
  PROVE  /\ ReadsAreTrue' /\ FoundIsTrue'
         /\ \A o \in Jobs \ {a} : \A x : WillPost(o, x)' <=> WillPost(o, x)
<1>1. /\ pc'[a] = "idle"
      /\ \A o \in Jobs \ {a} :
           /\ pc'[o] = pc[o] /\ sha'[o] = sha[o] /\ todo'[o] = todo[o]
           /\ seen'[o] = seen[o] /\ found'[o] = found[o]
  BY DEF Exit, Goto, Inv, Typed, TypeOK
<1>2. \A o \in Jobs \ {a} : (AtHead(o)' <=> AtHead(o)) /\ Done(o)' = Done(o)
  BY <1>1 DEF AtHead, Done, Observed
<1>3. ~AtHead(a)'
  BY <1>1 DEF AtHead
<1>4. ReadsAreTrue'
  BY <1>1, <1>2, <1>3 DEF ReadsAreTrue, IsNext, Inv
<1>5. FoundIsTrue'
  BY <1>1, <1>2, <1>3 DEF FoundIsTrue, Quiet, Inv
<1> QED
  BY <1>1, <1>2, <1>4, <1>5 DEF WillPost

LEMMA InvInit == Init => Inv
<1> SUFFICES ASSUME Init PROVE Inv
  OBVIOUS
<1>1. Typed
  BY TypedInit
<1> QED
  BY <1>1 DEF Init, Inv, WorkflowsShown, AggregateShown, ReadsAreTrue, FoundIsTrue, AtHead

LEMMA InvStep == Inv /\ [Next]_vars => Inv'
<1> SUFFICES ASSUME Inv, [Next]_vars PROVE Inv'
  OBVIOUS
<1>t. Typed /\ Typed'
  BY TypedStep DEF Inv
<1> DEFINE Goal == WorkflowsShown' /\ AggregateShown' /\ ReadsAreTrue' /\ FoundIsTrue'
<1> USE AggregateStatusAssumption DEF memory, history
<1>1. ASSUME NEW a \in Jobs, Push(a) PROVE Goal
  <2>1. head + 1 \in Commits /\ head + 1 > head
    BY <1>1, <1>t DEF Push, Typed, TypeOK, Commits
  <2> QED
    BY <1>1, <1>t, <2>1, TriggerOwes DEF Push
<1>2. ASSUME NEW a \in Jobs, Trigger(a, head), UNCHANGED head PROVE Goal
  BY <1>2, <1>t, TriggerOwes DEF Typed, TypeOK
<1>3. ASSUME NEW w \in Workflows, StartRun(w) PROVE Goal
  <2>1. latest' = [latest EXCEPT ![w] = Active] /\ latest'[w] = Active
        /\ UNCHANGED <<head, status, pc, sha, memory, jobs, history, obsolete>>
    BY <1>3, <1>t DEF StartRun, Typed, TypeOK
  <2>2. ~Quiet'
    BY <2>1 DEF Quiet
  <2>3. ASSUME NEW v \in Workflows, latest'[v] # Active
        PROVE  latest'[v] = latest[v] /\ (Shown(v)' <=> Shown(v))
    BY <1>t, <2>1, <2>3 DEF Shown, Truth, WillPost, AtHead, Typed, TypeOK
  <2>4. WorkflowsShown'
    BY <2>3 DEF WorkflowsShown, Inv
  <2>5. ReadsAreTrue'
    BY <2>1, <2>3 DEF ReadsAreTrue, Inv, AtHead, IsNext
  <2> QED
    BY <2>2, <2>4, <2>5 DEF AggregateShown, FoundIsTrue
<1>4. ASSUME NEW a \in Jobs, List(a) PROVE Goal
  <2>1. /\ pc[a] = "queued" /\ pc' = [pc EXCEPT ![a] = "loop"]
        /\ todo' = [todo EXCEPT ![a] = Workflows]
        /\ UNCHANGED <<head, latest, status, sha, seen, found, jobs, history, obsolete>>
    BY <1>4 DEF List, Goto
  <2>2. \A x \in Contexts, o \in Jobs : WillPost(o, x) => WillPost(o, x)'
    BY <1>t, <2>1 DEF WillPost, AtHead, Typed, TypeOK, Contexts
  <2>3. \A x \in Contexts : Shown(x) => Shown(x)'
    BY <2>1, <2>2 DEF Shown, Truth, Observed
  <2>4. WorkflowsShown' /\ AggregateShown'
    BY <2>1, <2>3 DEF WorkflowsShown, AggregateShown, Quiet, Inv, Contexts
  <2>5. ReadsAreTrue'
    BY <1>t, <2>1 DEF ReadsAreTrue, Inv, AtHead, IsNext, Typed, TypeOK
  <2>6. FoundIsTrue'
    <3> SUFFICES ASSUME NEW o \in Jobs, AtHead(o)', pc'[o] # "queued", Quiet'
                 PROVE  found'[o] = Done(o)' \/ head' \in overlapped' \/ head' \in broken'
      BY DEF FoundIsTrue
    <3>1. CASE o = a
      <4>1. found[a] = {}
        BY <1>t, <2>1 DEF Typed
      <4> QED
        BY <1>t, <2>1, <3>1, <4>1 DEF Done, Observed, Typed, TypeOK
    <3>2. CASE o # a
      BY <1>t, <2>1, <3>2 DEF Inv, FoundIsTrue, AtHead, Quiet, Done, Observed, Typed, TypeOK
    <3> QED
      BY <3>1, <3>2
  <2> QED
    BY <2>4, <2>5, <2>6
<1>5. ASSUME NEW a \in Jobs, ListFails(a) PROVE Goal
  <2>1. /\ pc[a] = "queued" /\ pc' = [pc EXCEPT ![a] = "loop"]
        /\ broken' = broken \cup {sha[a]}
        /\ UNCHANGED <<head, latest, status, sha, memory, jobs, overlapped, obsolete>>
    BY <1>5 DEF ListFails, Goto
  <2>2. \A o \in Jobs \ {a} : \A x : WillPost(o, x) => WillPost(o, x)'
    BY <1>t, <2>1 DEF WillPost, AtHead, Typed, TypeOK
  <2>3. \A x : WillPost(a, x) => head' \in broken'
    BY <2>1 DEF WillPost, AtHead
  <2>4. \A x : Shown(x) => Shown(x)'
    BY <2>1, <2>2, <2>3 DEF Shown, Truth, Observed
  <2>5. WorkflowsShown' /\ AggregateShown'
    BY <2>1, <2>4 DEF WorkflowsShown, AggregateShown, Quiet, Inv
  <2>6. ReadsAreTrue'
    BY <1>t, <2>1 DEF ReadsAreTrue, Inv, AtHead, IsNext, Typed, TypeOK
  <2>7. FoundIsTrue'
    BY <1>t, <2>1 DEF FoundIsTrue, Inv, AtHead, Quiet, Done, Observed, Typed, TypeOK
  <2> QED
    BY <2>5, <2>6, <2>7
<1>6. ASSUME NEW a \in Jobs, NEW w \in Workflows, Read(a, w) PROVE Goal
  <2>1. /\ pc[a] = "loop" /\ IsNext(a, w)
        /\ UNCHANGED <<head, latest, status, sha, found, jobs, history, obsolete>>
    BY <1>6 DEF Read
  <2>2. CASE latest[w] = Unobserved /\ todo' = [todo EXCEPT ![a] = @ \ {w}]
             /\ UNCHANGED <<pc, seen>>
    <3>1. \A x : \A o \in Jobs : x # w /\ WillPost(o, x) => WillPost(o, x)'
      BY <1>t, <2>1, <2>2 DEF WillPost, AtHead, Typed, TypeOK
    <3>2. \A x : x # w /\ Shown(x) => Shown(x)'
      BY <2>1, <3>1 DEF Shown, Truth, Observed
    <3>3. WorkflowsShown' /\ AggregateShown'
      BY <2>1, <2>2, <3>2 DEF WorkflowsShown, AggregateShown, Quiet, Inv
    <3>4. ReadsAreTrue'
      BY <1>t, <2>1, <2>2 DEF ReadsAreTrue, Inv, AtHead, IsNext, Typed, TypeOK
    <3>5. \A o \in Jobs : Done(o)' = Done(o)
      BY <1>t, <2>1, <2>2 DEF Done, Observed, Typed, TypeOK
    <3>6. FoundIsTrue'
      BY <2>1, <2>2, <3>5 DEF FoundIsTrue, Inv, AtHead, Quiet
    <3> QED
      BY <3>3, <3>4, <3>6
  <2>3. CASE seen' = [seen EXCEPT ![a] = latest[w]] /\ pc' = [pc EXCEPT ![a] = "post"]
             /\ UNCHANGED todo
    <3>1. \A x : \A o \in Jobs : WillPost(o, x) => WillPost(o, x)'
      BY <1>t, <2>1, <2>3 DEF WillPost, AtHead, Typed, TypeOK
    <3>2. \A x : Shown(x) => Shown(x)'
      BY <2>1, <3>1 DEF Shown, Truth, Observed
    <3>3. WorkflowsShown' /\ AggregateShown'
      BY <2>1, <3>2 DEF WorkflowsShown, AggregateShown, Quiet, Inv
    <3>4. \A v \in Workflows : IsNext(a, v) => v = w
      BY <2>1 DEF IsNext
    <3>5. ReadsAreTrue'
      BY <1>t, <2>1, <2>3, <3>4 DEF ReadsAreTrue, Inv, AtHead, IsNext, Typed, TypeOK
    <3>6. FoundIsTrue'
      BY <1>t, <2>1, <2>3 DEF FoundIsTrue, Inv, AtHead, Quiet, Done, Observed, Typed, TypeOK
    <3> QED
      BY <3>3, <3>5, <3>6
  <2> QED
    BY <1>6, <2>2, <2>3 DEF Read, Goto
<1>7. ASSUME NEW a \in Jobs, NEW w \in Workflows, Post(a, w) PROVE Goal
  <2>1. /\ pc[a] = "post" /\ IsNext(a, w) /\ PostStatus(a, w, State(seen[a]))
        /\ found' = [found EXCEPT ![a] = @ \cup {State(seen[a])}]
        /\ todo' = [todo EXCEPT ![a] = @ \ {w}]
        /\ seen' = [seen EXCEPT ![a] = Unobserved]
        /\ pc' = [pc EXCEPT ![a] = "loop"]
        /\ UNCHANGED <<head, latest, sha, jobs, history>>
    BY <1>7 DEF Post, Goto
  <2>2. \A x : \A o \in Jobs : (o # a \/ x # w) /\ WillPost(o, x) => WillPost(o, x)'
    BY <1>t, <2>1 DEF WillPost, AtHead, Typed, TypeOK
  <2>3. ASSUME NEW x \in Contexts, x # w \/ ~AtHead(a), Shown(x) PROVE Shown(x)'
    <3>1. <<sha[a], w>> # <<head, x>> \/ sha[a] # head
      BY <2>3, <2>1 DEF AtHead
    <3>2. status'[head][x] = status[head][x]
      BY <1>t, <2>1, <2>3 DEF PostStatus, AtHead, Typed, TypeOK
    <3>3. <<head, x>> \in obsolete => <<head, x>> \in obsolete'
      BY <1>t, <2>1, <2>3 DEF PostStatus, AtHead, Typed, TypeOK
    <3>4. \A o \in Jobs : WillPost(o, x) => WillPost(o, x)'
      BY <2>2, <2>3 DEF WillPost
    <3> QED
      BY <2>1, <2>3, <3>2, <3>3, <3>4 DEF Shown, Truth, Observed
  <2>4. ASSUME AtHead(a), latest[w] \notin {Unobserved, Active} PROVE Shown(w)'
    <3>1. seen[a] = latest[w] \/ head \in overlapped
      BY <2>1, <2>4 DEF Inv, ReadsAreTrue
    <3>2. w # Aggregate /\ w \in Contexts
      BY DEF Contexts
    <3>3. status'[head][w] = State(seen[a])
      BY <1>t, <2>1, <2>4, <3>2 DEF PostStatus, AtHead, Typed, TypeOK
    <3>4. State(seen[a]) # Truth(w) => <<head, w>> \in obsolete'
      BY <2>1, <2>4 DEF PostStatus, AtHead
    <3>5. Truth(w)' = Truth(w) /\ Truth(w) = State(latest[w])
      BY <2>1, <3>2 DEF Truth
    <3> QED
      BY <2>1, <3>1, <3>3, <3>4, <3>5 DEF Shown
  <2>5. WorkflowsShown'
    <3> SUFFICES ASSUME NEW v \in Workflows, latest'[v] \notin {Unobserved, Active}
                 PROVE  Shown(v)'
      BY DEF WorkflowsShown
    <3>1. v \in Contexts /\ Shown(v)
      BY <2>1 DEF Inv, WorkflowsShown, Contexts
    <3> QED
      BY <2>1, <2>3, <2>4, <3>1
  <2>6. AggregateShown'
    BY <2>1, <2>3 DEF Inv, AggregateShown, Quiet, Contexts
  <2>7. ReadsAreTrue'
    BY <1>t, <2>1 DEF ReadsAreTrue, Inv, AtHead, IsNext, Typed, TypeOK
  <2>8. FoundIsTrue'
    <3> SUFFICES ASSUME NEW o \in Jobs, AtHead(o)', pc'[o] # "queued", Quiet'
                 PROVE  found'[o] = Done(o)' \/ head' \in overlapped' \/ head' \in broken'
      BY DEF FoundIsTrue
    <3>1. AtHead(o) /\ pc[o] # "queued" /\ Quiet
      BY <1>t, <2>1 DEF AtHead, Quiet, Typed, TypeOK
    <3>2. found[o] = Done(o) \/ head \in overlapped \/ head \in broken
      BY <3>1 DEF Inv, FoundIsTrue
    <3>3. CASE o = a /\ head \notin overlapped /\ head \notin broken
      <4>1. seen[a] = latest[w]
        BY <2>1, <3>1, <3>3 DEF Inv, ReadsAreTrue, Quiet
      <4>2. w \in Observed /\ w \in todo[a]
        BY <1>t, <2>1, <4>1 DEF Observed, Typed, TypeOK, IsNext
      <4>3. Observed \ (todo[a] \ {w}) = (Observed \ todo[a]) \cup {w}
        BY <4>2
      <4>4. Done(a)' = Done(a) \cup {State(latest[w])}
        BY <1>t, <2>1, <4>3 DEF Done, Observed, Typed, TypeOK
      <4> QED
        BY <1>t, <2>1, <3>2, <3>3, <4>1, <4>4 DEF Typed, TypeOK
    <3>4. CASE o # a
      BY <1>t, <2>1, <3>2, <3>4 DEF Done, Observed, Typed, TypeOK
    <3> QED
      BY <2>1, <3>3, <3>4
  <2> QED
    BY <2>5, <2>6, <2>7, <2>8
<1>8. ASSUME NEW a \in Jobs, PostAggregate(a) PROVE Goal
  <2>1. /\ pc[a] = "loop" /\ todo[a] = {} /\ Exit(a)
        /\ PostStatus(a, Aggregate, Summary(found[a]))
        /\ UNCHANGED <<head, latest, jobs, history>>
    BY <1>8 DEF PostAggregate
  <2>2. /\ ReadsAreTrue' /\ FoundIsTrue'
        /\ \A o \in Jobs \ {a} : \A x : WillPost(o, x)' <=> WillPost(o, x)
    BY <2>1, ExitKeeps
  <2>3. ASSUME NEW x \in Contexts, x # Aggregate \/ ~AtHead(a), Shown(x) PROVE Shown(x)'
    <3>1. status'[head][x] = status[head][x]
      BY <1>t, <2>1, <2>3 DEF PostStatus, AtHead, Typed, TypeOK
    <3>2. <<head, x>> \in obsolete => <<head, x>> \in obsolete'
      BY <1>t, <2>1, <2>3 DEF PostStatus, AtHead, Typed, TypeOK
    <3>3. ~WillPost(a, x)
      BY <2>1, <2>3 DEF WillPost
    <3> QED
      BY <2>1, <2>2, <2>3, <3>1, <3>2, <3>3 DEF Shown, Truth, Observed
  <2>4. WorkflowsShown'
    BY <2>1, <2>3 DEF Inv, WorkflowsShown, Contexts
  <2>5. ASSUME AtHead(a), Quiet PROVE Shown(Aggregate)'
    <3>1. CASE found[a] = Done(a)
      <4>1. Summary(found[a]) = Truth(Aggregate)
        BY <2>1, <3>1, SummaryIsTruth DEF Done
      <4>2. status'[head][Aggregate] = Truth(Aggregate)
        BY <1>t, <2>1, <2>5, <4>1 DEF PostStatus, AtHead, Typed, TypeOK, Contexts
      <4> QED
        BY <2>1, <4>2 DEF Shown, Truth, Observed
    <3>2. CASE head \in overlapped
      <4>1. status'[head][Aggregate] = Summary(found[a])
        BY <1>t, <2>1, <2>5 DEF PostStatus, AtHead, Typed, TypeOK, Contexts
      <4>2. Summary(found[a]) # Truth(Aggregate) => <<head, Aggregate>> \in obsolete'
        BY <2>1, <2>5 DEF PostStatus, AtHead
      <4> QED
        BY <2>1, <3>2, <4>1, <4>2 DEF Shown, Truth, Observed
    <3>3. CASE head \in broken
      BY <2>1, <3>3 DEF Shown
    <3> QED
      BY <2>1, <2>5, <3>1, <3>2, <3>3 DEF Inv, FoundIsTrue
  <2>6. AggregateShown'
    BY <2>1, <2>3, <2>5 DEF Inv, AggregateShown, Quiet, Contexts
  <2> QED
    BY <2>2, <2>4, <2>6
<1>9. ASSUME NEW a \in Jobs, BreakOff(a) PROVE Goal
  <2>1. /\ Exit(a) /\ broken' = broken \cup {sha[a]}
        /\ UNCHANGED <<head, latest, status, jobs, overlapped, obsolete>>
    BY <1>9 DEF BreakOff
  <2>2. /\ ReadsAreTrue' /\ FoundIsTrue'
        /\ \A o \in Jobs \ {a} : \A x : WillPost(o, x)' <=> WillPost(o, x)
    BY <2>1, ExitKeeps
  <2>3. \A x : WillPost(a, x) => head' \in broken'
    BY <2>1 DEF WillPost, AtHead
  <2>4. \A x : Shown(x) => Shown(x)'
    BY <2>1, <2>2, <2>3 DEF Shown, Truth, Observed
  <2> QED
    BY <2>1, <2>2, <2>4 DEF Inv, WorkflowsShown, AggregateShown, Quiet
<1>10. ASSUME UNCHANGED vars PROVE Goal
  <2>1. UNCHANGED <<head, latest, status, pc, sha, todo, seen, found, jobs, broken,
                    overlapped, obsolete>>
    BY <1>10 DEF vars
  <2>2. \A x : Shown(x)' <=> Shown(x)
    BY <2>1 DEF Shown, Truth, Observed, WillPost, AtHead
  <2>3. \A a \in Jobs : (AtHead(a)' <=> AtHead(a)) /\ Done(a)' = Done(a)
    BY <2>1 DEF AtHead, Done, Observed
  <2>4. WorkflowsShown' /\ AggregateShown'
    BY <2>1, <2>2 DEF Inv, WorkflowsShown, AggregateShown, Quiet
  <2>5. ReadsAreTrue' /\ FoundIsTrue'
    BY <2>1, <2>3 DEF Inv, ReadsAreTrue, FoundIsTrue, Quiet, IsNext
  <2> QED
    BY <2>4, <2>5
<1> HIDE DEF Goal
<1>11. ASSUME NEW a \in Jobs, Step(a) PROVE Goal
  BY <1>4, <1>5, <1>6, <1>7, <1>8, <1>9, <1>11 DEF Step
<1>12. ASSUME NEW a \in Jobs, Dispatch(a) PROVE Goal
  BY <1>2, <1>12 DEF Dispatch
<1>13. ASSUME NEW a \in Jobs, NEW w \in Workflows, NEW k \in Conclusions, CompleteRun(a, w, k)
       PROVE  Goal
  BY <1>2, <1>13 DEF CompleteRun
<1>14. Goal
  BY <1>1, <1>3, <1>10, <1>11, <1>12, <1>13 DEF Next
<1> QED
  BY <1>t, <1>14 DEF Inv, Goal

\* A settled head of main shows every workflow and their summary as they are,
\* but for a job that broke off or one that was overtaken by another.
THEOREM SettledStatusIsTrue == Spec => []SettledIsTrue
<1>1. Inv => SettledIsTrue
  <2> SUFFICES ASSUME Inv, \A a \in Jobs : pc[a] = "idle", Quiet, head \notin broken,
                      jobs > 0, NEW x \in Observed \cup {Aggregate}
               PROVE  \/ status[head][x] = Truth(x)
                      \/ head \in overlapped /\ <<head, x>> \in obsolete
    BY DEF SettledIsTrue, Quiet
  <2>1. Shown(x)
    BY DEF Inv, WorkflowsShown, AggregateShown, Observed, Quiet
  <2> QED
    BY <2>1 DEF Shown, WillPost, AtHead
<1> QED
  BY <1>1, InvInit, InvStep, PTL DEF Spec

-----------------------------------------------------------------------------
(***************************************************************************)
(* Why a conclusion comes to be shown.  ConclusionIsShown says it under    *)
(* fairness; it rests on three facts of single states and steps: what is   *)
(* not shown is owed by a live job, a live job has a next step, and only   *)
(* its own steps change how many it has left.                              *)
(***************************************************************************)

\* The conclusion of a latest run is shown on the head, or some job will show it,
\* or one of the two ways to spoil it has happened.
ConclusionIsOwed == \A w \in Workflows : latest[w] \in Conclusions => Shown(w)

\* What a job in the loop has to do for k workflows.
Left(a) ==
  CASE pc[a] = "idle" -> 0
    [] pc[a] = "queued" -> 2 * Cardinality(Workflows) + 2
    [] pc[a] = "loop" -> 2 * Cardinality(todo[a]) + 1
    [] OTHER -> 2 * Cardinality(todo[a])

\* A job takes two steps for a workflow and two of its own, and no push, trigger or
\* other job gives it more.
JobsAreBounded ==
  /\ [](\A a \in Jobs : Left(a) \in 0..(2 * Cardinality(Workflows) + 2))
  /\ [][\A a \in Jobs : pc[a] # "idle" =>
          /\ Left(a)' <= Left(a)
          /\ Step(a) => Left(a)' < Left(a)]_vars

\* A guard of a step other than breaking off.
Ready(a) ==
  \/ pc[a] = "queued"
  \/ pc[a] = "loop" /\ todo[a] = {}
  \/ pc[a] \in {"loop", "post"} /\ \E w \in Workflows : IsNext(a, w)

NeverWaits == \A a \in Jobs : pc[a] # "idle" => Ready(a)

\* A job that is to post has a workflow to post.
PostInv == \A a \in Jobs : pc[a] = "post" => todo[a] # {}

LEMMA LeastWorkflow ==
  ASSUME NEW S, S \subseteq Nat, S # {}
  PROVE  \E w \in S : \A v \in S : w <= v
<1>1. PICK w \in S : \A v \in S : ~(<<v, w>> \in OpToRel(<, Nat))
  BY NatLessThanWellFounded, WFMin
<1>2. \A v \in S : ~(v < w)
  BY <1>1 DEF OpToRel
<1> QED
  BY <1>2

LEMMA TodoFinite ==
  ASSUME Typed, NEW a \in Jobs
  PROVE  /\ IsFiniteSet(todo[a]) /\ Cardinality(todo[a]) \in Nat
         /\ Cardinality(todo[a]) <= Cardinality(Workflows) /\ Cardinality(Workflows) \in Nat
<1>1. todo[a] \in SUBSET Workflows
  BY DEF Typed, TypeOK
<1> QED
  BY <1>1, FS_Subset, FS_CardinalityType, AggregateStatusAssumption

LEMMA LeftBounded ==
  ASSUME Typed, NEW a \in Jobs
  PROVE  Left(a) \in 0..(2 * Cardinality(Workflows) + 2)
<1> DEFINE k == Cardinality(todo[a])
           n == Cardinality(Workflows)
<1>1. k \in Nat /\ n \in Nat /\ k <= n
  BY TodoFinite
<1>2. Left(a) \in {0, 2 * n + 2, 2 * k + 1, 2 * k}
  BY DEF Left
<1> HIDE DEF k, n
<1> QED
  BY <1>1, <1>2 DEF n

\* A step of a job's own leads on, and so does what another does to it.
Untouched(a) == pc'[a] = pc[a] /\ todo'[a] = todo[a]
Leads(a) ==
  \/ pc'[a] = "idle"
  \/ pc[a] = "queued" /\ pc'[a] = "loop" /\ todo'[a] \in {Workflows, todo[a]}
  \/ pc[a] = "loop" /\ pc'[a] = "post" /\ todo'[a] = todo[a] /\ todo[a] # {}
  \/ pc[a] \in {"loop", "post"} /\ pc'[a] = "loop" /\ \E w \in todo[a] : todo'[a] = todo[a] \ {w}

LEMMA OwnStep ==
  ASSUME Typed, NEW a \in Jobs, Step(a)
  PROVE  pc[a] # "idle" /\ Leads(a)
<1>t. pc \in [Jobs -> {"idle", "queued", "loop", "post"}] /\ todo \in [Jobs -> SUBSET Workflows]
  BY DEF Typed, TypeOK
<1>1. CASE List(a) \/ ListFails(a)
  BY <1>t, <1>1 DEF List, ListFails, Goto, memory, Leads
<1>2. ASSUME NEW w \in Workflows, Read(a, w) PROVE pc[a] # "idle" /\ Leads(a)
  <2>1. CASE latest[w] = Unobserved
    BY <1>t, <1>2, <2>1 DEF Read, IsNext, Leads
  <2>2. CASE latest[w] # Unobserved
    BY <1>t, <1>2, <2>2 DEF Read, IsNext, Goto, Leads
  <2> QED
    BY <2>1, <2>2
<1>3. ASSUME NEW w \in Workflows, Post(a, w) PROVE pc[a] # "idle" /\ Leads(a)
  BY <1>t, <1>3 DEF Post, IsNext, Goto, Leads
<1>4. CASE PostAggregate(a) \/ BreakOff(a)
  BY <1>t, <1>4 DEF PostAggregate, BreakOff, Exit, Goto, Leads
<1> QED
  BY <1>1, <1>2, <1>3, <1>4 DEF Step

LEMMA OthersStep ==
  ASSUME Typed, NEW a \in Jobs, NEW o \in Jobs, o # a, Step(a) \/ \E c \in Commits : Trigger(a, c)
  PROVE  Untouched(o)
<1>t. pc \in [Jobs -> {"idle", "queued", "loop", "post"}] /\ todo \in [Jobs -> SUBSET Workflows]
  BY DEF Typed, TypeOK
<1>1. CASE List(a) \/ ListFails(a)
  BY <1>t, <1>1 DEF List, ListFails, Goto, memory, Untouched
<1>2. ASSUME NEW w \in Workflows, Read(a, w) PROVE Untouched(o)
  <2>1. CASE latest[w] = Unobserved
    BY <1>t, <1>2, <2>1 DEF Read, Untouched
  <2>2. CASE latest[w] # Unobserved
    BY <1>t, <1>2, <2>2 DEF Read, Goto, Untouched
  <2> QED
    BY <2>1, <2>2
<1>3. ASSUME NEW w \in Workflows, Post(a, w) PROVE Untouched(o)
  BY <1>t, <1>3 DEF Post, Goto, Untouched
<1>4. CASE PostAggregate(a) \/ BreakOff(a)
  BY <1>t, <1>4 DEF PostAggregate, BreakOff, Exit, Goto, Untouched
<1>5. CASE \E c \in Commits : Trigger(a, c)
  BY <1>t, <1>5 DEF Trigger, Goto, memory, Untouched
<1> QED
  BY <1>1, <1>2, <1>3, <1>4, <1>5 DEF Step

LEMMA TriggerStarts ==
  ASSUME Typed, NEW a \in Jobs, NEW c \in Commits, Trigger(a, c)
  PROVE  pc[a] = "idle" /\ pc'[a] = "queued"
BY DEF Trigger, IsFree, Goto, Typed, TypeOK

\* What a step does to a job.
LEMMA StepEffect ==
  ASSUME Typed, [Next]_vars, NEW a \in Jobs
  PROVE  \/ Untouched(a) /\ ~Step(a)
         \/ pc[a] # "idle" /\ Leads(a)
         \/ pc[a] = "idle" /\ pc'[a] = "queued"
<1>h. head \in Commits /\ (head < MaxPushes => head + 1 \in Commits)
  BY AggregateStatusAssumption DEF Typed, TypeOK, Commits
<1>1. CASE Step(a)
  BY <1>1, OwnStep
<1>2. CASE ~Step(a)
  <2>1. ASSUME NEW o \in Jobs, Step(o) PROVE Untouched(a)
    BY <1>2, <2>1, OthersStep
  <2>2. ASSUME NEW o \in Jobs, NEW c \in Commits, Trigger(o, c)
        PROVE  Untouched(a) \/ (pc[a] = "idle" /\ pc'[a] = "queued")
    BY <2>2, OthersStep, TriggerStarts
  <2>3. ASSUME NEW o \in Jobs, Push(o) \/ Dispatch(o)
        PROVE  Untouched(a) \/ (pc[a] = "idle" /\ pc'[a] = "queued")
    BY <1>h, <2>2, <2>3 DEF Push, Dispatch
  <2>4. ASSUME NEW o \in Jobs, NEW w \in Workflows, NEW k \in Conclusions, CompleteRun(o, w, k)
        PROVE  Untouched(a) \/ (pc[a] = "idle" /\ pc'[a] = "queued")
    BY <1>h, <2>2, <2>4 DEF CompleteRun
  <2>5. CASE UNCHANGED vars \/ \E w \in Workflows : StartRun(w)
    BY <1>2, <2>5 DEF vars, StartRun, memory, Untouched
  <2> QED
    BY <1>2, <2>1, <2>3, <2>4, <2>5 DEF Next
<1> QED
  BY <1>1, <1>2

LEMMA LeftStep ==
  ASSUME Typed, PostInv, [Next]_vars, NEW a \in Jobs, pc[a] # "idle"
  PROVE  Left(a)' <= Left(a) /\ (Step(a) => Left(a)' < Left(a))
<1> DEFINE k == Cardinality(todo[a])
           n == Cardinality(Workflows)
<1>t. k \in Nat /\ n \in Nat /\ k <= n /\ IsFiniteSet(todo[a])
  BY TodoFinite
<1>p. pc[a] \in {"queued", "loop", "post"}
  BY DEF Typed, TypeOK
<1>1. CASE Untouched(a) /\ ~Step(a)
  <2>1. Left(a)' = Left(a)
    BY <1>1 DEF Untouched, Left
  <2>2. Left(a) \in Nat
    BY <1>t, LeftBounded
  <2> QED
    BY <1>1, <2>1, <2>2
<1>2. CASE Leads(a)
  <2>0. todo[a] # {} => k >= 1
    BY <1>t, FS_EmptySet
  <2>1. CASE pc'[a] = "idle"
    <3>1. Left(a)' = 0
      BY <2>1 DEF Left
    <3>2. \/ Left(a) = 2 * n + 2
          \/ Left(a) = 2 * k + 1
          \/ Left(a) = 2 * k /\ k >= 1
      BY <1>p, <2>0 DEF Left, PostInv
    <3> HIDE DEF k, n
    <3> QED
      BY <1>t, <3>1, <3>2
  <2>2. CASE pc[a] = "queued" /\ pc'[a] = "loop" /\ todo'[a] \in {Workflows, todo[a]}
    <3>1. Left(a) = 2 * n + 2 /\ Left(a)' \in {2 * n + 1, 2 * k + 1}
      BY <2>2 DEF Left
    <3> HIDE DEF k, n
    <3> QED
      BY <1>t, <3>1
  <2>3. CASE pc[a] = "loop" /\ pc'[a] = "post" /\ todo'[a] = todo[a] /\ todo[a] # {}
    <3>1. Left(a) = 2 * k + 1 /\ Left(a)' = 2 * k
      BY <2>3 DEF Left
    <3> HIDE DEF k, n
    <3> QED
      BY <1>t, <3>1
  <2>4. ASSUME pc[a] \in {"loop", "post"}, pc'[a] = "loop", NEW w \in todo[a], todo'[a] = todo[a] \ {w}
        PROVE  Left(a)' < Left(a) /\ Left(a) \in Int /\ Left(a)' \in Int
    <3>1. Cardinality(todo[a] \ {w}) = k - 1
      BY <1>t, FS_RemoveElement
    <3>2. Left(a) \in {2 * k + 1, 2 * k} /\ Left(a)' = 2 * (k - 1) + 1
      BY <2>4, <3>1 DEF Left
    <3> HIDE DEF k, n
    <3> QED
      BY <1>t, <3>2
  <2>5. Left(a)' < Left(a) => Left(a)' <= Left(a)
    <3>1. Left(a) \in Nat
      BY <1>t, LeftBounded
    <3>2. Typed'
      BY TypedStep
    <3>3. todo'[a] \in SUBSET Workflows
      BY <3>2 DEF Typed, TypeOK
    <3>4. Cardinality(todo'[a]) \in Nat
      BY <3>3, AggregateStatusAssumption, FS_Subset, FS_CardinalityType
    <3> DEFINE m == Cardinality(todo'[a])
    <3>5. Left(a)' \in {0, 2 * n + 2, 2 * m + 1, 2 * m}
      BY DEF Left
    <3>6. m \in Nat
      BY <3>4
    <3> HIDE DEF k, n, m
    <3>7. Left(a)' \in Int
      BY <1>t, <3>5, <3>6
    <3> QED
      BY <3>1, <3>7
  <2> QED
    BY <1>2, <2>1, <2>2, <2>3, <2>4, <2>5 DEF Leads
<1> QED
  BY <1>1, <1>2, StepEffect

LEMMA PostStep == Typed /\ PostInv /\ [Next]_vars => PostInv'
<1> SUFFICES ASSUME Typed, PostInv, [Next]_vars, NEW a \in Jobs, pc'[a] = "post"
             PROVE  todo'[a] # {}
  BY DEF PostInv
<1> QED
  BY StepEffect DEF PostInv, Untouched, Leads

LEMMA PostHolds == Spec => [](Typed /\ PostInv)
<1>1. Init => PostInv
  BY DEF Init, PostInv
<1> QED
  BY <1>1, TypedInit, TypedStep, PostStep, PTL DEF Spec

\* A job takes a bounded number of steps, whatever else happens on the head.
THEOREM JobsStayBounded == Spec => JobsAreBounded
<1>1. Typed => (\A a \in Jobs : Left(a) \in 0..(2 * Cardinality(Workflows) + 2))
  BY LeftBounded
<1>2. Typed /\ PostInv /\ [Next]_vars => [\A a \in Jobs : pc[a] # "idle" =>
                                           /\ Left(a)' <= Left(a)
                                           /\ Step(a) => Left(a)' < Left(a)]_vars
  BY LeftStep
<1> QED
  BY <1>1, <1>2, PostHolds, PTL DEF Spec, JobsAreBounded

\* A live job has a next step other than breaking off: no job waits for another.
THEOREM NoJobWaits == Spec => []NeverWaits
<1>1. ASSUME Typed, PostInv, NEW a \in Jobs, pc[a] # "idle" PROVE Ready(a)
  <2>1. CASE todo[a] # {}
    <3>a. todo[a] \subseteq Workflows /\ todo[a] \subseteq Nat
      <4>1. todo[a] \in SUBSET Workflows
        BY <1>1 DEF Typed, TypeOK
      <4>2. Workflows \subseteq Nat
        BY AggregateStatusAssumption
      <4> QED
        BY <1>1, <4>1, <4>2
    <3>1. PICK w \in todo[a] : \A v \in todo[a] : w <= v
      BY <2>1, <3>a, LeastWorkflow
    <3>2. w \in Workflows /\ IsNext(a, w)
      BY <3>a, <3>1 DEF IsNext
    <3> QED
      BY <1>1, <3>2 DEF Ready, Typed, TypeOK
  <2>2. CASE todo[a] = {}
    BY <1>1, <2>2 DEF PostInv, Ready, Typed, TypeOK
  <2> QED
    BY <2>1, <2>2
<1>2. Typed /\ PostInv => NeverWaits
  BY <1>1 DEF NeverWaits
<1> QED
  BY <1>2, PostHolds, PTL

\* Whatever is not shown as it is, a live job still owes, until one breaks off or is
\* overtaken.
THEOREM ConclusionsStayOwed == Spec => []ConclusionIsOwed
<1>1. Inv => ConclusionIsOwed
  BY AggregateStatusAssumption DEF Inv, WorkflowsShown, ConclusionIsOwed
<1> QED
  BY <1>1, InvInit, InvStep, PTL DEF Spec
=============================================================================
