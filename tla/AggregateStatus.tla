--------------------------- MODULE AggregateStatus ---------------------------
(***************************************************************************)
(* .github/workflows/ci-aggregate-status.yml.  A push to main, the end of  *)
(* a run of any other workflow and a manual dispatch each start a job that *)
(* reads the latest run of every workflow, one after the other, and posts  *)
(* a status for each, and a summary, on the commit that was the head of    *)
(* main when the job was triggered.  No concurrency group orders the jobs: *)
(* they overlap, and each posts what it read some time before.             *)
(*                                                                         *)
(* Status contexts are numbered: 0 is ci/aggregate, the others are the     *)
(* workflows, in the order in which the API lists them.                    *)
(***************************************************************************)
EXTENDS Naturals, FiniteSets

CONSTANTS
  Workflows,   \* the active workflows, this one aside
  Conclusions, \* of completed runs
  Jobs,        \* slots of jobs of this workflow: bounds how many are alive
  MaxPushes,   \* bound: pushes to main
  MaxJobs      \* bound: jobs ever triggered

Unobserved == "unobserved"
Active == "active"       \* queued, waiting or in progress
Aggregate == 0

ASSUME AggregateStatusAssumption ==
  /\ Workflows \subseteq Nat \ {Aggregate} /\ IsFiniteSet(Workflows)
  /\ Jobs \subseteq Nat
  /\ {Unobserved, Active} \cap Conclusions = {}
  /\ MaxPushes \in Nat /\ MaxJobs \in Nat

VARIABLES
  head,       \* main, as the number of pushes to it
  latest,     \* the latest run of each workflow on main
  status,     \* the last status posted on each commit for each context
  pc, sha,    \* of each job: where it is, and its GITHUB_SHA
  todo,       \* workflows it has yet to read
  seen,       \* the run it has read and not posted
  found,      \* the states it has posted: what its counters are compared for
  jobs,       \* how many jobs were triggered
  broken,     \* history: commits a job broke off for, none triggered since
  overlapped, \* history: commits whose last job was triggered beside another
  obsolete    \* history: posts that said what was no longer so

memory == <<todo, seen, found>>
history == <<broken, overlapped>>
vars == <<head, latest, status, pc, sha, memory, jobs, history, obsolete>>

Commits == 0..MaxPushes
Contexts == Workflows \cup {Aggregate}
Runs == Conclusions \cup {Unobserved, Active}
States == {"pending", "success", "failure", "error"}

-----------------------------------------------------------------------------
\* The state posted for a run.
State(run) ==
  CASE run = Active -> "pending"
    [] run \in {"success", "neutral", "skipped"} -> "success"
    [] run = "failure" -> "failure"
    [] OTHER -> "error"

\* The state of ci/aggregate, by which counters are positive.
Summary(S) ==
  IF S = {} THEN "error"
  ELSE IF S \cap {"failure", "error"} # {} THEN "failure"
  ELSE IF "pending" \in S THEN "pending"
  ELSE "success"

Observed == {w \in Workflows : latest[w] # Unobserved}

\* What should be shown now: for a workflow the state of its latest run, and
\* for the aggregate the worst of them.
Truth(x) ==
  IF x # Aggregate THEN State(latest[x])
  ELSE IF Observed = {} THEN "error"
  ELSE IF \E w \in Observed : latest[w] \notin {Active, "success", "neutral", "skipped"}
  THEN "failure"
  ELSE IF \E w \in Observed : latest[w] = Active THEN "pending"
  ELSE "success"

Goto(a, label) == pc' = [pc EXCEPT ![a] = label]

Init ==
  /\ head = 0
  /\ latest = [w \in Workflows |-> Unobserved]
  /\ status = [c \in Commits |-> [x \in Contexts |-> "none"]]
  /\ pc = [a \in Jobs |-> "idle"]
  /\ sha = [a \in Jobs |-> 0]
  /\ todo = [a \in Jobs |-> {}]
  /\ seen = [a \in Jobs |-> Unobserved]
  /\ found = [a \in Jobs |-> {}]
  /\ jobs = 0
  /\ broken = {} /\ overlapped = {} /\ obsolete = {}

-----------------------------------------------------------------------------
(***************************************************************************)
(* What starts a job.                                                      *)
(***************************************************************************)

IsFree(a) == pc[a] = "idle" /\ \A o \in Jobs : pc[o] = "idle" => a <= o

\* A job takes the first free slot.
Trigger(a, c) ==
  /\ IsFree(a) /\ jobs < MaxJobs
  /\ Goto(a, "queued")
  /\ sha' = [sha EXCEPT ![a] = c]
  /\ jobs' = jobs + 1
  /\ broken' = broken \ {c}
  /\ overlapped' = IF \E o \in Jobs : pc[o] # "idle" /\ sha[o] = c
                   THEN overlapped \cup {c} ELSE overlapped \ {c}
  /\ UNCHANGED <<status, memory, obsolete>>

\* A push starts this workflow and those whose path filters it matches.
Push(a) ==
  /\ head < MaxPushes
  /\ head' = head + 1
  /\ \E W \in SUBSET Workflows :
       latest' = [w \in Workflows |-> IF w \in W THEN Active ELSE latest[w]]
  /\ Trigger(a, head + 1)

\* A schedule, a dispatch or a re-run of another workflow triggers no job ...
StartRun(w) ==
  /\ latest[w] # Active
  /\ latest' = [latest EXCEPT ![w] = Active]
  /\ UNCHANGED <<head, status, pc, sha, memory, jobs, history, obsolete>>

\* Mutant: the end of a run of workflow 1 is not among the triggers.
CompleteRunUnwatched(a, w, k) ==
  /\ latest[w] = Active
  /\ latest' = [latest EXCEPT ![w] = k]
  /\ IF w # 1 THEN Trigger(a, head)
     ELSE UNCHANGED <<status, pc, sha, memory, jobs, history, obsolete>>
  /\ UNCHANGED head

\* ... but its end does.
CompleteRun(a, w, k) ==
  /\ latest[w] = Active
  /\ latest' = [latest EXCEPT ![w] = k]
  /\ Trigger(a, head)
  /\ UNCHANGED head

\* A dispatch of this workflow, or the end of a run that is not the latest.
Dispatch(a) ==
  /\ Trigger(a, head)
  /\ UNCHANGED <<head, latest>>

-----------------------------------------------------------------------------
(***************************************************************************)
(* The job.                                                                *)
(***************************************************************************)

List(a) ==
  /\ pc[a] = "queued"
  /\ Goto(a, "loop")
  /\ todo' = [todo EXCEPT ![a] = Workflows]
  /\ UNCHANGED <<head, latest, status, sha, seen, found, jobs, history, obsolete>>

\* The listing feeds the loop by a process substitution, whose status set -e
\* does not see: a listing that fails is an empty one.
ListFails(a) ==
  /\ pc[a] = "queued"
  /\ Goto(a, "loop")
  /\ broken' = broken \cup {sha[a]}
  /\ UNCHANGED <<head, latest, status, sha, memory, jobs, overlapped, obsolete>>

IsNext(a, w) == w \in todo[a] /\ \A o \in todo[a] : w <= o

\* Mutant: a workflow without a run is not skipped.
ReadUnobserved(a, w) ==
  /\ pc[a] = "loop" /\ IsNext(a, w)
  /\ seen' = [seen EXCEPT ![a] = latest[w]]
  /\ Goto(a, "post")
  /\ UNCHANGED <<head, latest, status, sha, todo, found, jobs, history, obsolete>>

\* The latest run of the next workflow, if it has any.
Read(a, w) ==
  /\ pc[a] = "loop" /\ IsNext(a, w)
  /\ IF latest[w] = Unobserved
     THEN todo' = [todo EXCEPT ![a] = @ \ {w}] /\ UNCHANGED <<pc, seen>>
     ELSE seen' = [seen EXCEPT ![a] = latest[w]] /\ Goto(a, "post") /\ UNCHANGED todo
  /\ UNCHANGED <<head, latest, status, sha, found, jobs, history, obsolete>>

\* A post on context x takes the place of the one before.
PostStatus(a, x, state) ==
  /\ status' = [status EXCEPT ![sha[a]][x] = state]
  /\ obsolete' = IF state = Truth(x) THEN obsolete \ {<<sha[a], x>>}
                 ELSE obsolete \cup {<<sha[a], x>>}

Post(a, w) ==
  /\ pc[a] = "post" /\ IsNext(a, w)
  /\ PostStatus(a, w, State(seen[a]))
  /\ found' = [found EXCEPT ![a] = @ \cup {State(seen[a])}]
  /\ todo' = [todo EXCEPT ![a] = @ \ {w}]
  /\ seen' = [seen EXCEPT ![a] = Unobserved]
  /\ Goto(a, "loop")
  /\ UNCHANGED <<head, latest, sha, jobs, history>>

\* The job ends.
Exit(a) ==
  /\ Goto(a, "idle")
  /\ sha' = [sha EXCEPT ![a] = 0]
  /\ todo' = [todo EXCEPT ![a] = {}]
  /\ seen' = [seen EXCEPT ![a] = Unobserved]
  /\ found' = [found EXCEPT ![a] = {}]

\* Mutant: the summary is posted before the last workflow is read.
PostAggregateEarly(a) ==
  /\ pc[a] = "loop"
  /\ \A v, w \in todo[a] : v = w
  /\ PostStatus(a, Aggregate, Summary(found[a]))
  /\ Exit(a)
  /\ UNCHANGED <<head, latest, jobs, history>>

PostAggregate(a) ==
  /\ pc[a] = "loop" /\ todo[a] = {}
  /\ PostStatus(a, Aggregate, Summary(found[a]))
  /\ Exit(a)
  /\ UNCHANGED <<head, latest, jobs, history>>

\* A call of the API fails, the job is cancelled or runs into its timeout.
BreakOff(a) ==
  /\ pc[a] # "idle"
  /\ broken' = broken \cup {sha[a]}
  /\ Exit(a)
  /\ UNCHANGED <<head, latest, status, jobs, overlapped, obsolete>>

Step(a) ==
  \/ List(a) \/ ListFails(a)
  \/ \E w \in Workflows : Read(a, w) \/ Post(a, w)
  \/ PostAggregate(a)
  \/ BreakOff(a)

Next ==
  \/ \E a \in Jobs : Step(a) \/ Push(a) \/ Dispatch(a)
  \/ \E w \in Workflows : StartRun(w)
  \/ \E a \in Jobs, w \in Workflows, k \in Conclusions : CompleteRun(a, w, k)

Spec == Init /\ [][Next]_vars

\* A hosted runner takes up every job, and ends it at the latest when its
\* timeout-minutes are over.
FairSpec == Spec /\ \A a \in Jobs : WF_vars(Step(a))

-----------------------------------------------------------------------------
(***************************************************************************)
(* Properties.                                                             *)
(***************************************************************************)

\* The shape of the state.
TypeOK ==
  /\ head \in Commits
  /\ latest \in [Workflows -> Runs]
  /\ status \in [Commits -> [Contexts -> States \cup {"none"}]]
  /\ pc \in [Jobs -> {"idle", "queued", "loop", "post"}]
  /\ sha \in [Jobs -> Commits]
  /\ todo \in [Jobs -> SUBSET Workflows]
  /\ seen \in [Jobs -> Runs]
  /\ found \in [Jobs -> SUBSET States]
  /\ jobs \in 0..MaxJobs
  /\ broken \subseteq Commits /\ overlapped \subseteq Commits
  /\ obsolete \subseteq Commits \X Contexts
  /\ \A a \in Jobs : pc[a] = "post" => seen[a] # Unobserved

\* When nothing runs any more, head shows every workflow, and their summary, as
\* they are; unless the last job triggered for it was not alone and an earlier
\* one posted last, with what it had read before, or a job broke off.
SettledIsTrue ==
  (\A a \in Jobs : pc[a] = "idle") /\ (\A w \in Workflows : latest[w] # Active)
    /\ head \notin broken /\ jobs > 0 =>
    \A x \in Observed \cup {Aggregate} :
      \/ status[head][x] = Truth(x)
      \/ head \in overlapped /\ <<head, x>> \in obsolete

\* The conclusion of the latest run of a workflow comes to be shown on the head
\* of main, unless the workflow is run again, main moves on, a job breaks off or
\* an overtaken job has the last word.
ConclusionIsShown ==
  \A w \in Workflows, c \in Commits :
    latest[w] \in Conclusions /\ head = c ~>
      \/ latest[w] = Active \/ head # c
      \/ status[c][w] = State(latest[w])
      \/ c \in broken
      \/ c \in overlapped /\ <<c, w>> \in obsolete
=============================================================================
