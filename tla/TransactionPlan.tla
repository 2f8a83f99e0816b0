-------------------------- MODULE TransactionPlan --------------------------
(***************************************************************************)
(* The dependency graph and the planner of internal/core: Build and        *)
(* findCycle of graph.go; PlanStart, PlanStop, PlanShutdown and validate   *)
(* of transaction.go.                                                      *)
(*                                                                         *)
(* Units are numbered in the sorted order of their normalised names.  A    *)
(* graph says which of them are loaded and what each declares; names that  *)
(* are not loaded may still be mentioned.  BindsTo= is read by the planner *)
(* only together with Requires=, so "requires" stands for both.            *)
(***************************************************************************)
EXTENDS Integers, Sequences, FiniteSets, SequencesExt

CONSTANTS
  N,       \* the number of unit names
  Graphs   \* the graphs to plan on

ASSUME NamesAssumption == N \in Nat \ {0}

Units == 1..N

VARIABLES
  graph,   \* the loaded units and their dependencies
  ask,     \* the request: the kind of plan and its roots, in order
  answer   \* what the planner returned

vars == <<graph, ask, answer>>

Sorted(S) == SetToSortSeq(S, <)

(* Build: the loaded units that must start before n.                       *)
WaitsFor(g, n) ==
  (g.after[n] \cap g.loaded) \cup {m \in g.loaded : n \in g.before[m]}

-----------------------------------------------------------------------------

(* add: the calls still to be made, in the order the recursion makes them. *)
(* A name that is not loaded is an error only where it is required, and in *)
(* a stop plan only where it is a root.                                    *)
Calls(names, by, required) ==
  [i \in DOMAIN names |-> [name |-> names[i], by |-> by, required |-> required]]

RECURSIVE Add(_, _, _, _)
Add(g, kind, calls, jobs) ==
  IF calls = <<>> THEN [jobs |-> jobs, missing |-> FALSE]
  ELSE LET c == Head(calls)
           deps == Calls(Sorted(g.requires[c.name]), c.name, TRUE)
                     \o Calls(Sorted(g.wants[c.name]), c.name, FALSE)
       IN  IF c.name \in jobs THEN Add(g, kind, Tail(calls), jobs)
           ELSE IF c.name \in g.loaded
           THEN Add(g, kind, deps \o Tail(calls), jobs \cup {c.name})
           ELSE IF c.required /\ (kind = "start" \/ c.by = 0)
           THEN [jobs |-> {}, missing |-> TRUE]
           ELSE Add(g, kind, Tail(calls), jobs)

(* afterSuccessors and afterClosure: who comes after the roots.  A root is *)
(* seen only when something leads back to it.                              *)
AfterSuccessors(g, n) == {m \in g.loaded : n \in WaitsFor(g, m)}

RECURSIVE AfterClosure(_, _, _)
AfterClosure(g, walk, seen) ==
  IF walk = {} THEN seen
  ELSE LET n == CHOOSE n \in walk : TRUE
           new == AfterSuccessors(g, n) \ seen
       IN  AfterClosure(g, (walk \ {n}) \cup new, seen \cup new)

(* reverseRequirersOf and reverseRequirementClosure.                       *)
StopDeps(g, n) == g.requires[n] \cup g.partOf[n]

RECURSIVE StopClosure(_, _, _)
StopClosure(g, walk, seen) ==
  IF walk = {} THEN seen
  ELSE LET n == CHOOSE n \in walk : TRUE
           new == {m \in g.loaded : n \in StopDeps(g, m)} \ (seen \cup walk)
       IN  StopClosure(g, (walk \ {n}) \cup new, seen \cup {n})

(* The ordering among the jobs of a plan; reverseWaits,                    *)
(* reverseRequirementWaits and mergeWaits for the stopping ones.           *)
StartWaits(g, jobs) ==
  [n \in Units |-> IF n \in jobs THEN WaitsFor(g, n) \cap jobs ELSE {}]

ReverseWaits(g, jobs) ==
  [n \in Units |-> {m \in jobs : n \in WaitsFor(g, m) \cap jobs}]

(* Mutant: requirements do not order the stops.                            *)
StopWaitsUnrequired(g, jobs) == ReverseWaits(g, jobs)

StopWaits(g, jobs) ==
  [n \in Units |-> ReverseWaits(g, jobs)[n] \cup {m \in jobs : n \in StopDeps(g, m) \cap jobs}]

-----------------------------------------------------------------------------
(* findCycle: a depth-first search with colours.  "path" is empty until a  *)
(* cycle is met; reconstructCycle follows the parents back from u to v.    *)
RECURSIVE Ancestry(_, _, _)
Ancestry(parent, u, v) ==
  IF u = v THEN <<>> ELSE Append(Ancestry(parent, parent[u], v), u)

ReconstructCycle(parent, u, v) ==
  IF u = v THEN <<v, v>> ELSE <<v>> \o Ancestry(parent, u, v) \o <<v>>

RECURSIVE Dfs(_, _, _, _), Visit(_, _, _, _, _)
Dfs(names, waits, u, st) ==
  Visit(names, waits, u, Sorted(waits[u]), [st EXCEPT !.color[u] = "gray"])

Visit(names, waits, u, succ, st) ==
  IF st.path # <<>> THEN st
  ELSE IF succ = <<>> THEN [st EXCEPT !.color[u] = "black"]
  ELSE LET v == Head(succ)
           next == IF v \notin names \/ st.color[v] = "black" THEN st
                   ELSE IF st.color[v] = "gray"
                   THEN [st EXCEPT !.path = ReconstructCycle(st.parent, u, v)]
                   ELSE Dfs(names, waits, v, [st EXCEPT !.parent[v] = u])
       IN  Visit(names, waits, u, Tail(succ), next)

FindCycle(names, waits) ==
  LET start == [color |-> [n \in Units |-> "white"], parent |-> [n \in Units |-> 0],
                path |-> <<>>]
      search(st, n) == IF st.path # <<>> \/ st.color[n] # "white" THEN st
                       ELSE Dfs(names, waits, n, st)
  IN  FoldLeft(search, start, Sorted(names)).path

-----------------------------------------------------------------------------
(* What a planner call returns: an error or a validated transaction.       *)
Answer(jobs, waits) ==
  LET path == FindCycle(jobs, waits)
  IN  [error |-> IF path = <<>> THEN "none" ELSE "cycle", jobs |-> jobs, waits |-> waits,
       path |-> path]

NoAnswer(e) ==
  [error |-> e, jobs |-> {}, waits |-> [n \in Units |-> {}], path |-> <<>>]

PlanStart(g, roots) ==
  LET r == Add(g, "start", Calls(roots, 0, TRUE), {})
  IN  IF r.missing THEN NoAnswer("missing")
      ELSE Answer(r.jobs, StartWaits(g, r.jobs))

PlanShutdown(g, roots) ==
  LET later == Sorted(AfterClosure(g, Range(roots), {}))
      r == Add(g, "stop", Calls(roots, 0, TRUE) \o Calls(later, 0, FALSE), {})
  IN  IF r.missing THEN NoAnswer("missing")
      ELSE Answer(r.jobs, ReverseWaits(g, r.jobs))

PlanStop(g, roots) ==
  LET jobs == StopClosure(g, Range(roots), {})
  IN  IF ~(Range(roots) \subseteq g.loaded) THEN NoAnswer("missing")
      ELSE Answer(jobs, StopWaits(g, jobs))

-----------------------------------------------------------------------------
Init ==
  /\ graph \in Graphs
  /\ ask = [kind |-> "none", roots |-> <<>>]
  /\ answer = NoAnswer("none")

(* Requests name one unit or two.                                          *)
Requests == {<<n>> : n \in Units} \cup {<<n, m>> \in Units \X Units : n < m}

Start(roots) ==
  /\ ask' = [kind |-> "start", roots |-> roots]
  /\ answer' = PlanStart(graph, roots)

Stop(roots) ==
  /\ ask' = [kind |-> "stop", roots |-> roots]
  /\ answer' = PlanStop(graph, roots)

Shutdown(roots) ==
  /\ ask' = [kind |-> "shutdown", roots |-> roots]
  /\ answer' = PlanShutdown(graph, roots)

Next ==
  /\ ask.kind = "none"
  /\ UNCHANGED graph
  /\ \E roots \in Requests : Start(roots) \/ Stop(roots) \/ Shutdown(roots)

Spec == Init /\ [][Next]_vars

-----------------------------------------------------------------------------
(* Reference definitions: the least set that contains S and is closed      *)
(* under E, and the absence of a cycle.                                    *)
Least(S, E) ==
  {n \in Units : \A C \in SUBSET Units :
     S \subseteq C /\ (\A m \in C : E[m] \subseteq C) => n \in C}

Acyclic(names, waits) ==
  \A S \in SUBSET names \ {{}} : \E n \in S : waits[n] \cap S = {}

Pulls == [n \in Units |-> (graph.requires[n] \cup graph.wants[n]) \cap graph.loaded]
Followers ==
  [n \in Units |-> {m \in graph.loaded : n \in graph.loaded /\ (n \in graph.after[m] \/ m \in graph.before[n])}]
Requirers ==
  [n \in Units |-> {m \in graph.loaded : n \in graph.requires[m] \cup graph.partOf[m]}]

(* The requests a planner must refuse, and the members it must choose, by  *)
(* the kind of plan.                                                       *)
Needs(roots) ==
  IF ask.kind # "start" THEN roots
  ELSE roots \cup UNION {graph.requires[n] : n \in Least(roots \cap graph.loaded, Pulls)}

Members(roots) ==
  CASE ask.kind = "start" -> Least(roots, Pulls)
    [] ask.kind = "stop" -> Least(roots, Requirers)
    [] ask.kind = "shutdown" -> Least(Least(roots, Followers), Pulls)

(* The depth-first planners choose exactly the members their comments      *)
(* describe and refuse exactly the requests that need a unit that is not   *)
(* loaded, whatever cycles, dangling names and duplicate paths the graph   *)
(* has.                                                                    *)
PlanMembers ==
  LET roots == Range(ask.roots)
  IN  ask.kind # "none" =>
        IF Needs(roots) \subseteq graph.loaded
        THEN answer.error # "missing" /\ answer.jobs = Members(roots)
        ELSE answer.error = "missing"

(* findCycle reports a cycle exactly when the plan's ordering has one, and *)
(* its path is a closed walk along that ordering that passes no unit twice *)
(* ("the full closed walk, not merely cycle detected").                    *)
ClosedWalk(path) ==
  /\ Len(path) >= 2 /\ path[1] = path[Len(path)]
  /\ \A i \in 1..(Len(path) - 1) : path[i + 1] \in answer.waits[path[i]]
  /\ IsInjective(Tail(path))

CyclesFound ==
  IF Acyclic(answer.jobs, answer.waits) THEN answer.error # "cycle"
  ELSE answer.error = "cycle" /\ ClosedWalk(answer.path)

(* A stop plan that is accepted stops every unit that requires a member,   *)
(* directly or through others, before that member.                         *)
StopOrder ==
  ask.kind = "stop" /\ answer.error = "none" =>
    \A n \in answer.jobs : Least({n}, Requirers) \subseteq Least({n}, answer.waits)

(* What a planner answers is right: the members are what the roots need,   *)
(* or the request is refused for a name that is not loaded; an ordering    *)
(* cycle is reported exactly when there is one, with its whole path; and   *)
(* an accepted stop plan stops requirers first.                            *)
PlanSound == PlanMembers /\ CyclesFound /\ StopOrder
=============================================================================
