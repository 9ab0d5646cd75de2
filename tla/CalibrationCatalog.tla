-------------------------- MODULE CalibrationCatalog --------------------------
(***************************************************************************)
(* CalibrationCatalog (src/calibration/catalog.py) as the GM plugin's      *)
(* prepare_flash (plugins/gm/plugin.py) and its own callers use it: the    *)
(* order in which a calibration and what it depends on are flashed, and    *)
(* the update history along `supersedes`.                                  *)
(*                                                                         *)
(* The nested visit() is a stack of calls, each with the dependencies its  *)
(* loop has not come to; the list `depends_on` may be in any order.  A     *)
(* dependency without a record is visited like one without dependencies.   *)
(***************************************************************************)
EXTENDS Naturals, Sequences, SequencesExt

CONSTANTS
  Cal,       \* calibration ids
  NoCal,     \* None
  Requested, \* those a caller asks for
  MaxDeps    \* bound: dependencies of one record

ASSUME CatalogConstantsOK == NoCal \notin Cal /\ Requested \subseteq Cal /\ MaxDeps \in Nat

VARIABLES
  deps,       \* depends_on of every record
  supersedes, \* supersedes of every record, NoCal for None or a missing one
  call,       \* the call under way or just returned
  root,       \* its argument
  stack,      \* the visits in progress, the innermost last
  order,      \* `order` of resolve_dependencies
  reply,      \* "running", "ok", "circular" (ValueError) or "not ready"
  current,    \* `current` of update_history
  history     \* `history` of update_history

catalogVars == <<deps, supersedes, call, root, stack, order, reply, current, history>>

CatalogInit ==
  /\ deps = [c \in Cal |-> {}] /\ supersedes = [c \in Cal |-> NoCal]
  /\ call = "none" /\ root = NoCal
  /\ stack = <<>> /\ order = <<>> /\ reply = "ok"
  /\ current = NoCal /\ history = <<>>

Visit(c) == [cal |-> c, todo |-> deps'[c]]
Visiting == {stack[i].cal : i \in DOMAIN stack}
Top == stack[Len(stack)]

DepLists == {ds \in SUBSET Cal : Cardinality(ds) <= MaxDeps}
-----------------------------------------------------------------------------
\* prepare_flash: a calibration the catalog does not have is not resolved.
PrepareFlashMissing(c) ==
  /\ call = "none"
  /\ call' = "resolve" /\ root' = c /\ reply' = "not ready"
  /\ UNCHANGED <<deps, supersedes, stack, order, current, history>>

\* resolve_dependencies(c), on whatever records the catalog holds: visit(c).
ResolveDependencies(c) ==
  /\ call = "none"
  /\ deps' \in [Cal -> DepLists]
  /\ call' = "resolve" /\ root' = c /\ reply' = "running"
  /\ stack' = <<Visit(c)>>
  /\ UNCHANGED <<supersedes, order, current, history>>

\* The next round of the innermost loop.
Take(d) ==
  /\ reply = "running" /\ stack # <<>>
  /\ d \in Top.todo

DepDone(d) == [stack EXCEPT ![Len(stack)].todo = @ \ {d}]

\* Faulty variant of VisitOrdered: the loop does not move on.
VisitOrderedStays(d) ==
  /\ Take(d) /\ d \in ToSet(order)
  /\ UNCHANGED catalogVars

\* visit(d) returns at once: d is in `order`.
VisitOrdered(d) ==
  /\ Take(d) /\ d \in ToSet(order)
  /\ stack' = DepDone(d)
  /\ UNCHANGED <<deps, supersedes, call, root, order, reply, current, history>>

\* Faulty variant of VisitCircular: what is being visited counts as done.
VisitCircularSkipped(d) ==
  /\ Take(d) /\ d \notin ToSet(order) /\ d \in Visiting
  /\ stack' = DepDone(d)
  /\ UNCHANGED <<deps, supersedes, call, root, order, reply, current, history>>

\* visit(d) raises: d is being visited.
VisitCircular(d) ==
  /\ Take(d) /\ d \notin ToSet(order) /\ d \in Visiting
  /\ reply' = "circular"
  /\ UNCHANGED <<deps, supersedes, call, root, stack, order, current, history>>

\* Faulty variant of VisitNew: the dependency is ordered when its visit begins.
VisitNewPreordered(d) ==
  /\ Take(d) /\ d \notin ToSet(order) /\ d \notin Visiting
  /\ UNCHANGED deps
  /\ stack' = Append(DepDone(d), Visit(d))
  /\ order' = Append(order, d)
  /\ UNCHANGED <<supersedes, call, root, reply, current, history>>

\* visit(d) starts a loop of its own.
VisitNew(d) ==
  /\ Take(d) /\ d \notin ToSet(order) /\ d \notin Visiting
  /\ UNCHANGED deps
  /\ stack' = Append(DepDone(d), Visit(d))
  /\ UNCHANGED <<supersedes, call, root, order, reply, current, history>>

\* The innermost loop is over: order.append(current).
EndVisit ==
  /\ reply = "running" /\ stack # <<>> /\ Top.todo = {}
  /\ order' = Append(order, Top.cal)
  /\ stack' = Front(stack)
  /\ reply' = IF Len(stack) = 1 THEN "ok" ELSE "running"
  /\ UNCHANGED <<deps, supersedes, call, root, current, history>>
-----------------------------------------------------------------------------
\* update_history(c).
UpdateHistory(c) ==
  /\ call = "none"
  /\ supersedes' \in [Cal -> Cal \cup {NoCal}]
  /\ call' = "history" /\ root' = c /\ reply' = "running"
  /\ current' = c
  /\ UNCHANGED <<deps, stack, order, history>>

\* Faulty variant of FollowSupersedes: the walk starts over from its argument.
FollowSupersedesOfRoot ==
  /\ call = "history" /\ reply = "running" /\ current # NoCal
  /\ history' = IF Len(history) <= Cardinality(Cal) THEN Append(history, current) ELSE history
  /\ current' = supersedes[root]
  /\ UNCHANGED <<deps, supersedes, call, root, stack, order, reply>>

\* One turn of its loop.  (A list that has outgrown the catalog is in a cycle
\* of links and grows for ever; the model stops recording it.)
FollowSupersedes ==
  /\ call = "history" /\ reply = "running" /\ current # NoCal
  /\ history' = IF Len(history) <= Cardinality(Cal) THEN Append(history, current) ELSE history
  /\ current' = supersedes[current]
  /\ UNCHANGED <<deps, supersedes, call, root, stack, order, reply>>

EndHistory ==
  /\ call = "history" /\ reply = "running" /\ current = NoCal
  /\ reply' = "ok"
  /\ UNCHANGED <<deps, supersedes, call, root, stack, order, current, history>>

ResolveStep ==
  \/ \E d \in Cal : VisitOrdered(d) \/ VisitCircular(d) \/ VisitNew(d)
  \/ EndVisit
HistoryStep == FollowSupersedes \/ EndHistory

CatalogNext ==
  \/ \E c \in Requested : PrepareFlashMissing(c) \/ ResolveDependencies(c) \/ UpdateHistory(c)
  \/ ResolveStep \/ HistoryStep

CatalogSpec == CatalogInit /\ [][CatalogNext]_catalogVars

\* A call that has begun runs.
CatalogFairness == WF_catalogVars(ResolveStep) /\ WF_catalogVars(HistoryStep)
-----------------------------------------------------------------------------
Replies == {"running", "ok", "circular", "not ready"}

CatalogTypeOK ==
  /\ deps \in [Cal -> SUBSET Cal] /\ supersedes \in [Cal -> Cal \cup {NoCal}]
  /\ call \in {"none", "resolve", "history"} /\ root \in Cal \cup {NoCal}
  /\ stack \in Seq([cal : Cal, todo : SUBSET Cal])
  /\ order \in Seq(Cal) /\ reply \in Replies
  /\ current \in Cal \cup {NoCal} /\ history \in Seq(Cal)

(* What is ordered so far, at every moment, can be flashed in this order:    *)
(* each calibration once, and after everything it depends on.                *)
DependenciesFirst ==
  \A i \in 1..Len(order) :
    /\ \A j \in 1..Len(order) : order[i] = order[j] => i = j
    /\ \A d \in deps[order[i]] : \E j \in 1..i - 1 : order[j] = d

\* Following the edges from c one comes to d, by one edge or more: d is in
\* every set the edges do not lead out of, from c or from a member.
Leads(edges, c, d) ==
  \A S \in SUBSET Cal :
    (edges[c] \subseteq S /\ \A e \in S : edges[e] \subseteq S) => d \in S

\* What c depends on, directly or indirectly.
Needs(c, d) == Leads(deps, c, d)

Reached == {root} \cup {d \in Cal : Needs(root, d)}
OnCycle(c) == Needs(c, c)

(* A returned order holds the requested calibration, last, and exactly what  *)
(* it needs directly or indirectly; the circular-dependency error is raised  *)
(* if and only if a cycle can be reached from it.                            *)
ResolvedOrCircular ==
  call = "resolve" =>
    /\ reply = "ok" => /\ ToSet(order) = Reached /\ order[Len(order)] = root
                       /\ \A c \in Reached : ~OnCycle(c)
    /\ reply = "circular" => \E c \in Reached : OnCycle(c)

(* Resolving returns or raises whatever the records depend on.               *)
ResolveEnds == (call = "resolve") ~> (reply # "running")

\* The chain of `supersedes` leads from a record back to it.
Circular(c) == Leads([d \in Cal |-> {supersedes[d]} \ {NoCal}], c, c)

(* The update history ends unless the records supersede each other in a      *)
(* circle, which nothing checks, and names no record twice.                  *)
HistoryEnds ==
  (call = "history" /\ \A c \in Cal : ~Circular(c)) ~> (reply = "ok" /\ IsInjective(history))
===============================================================================
