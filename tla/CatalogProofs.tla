----------------------------- MODULE CatalogProofs -----------------------------
(***************************************************************************)
(* The order resolve_dependencies builds, and when it raises instead, for  *)
(* any set of calibrations and whatever they depend on.                    *)
(***************************************************************************)
EXTENDS CalibrationCatalog, TLAPS

Calls == [cal : Cal, todo : SUBSET Cal]
Ordered(d) == \E j \in 1..Len(order) : order[j] = d

ResolveTypeOK ==
  /\ deps \in [Cal -> SUBSET Cal]
  /\ stack \in Seq(Calls) /\ order \in Seq(Cal)

(* Records are read only once the call is made.                            *)
NothingBefore == call = "none" => stack = <<>> /\ order = <<>>

(* What is being visited is not ordered yet, and not visited twice.        *)
VisitedOnce ==
  \A i \in 1..Len(stack) :
    /\ ~Ordered(stack[i].cal)
    /\ \A j \in 1..Len(stack) : stack[i].cal = stack[j].cal => i = j

(* The loop of each visit has ordered the dependencies it has passed, save *)
(* for the one it is in, which the next call on the stack visits.          *)
PassedIsOrdered ==
  \A i \in 1..Len(stack) : \A d \in deps[stack[i].cal] :
    \/ d \in stack[i].todo
    \/ Ordered(d)
    \/ i < Len(stack) /\ stack[i + 1].cal = d

CatalogInv ==
  /\ ResolveTypeOK /\ NothingBefore /\ VisitedOnce /\ PassedIsOrdered /\ DependenciesFirst

-----------------------------------------------------------------------------
(* The innermost loop moving past d changes what it has left, and nothing  *)
(* else.                                                                   *)
LEMMA DepDoneIs ==
  ASSUME stack \in Seq(Calls), stack # <<>>, NEW d \in Cal
  PROVE  /\ DepDone(d) \in Seq(Calls) /\ Len(DepDone(d)) = Len(stack)
         /\ \A i \in 1..Len(stack) :
              /\ DepDone(d)[i].cal = stack[i].cal
              /\ i # Len(stack) => DepDone(d)[i].todo = stack[i].todo
         /\ DepDone(d)[Len(stack)].todo = Top.todo \ {d}
<1> DEFINE n == Len(stack)
           top == [stack[n] EXCEPT !.todo = @ \ {d}]
<1>1. n \in Nat \ {0} /\ stack[n] \in Calls /\ n \in 1..Len(stack)
  OBVIOUS
<1>2. top \in Calls /\ top.cal = stack[n].cal /\ top.todo = stack[n].todo \ {d}
  BY <1>1 DEF Calls
<1>3. DepDone(d) = [stack EXCEPT ![n] = top]
  BY DEF DepDone
<1> HIDE DEF top, n
<1>4. DepDone(d) \in Seq(Calls) /\ Len(DepDone(d)) = Len(stack)
  BY <1>1, <1>2, <1>3
<1>5. \A i \in 1..Len(stack) : DepDone(d)[i] = IF i = n THEN top ELSE stack[i]
  BY <1>1, <1>3
<1> QED BY <1>1, <1>2, <1>4, <1>5 DEF Top, n

(* Nothing is being resolved at first.                                      *)
LEMMA InitCatalogInv == CatalogInit => CatalogInv
<1> SUFFICES ASSUME CatalogInit PROVE CatalogInv
  OBVIOUS
<1>1. deps \in [Cal -> SUBSET Cal] /\ stack = <<>> /\ order = <<>>
  BY DEF CatalogInit
<1> QED BY <1>1 DEF CatalogInv, ResolveTypeOK, NothingBefore, VisitedOnce, PassedIsOrdered,
                    DependenciesFirst, Ordered

(* resolve_dependencies starts with one visit, of a record of which every  *)
(* dependency is left.                                                     *)
LEMMA StartsInv ==
  ASSUME CatalogInv, NEW c \in Cal, ResolveDependencies(c)
  PROVE  CatalogInv'
<1>1. deps' \in [Cal -> SUBSET Cal]
  BY DEF ResolveDependencies, DepLists
<1>2. stack' = <<[cal |-> c, todo |-> deps'[c]]>> /\ order' = <<>> /\ call' = "resolve"
  BY DEF ResolveDependencies, Visit, CatalogInv, NothingBefore
<1>3. [cal |-> c, todo |-> deps'[c]] \in Calls
  BY <1>1 DEF Calls
<1>4. /\ stack' \in Seq(Calls) /\ Len(stack') = 1 /\ stack'[1].cal = c
      /\ stack'[1].todo = deps'[c]
  BY <1>2, <1>3
<1> QED BY <1>1, <1>2, <1>4 DEF CatalogInv, ResolveTypeOK, NothingBefore, VisitedOnce,
             PassedIsOrdered, DependenciesFirst, Ordered

(* A dependency that is ordered already may be passed.                     *)
LEMMA VisitOrderedInv ==
  ASSUME CatalogInv, NEW d \in Cal, VisitOrdered(d)
  PROVE  CatalogInv'
<1>1. /\ stack # <<>> /\ stack' = DepDone(d) /\ UNCHANGED <<deps, order, call>>
      /\ Ordered(d)
  BY DEF VisitOrdered, Take, ToSet, CatalogInv, ResolveTypeOK, Ordered
<1>2. /\ stack' \in Seq(Calls) /\ Len(stack') = Len(stack)
      /\ \A i \in 1..Len(stack) :
           /\ stack'[i].cal = stack[i].cal
           /\ i # Len(stack) => stack'[i].todo = stack[i].todo
      /\ stack'[Len(stack)].todo = stack[Len(stack)].todo \ {d}
  BY <1>1, DepDoneIs DEF CatalogInv, ResolveTypeOK, Top
<1>3. ResolveTypeOK' /\ NothingBefore' /\ DependenciesFirst'
  BY <1>1, <1>2 DEF CatalogInv, ResolveTypeOK, NothingBefore, DependenciesFirst
<1>4. VisitedOnce'
  BY <1>1, <1>2 DEF CatalogInv, VisitedOnce, Ordered
<1>5. PassedIsOrdered'
  BY <1>1, <1>2 DEF CatalogInv, PassedIsOrdered, Ordered
<1> QED BY <1>3, <1>4, <1>5 DEF CatalogInv

(* A new visit begins for a dependency neither ordered nor being visited;  *)
(* the loop that began it is in that dependency.                           *)
LEMMA VisitNewInv ==
  ASSUME CatalogInv, NEW d \in Cal, VisitNew(d)
  PROVE  CatalogInv'
<1> DEFINE n == Len(stack)
           new == [cal |-> d, todo |-> deps[d]]
<1>1. /\ stack # <<>> /\ stack' = Append(DepDone(d), new) /\ UNCHANGED <<deps, order, call>>
      /\ ~Ordered(d) /\ \A i \in 1..n : stack[i].cal # d
  BY DEF VisitNew, Visit, Take, ToSet, Visiting, CatalogInv, ResolveTypeOK, Ordered
<1>2. new \in Calls /\ new.cal = d /\ new.todo = deps[d] /\ n \in Nat \ {0}
  BY <1>1 DEF CatalogInv, ResolveTypeOK, Calls
<1> HIDE DEF new
<1>3. /\ DepDone(d) \in Seq(Calls) /\ Len(DepDone(d)) = n
      /\ \A i \in 1..n : /\ DepDone(d)[i].cal = stack[i].cal
                         /\ i # n => DepDone(d)[i].todo = stack[i].todo
      /\ DepDone(d)[n].todo = stack[n].todo \ {d}
  BY <1>1, DepDoneIs DEF CatalogInv, ResolveTypeOK, Top
<1>4. /\ stack' \in Seq(Calls) /\ Len(stack') = n + 1
      /\ \A i \in 1..n : stack'[i] = DepDone(d)[i]
      /\ stack'[n + 1] = new
  BY <1>1, <1>2, <1>3
<1> HIDE DEF n
<1>5. ResolveTypeOK' /\ NothingBefore' /\ DependenciesFirst'
  BY <1>1, <1>4 DEF CatalogInv, ResolveTypeOK, NothingBefore, DependenciesFirst, n
<1>6. VisitedOnce'
  BY <1>1, <1>2, <1>3, <1>4 DEF CatalogInv, VisitedOnce, Ordered, n
<1>7. PassedIsOrdered'
  <2> SUFFICES ASSUME NEW i \in 1..n + 1, NEW e \in deps[stack'[i].cal]
               PROVE  \/ e \in stack'[i].todo
                      \/ Ordered(e)
                      \/ i < n + 1 /\ stack'[i + 1].cal = e
    BY <1>1, <1>4 DEF PassedIsOrdered, Ordered
  <2>1. CASE i = n + 1
    BY <2>1, <1>2, <1>4
  <2>2. CASE i = n
    BY <2>2, <1>2, <1>3, <1>4 DEF CatalogInv, PassedIsOrdered, n
  <2>3. CASE i < n
    BY <2>3, <1>2, <1>3, <1>4 DEF CatalogInv, PassedIsOrdered, n
  <2> QED BY <2>1, <2>2, <2>3, <1>2
<1> QED BY <1>5, <1>6, <1>7 DEF CatalogInv

(* A visit whose loop is over has all its dependencies ordered, so that    *)
(* its calibration may come next.                                          *)
LEMMA EndVisitInv == ASSUME CatalogInv, EndVisit PROVE CatalogInv'
<1> DEFINE n == Len(stack)
           c == stack[n].cal
<1>1. /\ stack # <<>> /\ stack[n].todo = {} /\ order' = Append(order, c)
      /\ stack' = SubSeq(stack, 1, n - 1) /\ UNCHANGED <<deps, call>>
  BY DEF EndVisit, Top, Front
<1>2. n \in Nat \ {0} /\ c \in Cal
  <2>1. stack \in Seq(Calls)
    BY DEF CatalogInv, ResolveTypeOK
  <2>2. n \in Nat \ {0} /\ stack[n] \in Calls
    BY <2>1, <1>1
  <2> QED BY <2>2 DEF Calls
<1>3. /\ stack' \in Seq(Calls) /\ Len(stack') = n - 1
      /\ \A i \in 1..n - 1 : stack'[i] = stack[i]
  <2>1. stack \in Seq(Calls) /\ n - 1 \in 0..Len(stack)
    BY <1>2 DEF CatalogInv, ResolveTypeOK
  <2>2. \A i \in 1..n - 1 : i \in 1..Len(stack) /\ stack[i] \in Calls
    BY <2>1, <1>2
  <2> HIDE DEF n
  <2>3. SubSeq(stack, 1, n - 1) = [i \in 1..n - 1 |-> stack[i]]
    BY <2>1, <1>2
  <2>4. n - 1 \in Nat /\ [i \in 1..n - 1 |-> stack[i]] \in Seq(Calls)
    BY <2>2, <1>2
  <2> QED BY <1>1, <2>3, <2>4
<1>4. /\ order' \in Seq(Cal) /\ Len(order') = Len(order) + 1 /\ Len(order) \in Nat
      /\ \A j \in 1..Len(order) : order'[j] = order[j]
      /\ order'[Len(order) + 1] = c
  BY <1>1, <1>2 DEF CatalogInv, ResolveTypeOK
<1>5. \A d : Ordered(d)' <=> Ordered(d) \/ d = c
  BY <1>4 DEF Ordered
<1>6. ~Ordered(c) /\ \A d \in deps[c] : Ordered(d)
  BY <1>1, <1>2 DEF CatalogInv, VisitedOnce, PassedIsOrdered
<1>7. call # "none"
  BY <1>1 DEF CatalogInv, NothingBefore
<1> HIDE DEF n, c
<1>8. ResolveTypeOK' /\ NothingBefore'
  BY <1>1, <1>3, <1>4, <1>7 DEF CatalogInv, ResolveTypeOK, NothingBefore
<1>9. VisitedOnce'
  BY <1>2, <1>3, <1>5 DEF CatalogInv, VisitedOnce, n, c
<1>10. PassedIsOrdered'
  <2> SUFFICES ASSUME NEW i \in 1..n - 1, NEW d \in deps[stack[i].cal]
               PROVE  d \in stack[i].todo \/ Ordered(d)' \/ (i < n - 1 /\ stack[i + 1].cal = d)
    BY <1>1, <1>2, <1>3 DEF PassedIsOrdered
  <2>1. d \in stack[i].todo \/ Ordered(d) \/ stack[i + 1].cal = d
    BY <1>2 DEF CatalogInv, PassedIsOrdered, n
  <2>2. i < n - 1 \/ i + 1 = n
    BY <1>2
  <2>3. CASE i + 1 = n /\ stack[i + 1].cal = d
    <3>1. d = c
      BY <2>3 DEF c
    <3> QED BY <3>1, <1>5
  <2>4. CASE Ordered(d)
    BY <2>4, <1>5
  <2> QED BY <2>1, <2>2, <2>3, <2>4
<1>11. DependenciesFirst'
  <2> SUFFICES ASSUME NEW i \in 1..Len(order) + 1
               PROVE  /\ \A j \in 1..Len(order) + 1 : order'[i] = order'[j] => i = j
                      /\ \A d \in deps[order'[i]] : \E j \in 1..i - 1 : order'[j] = d
    BY <1>1, <1>4 DEF DependenciesFirst
  <2>1. CASE i = Len(order) + 1
    BY <2>1, <1>4, <1>6 DEF Ordered
  <2>2. CASE i \in 1..Len(order)
    <3>1. order'[i] = order[i] /\ order[i] # c
      BY <2>2, <1>4, <1>6 DEF Ordered
    <3>2. \A j \in 1..Len(order) + 1 : order'[i] = order'[j] => i = j
      BY <2>2, <3>1, <1>4 DEF CatalogInv, DependenciesFirst
    <3>3. \A d \in deps[order[i]] : \E j \in 1..i - 1 : order'[j] = d
      BY <2>2, <1>4 DEF CatalogInv, DependenciesFirst
    <3> QED BY <3>1, <3>2, <3>3
  <2> QED BY <2>1, <2>2, <1>4
<1> QED BY <1>8, <1>9, <1>10, <1>11 DEF CatalogInv

(* The other steps touch neither the stack nor the order.                  *)
LEMMA OtherSteps ==
  ASSUME CatalogInv, call' # "none" \/ call' = call, UNCHANGED <<deps, stack, order>>
  PROVE  CatalogInv'
BY DEF CatalogInv, ResolveTypeOK, NothingBefore, VisitedOnce, PassedIsOrdered,
       DependenciesFirst, Ordered

(* Every step keeps the invariant: those of a resolution one by one.        *)
LEMMA NextCatalogInv == CatalogInv /\ [CatalogNext]_catalogVars => CatalogInv'
<1> SUFFICES ASSUME CatalogInv, [CatalogNext]_catalogVars PROVE CatalogInv'
  OBVIOUS
<1>1. CASE \E c \in Requested : PrepareFlashMissing(c)
  BY <1>1, OtherSteps DEF PrepareFlashMissing
<1>2. CASE \E c \in Requested : ResolveDependencies(c)
  BY <1>2, StartsInv, CatalogConstantsOK
<1>3. CASE \E c \in Requested : UpdateHistory(c)
  BY <1>3, OtherSteps DEF UpdateHistory
<1>4. CASE \E d \in Cal : VisitOrdered(d)
  BY <1>4, VisitOrderedInv
<1>5. CASE \E d \in Cal : VisitCircular(d)
  BY <1>5, OtherSteps DEF VisitCircular
<1>6. CASE \E d \in Cal : VisitNew(d)
  BY <1>6, VisitNewInv
<1>7. CASE EndVisit
  BY <1>7, EndVisitInv
<1>8. CASE HistoryStep
  BY <1>8, OtherSteps DEF HistoryStep, FollowSupersedes, EndHistory
<1>9. CASE UNCHANGED catalogVars
  BY <1>9, OtherSteps DEF catalogVars
<1> QED BY <1>1, <1>2, <1>3, <1>4, <1>5, <1>6, <1>7, <1>8, <1>9 DEF CatalogNext, ResolveStep

(* At every moment of a resolution, and in what it returns, a calibration  *)
(* comes after everything it depends on, and once.                         *)
THEOREM DependenciesTheorem == CatalogSpec => []DependenciesFirst
<1>1. CatalogInv => DependenciesFirst
  BY DEF CatalogInv
<1> QED BY InitCatalogInv, NextCatalogInv, <1>1, PTL DEF CatalogSpec
(* Every variable of the catalog stays in its type.                          *)
THEOREM CatalogTypeTheorem == CatalogSpec => []CatalogTypeOK
<1>1. CatalogInit => CatalogTypeOK
  BY DEF CatalogInit, CatalogTypeOK, Replies
<1>2. CatalogInv /\ CatalogInv' /\ CatalogTypeOK /\ [CatalogNext]_catalogVars
        => CatalogTypeOK'
  <2> SUFFICES ASSUME CatalogInv, CatalogInv', CatalogTypeOK, [CatalogNext]_catalogVars
               PROVE  CatalogTypeOK'
    OBVIOUS
  <2>1. /\ deps' \in [Cal -> SUBSET Cal]
        /\ stack' \in Seq([cal : Cal, todo : SUBSET Cal]) /\ order' \in Seq(Cal)
    BY DEF CatalogInv, ResolveTypeOK, Calls
  <2> USE <2>1, CatalogConstantsOK DEF CatalogTypeOK, Replies
  <2>2. CASE \E c \in Requested : PrepareFlashMissing(c)
    BY <2>2 DEF PrepareFlashMissing
  <2>3. CASE \E c \in Requested : ResolveDependencies(c)
    BY <2>3 DEF ResolveDependencies
  <2>4. CASE \E c \in Requested : UpdateHistory(c)
    BY <2>4 DEF UpdateHistory
  <2>5. CASE \E d \in Cal : VisitOrdered(d)
    BY <2>5 DEF VisitOrdered
  <2>6. CASE \E d \in Cal : VisitCircular(d)
    BY <2>6 DEF VisitCircular
  <2>7. CASE \E d \in Cal : VisitNew(d)
    BY <2>7 DEF VisitNew
  <2>8. CASE EndVisit
    BY <2>8 DEF EndVisit
  <2>9. CASE FollowSupersedes
    BY <2>9 DEF FollowSupersedes
  <2>10. CASE EndHistory
    BY <2>10 DEF EndHistory
  <2>11. CASE UNCHANGED catalogVars
    BY <2>11 DEF catalogVars
  <2> QED
    BY <2>2, <2>3, <2>4, <2>5, <2>6, <2>7, <2>8, <2>9, <2>10, <2>11
       DEF CatalogNext, ResolveStep, HistoryStep
<1> QED BY InitCatalogInv, NextCatalogInv, <1>1, <1>2, PTL DEF CatalogSpec
-----------------------------------------------------------------------------
(* Nothing is visited or ordered but by a resolution.                      *)
OnlyResolved == call # "resolve" => stack = <<>> /\ order = <<>>

(* The visits in progress are a path of dependencies from the requested    *)
(* calibration: it needs each of them, and each needs those inside it.     *)
PathOfVisits ==
  /\ stack # <<>> => stack[1].cal = root
  /\ \A i \in 1..Len(stack) : stack[i].todo \subseteq deps[stack[i].cal]
  /\ \A i, j \in 1..Len(stack) : i < j => Needs(stack[i].cal, stack[j].cal)

(* Only what the requested calibration needs is ordered.                   *)
OrderIsReached == \A i \in 1..Len(order) : order[i] \in Reached

(* How a resolution stands: it is under way, returned, or raised.          *)
ReplyOfResolve ==
  call = "resolve" =>
    /\ reply = "ok" => order # <<>> /\ order[Len(order)] = root
    /\ reply = "circular" => \E c \in Reached : OnCycle(c)

ReachInv ==
  /\ CatalogInv /\ OnlyResolved /\ PathOfVisits /\ OrderIsReached /\ ReplyOfResolve

(* What c leads to leads on to what follows from it.                       *)
LEMMA LeadsOn ==
  ASSUME NEW edges \in [Cal -> SUBSET Cal], NEW c \in Cal, NEW d \in Cal, NEW e \in edges[d],
         d = c \/ Leads(edges, c, d)
  PROVE  Leads(edges, c, e)
BY DEF Leads

(* The outermost visit is of the requested calibration, and it needs every *)
(* other that is being visited, so each is among those it reaches.         *)
LEMMA VisitsAreReached ==
  ASSUME ReachInv, NEW i \in 1..Len(stack)
  PROVE  stack[i].cal \in Reached /\ stack[i].cal \in Cal
<1>1. stack \in Seq(Calls) /\ Len(stack) \in Nat
  BY DEF ReachInv, CatalogInv, ResolveTypeOK
<1>2. stack[i] \in Calls /\ 1 \in 1..Len(stack) /\ stack # <<>>
  BY <1>1
<1>3. stack[i].cal \in Cal /\ stack[1].cal = root
  BY <1>2 DEF Calls, ReachInv, PathOfVisits
<1>4. CASE i = 1
  BY <1>3, <1>4 DEF Reached
<1>5. CASE 1 < i
  <2>1. Needs(root, stack[i].cal)
    BY <1>2, <1>3, <1>5 DEF ReachInv, PathOfVisits
  <2> QED BY <2>1, <1>3 DEF Reached
<1> QED BY <1>3, <1>4, <1>5, <1>1

(* What the returned order says of the dependencies: the set of what it    *)
(* holds is closed, and so is the set of what comes before a calibration.  *)
LEMMA OrderIsClosed ==
  ASSUME CatalogInv, NEW n \in 0..Len(order)
  PROVE  \A i \in 1..n : deps[order[i]] \subseteq {order[j] : j \in 1..n}
<1>1. Len(order) \in Nat
  BY DEF CatalogInv, ResolveTypeOK
<1> QED BY <1>1 DEF CatalogInv, DependenciesFirst

(* What an order lists needs only what it lists before, so it does not need  *)
(* itself.                                                                   *)
LEMMA NothingOnCycle ==
  ASSUME CatalogInv, NEW i \in 1..Len(order)
  PROVE  ~OnCycle(order[i])
<1> DEFINE before == {order[j] : j \in 1..i - 1}
<1>1. order \in Seq(Cal) /\ Len(order) \in Nat
  BY DEF CatalogInv, ResolveTypeOK
<1>2. before \in SUBSET Cal
  BY <1>1
<1>3. order[i] \notin before
  BY <1>1 DEF CatalogInv, DependenciesFirst
<1>4. deps[order[i]] \subseteq before
  BY DEF CatalogInv, DependenciesFirst
<1>5. \A e \in before : deps[e] \subseteq before
  <2>1. i - 1 \in 0..Len(order)
    BY <1>1
  <2> QED BY <2>1, OrderIsClosed
<1> HIDE DEF before
<1> QED BY <1>2, <1>3, <1>4, <1>5 DEF OnCycle, Needs, Leads

(* The invariant says what the property says.                                *)
LEMMA ReachInvIsResolved == ReachInv => ResolvedOrCircular
<1> SUFFICES ASSUME ReachInv, call = "resolve"
             PROVE  /\ reply = "ok" => /\ ToSet(order) = Reached
                                       /\ order[Len(order)] = root
                                       /\ \A c \in Reached : ~OnCycle(c)
                    /\ reply = "circular" => \E c \in Reached : OnCycle(c)
  BY DEF ResolvedOrCircular
<1>1. order \in Seq(Cal) /\ Len(order) \in Nat /\ ToSet(order) = {order[j] : j \in 1..Len(order)}
  BY DEF ReachInv, CatalogInv, ResolveTypeOK, ToSet
<1>2. reply = "circular" => \E c \in Reached : OnCycle(c)
  BY DEF ReachInv, ReplyOfResolve
<1>3. ASSUME reply = "ok"
      PROVE  /\ ToSet(order) = Reached
             /\ order[Len(order)] = root
             /\ \A c \in Reached : ~OnCycle(c)
  <2>1. order # <<>> /\ order[Len(order)] = root
    BY <1>3 DEF ReachInv, ReplyOfResolve
  <2>2. Len(order) \in 1..Len(order) /\ root \in ToSet(order) /\ ToSet(order) \in SUBSET Cal
    BY <1>1, <2>1
  <2>3. \A e \in ToSet(order) : deps[e] \subseteq ToSet(order)
    BY <1>1, OrderIsClosed DEF ReachInv
  <2>4. Reached \subseteq ToSet(order)
    BY <2>2, <2>3 DEF Reached, Needs, Leads
  <2>5. ToSet(order) \subseteq Reached
    BY <1>1 DEF ReachInv, OrderIsReached
  <2>6. \A c \in ToSet(order) : ~OnCycle(c)
    BY <1>1, NothingOnCycle DEF ReachInv
  <2> QED BY <2>1, <2>4, <2>5, <2>6
<1> QED BY <1>2, <1>3

(* It holds before the first resolution.                                     *)
LEMMA InitReachInv == CatalogInit => ReachInv
<1> SUFFICES ASSUME CatalogInit PROVE ReachInv
  OBVIOUS
<1>1. call = "none" /\ stack = <<>> /\ order = <<>>
  BY DEF CatalogInit
<1> QED BY <1>1, InitCatalogInv DEF ReachInv, OnlyResolved, PathOfVisits, OrderIsReached,
                                    ReplyOfResolve

(* A resolution begins with the visit of what was requested.               *)
LEMMA StartsReach ==
  ASSUME ReachInv, NEW c \in Cal, ResolveDependencies(c)
  PROVE  ReachInv'
<1>1. CatalogInv'
  BY StartsInv DEF ReachInv
<1>2. /\ stack' = <<[cal |-> c, todo |-> deps'[c]]>> /\ order' = <<>> /\ call' = "resolve"
      /\ root' = c /\ reply' = "running"
  BY DEF ResolveDependencies, Visit, ReachInv, CatalogInv, NothingBefore
<1>3. stack' # <<>> /\ Len(stack') = 1 /\ stack'[1].cal = c /\ stack'[1].todo = deps'[c]
  BY <1>2
<1>4. PathOfVisits'
  BY <1>2, <1>3 DEF PathOfVisits
<1> QED BY <1>1, <1>2, <1>4 DEF ReachInv, OnlyResolved, OrderIsReached, ReplyOfResolve

(* A dependency that is passed over leaves the path as it was.             *)
LEMMA VisitOrderedReach ==
  ASSUME ReachInv, NEW d \in Cal, VisitOrdered(d)
  PROVE  ReachInv'
<1>1. CatalogInv'
  BY VisitOrderedInv DEF ReachInv
<1>2. /\ stack # <<>> /\ stack' = DepDone(d) /\ UNCHANGED <<deps, order, call, root, reply>>
      /\ stack \in Seq(Calls) /\ Len(stack) \in Nat
  BY DEF VisitOrdered, Take, ReachInv, CatalogInv, ResolveTypeOK
<1>3. /\ stack' \in Seq(Calls) /\ Len(stack') = Len(stack)
      /\ \A i \in 1..Len(stack) :
           /\ stack'[i].cal = stack[i].cal
           /\ stack'[i].todo \subseteq stack[i].todo
  BY <1>2, DepDoneIs DEF Top
<1>4. stack' # <<>> /\ 1 \in 1..Len(stack)
  BY <1>2, <1>3
<1>5. PathOfVisits'
  BY <1>2, <1>3, <1>4 DEF ReachInv, PathOfVisits, Needs, Leads
<1>6. OnlyResolved'
  BY <1>2 DEF ReachInv, OnlyResolved
<1>7. OrderIsReached' /\ ReplyOfResolve'
  BY <1>2 DEF ReachInv, OrderIsReached, ReplyOfResolve, Reached, OnCycle, Needs, Leads
<1> QED BY <1>1, <1>5, <1>6, <1>7 DEF ReachInv

(* A visit that meets one it is inside of has found a cycle.               *)
LEMMA VisitCircularReach ==
  ASSUME ReachInv, NEW d \in Cal, VisitCircular(d)
  PROVE  ReachInv'
<1>1. /\ stack # <<>> /\ d \in Top.todo /\ d \in Visiting
      /\ UNCHANGED <<deps, order, stack, call, root>>
      /\ stack \in Seq(Calls) /\ Len(stack) \in Nat /\ reply' = "circular"
  BY DEF VisitCircular, Take, ReachInv, CatalogInv, ResolveTypeOK
<1>2. CatalogInv'
  BY <1>1, OtherSteps DEF ReachInv
<1>3. PICK j \in 1..Len(stack) : stack[j].cal = d
  BY <1>1 DEF Visiting
<1> DEFINE n == Len(stack)
           top == stack[n].cal
<1>4. n \in 1..Len(stack) /\ d \in deps[top] /\ top \in Cal /\ deps \in [Cal -> SUBSET Cal]
  <2>1. n \in 1..Len(stack) /\ stack[n] \in Calls
    BY <1>1
  <2> QED BY <2>1, <1>1 DEF Top, Calls, ReachInv, PathOfVisits, CatalogInv, ResolveTypeOK
<1>5. top = d \/ Needs(d, top)
  BY <1>1, <1>3, <1>4 DEF ReachInv, PathOfVisits
<1>6. OnCycle(d) /\ d \in Reached
  <2>1. d \in Reached
    BY <1>3, VisitsAreReached
  <2> HIDE DEF top
  <2>2. Leads(deps, d, d)
    BY <1>4, <1>5, LeadsOn DEF Needs
  <2> QED BY <2>1, <2>2 DEF OnCycle, Needs
<1>7. ReplyOfResolve'
  BY <1>1, <1>6 DEF ReplyOfResolve, Reached, OnCycle, Needs, Leads
<1>8. PathOfVisits' /\ OrderIsReached' /\ OnlyResolved'
  BY <1>1 DEF ReachInv, PathOfVisits, OrderIsReached, OnlyResolved, Reached, Needs, Leads
<1> QED BY <1>2, <1>7, <1>8 DEF ReachInv

(* A new visit lengthens the path by one edge.                             *)
LEMMA VisitNewReach ==
  ASSUME ReachInv, NEW d \in Cal, VisitNew(d)
  PROVE  ReachInv'
<1> DEFINE n == Len(stack)
           new == [cal |-> d, todo |-> deps[d]]
<1>1. /\ stack # <<>> /\ d \in Top.todo /\ stack' = Append(DepDone(d), new)
      /\ UNCHANGED <<deps, order, call, root, reply>>
      /\ stack \in Seq(Calls) /\ Len(stack) \in Nat /\ deps \in [Cal -> SUBSET Cal]
  BY DEF VisitNew, Visit, Take, ReachInv, CatalogInv, ResolveTypeOK
<1>2. CatalogInv'
  BY VisitNewInv DEF ReachInv
<1>3. new.cal = d /\ new.todo = deps[d] /\ n \in Nat \ {0} /\ new \in Calls
  BY <1>1 DEF Calls
<1> HIDE DEF new
<1>4. /\ DepDone(d) \in Seq(Calls) /\ Len(DepDone(d)) = n
      /\ \A i \in 1..n : /\ DepDone(d)[i].cal = stack[i].cal
                         /\ DepDone(d)[i].todo \subseteq stack[i].todo
  BY <1>1, DepDoneIs DEF Top
<1>5. /\ stack' \in Seq(Calls) /\ Len(stack') = n + 1 /\ stack' # <<>>
      /\ \A i \in 1..n : stack'[i] = DepDone(d)[i]
      /\ stack'[n + 1] = new
  BY <1>1, <1>3, <1>4
<1>6. d \in deps[stack[n].cal] /\ stack[n].cal \in Cal
  <2>1. n \in 1..Len(stack) /\ stack[n] \in Calls
    BY <1>1, <1>3
  <2> QED BY <2>1, <1>1 DEF Top, Calls, ReachInv, PathOfVisits
<1>7. \A i \in 1..n : Needs(stack[i].cal, d)
  <2> SUFFICES ASSUME NEW i \in 1..n PROVE Needs(stack[i].cal, d)
    OBVIOUS
  <2>1. stack[i].cal = stack[n].cal \/ Needs(stack[i].cal, stack[n].cal)
    BY <1>3 DEF ReachInv, PathOfVisits
  <2>2. stack[i] \in Calls
    BY <1>1
  <2>3. stack[i].cal \in Cal
    BY <2>2 DEF Calls
  <2> QED BY <2>1, <2>3, <1>1, <1>6, LeadsOn DEF Needs
<1> HIDE DEF n
<1>8. PathOfVisits'
  <2>1. stack'[1].cal = root'
    BY <1>1, <1>3, <1>4, <1>5 DEF ReachInv, PathOfVisits
  <2>2. \A i \in 1..n + 1 : stack'[i].todo \subseteq deps'[stack'[i].cal]
    BY <1>1, <1>3, <1>4, <1>5 DEF ReachInv, PathOfVisits, n
  <2>3. ASSUME NEW i \in 1..n + 1, NEW j \in 1..n + 1, i < j
        PROVE  Leads(deps, stack'[i].cal, stack'[j].cal)
    <3>1. i \in 1..n /\ stack'[i].cal = stack[i].cal
      BY <2>3, <1>3, <1>4, <1>5
    <3>2. CASE j = n + 1
      BY <3>1, <3>2, <1>3, <1>5, <1>7 DEF Needs
    <3>3. CASE j \in 1..n
      <4>1. stack'[j].cal = stack[j].cal
        BY <3>3, <1>4, <1>5
      <4> QED BY <4>1, <3>1, <3>3, <2>3 DEF ReachInv, PathOfVisits, Needs, n
    <3> QED BY <3>2, <3>3, <1>3
  <2> QED BY <2>1, <2>2, <2>3, <1>1, <1>5 DEF PathOfVisits, Needs, Leads
<1>9. OnlyResolved'
  BY <1>1 DEF ReachInv, OnlyResolved
<1>10. OrderIsReached' /\ ReplyOfResolve'
  BY <1>1 DEF ReachInv, OrderIsReached, ReplyOfResolve, Reached, OnCycle, Needs, Leads
<1> QED BY <1>2, <1>8, <1>9, <1>10 DEF ReachInv

(* The visit that ends was on the path; the last to end is of what was     *)
(* requested.                                                              *)
LEMMA EndVisitReach == ASSUME ReachInv, EndVisit PROVE ReachInv'
<1> DEFINE n == Len(stack)
           c == stack[n].cal
<1>1. /\ stack # <<>> /\ order' = Append(order, c) /\ stack' = SubSeq(stack, 1, n - 1)
      /\ UNCHANGED <<deps, call, root>> /\ reply' = IF n = 1 THEN "ok" ELSE "running"
      /\ stack \in Seq(Calls) /\ n \in Nat /\ order \in Seq(Cal)
  BY DEF EndVisit, Top, Front, ReachInv, CatalogInv, ResolveTypeOK
<1>2. CatalogInv'
  BY EndVisitInv DEF ReachInv
<1>3. n \in 1..Len(stack) /\ c \in Reached /\ c \in Cal
  BY <1>1, VisitsAreReached
<1>4. /\ Len(stack') = n - 1 /\ \A i \in 1..n - 1 : stack'[i] = stack[i]
      /\ stack' # <<>> => 1 \in 1..n - 1
  <2>1. \A i \in 1..n - 1 : i \in 1..Len(stack) /\ stack[i] \in Calls
    BY <1>1, <1>3
  <2> HIDE DEF n
  <2>2. SubSeq(stack, 1, n - 1) = [i \in 1..n - 1 |-> stack[i]]
    BY <1>1, <1>3
  <2>3. n - 1 \in Nat /\ [i \in 1..n - 1 |-> stack[i]] \in Seq(Calls)
    BY <2>1, <1>3 DEF n
  <2> QED BY <1>1, <2>2, <2>3
<1>5. /\ Len(order') = Len(order) + 1 /\ Len(order) \in Nat /\ order' # <<>>
      /\ \A j \in 1..Len(order) : order'[j] = order[j]
      /\ order'[Len(order) + 1] = c
  BY <1>1, <1>3
<1> HIDE DEF n, c
<1>6. PathOfVisits'
  <2>1. \A i \in 1..n - 1 : i \in 1..n
    BY <1>1
  <2>2. stack' # <<>> => stack'[1].cal = root'
    BY <1>1, <1>4 DEF ReachInv, PathOfVisits
  <2>3. \A i \in 1..n - 1 : stack'[i].todo \subseteq deps'[stack'[i].cal]
    BY <2>1, <1>1, <1>4 DEF ReachInv, PathOfVisits, n
  <2>4. ASSUME NEW i \in 1..n - 1, NEW j \in 1..n - 1, i < j
        PROVE  Leads(deps', stack'[i].cal, stack'[j].cal)
    <3>1. Needs(stack[i].cal, stack[j].cal)
      BY <2>1, <2>4 DEF ReachInv, PathOfVisits, n
    <3> QED BY <3>1, <1>1, <1>4 DEF Needs
  <2> QED BY <2>2, <2>3, <2>4, <1>4 DEF PathOfVisits, Needs, Leads
<1>7. OrderIsReached'
  <2>1. \A i \in 1..Len(order) + 1 : order'[i] \in Reached
    BY <1>3, <1>5 DEF ReachInv, OrderIsReached
  <2> QED BY <2>1, <1>1, <1>5 DEF OrderIsReached, Reached, Needs, Leads
<1>8. call' = "resolve"
  BY <1>1 DEF ReachInv, OnlyResolved
<1>9. ReplyOfResolve'
  <2>1. reply' = "ok" => n = 1
    BY <1>1
  <2>2. n = 1 => c = root
    BY <1>1 DEF ReachInv, PathOfVisits, n, c
  <2>3. reply' # "circular"
    BY <1>1
  <2> QED BY <2>1, <2>2, <2>3, <1>1, <1>5 DEF ReplyOfResolve
<1> QED BY <1>2, <1>6, <1>7, <1>8, <1>9 DEF ReachInv, OnlyResolved

(* Every step of the catalog preserves it.                                   *)
LEMMA NextReachInv == ReachInv /\ [CatalogNext]_catalogVars => ReachInv'
<1> SUFFICES ASSUME ReachInv, [CatalogNext]_catalogVars PROVE ReachInv'
  OBVIOUS
<1>1. ASSUME NEW c \in Requested, PrepareFlashMissing(c) PROVE ReachInv'
  <2>1. stack = <<>> /\ order = <<>> /\ UNCHANGED <<deps, stack, order>> /\ call' = "resolve"
    BY <1>1 DEF PrepareFlashMissing, ReachInv, CatalogInv, NothingBefore
  <2>2. CatalogInv'
    BY <2>1, OtherSteps DEF ReachInv
  <2>3. ReplyOfResolve'
    BY <1>1 DEF PrepareFlashMissing, ReplyOfResolve
  <2>4. stack' = <<>> /\ order' = <<>>
    BY <2>1
  <2> QED BY <2>1, <2>2, <2>3, <2>4 DEF ReachInv, OnlyResolved, PathOfVisits, OrderIsReached
<1>2. CASE \E c \in Requested : ResolveDependencies(c)
  BY <1>2, StartsReach, CatalogConstantsOK
<1>3. ASSUME NEW c \in Requested, UpdateHistory(c) PROVE ReachInv'
  <2>1. stack = <<>> /\ order = <<>> /\ UNCHANGED <<deps, stack, order>> /\ call' = "history"
    BY <1>3 DEF UpdateHistory, ReachInv, CatalogInv, NothingBefore
  <2>2. CatalogInv'
    BY <2>1, OtherSteps DEF ReachInv
  <2> QED BY <2>1, <2>2 DEF ReachInv, OnlyResolved, PathOfVisits, OrderIsReached,
                           ReplyOfResolve
<1>4. CASE \E d \in Cal : VisitOrdered(d)
  BY <1>4, VisitOrderedReach
<1>5. CASE \E d \in Cal : VisitCircular(d)
  BY <1>5, VisitCircularReach
<1>6. CASE \E d \in Cal : VisitNew(d)
  BY <1>6, VisitNewReach
<1>7. CASE EndVisit
  BY <1>7, EndVisitReach
<1>8. CASE HistoryStep
  <2>1. call = "history" /\ UNCHANGED <<call, deps, stack, order>>
    BY <1>8 DEF HistoryStep, FollowSupersedes, EndHistory
  <2>2. CatalogInv' /\ stack = <<>> /\ order = <<>>
    BY <2>1, OtherSteps DEF ReachInv, OnlyResolved
  <2> QED BY <2>1, <2>2 DEF ReachInv, OnlyResolved, PathOfVisits, OrderIsReached,
                           ReplyOfResolve
<1>9. CASE UNCHANGED catalogVars
  <2>1. UNCHANGED <<deps, stack, order, call, root, reply>>
    BY <1>9 DEF catalogVars
  <2>2. CatalogInv'
    BY <2>1, OtherSteps DEF ReachInv
  <2> QED BY <2>1, <2>2 DEF ReachInv, OnlyResolved, PathOfVisits, OrderIsReached,
                           ReplyOfResolve, Reached, OnCycle, Needs, Leads
<1> QED BY <1>1, <1>2, <1>3, <1>4, <1>5, <1>6, <1>7, <1>8, <1>9 DEF CatalogNext, ResolveStep

(* A returned order holds exactly what the requested calibration needs,    *)
(* with it last and nothing of it on a cycle; the error means a cycle.     *)
THEOREM ResolvedTheorem == CatalogSpec => []ResolvedOrCircular
BY InitReachInv, NextReachInv, ReachInvIsResolved, PTL DEF CatalogSpec
===============================================================================
