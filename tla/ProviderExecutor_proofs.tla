---------------------- MODULE ProviderExecutor_proofs -----------------------
(***************************************************************************)
(* ProviderExecutor implements Failover, restarts no stream, buys no       *)
(* answer twice and calls no model more often than the retries allow: for  *)
(* chains of any length, any number of retries, and any adapters that are  *)
(* described by Adapters.                                                  *)
(*                                                                         *)
(* The chain of a request is a fold over the failover list.  What a fold   *)
(* computes is shown first: that it is defined (FoldExists), and that what *)
(* holds of the empty set and survives one more element holds of the whole *)
(* (SubsetInduction), both from the well-foundedness of < on the numbers.  *)
(***************************************************************************)
EXTENDS ProviderExecutor, FiniteSetTheorems, WellFoundedInduction, TLAPS

(* Induction over the numbers, with the claim as a set.                    *)
LEMMA CountInduction ==
    ASSUME NEW N, 0 \in N, \A n \in Nat : n \in N => n + 1 \in N
    PROVE  Nat \subseteq N
<1> SUFFICES ASSUME Nat \ N # {} PROVE FALSE
  OBVIOUS
<1>1. PICK n \in Nat \ N : \A m \in Nat \ N : ~(<<m, n>> \in OpToRel(<, Nat))
  BY NatLessThanWellFounded, WFMin, Zenon
<1>2. \A m \in Nat \ N : ~(m < n)
  BY <1>1 DEF OpToRel
<1>3. n # 0 /\ n - 1 \in Nat /\ n - 1 < n
  OBVIOUS
<1>4. n - 1 \in N
  BY <1>2, <1>3
<1>5. (n - 1) + 1 = n
  OBVIOUS
<1> QED
  BY <1>3, <1>4, <1>5

(* Induction over the subsets of a finite set, one element at a time.      *)
Grows(S, P) == \A s \in SUBSET S : (\A x \in s : s \ {x} \in P) => s \in P

LEMMA SubsetInduction ==
    ASSUME NEW S, IsFiniteSet(S), NEW P, Grows(S, P)
    PROVE  \A s \in SUBSET S : s \in P
<1> USE DEF Grows
<1> DEFINE N == {n \in Nat : \A s \in SUBSET S : Cardinality(s) = n => s \in P}
<1>1. \A s \in SUBSET S : IsFiniteSet(s) /\ Cardinality(s) \in Nat
  BY FS_Subset, FS_CardinalityType
<1>2. 0 \in N
  <2>1. ASSUME NEW s \in SUBSET S, Cardinality(s) = 0 PROVE s \in P
    BY <1>1, <2>1, FS_EmptySet
  <2> QED
    BY <2>1
<1>3. ASSUME NEW n \in Nat, n \in N PROVE n + 1 \in N
  <2>1. ASSUME NEW s \in SUBSET S, Cardinality(s) = n + 1 PROVE s \in P
    <3>1. ASSUME NEW x \in s PROVE s \ {x} \in P
      <4>1. Cardinality(s \ {x}) = n
        BY <1>1, <2>1, FS_RemoveElement
      <4> QED
        BY <1>3, <4>1
    <3> QED
      BY <3>1
  <2> QED
    BY <2>1
<1>4. Nat \subseteq N
  <2> HIDE DEF N
  <2> QED
    BY <1>2, <1>3, CountInduction
<1> QED
  BY <1>1, <1>4

(* A fold over S, with ch for the order, is defined on the sets of up to n *)
(* elements.                                                               *)
Folded(S, A, base, G, ch, n) ==
    \E g \in [SUBSET S -> A] : \A s \in SUBSET S : Cardinality(s) <= n =>
        g[s] = IF s = {} THEN base ELSE G[ch[s]][g[s \ {ch[s]}]]

(* Then it is on those of one more, whatever order it is taken in.         *)
LEMMA FoldLevel ==
    ASSUME NEW S, IsFiniteSet(S), NEW A, NEW base \in A, NEW G \in [S -> [A -> A]],
           NEW ch, \A s \in SUBSET S : s # {} => ch[s] \in s,
           NEW n \in Nat, Folded(S, A, base, G, ch, n)
    PROVE  Folded(S, A, base, G, ch, n + 1)
<1>0. PICK g \in [SUBSET S -> A] : \A s \in SUBSET S : Cardinality(s) <= n =>
          g[s] = IF s = {} THEN base ELSE G[ch[s]][g[s \ {ch[s]}]]
  BY DEF Folded
<1> DEFINE h == [s \in SUBSET S |-> IF Cardinality(s) = n + 1 THEN G[ch[s]][g[s \ {ch[s]}]] ELSE g[s]]
<1>1. \A s \in SUBSET S : IsFiniteSet(s) /\ Cardinality(s) \in Nat
  BY FS_Subset, FS_CardinalityType
<1>2. \A s \in SUBSET S : s = {} <=> Cardinality(s) = 0
  BY <1>1, FS_EmptySet
<1>3. ASSUME NEW s \in SUBSET S, s # {}
      PROVE  /\ ch[s] \in S /\ s \ {ch[s]} \in SUBSET S
             /\ Cardinality(s \ {ch[s]}) = Cardinality(s) - 1
             /\ G[ch[s]][g[s \ {ch[s]}]] \in A
  <2>1. PICK x \in s : x = ch[s]
    BY <1>3
  <2>2. PICK t \in SUBSET S : t = s \ {x}
    OBVIOUS
  <2>3. Cardinality(t) = Cardinality(s) - 1
    BY <1>1, <2>2, FS_RemoveElement
  <2>4. G[x] \in [A -> A] /\ g[t] \in A
    BY <2>1
  <2>5. G[x][g[t]] \in A
    BY <2>4
  <2> QED
    BY <2>1, <2>3, <2>2, <2>5
<1>4. h \in [SUBSET S -> A]
  <2>1. ASSUME NEW s \in SUBSET S
        PROVE  (IF Cardinality(s) = n + 1 THEN G[ch[s]][g[s \ {ch[s]}]] ELSE g[s]) \in A
    <3>1. CASE Cardinality(s) = n + 1
      <4>1. s # {}
        BY <1>2, <3>1
      <4> QED
        BY <1>3, <3>1, <4>1
    <3>2. CASE Cardinality(s) # n + 1
      BY <3>2
    <3> QED
      BY <3>1, <3>2
  <2> QED
    BY <2>1
<1>5. ASSUME NEW s \in SUBSET S, Cardinality(s) <= n + 1
      PROVE h[s] = IF s = {} THEN base ELSE G[ch[s]][h[s \ {ch[s]}]]
  <2>1. CASE s = {}
    <3>1. Cardinality(s) = 0
      BY <1>2, <2>1
    <3>2. h[s] = g[s]
      BY <3>1
    <3>3. g[s] = base
      <4>1. Cardinality(s) <= n
        BY <3>1
      <4> HIDE DEF h
      <4>2. g[s] = IF s = {} THEN base ELSE G[ch[s]][g[s \ {ch[s]}]]
        BY <1>0, <4>1
      <4> QED
        BY <2>1, <4>2, Zenon
    <3> QED
      BY <2>1, <3>2, <3>3
  <2>2. CASE s # {}
    <3>1. PICK t \in SUBSET S : t = s \ {ch[s]} /\ Cardinality(t) = Cardinality(s) - 1
      BY <1>3, <2>2
    <3>2. Cardinality(t) # n + 1
      BY <1>1, <1>5, <3>1
    <3>3. h[t] = g[t]
      BY <3>2
    <3>4. h[s] = G[ch[s]][g[t]]
      <4>1. CASE Cardinality(s) = n + 1
        BY <4>1, <3>1
      <4>2. CASE Cardinality(s) # n + 1
        <5>1. Cardinality(s) <= n
          BY <1>1, <1>5, <4>2
        <5> QED
          BY <1>0, <2>2, <3>1, <4>2, <5>1
      <4> QED
        BY <4>1, <4>2
    <3> QED
      BY <2>2, <3>1, <3>3, <3>4
  <2> QED
    BY <2>1, <2>2
<1> HIDE DEF h
<1> QED
  BY <1>4, <1>5 DEF Folded

(* It is defined on all of them.                                           *)
LEMMA FoldExists ==
    ASSUME NEW S, IsFiniteSet(S), NEW A, NEW base \in A, NEW G \in [S -> [A -> A]],
           NEW ch, \A s \in SUBSET S : s # {} => ch[s] \in s
    PROVE  Folded(S, A, base, G, ch, Cardinality(S))
<1> DEFINE N == {n \in Nat : Folded(S, A, base, G, ch, n)}
<1>1. \A s \in SUBSET S : IsFiniteSet(s) /\ Cardinality(s) \in Nat /\ (s = {} <=> Cardinality(s) = 0)
  BY FS_Subset, FS_CardinalityType, FS_EmptySet
<1>2. Folded(S, A, base, G, ch, 0)
  <2> DEFINE g == [s \in SUBSET S |-> base]
  <2>1. g \in [SUBSET S -> A]
    OBVIOUS
  <2>2. ASSUME NEW s \in SUBSET S, Cardinality(s) <= 0
        PROVE  g[s] = IF s = {} THEN base ELSE G[ch[s]][g[s \ {ch[s]}]]
    BY <1>1, <2>2
  <2> HIDE DEF g
  <2> QED
    BY <2>1, <2>2 DEF Folded
<1>3. \A n \in Nat : n \in N => n + 1 \in N
  BY FoldLevel
<1>4. 0 \in N /\ Cardinality(S) \in Nat
  BY <1>1, <1>2
<1>5. Cardinality(S) \in N
  <2> HIDE DEF N
  <2> QED
    BY <1>3, <1>4, CountInduction
<1> QED
  BY <1>5

-----------------------------------------------------------------------------
(* The largest of some indexes.                                            *)
LEMMA Largest ==
    ASSUME NEW n \in Nat, NEW s \in SUBSET (1..n), s # {}
    PROVE  Max(s) \in s /\ \A y \in s : y <= Max(s)
<1> DEFINE Bounds == {m \in Nat : \A y \in s : y <= m}
<1>1. n \in Bounds
  OBVIOUS
<1>2. PICK m \in Bounds : \A k \in Bounds : ~(<<k, m>> \in OpToRel(<, Nat))
  <2>1. Bounds \subseteq Nat /\ Bounds # {}
    BY <1>1
  <2> HIDE DEF Bounds
  <2> QED
    BY <2>1, NatLessThanWellFounded, WFMin, Zenon
<1>3. \A k \in Bounds : ~(k < m)
  BY <1>2 DEF OpToRel
<1>4. m \in s
  <2>1. SUFFICES ASSUME m \notin s PROVE m - 1 \in Bounds
    BY <1>3
  <2>2. PICK y0 \in s : y0 \in 1..n
    OBVIOUS
  <2>3. \A y \in s : y <= m
    OBVIOUS
  <2>4. y0 <= m
    BY <2>2, <2>3
  <2>5. m - 1 \in Nat
    BY <2>2, <2>4
  <2>6. ASSUME NEW y \in s PROVE y <= m - 1
    <3>1. y # m /\ y <= m /\ y \in 1..n
      BY <2>1, <2>3
    <3> QED
      BY <3>1
  <2> QED
    BY <2>5, <2>6
<1>5. \A y \in s : m >= y
  OBVIOUS
<1> HIDE DEF Bounds
<1> QED
  BY <1>4, <1>5, Zenon DEF Max

Routes == [model : Models, provider : Providers]

(* A chain of distinct models, extended k times at most.                   *)
Fits(chain, k) ==
    /\ chain \in Seq(Routes) /\ Len(chain) \in 1..(k + 1)
    /\ \A x, y \in 1..Len(chain) : chain[x].model = chain[y].model => x = y

(* _routes_for adds a fallback at the end, or passes it over.              *)
LEMMA ExtendFits ==
    ASSUME NEW catalog \in [Models -> Providers \cup {NoProvider}], NEW m \in Models,
           NEW k \in Nat, NEW chain, Fits(chain, k)
    PROVE  Fits(Extend(chain, m, catalog), k + 1) /\ Extend(chain, m, catalog) \in Seq(Routes)
<1> USE DEF Fits
<1>1. CASE Extend(chain, m, catalog) = chain
  BY <1>1
<1>2. CASE /\ Supported(m, catalog) /\ \A x \in 1..Len(chain) : chain[x].model # m
           /\ Extend(chain, m, catalog) = Append(chain, Route(m, catalog))
  <2>1. Route(m, catalog) \in Routes /\ Route(m, catalog).model = m
    BY <1>2 DEF Route, Routes, Supported
  <2>2. PICK r \in Routes : r = Route(m, catalog) /\ r.model = m
    BY <2>1
  <2>3. PICK longer : longer = Append(chain, r) /\ longer \in Seq(Routes)
    <3>1. chain \in Seq(Routes)
      OBVIOUS
    <3>2. Append(chain, r) \in Seq(Routes)
      BY <3>1
    <3> QED
      BY <3>2
  <2>4. /\ Len(longer) = Len(chain) + 1 /\ longer[Len(chain) + 1] = r
        /\ \A x \in 1..Len(chain) : longer[x] = chain[x]
    BY <2>3
  <2>5. Len(longer) \in 1..(k + 2)
    BY <2>4
  <2>6. ASSUME NEW x \in 1..Len(longer), NEW y \in 1..Len(longer),
               longer[x].model = longer[y].model
        PROVE  x = y
    <3>1. /\ x \in 1..Len(chain) \/ x = Len(chain) + 1
          /\ y \in 1..Len(chain) \/ y = Len(chain) + 1
      BY <2>4
    <3> QED
      BY <1>2, <2>2, <2>4, <2>6, <3>1
  <2> QED
    BY <1>2, <2>2, <2>3, <2>5, <2>6
<1> QED
  BY <1>1, <1>2 DEF Extend

(* The chain of a request is the requested model and what the fallbacks    *)
(* add to it, one at a time.                                               *)
LEMMA FoldedChain ==
    ASSUME NEW n \in Nat, NEW fallbacks \in [1..n -> Models], NEW model \in Models,
           NEW catalog \in [Models -> Providers \cup {NoProvider}], Supported(model, catalog)
    PROVE  Fits(RouteChain(model, catalog, fallbacks), n)
<1> DEFINE S == 1..n
           first == <<Route(model, catalog)>>
           A == Seq(Routes)
           ch == [s \in SUBSET S |-> Max(s)]
           G == [x \in S |-> [c \in A |-> Extend(c, fallbacks[x], catalog)]]
           Def(g) == g = [s \in SUBSET S |->
               IF s = {} THEN first
               ELSE LET x == Max(s) IN Extend(g[s \ {x}], fallbacks[x], catalog)]
           iter == CHOOSE g : Def(g)
<1>1. IsFiniteSet(S) /\ Cardinality(S) = n
  BY FS_Interval
<1>2. Fits(first, 0) /\ first \in A
  <2>1. Route(model, catalog) \in Routes
    BY DEF Route, Routes, Supported
  <2> QED
    BY <2>1 DEF Fits
<1>3. \A s \in SUBSET S : s # {} => Max(s) \in s
  BY Largest
<1>4. \A s \in SUBSET S : s # {} => ch[s] \in s
  BY <1>3
<1>5. G \in [S -> [A -> A]]
  <2>1. ASSUME NEW x \in S, NEW c \in A PROVE Extend(c, fallbacks[x], catalog) \in A
    <3>1. fallbacks[x] \in Models
      OBVIOUS
    <3>2. PICK m \in Models : m = fallbacks[x]
      BY <3>1
    <3>3. Supported(m, catalog) => Route(m, catalog) \in Routes
      BY DEF Route, Routes, Supported
    <3> QED
      BY <3>2, <3>3 DEF Extend
  <2> QED
    BY <2>1
<1>6. Folded(S, A, first, G, ch, Cardinality(S))
  <2> HIDE DEF G, ch, first, A, S
  <2> QED
    BY <1>1, <1>2, <1>4, <1>5, FoldExists
<1>7. \A s \in SUBSET S : Cardinality(s) <= Cardinality(S)
  BY <1>1, FS_Subset
<1>8. PICK g \in [SUBSET S -> A] : \A s \in SUBSET S :
               g[s] = IF s = {} THEN first ELSE G[ch[s]][g[s \ {ch[s]}]]
  <2> HIDE DEF G, ch, first, A, S
  <2> QED
    BY <1>6, <1>7 DEF Folded
<1>9. Def(g)
  <2>1. ASSUME NEW s \in SUBSET S, s # {}
        PROVE  g[s] = Extend(g[s \ {Max(s)}], fallbacks[Max(s)], catalog)
    <3>1. PICK x \in S : x = Max(s)
      BY <1>3, <2>1
    <3>2. ch[s] = x /\ g[s \ {x}] \in A
      BY <3>1
    <3>3. g[s] = G[x][g[s \ {x}]]
      <4> HIDE DEF G, ch, first, A
      <4> QED
        BY <1>8, <2>1, <3>2
    <3>4. G[x][g[s \ {x}]] = Extend(g[s \ {x}], fallbacks[x], catalog)
      BY <3>2
    <3> QED
      BY <3>1, <3>3, <3>4
  <2>2. g[{}] = first
    <3> HIDE DEF G, ch, first, A
    <3> QED
      BY <1>8
  <2> HIDE DEF first, A, G, ch
  <2> QED
    BY <2>1, <2>2
<1>10. Def(iter)
  <2> HIDE DEF Def
  <2> QED
    BY <1>9
<1>11. \A s \in SUBSET S : /\ s = {} => iter[s] = first
                           /\ s # {} => iter[s] = Extend(iter[s \ {Max(s)}], fallbacks[Max(s)], catalog)
  <2> HIDE DEF iter, first
  <2> QED
    BY <1>10
<1>12. RouteChain(model, catalog, fallbacks) = iter[S]
  <2>1. DOMAIN fallbacks = S
    OBVIOUS
  <2> QED
    BY <2>1, Zenon DEF RouteChain, FoldLeft, MapThenFoldSet
<1> DEFINE P == {s \in SUBSET S : Fits(iter[s], Cardinality(s))}
<1> HIDE DEF iter, first
<1>13. Grows(S, P)
  <2>1. ASSUME NEW s \in SUBSET S, \A x \in s : s \ {x} \in P
        PROVE  s \in P
    <3>1. CASE s = {}
      BY <1>2, <1>11, <3>1, FS_EmptySet
    <3>2. CASE s # {}
      <4>1. PICK x \in S : x = Max(s) /\ x \in s
        BY <1>3, <3>2
      <4>2. PICK c : c = iter[s \ {x}] /\ Fits(c, Cardinality(s \ {x}))
        BY <2>1, <4>1
      <4>3. PICK k \in Nat : k = Cardinality(s \ {x}) /\ k + 1 = Cardinality(s)
        <5>1. IsFiniteSet(s)
          BY <1>1, FS_Subset
        <5>2. Cardinality(s) \in Nat /\ Cardinality(s \ {x}) \in Nat
              /\ Cardinality(s \ {x}) = Cardinality(s) - 1
          BY <4>1, <5>1, FS_RemoveElement, FS_CardinalityType
        <5> QED
          BY <5>2
      <4>4. PICK m \in Models : m = fallbacks[x]
        OBVIOUS
      <4>5. iter[s] = Extend(c, m, catalog)
        BY <1>11, <3>2, <4>1, <4>2, <4>4
      <4>6. Fits(Extend(c, m, catalog), k + 1)
        BY <4>2, <4>3, ExtendFits
      <4> QED
        BY <4>3, <4>5, <4>6
    <3> QED
      BY <3>1, <3>2
  <2> HIDE DEF P
  <2> QED
    BY <2>1 DEF Grows
<1>14. S \in P
  <2> HIDE DEF P
  <2> QED
    BY <1>1, <1>13, SubsetInduction
<1> QED
  BY <1>1, <1>12, <1>14

(* Every chain of _routes_for, whatever the failover catalog lists.        *)
LEMMA ChainsFit ==
    ASSUME NEW model \in Models, NEW chain \in RoutesFor(model)
    PROVE  Fits(chain, MaxFallbacks)
<1>1. PICK catalog, fallbacks :
        /\ catalog \in [Models -> Providers \cup {NoProvider}] /\ Supported(model, catalog)
        /\ fallbacks \in UNION {[1..n -> Models] : n \in 0..MaxFallbacks}
        /\ chain = RouteChain(model, catalog, fallbacks)
  BY DEF RoutesFor
<1>2. PICK n \in 0..MaxFallbacks : fallbacks \in [1..n -> Models]
  BY <1>1
<1>3. n \in Nat /\ n <= MaxFallbacks /\ MaxFallbacks \in Nat
  BY ExecutorAssumption
<1>4. Fits(chain, n)
  BY <1>1, <1>2, <1>3, FoldedChain
<1> QED
  BY <1>3, <1>4 DEF Fits

-----------------------------------------------------------------------------
Verdicts == {"untried", "unavailable", "unregistered", "failed", "served"}
AtRoute == at \in {"hook", "call", "backoff"}
Having(v) == {j \in Chain : verdict[j] = v}

LoopTypes ==
    /\ mode \in {"execute", "stream"}
    /\ routes \in Seq(Routes) /\ Len(routes) \in 1..(MaxFallbacks + 1)
    /\ at \in {"hook", "call", "backoff", "decide", "done"}
    /\ i \in 1..(Len(routes) + 1)
    /\ AtRoute => i \in Chain
    /\ at = "decide" => i = Len(routes) + 1
    /\ started \in BOOLEAN
    /\ calls \in [Chain -> Nat]
    /\ answered \in [Chain -> Nat]
    /\ events \in Seq(Chain)
    /\ verdict \in [Chain -> Verdicts]
    /\ at # "done" => result = Running

(* A stream has begun when its first event was handed on.                  *)
StartInv ==
    /\ started => mode = "stream" /\ at \in {"call", "done"}
    /\ events # <<>> => started

(* The routes before this one are settled, those after it are untried.     *)
VerdictInv ==
    at # "done" =>
        /\ \A j \in Chain : j < i => verdict[j] \in F!Settled
        /\ \A j \in Chain : j > i => verdict[j] = "untried"
        /\ AtRoute => verdict[i] = IF started THEN "served" ELSE "untried"

(* What the loop remembers of them decides the error.                      *)
MemoryInv ==
    at # "done" =>
        /\ \/ lastError = 0 /\ Having("failed") = {}
           \/ lastError \in Having("failed") /\ \A j \in Having("failed") : j <= lastError
        /\ unavailable = Cardinality(Having("unavailable"))
        /\ \/ unregistered = <<>> /\ Having("unregistered") = {}
           \/ /\ unregistered \in Seq(Chain) /\ unregistered # <<>>
              /\ Head(unregistered) \in Having("unregistered")
              /\ \A j \in Having("unregistered") : Head(unregistered) <= j

(* No route has answered in full before the step that ends it; a request   *)
(* that is not translated is given up at the first call.                   *)
AnswerInv ==
    /\ \A j \in Chain : answered[j] <= 1
    /\ at # "done" => \A j \in Chain : j > i => answered[j] = 0 /\ calls[j] = 0
    /\ AtRoute => answered[i] = 0
    /\ at = "hook" => calls[i] = 0
    /\ \A j \in Chain :
         ~Translates(routes[j].provider, request) => answered[j] = 0 /\ calls[j] <= 1
    /\ at = "backoff" => Translates(routes[i].provider, request)
    /\ result.kind = "served" /\ mode = "execute" =>
         result.route \in Chain /\ answered[result.route] = 1

(* The retries of a route are counted from its first call, and no two      *)
(* routes of a chain have the same model.                                  *)
Results == [kind : {"pending", "served", "broken", "closed", "aborted",
                    "provider_error", "not_available", "not_registered"},
            route : 0..Len(routes)]
CountInv ==
    /\ request \in Requests /\ registered \in SUBSET Providers
    /\ \A x, y \in Chain : routes[x].model = routes[y].model => x = y
    /\ attempt \in 0..MaxRetries
    /\ lastError \in 0..Len(routes) /\ unavailable \in 0..Len(routes)
    /\ unregistered \in Seq(Chain)
    /\ result \in Results
    /\ at = "call" => calls[i] <= attempt + 1
    /\ at = "backoff" => calls[i] <= attempt
    /\ \A j \in Chain :
         /\ calls[j] <= MaxRetries + 1
         /\ verdict[j] \in {"unavailable", "unregistered"} => calls[j] = 0

ExecInv == LoopTypes /\ StartInv /\ VerdictInv /\ MemoryInv

-----------------------------------------------------------------------------
(* A call starts with its first route, and with nothing behind it.         *)
LEMMA ExecInit ==
    ASSUME Init
    PROVE  ExecInv /\ AnswerInv
<1>1. routes \in Seq(Routes) /\ Len(routes) \in 1..(MaxFallbacks + 1)
  BY ChainsFit DEF Init, Fits
<1>2. Len(routes) \in Nat /\ 1 \in Chain
  BY <1>1 DEF Chain
<1>3. LoopTypes
  <2>1. calls \in [Chain -> Nat] /\ answered \in [Chain -> Nat] /\ verdict \in [Chain -> Verdicts]
    BY DEF Init, Chain, Verdicts
  <2>2. i = 1 /\ 1 \in 1..(Len(routes) + 1) /\ at = "hook" /\ events \in Seq(Chain)
    BY <1>2 DEF Init
  <2> QED
    BY <1>1, <1>2, <2>1, <2>2 DEF Init, LoopTypes, AtRoute
<1>4. StartInv /\ VerdictInv
  BY <1>2 DEF Init, StartInv, VerdictInv, AtRoute, Chain
<1>5. MemoryInv
  <2>1. \A v : v # "untried" => Having(v) = {}
    BY DEF Init, Having, Chain
  <2> QED
    BY <2>1, FS_EmptySet DEF Init, MemoryInv
<1>6. AnswerInv
  BY <1>2 DEF Init, AnswerInv, AtRoute, Chain, Running
<1> QED
  BY <1>3, <1>5, <1>4, <1>6 DEF ExecInv

(* A route that is settled joins those of its verdict.                     *)
LEMMA Settling ==
    ASSUME ExecInv, AtRoute, ~started, NEW v \in F!Settled, UNCHANGED routes,
           verdict' = [verdict EXCEPT ![i] = v]
    PROVE  /\ i \in Chain
           /\ \A w \in F!Settled : /\ IsFiniteSet(Having(w))
                                   /\ i \notin Having(w)
                                   /\ \A j \in Having(w) : j \in Int /\ j < i
                                   /\ Having(w)' = IF w = v THEN Having(w) \cup {i} ELSE Having(w)
           /\ Cardinality(Having(v) \cup {i}) = Cardinality(Having(v)) + 1
<1>1. /\ Len(routes) \in Nat /\ i \in Chain /\ verdict \in [Chain -> Verdicts] /\ Chain' = Chain
      /\ at # "done" /\ i \in Int
  BY DEF ExecInv, LoopTypes, AtRoute, Chain
<1>2. /\ verdict[i] = "untried"
      /\ \A j \in Chain : j > i => verdict[j] = "untried"
  BY <1>1 DEF ExecInv, VerdictInv
<1>3. IsFiniteSet(Chain)
  BY <1>1, FS_Interval DEF Chain
<1>4. ASSUME NEW w \in F!Settled
      PROVE  /\ IsFiniteSet(Having(w)) /\ i \notin Having(w)
             /\ \A j \in Having(w) : j \in Int /\ j < i
             /\ Having(w)' = IF w = v THEN Having(w) \cup {i} ELSE Having(w)
  <2>1. w # "untried"
    BY DEF F!Settled
  <2>2. Having(w) \in SUBSET Chain
    BY DEF Having
  <2>3. IsFiniteSet(Having(w))
    BY <1>3, <2>2, FS_Subset
  <2>4. i \notin Having(w) /\ \A j \in Having(w) : j \in Int /\ j < i
    BY <1>1, <1>2, <2>1 DEF Having, Chain
  <2>5. Having(w)' = {j \in Chain : verdict'[j] = w}
    BY <1>1 DEF Having
  <2>6. Having(w)' = IF w = v THEN Having(w) \cup {i} ELSE Having(w)
    BY <1>1, <1>2, <2>1, <2>5 DEF Having
  <2> QED
    BY <2>3, <2>4, <2>6
<1>5. Cardinality(Having(v) \cup {i}) = Cardinality(Having(v)) + 1
  BY <1>4, FS_AddElement
<1> QED
  BY <1>1, <1>4, <1>5

(* On to the next route: what has to be shown of the memory.               *)
LEMMA Continuing ==
    ASSUME ExecInv, AtRoute, ~started, NEW v \in F!Settled, Continue(v), started' = started,
           UNCHANGED <<call, calls, events>>, answered' \in [Chain -> Nat],
           v # "failed" => lastError' = lastError,
           v = "failed" => lastError' = i,
           v # "unavailable" => unavailable' = unavailable,
           v = "unavailable" => unavailable' = unavailable + 1,
           v # "unregistered" => unregistered' = unregistered,
           v = "unregistered" => unregistered' = Append(unregistered, i)
    PROVE  ExecInv'
<1> USE DEF call
<1>1. /\ Len(routes) \in Nat /\ i \in Chain /\ Chain' = Chain /\ at # "done"
      /\ i' = i + 1 /\ verdict' = [verdict EXCEPT ![i] = v] /\ result' = result
      /\ at' = IF i = Len(routes) THEN "decide" ELSE "hook"
      /\ verdict \in [Chain -> Verdicts] /\ v \in Verdicts \ {"untried"}
  BY DEF ExecInv, LoopTypes, AtRoute, Chain, Continue, F!Settled, Verdicts
<1>2. LoopTypes'
  <2>1. i' \in 1..(Len(routes) + 1) /\ (i # Len(routes) => i' \in Chain)
    BY <1>1 DEF Chain
  <2>2. /\ mode' \in {"execute", "stream"} /\ events' \in Seq(Chain)
        /\ calls' \in [Chain -> Nat] /\ routes' = routes
        /\ routes \in Seq(Routes) /\ Len(routes) \in 1..(MaxFallbacks + 1)
    BY DEF ExecInv, LoopTypes
  <2>3. verdict' \in [Chain -> Verdicts]
    BY <1>1
  <2>4. at' # "done" /\ result' = Running /\ started' \in BOOLEAN
    BY <1>1 DEF ExecInv, LoopTypes
  <2>5. /\ at' \in {"hook", "decide"} /\ (AtRoute' => i' \in Chain)
        /\ at' = "decide" => i' = Len(routes) + 1
    BY <1>1, <2>1 DEF AtRoute
  <2>6. answered' \in [Chain -> Nat]
    OBVIOUS
  <2> QED
    BY <1>1, <2>6, <2>3, <2>5, <2>1, <2>2, <2>4 DEF LoopTypes
<1>3. StartInv'
  BY DEF ExecInv, StartInv
<1>4. VerdictInv'
  <2>1. /\ \A j \in Chain : j < i => verdict[j] \in F!Settled
        /\ \A j \in Chain : j > i => verdict[j] = "untried"
    BY <1>1 DEF ExecInv, VerdictInv
  <2>2. \A j \in Chain : j < i + 1 => verdict'[j] \in F!Settled
    BY <1>1, <2>1 DEF Chain
  <2>3. \A j \in Chain : j >= i + 1 => verdict'[j] = "untried"
    BY <1>1, <2>1 DEF Chain
  <2>4. AtRoute' => i + 1 \in Chain
    BY <1>1 DEF AtRoute, Chain
  <2>5. \A j \in Chain : j > i + 1 => verdict'[j] = "untried"
    BY <1>1, <2>3 DEF Chain
  <2>6. AtRoute' => verdict'[i + 1] = "untried"
    BY <1>1, <2>3, <2>4
  <2> QED
    BY <1>1, <2>2, <2>5, <2>6 DEF VerdictInv
<1>5. \A w \in F!Settled : /\ \A j \in Having(w) : j \in Int /\ j < i
                           /\ Having(w)' = IF w = v THEN Having(w) \cup {i} ELSE Having(w)
  BY <1>1, Settling
<1>6. {"failed", "unavailable", "unregistered"} = F!Settled /\ i \in Int
  BY <1>1 DEF F!Settled, Chain
<1>7. \/ lastError' = 0 /\ Having("failed")' = {}
      \/ lastError' \in Having("failed")' /\ \A j \in Having("failed")' : j <= lastError'
  <2>1. CASE v = "failed"
    BY <1>5, <1>6, <2>1
  <2>2. CASE v # "failed"
    BY <1>1, <1>5, <1>6, <2>2 DEF ExecInv, MemoryInv
  <2> QED
    BY <2>1, <2>2
<1>8. unavailable' = Cardinality(Having("unavailable")')
  <2>1. unavailable = Cardinality(Having("unavailable"))
    BY <1>1 DEF ExecInv, MemoryInv
  <2>2. CASE v = "unavailable"
    BY <1>1, <1>5, <1>6, <2>1, <2>2, Settling
  <2>3. CASE v # "unavailable"
    BY <1>5, <1>6, <2>1, <2>3
  <2> QED
    BY <2>2, <2>3
<1>9. \/ unregistered' = <<>> /\ Having("unregistered")' = {}
      \/ /\ unregistered' \in Seq(Chain) /\ unregistered' # <<>>
         /\ Head(unregistered') \in Having("unregistered")'
         /\ \A j \in Having("unregistered")' : Head(unregistered') <= j
  <2>1. \/ unregistered = <<>> /\ Having("unregistered") = {}
        \/ /\ unregistered \in Seq(Chain) /\ unregistered # <<>>
           /\ Head(unregistered) \in Having("unregistered")
           /\ \A j \in Having("unregistered") : Head(unregistered) <= j
    BY <1>1 DEF ExecInv, MemoryInv
  <2>2. CASE v = "unregistered"
    <3>1. /\ Having("unregistered")' = Having("unregistered") \cup {i}
          /\ unregistered' = Append(unregistered, i)
      BY <1>5, <1>6, <2>2
    <3>2. CASE unregistered = <<>> /\ Having("unregistered") = {}
      <4>1. unregistered' = <<i>>
        BY <3>1, <3>2
      <4> QED
        BY <1>1, <1>6, <3>1, <3>2, <4>1
    <3>3. CASE /\ unregistered \in Seq(Chain) /\ unregistered # <<>>
               /\ Head(unregistered) \in Having("unregistered")
               /\ \A j \in Having("unregistered") : Head(unregistered) <= j
      <4>1. /\ unregistered' \in Seq(Chain) /\ unregistered' # <<>>
            /\ Head(unregistered') = Head(unregistered)
        BY <1>1, <3>1, <3>3
      <4>2. Head(unregistered) \in Int /\ Head(unregistered) < i
        BY <1>5, <1>6, <3>3
      <4> QED
        BY <1>6, <3>1, <3>3, <4>1, <4>2
    <3> QED
      BY <2>1, <3>2, <3>3
  <2>3. CASE v # "unregistered"
    BY <1>1, <1>5, <1>6, <2>1, <2>3
  <2> QED
    BY <2>2, <2>3
<1>10. MemoryInv'
  BY <1>1, <1>7, <1>8, <1>9 DEF MemoryInv
<1> QED
  BY <1>2, <1>3, <1>4, <1>10 DEF ExecInv

(* Steps that leave the verdicts and the memory as they are.               *)
LEMMA Staying ==
    ASSUME ExecInv, LoopTypes', StartInv', UNCHANGED <<call, i, verdict>>, at # "done",
           at' # "done" => /\ UNCHANGED <<lastError, unavailable, unregistered>>
                           /\ AtRoute' => started' = started /\ AtRoute
    PROVE  ExecInv'
<1> USE DEF call
<1>1. Chain' = Chain
  BY DEF Chain
<1>2. VerdictInv'
  BY <1>1 DEF ExecInv, VerdictInv
<1>3. \A w : Having(w)' = Having(w)
  BY <1>1 DEF Having
<1>4. MemoryInv'
  BY <1>1, <1>3 DEF ExecInv, MemoryInv
<1> QED
  BY <1>2, <1>4 DEF ExecInv

(* Steps of a route that serves the request.                               *)
LEMMA Serving ==
    ASSUME ExecInv, LoopTypes', StartInv', UNCHANGED <<call, i>>, at = "call",
           verdict' = [verdict EXCEPT ![i] = "served"],
           \/ at' = "done"
           \/ at' = "call" /\ started' /\ UNCHANGED <<lastError, unavailable, unregistered>>
    PROVE  ExecInv'
<1> USE DEF call
<1>1. Chain' = Chain /\ i \in Chain /\ verdict \in [Chain -> Verdicts] /\ i \in Int
  BY DEF ExecInv, LoopTypes, AtRoute, Chain
<1>2. /\ \A j \in Chain : j < i => verdict[j] \in F!Settled
      /\ \A j \in Chain : j > i => verdict[j] = "untried"
      /\ verdict[i] \in {"served", "untried"}
  BY DEF ExecInv, VerdictInv, AtRoute
<1>3. \A j \in Chain : verdict'[j] = IF j = i THEN "served" ELSE verdict[j]
  BY <1>1
<1>4. VerdictInv'
  <2>1. \A j \in Chain : j < i => verdict'[j] \in F!Settled
    BY <1>1, <1>2, <1>3
  <2>2. \A j \in Chain : j > i => verdict'[j] = "untried"
    BY <1>1, <1>2, <1>3
  <2> QED
    BY <1>1, <1>3, <2>1, <2>2 DEF VerdictInv, AtRoute
<1>5. \A w \in F!Settled : Having(w)' = Having(w)
  BY <1>1, <1>2, <1>3 DEF Having, F!Settled
<1>6. MemoryInv'
  BY <1>1, <1>5 DEF ExecInv, MemoryInv, F!Settled
<1> QED
  BY <1>4, <1>6 DEF ExecInv

(* The policy hook: a route is called, passed over, or ends the call.      *)
LEMMA HookStep ==
    ASSUME ExecInv, Hook
    PROVE  ExecInv'
<1> USE DEF Hook, call, history
<1>1. /\ at = "hook" /\ AtRoute /\ ~started /\ at # "done" /\ answered' \in [Chain -> Nat]
      /\ Chain' = Chain
  BY DEF HookAllows, HookAllowsUnregistered, HookRefuses, HookRaises, ExecInv, StartInv,
         LoopTypes, AtRoute, Chain
<1>2. CASE HookAllows
  <2>1. calls' \in [Chain -> Nat]
    BY <1>1, <1>2 DEF HookAllows, Invoke, ExecInv, LoopTypes
  <2>2. LoopTypes'
    BY <1>1, <1>2, <2>1 DEF HookAllows, Invoke, ExecInv, LoopTypes, AtRoute
  <2>3. StartInv'
    BY <1>1, <1>2 DEF HookAllows, Invoke, ExecInv, StartInv
  <2> QED
    BY <1>1, <1>2, <2>2, <2>3, Staying DEF HookAllows, Invoke, AtRoute, ExecInv, LoopTypes
<1>3. CASE HookAllowsUnregistered
  BY <1>1, <1>3, Continuing DEF HookAllowsUnregistered, F!Settled
<1>4. CASE HookRefuses
  BY <1>1, <1>4, Continuing DEF HookRefuses, F!Settled
<1>5. CASE HookRaises
  <2>1. LoopTypes' /\ StartInv'
    BY <1>1, <1>5 DEF HookRaises, Finish, ExecInv, LoopTypes, StartInv, AtRoute
  <2> QED
    BY <1>1, <1>5, <2>1, Staying DEF HookRaises, Finish
<1> QED
  BY <1>2, <1>4, <1>3, <1>5

(* A provider call and the sleep before the next one.                      *)
LEMMA CallStep ==
    ASSUME ExecInv, Call
    PROVE  ExecInv'
<1> USE DEF call, history
<1>1. ASSUME NEW answer, NEW outcome, Receives(answer, outcome) PROVE answered' \in [Chain -> Nat]
  <2>1. answered \in [Chain -> Nat]
    BY DEF ExecInv, LoopTypes
  <2>2. answered' = answered \/ answered' = [answered EXCEPT ![i] = answered[i] + 1]
    BY <1>1, <2>1 DEF Receives
  <2> QED
    BY <2>1, <2>2
<1>2. ASSUME NEW answer, at = "call", CallSucceeds(answer) PROVE ExecInv'
  <2>1. Chain' = Chain /\ at' = "done" /\ ~started
    BY <1>2 DEF CallSucceeds, Finish, Chain, ExecInv, StartInv
  <2>2. answered' \in [Chain -> Nat]
    BY <1>1, <1>2 DEF CallSucceeds
  <2>3. verdict' \in [Chain -> Verdicts]
    BY <1>2 DEF CallSucceeds, ExecInv, LoopTypes, Verdicts
  <2>4. LoopTypes' /\ StartInv'
    BY <1>2, <2>1, <2>2, <2>3 DEF CallSucceeds, ExecInv, LoopTypes, StartInv, AtRoute
  <2> QED
    BY <1>2, <2>1, <2>4, Serving DEF CallSucceeds
<1>3. ASSUME NEW answer, at = "call", CallRetries(answer) PROVE ExecInv'
  <2>1. Chain' = Chain /\ at' = "backoff" /\ AtRoute /\ ~started
    BY <1>3 DEF CallRetries, RetryAllowed, Chain, AtRoute
  <2>2. answered' \in [Chain -> Nat]
    BY <1>1, <1>3 DEF CallRetries
  <2>3. LoopTypes' /\ StartInv'
    BY <1>3, <2>1, <2>2 DEF CallRetries, ExecInv, LoopTypes, StartInv, AtRoute
  <2> QED
    BY <1>3, <2>1, <2>3, Staying DEF CallRetries
<1>4. ASSUME NEW answer, at = "call", CallFails(answer) PROVE ExecInv'
  <2>1. answered' \in [Chain -> Nat]
    BY <1>1, <1>4 DEF CallFails
  <2> QED
    BY <1>4, <2>1, Continuing DEF CallFails, AtRoute, F!Settled
<1>5. CASE CallRaises
  <2>1. LoopTypes' /\ StartInv'
    BY <1>5 DEF CallRaises, Finish, ExecInv, LoopTypes, StartInv, AtRoute, Chain
  <2> QED
    BY <1>5, <2>1, Staying DEF CallRaises, Finish
<1>6. CASE Backoff
  <2>1. Chain' = Chain /\ at' = "call" /\ AtRoute /\ ~started /\ ~started'
    BY <1>6 DEF Backoff, Invoke, Chain, AtRoute, ExecInv, StartInv
  <2>2. calls' \in [Chain -> Nat]
    <3>1. calls \in [Chain -> Nat]
      BY DEF ExecInv, LoopTypes
    <3>2. calls' = calls \/ calls' = [calls EXCEPT ![i] = calls[i] + 1]
      BY <1>6, <3>1 DEF Backoff, Invoke
    <3> QED
      BY <3>1, <3>2
  <2>3. LoopTypes' /\ StartInv'
    BY <1>6, <2>1, <2>2 DEF Backoff, Invoke, ExecInv, LoopTypes, StartInv, AtRoute
  <2> QED
    BY <1>6, <2>1, <2>3, Staying DEF Backoff, Invoke, ExecInv, LoopTypes
<1> QED
  BY <1>2, <1>4, <1>6, <1>3, <1>5 DEF Call

(* The events of a stream, the end of the loop, and stuttering.            *)
LEMMA StreamStep ==
    ASSUME ExecInv, Stream \/ Decide \/ UNCHANGED vars
    PROVE  ExecInv'
<1> USE DEF call, history
<1>1. Chain' = Chain
  BY DEF Stream, StreamEvent, StreamEnds, StreamBreaks, ConsumerLeaves, Decide, vars, Chain
<1>2. CASE StreamEvent
  <2>1. events' \in Seq(Chain) /\ verdict' \in [Chain -> Verdicts]
    BY <1>2 DEF StreamEvent, ExecInv, LoopTypes, AtRoute, Verdicts
  <2>2. LoopTypes' /\ StartInv'
    BY <1>1, <1>2, <2>1 DEF StreamEvent, ExecInv, LoopTypes, StartInv, AtRoute
  <2> QED
    BY <1>2, <2>2, Serving DEF StreamEvent
<1>3. CASE StreamEnds
  <2>1. verdict' \in [Chain -> Verdicts] /\ at' = "done"
    BY <1>3 DEF StreamEnds, Finish, ExecInv, LoopTypes, Verdicts
  <2>2. LoopTypes' /\ StartInv'
    BY <1>1, <1>3, <2>1 DEF StreamEnds, ExecInv, LoopTypes, StartInv, AtRoute
  <2> QED
    BY <1>3, <2>1, <2>2, Serving DEF StreamEnds
<1>4. CASE StreamBreaks \/ ConsumerLeaves \/ Decide
  <2>1. at' = "done" /\ at # "done" /\ UNCHANGED <<call, i, attempt, started, history>>
    BY <1>4 DEF StreamBreaks, ConsumerLeaves, Decide, Decision, Finish
  <2>2. LoopTypes' /\ StartInv'
    BY <1>1, <2>1 DEF ExecInv, LoopTypes, StartInv, AtRoute
  <2> QED
    BY <2>1, <2>2, Staying
<1>5. CASE UNCHANGED vars
  BY <1>1, <1>5 DEF vars, loop, ExecInv, LoopTypes, StartInv, VerdictInv, MemoryInv, Having, AtRoute
<1> QED
  BY <1>2, <1>4, <1>3, <1>5 DEF Stream

(* Every step keeps the invariant.                                         *)
LEMMA ExecStep ==
    ASSUME ExecInv, [Next]_vars
    PROVE  ExecInv'
BY HookStep, CallStep, StreamStep DEF Next, Step, Idle

-----------------------------------------------------------------------------
(* What an adapter makes of an answer.                                     *)
LEMMA AdapterFacts ==
    ASSUME NEW provider, NEW answer \in Answers
    PROVE  /\ Outcome(provider, request, answer) = "served" =>
                Translates(provider, request) /\ IsComplete(answer)
           /\ Outcome(provider, request, answer) = "transient" =>
                Translates(provider, request) /\ ~IsComplete(answer)
<1>1. ~Usable(NoBody)
  BY DEF Usable, NoBody
<1>2. answer.body = NoBody \/ answer.status = 200
  BY DEF Answers
<1>3. CASE Outcome(provider, request, answer) = "served"
  BY <1>1, <1>2, <1>3 DEF Outcome, IsComplete
<1>4. CASE Outcome(provider, request, answer) = "transient"
  <2>1. Translates(provider, request) /\ answer.status \in {429, 500, 502, 503, 504, 0}
    BY <1>4 DEF Outcome, RetryableStatuses, Unreachable
  <2>2. answer.status \notin 200..399
    BY <2>1
  <2> QED
    BY <1>4, <2>1, <2>2 DEF IsComplete
<1> QED
  BY <1>3, <1>4

(* A route answers in full no more than once.                              *)
LEMMA AnswerStep ==
    ASSUME ExecInv, AnswerInv, [Next]_vars
    PROVE  AnswerInv'
<1> USE DEF call, history, AnswerInv, AtRoute
<1>0. /\ Chain \subseteq Int /\ (AtRoute => i \in Chain) /\ i \in Int
      /\ calls \in [Chain -> Nat] /\ answered \in [Chain -> Nat]
      /\ (at # "done" => result.kind # "served") /\ MaxRetries \in Nat
      /\ Len(routes) \in Nat /\ \A j \in 1..Len(routes) : j \in Chain
  BY ExecutorAssumption DEF ExecInv, LoopTypes, Chain, Running
<1>1. CASE Hook
  <2>1. CASE HookAllows
    <3>1. /\ UNCHANGED <<routes, request, mode, i, answered, result>> /\ Chain' = Chain
          /\ at = "hook" /\ at' = "call" /\ i \in Chain
          /\ calls[i] = 0
          /\ calls' = [calls EXCEPT ![i] = IF calls[i] <= MaxRetries + 1 THEN calls[i] + 1
                                           ELSE calls[i]]
      BY <1>0, <2>1 DEF HookAllows, Invoke, Chain
    <3>2. \A j \in Chain : calls'[j] = IF j = i THEN 1 ELSE calls[j]
      BY <1>0, <3>1
    <3> QED
      BY <1>0, <3>1, <3>2
  <2>2. CASE HookAllowsUnregistered \/ HookRefuses
    <3>1. /\ UNCHANGED <<routes, request, mode, calls, answered, result>> /\ Chain' = Chain
          /\ at = "hook" /\ at' = (IF i = Len(routes) THEN "decide" ELSE "hook") /\ i' = i + 1
          /\ i \in Chain
      BY <1>0, <2>2 DEF HookAllowsUnregistered, HookRefuses, Continue, Chain
    <3>2. at' = "hook" => i + 1 \in Chain
      BY <1>0, <3>1 DEF Chain
    <3> QED
      BY <1>0, <3>1, <3>2
  <2>3. CASE HookRaises
    BY <1>0, <2>3 DEF HookRaises, Finish, Chain
  <2> QED
    BY <1>1, <2>1, <2>2, <2>3 DEF Hook
<1>2. ASSUME NEW answer \in Answers, at = "call", CallSucceeds(answer) PROVE AnswerInv'
  <2>1. Translates(routes[i].provider, request) /\ IsComplete(answer) /\ answered[i] = 0
    BY <1>2, AdapterFacts DEF CallSucceeds, Receives
  <2>2. /\ UNCHANGED <<routes, request, mode, calls, i>> /\ Chain' = Chain /\ at' = "done"
        /\ answered' = [answered EXCEPT ![i] = 1] /\ result' = [kind |-> "served", route |-> i]
    BY <1>2, <2>1 DEF CallSucceeds, Receives, Finish, Chain
  <2>3. \A j \in Chain : answered'[j] = IF j = i THEN 1 ELSE answered[j]
    BY <1>0, <2>2
  <2> QED
    BY <1>0, <1>2, <2>1, <2>2, <2>3
<1>3. ASSUME NEW answer \in Answers, at = "call", CallRetries(answer) PROVE AnswerInv'
  <2>1. Translates(routes[i].provider, request) /\ ~IsComplete(answer)
    BY <1>3, AdapterFacts DEF CallRetries, Receives
  <2>2. answered' = answered
    BY <1>0, <1>3, <2>1 DEF CallRetries, Receives
  <2> QED
    BY <1>0, <1>3, <2>1, <2>2 DEF CallRetries, Chain
<1>4. ASSUME NEW answer \in Answers, at = "call", CallFails(answer) PROVE AnswerInv'
  <2>1. /\ UNCHANGED <<routes, request, mode, calls, result>> /\ Chain' = Chain /\ i \in Chain
        /\ at' = (IF i = Len(routes) THEN "decide" ELSE "hook") /\ i' = i + 1
        /\ answered[i] = 0
    BY <1>0, <1>4 DEF CallFails, Continue, Chain
  <2>2. \/ answered' = answered
        \/ /\ answered' = [answered EXCEPT ![i] = 1]
           /\ Translates(routes[i].provider, request)
    <3>1. PICK outcome \in {"transient", "final"} : Receives(answer, outcome)
      BY <1>4 DEF CallFails
    <3>2. answered' = [answered EXCEPT ![i] =
                          IF /\ Translates(routes[i].provider, request)
                             /\ IsComplete(answer) /\ answered[i] < 2
                          THEN answered[i] + 1 ELSE answered[i]]
      BY <3>1 DEF Receives
    <3>3. CASE Translates(routes[i].provider, request) /\ IsComplete(answer)
      BY <2>1, <3>2, <3>3
    <3>4. CASE ~(Translates(routes[i].provider, request) /\ IsComplete(answer))
      BY <1>0, <2>1, <3>2, <3>4
    <3> QED
      BY <3>3, <3>4
  <2>3. /\ \A j \in Chain : j # i => answered'[j] = answered[j]
        /\ answered'[i] <= 1 /\ answered'[i] \in Nat
        /\ ~Translates(routes[i].provider, request) => answered'[i] = 0
    BY <1>0, <2>1, <2>2
  <2>4. at' = "hook" => i + 1 \in Chain
    BY <1>0, <2>1 DEF Chain
  <2> QED
    BY <1>0, <1>4, <2>1, <2>3, <2>4
<1>5. CASE CallRaises
  BY <1>0, <1>5 DEF CallRaises, Finish, Chain
<1>6. CASE Backoff
  <2>1. /\ UNCHANGED <<routes, request, mode, i, answered, result>> /\ Chain' = Chain
        /\ at = "backoff" /\ at' = "call" /\ i \in Chain
        /\ Translates(routes[i].provider, request)
    BY <1>0, <1>6 DEF Backoff, Invoke, Chain
  <2>2. \A j \in Chain : j # i => calls'[j] = calls[j]
    BY <1>0, <1>6 DEF Backoff, Invoke
  <2> QED
    BY <1>0, <2>1, <2>2
<1>7. CASE Stream \/ Decide
  <2>1. /\ UNCHANGED <<routes, request, mode, i, calls, answered>> /\ Chain' = Chain
        /\ \/ at = "call" /\ at' = "call" /\ result' = result
           \/ at' = "done" /\ (result'.kind = "served" => mode = "stream")
    BY <1>7 DEF Stream, StreamEvent, StreamEnds, StreamBreaks, ConsumerLeaves, Decide, Decision,
                Finish, Chain
  <2> QED
    BY <1>0, <2>1
<1>8. CASE UNCHANGED vars
  BY <1>8 DEF vars, loop, Chain
<1> QED
  BY <1>1, <1>3, <1>5, <1>7, <1>2, <1>4, <1>6, <1>8 DEF Next, Step, Call, Idle

-----------------------------------------------------------------------------
(* Nothing has been counted of a call that starts.                         *)
LEMMA CountInit ==
    ASSUME Init
    PROVE  CountInv
<1>1. PICK model \in Models : routes \in RoutesFor(model)
  BY DEF Init
<1>2. Fits(routes, MaxFallbacks)
  BY <1>1, ChainsFit
<1>3. Len(routes) \in Nat /\ MaxRetries \in Nat /\ 0 \in 0..Len(routes) /\ 0 \in 0..MaxRetries
  BY <1>2, ExecutorAssumption DEF Fits
<1>4. \A x, y \in Chain : routes[x].model = routes[y].model => x = y
  BY <1>2 DEF Fits, Chain
<1>5. result \in Results
  BY <1>3 DEF Init, Results, Running
<1>6. /\ at = "hook" /\ attempt = 0 /\ lastError = 0 /\ unavailable = 0
      /\ unregistered \in Seq(Chain) /\ \A j \in Chain : calls[j] = 0 /\ verdict[j] = "untried"
  BY DEF Init, Chain
<1>7. \A j \in Chain : calls[j] <= MaxRetries + 1
  BY <1>3, <1>6
<1>8. request \in Requests /\ registered \in SUBSET Providers
  BY DEF Init
<1> QED
  BY <1>3, <1>5, <1>7, <1>4, <1>6, <1>8 DEF CountInv

(* What a step does to the memory of the loop, and the results it has.     *)
LEMMA MemoryStep ==
    ASSUME ExecInv, CountInv, [Next]_vars
    PROVE  /\ UNCHANGED call
           /\ lastError' \in 0..Len(routes) /\ unavailable' \in 0..Len(routes)
           /\ unregistered' \in Seq(Chain)
           /\ result' \in Results
<1> USE DEF call, history
<1>0. /\ Len(routes) \in Nat /\ Chain = 1..Len(routes) /\ 1 \in Chain
      /\ (AtRoute => i \in Chain) /\ \A j \in Chain : j \in 0..Len(routes)
  BY DEF ExecInv, LoopTypes, Chain
<1>1. /\ lastError \in 0..Len(routes) /\ unavailable \in 0..Len(routes)
      /\ unregistered \in Seq(Chain) /\ result \in Results
  BY DEF CountInv
<1>2. UNCHANGED call
  BY DEF Next, Step, Hook, HookAllows, HookAllowsUnregistered, HookRefuses, HookRaises,
         Call, CallSucceeds, CallRetries, CallFails, CallRaises, Backoff, Stream, StreamEvent,
         StreamEnds, StreamBreaks, ConsumerLeaves, Decide, Idle, vars
<1>3. \/ UNCHANGED <<lastError, unregistered>>
      \/ i \in Chain /\ lastError' = i /\ unregistered' = unregistered
      \/ i \in Chain /\ lastError' = lastError /\ unregistered' = Append(unregistered, i)
  BY <1>0 DEF Next, Step, Hook, HookAllows, HookAllowsUnregistered, HookRefuses, HookRaises,
         Call, CallSucceeds, CallRetries, CallFails, CallRaises, Backoff, Stream, StreamEvent,
         StreamEnds, StreamBreaks, ConsumerLeaves, Decide, Idle, vars, loop, AtRoute
<1>4. lastError' \in 0..Len(routes) /\ unregistered' \in Seq(Chain)
  <2>1. \A j \in Chain : Append(unregistered, j) \in Seq(Chain)
    BY <1>1
  <2> QED
    BY <1>0, <1>1, <1>3, <2>1
<1>5. unavailable' \in 0..Len(routes)
  <2>1. unavailable' = unavailable \/ (at' # "done" /\ HookRefuses)
    BY DEF Next, Step, Hook, HookAllows, HookAllowsUnregistered, HookRefuses, HookRaises,
         Call, CallSucceeds, CallRetries, CallFails, CallRaises, Backoff, Stream, StreamEvent,
         StreamEnds, StreamBreaks, ConsumerLeaves, Decide, Idle, vars, loop, Continue
  <2>2. CASE at' # "done"
    <3>1. unavailable' = Cardinality(Having("unavailable")')
      BY <2>2, ExecStep DEF ExecInv, MemoryInv
    <3>2. Having("unavailable")' \in SUBSET Chain
      BY <1>2 DEF Having, Chain
    <3>3. IsFiniteSet(Chain) /\ Cardinality(Chain) = Len(routes)
      BY <1>0, FS_Interval
    <3>4. PICK t : t = Having("unavailable")' /\ t \in SUBSET Chain
      BY <3>2
    <3>5. Cardinality(t) \in Nat /\ Cardinality(t) <= Len(routes)
      BY <3>3, <3>4, FS_Subset, FS_CardinalityType
    <3> QED
      BY <1>0, <3>1, <3>4, <3>5
  <2> QED
    BY <1>1, <2>1, <2>2
<1>6. result' \in Results
  <2>1. ASSUME NEW kind \in {"served", "broken", "closed", "aborted", "provider_error",
                             "not_available", "not_registered"},
               NEW route \in 0..Len(routes), Finish(kind, route)
        PROVE  result' \in Results
    BY <2>1 DEF Finish, Results
  <2>2. CASE Decide
    <3>1. Head(unregistered) \in Chain \/ unregistered = <<>>
      BY <1>1
    <3>2. \/ Finish("provider_error", lastError) \/ Finish("not_available", 1)
          \/ unregistered # <<>> /\ Finish("not_registered", Head(unregistered))
          \/ Finish("not_registered", 1)
      BY <2>2 DEF Decide, Decision
    <3> QED
      BY <1>0, <1>1, <2>1, <3>1, <3>2
  <2>3. CASE ~Decide
    <3>1. 0 \in 0..Len(routes)
      BY <1>0
    <3>2. \/ result' = result \/ Finish("aborted", 0)
          \/ i \in Chain /\ (Finish("served", i) \/ Finish("broken", i) \/ Finish("closed", i))
      BY <1>0, <2>3 DEF Next, Step, Hook, HookAllows, HookAllowsUnregistered, HookRefuses,
           HookRaises, Call, CallSucceeds, CallRetries, CallFails, CallRaises, Backoff, Stream,
           StreamEvent, StreamEnds, StreamBreaks, ConsumerLeaves, Idle, vars, Continue, AtRoute
    <3> QED
      BY <1>0, <1>1, <2>1, <3>1, <3>2
  <2> QED
    BY <2>2, <2>3
<1> QED
  BY <1>2, <1>4, <1>5, <1>6

(* A route is called once at the hook, and again for every retry.          *)
LEMMA CountStep ==
    ASSUME ExecInv, AnswerInv, CountInv, [Next]_vars
    PROVE  CountInv'
<1> USE DEF call, history
<1> DEFINE Skipped == {"unavailable", "unregistered"}
<1>0. /\ AtRoute => i \in Chain
      /\ calls \in [Chain -> Nat] /\ verdict \in [Chain -> Verdicts] /\ MaxRetries \in Nat
      /\ attempt \in 0..MaxRetries
      /\ \A j \in Chain : calls[j] <= MaxRetries + 1 /\ (verdict[j] \in Skipped => calls[j] = 0)
  BY ExecutorAssumption DEF ExecInv, LoopTypes, CountInv
<1>1. /\ UNCHANGED call /\ Chain' = Chain /\ Results' = Results
      /\ lastError' \in 0..Len(routes) /\ unavailable' \in 0..Len(routes)
      /\ unregistered' \in Seq(Chain) /\ result' \in Results
  BY MemoryStep DEF Chain, Results
<1>2. SUFFICES /\ attempt' \in 0..MaxRetries
               /\ at' = "call" => calls'[i'] <= attempt' + 1
               /\ at' = "backoff" => calls'[i'] <= attempt'
               /\ \A j \in Chain : /\ calls'[j] <= MaxRetries + 1
                                   /\ verdict'[j] \in Skipped => calls'[j] = 0
  <2>1. /\ request \in Requests /\ registered \in SUBSET Providers
        /\ \A x, y \in Chain : routes[x].model = routes[y].model => x = y
    BY DEF CountInv
  <2> QED
    BY <1>1, <2>1 DEF CountInv
<1>3. CASE HookAllows
  <2>1. /\ at = "hook" /\ i \in Chain /\ calls[i] = 0 /\ verdict[i] = "untried"
    BY <1>0, <1>3 DEF HookAllows, AtRoute, AnswerInv, ExecInv, VerdictInv, StartInv
  <2>2. /\ calls' = [calls EXCEPT ![i] = 1] /\ attempt' = 0 /\ at' = "call"
        /\ i' = i /\ verdict' = verdict
    <3>1. calls' = [calls EXCEPT ![i] = IF calls[i] <= MaxRetries + 1 THEN calls[i] + 1
                                        ELSE calls[i]]
      BY <1>3 DEF HookAllows, Invoke
    <3>2. calls[i] <= MaxRetries + 1 /\ calls[i] + 1 = 1
      BY <1>0, <2>1
    <3> QED
      BY <1>3, <3>1, <3>2 DEF HookAllows, Invoke
  <2> QED
    BY <1>0, <2>1, <2>2
<1>4. CASE HookAllowsUnregistered \/ HookRefuses
  <2>1. /\ i \in Chain /\ calls[i] = 0 /\ calls' = calls /\ attempt' = attempt
        /\ at' \notin {"call", "backoff"}
        /\ \A j \in Chain : j # i => verdict'[j] = verdict[j]
    BY <1>0, <1>4 DEF HookAllowsUnregistered, HookRefuses, Continue, AtRoute, AnswerInv
  <2> QED
    BY <1>0, <2>1
<1>5. ASSUME NEW answer, at = "call", CallRetries(answer)
      PROVE  /\ calls' = calls /\ verdict' = verdict /\ i' = i /\ at' = "backoff" /\ i \in Chain
             /\ attempt' = attempt + 1 /\ attempt < MaxRetries /\ calls[i] <= attempt + 1
  BY <1>0, <1>5 DEF CallRetries, RetryAllowed, CountInv, AtRoute
<1>6. ASSUME NEW answer, at = "call", CallRetries(answer)
      PROVE  /\ attempt' \in 0..MaxRetries
             /\ at' = "call" => calls'[i'] <= attempt' + 1
             /\ at' = "backoff" => calls'[i'] <= attempt'
             /\ \A j \in Chain : /\ calls'[j] <= MaxRetries + 1
                                 /\ verdict'[j] \in Skipped => calls'[j] = 0
  BY <1>0, <1>5, <1>6
<1>7. CASE Backoff
  <2>1. /\ at = "backoff" /\ i \in Chain /\ calls[i] <= attempt /\ verdict[i] = "untried"
    BY <1>0, <1>7 DEF Backoff, AtRoute, CountInv, ExecInv, VerdictInv, StartInv
  <2>2. /\ calls' = [calls EXCEPT ![i] = calls[i] + 1] /\ attempt' = attempt /\ at' = "call"
        /\ i' = i /\ verdict' = verdict
    BY <1>0, <1>7, <2>1 DEF Backoff, Invoke
  <2>3. calls[i] + 1 <= attempt + 1 /\ attempt + 1 <= MaxRetries + 1 /\ calls[i] + 1 <= MaxRetries + 1
    BY <1>0, <2>1
  <2> QED
    BY <1>0, <2>1, <2>2, <2>3
<1>8. ASSUME /\ calls' = calls /\ attempt' = attempt
             /\ at' = "call" => at = "call" /\ i' = i
             /\ at' = "backoff" => at = "backoff" /\ i' = i
             /\ \/ verdict' = verdict
                \/ verdict' = [verdict EXCEPT ![i] = "served"]
                \/ verdict' = [verdict EXCEPT ![i] = "failed"]
      PROVE  /\ attempt' \in 0..MaxRetries
             /\ at' = "call" => calls'[i'] <= attempt' + 1
             /\ at' = "backoff" => calls'[i'] <= attempt'
             /\ \A j \in Chain : /\ calls'[j] <= MaxRetries + 1
                                 /\ verdict'[j] \in Skipped => calls'[j] = 0
  <2>1. \A j \in Chain : verdict'[j] \in Skipped => verdict[j] \in Skipped
    BY <1>0, <1>8
  <2> QED
    BY <1>0, <1>8, <2>1 DEF CountInv
<1>9. CASE HookRaises \/ CallRaises \/ Stream \/ Decide \/ UNCHANGED vars
  BY <1>8, <1>9 DEF HookRaises, CallRaises, Stream, StreamEvent, StreamEnds, StreamBreaks,
     ConsumerLeaves, Decide, Decision, Finish, vars, loop
<1>10. ASSUME NEW answer, CallSucceeds(answer) \/ CallFails(answer)
       PROVE  /\ calls' = calls /\ attempt' = attempt /\ at' \notin {"call", "backoff"}
              /\ \/ verdict' = [verdict EXCEPT ![i] = "served"]
                 \/ verdict' = [verdict EXCEPT ![i] = "failed"]
  BY <1>10 DEF CallSucceeds, CallFails, Finish, Continue
<1> QED
  BY <1>3, <1>6, <1>8, <1>10, <1>4, <1>7, <1>9 DEF Next, Step, Hook, Call, Idle

-----------------------------------------------------------------------------
(* The route that the caller sees: a started stream is served by it.       *)
LEMMA Mapping ==
    /\ AbstractOutcome = IF started THEN F!Served(i) ELSE result
    /\ Running = F!Pending
    /\ \A kind, route : F!Aborted = [kind |-> "aborted", route |-> 0]
BY DEF AbstractOutcome, F!Served, F!Pending, F!Aborted, Running

(* A call starts as a Failover does.                                       *)
LEMMA InitMaps ==
    ASSUME Init
    PROVE  F!Init
<1>1. Len(routes) \in 1..(MaxFallbacks + 1)
  BY ExecInit DEF ExecInv, LoopTypes
<1> QED
  BY <1>1, Mapping DEF Init, F!Init

(* Every step is a step of Failover or stutters.                           *)
LEMMA StepMaps ==
    ASSUME ExecInv, [Next]_vars
    PROVE  [F!Next]_F!vars
<1> USE DEF call, history
<1>0. /\ Len(routes) \in Nat /\ Chain = 1..Len(routes) /\ F!Chain = Chain
      /\ verdict \in [Chain -> Verdicts] /\ started \in BOOLEAN
      /\ (AtRoute => i \in Chain) /\ i \in Int
  BY DEF ExecInv, LoopTypes, Chain, F!Chain
<1>1. ASSUME AtRoute, ~started
      PROVE  F!IsNext(i) /\ AbstractOutcome = F!Pending /\ i \in F!Chain
  <2>1. i \in Chain /\ verdict[i] = "untried" /\ result = Running
    BY <1>0, <1>1 DEF ExecInv, LoopTypes, VerdictInv, AtRoute
  <2>2. \A j \in 1..(i - 1) : j \in Chain /\ verdict[j] \in F!Settled
    BY <1>0, <1>1, <2>1 DEF ExecInv, VerdictInv, AtRoute
  <2> QED
    BY <1>0, <1>1, <2>1, <2>2, Mapping DEF F!IsNext, F!With
<1>2. ASSUME AtRoute, ~started, NEW v \in F!Settled, Continue(v), UNCHANGED <<call, started>>
      PROVE  [F!Next]_F!vars
  <2>1. AbstractOutcome' = AbstractOutcome
    BY <1>2, Mapping DEF AbstractOutcome, Continue
  <2>2. F!Settle(i, v)
    BY <1>1, <1>2, <2>1 DEF F!Settle, Continue
  <2> QED
    BY <1>1, <1>2, <2>2 DEF F!Next
<1>3. ASSUME AtRoute, ~started, UNCHANGED call, verdict' = [verdict EXCEPT ![i] = "served"],
             AbstractOutcome' = F!Served(i)
      PROVE  [F!Next]_F!vars
  <2>1. F!Serve(i)
    BY <1>1, <1>3 DEF F!Serve
  <2> QED
    BY <1>1, <1>3, <2>1 DEF F!Next
<1>4. ASSUME AtRoute, ~started, UNCHANGED <<call, verdict, started>>, Finish("aborted", 0)
      PROVE  [F!Next]_F!vars
  <2>1. AbstractOutcome' = F!Aborted
    BY <1>4 DEF AbstractOutcome, Finish, F!Aborted
  <2> QED
    BY <1>1, <1>4, <2>1 DEF F!Next, F!Abort
<1>5. ASSUME UNCHANGED <<call, verdict>>, AbstractOutcome' = AbstractOutcome
      PROVE  [F!Next]_F!vars
  BY <1>5 DEF F!vars
<1>6. at \in {"hook", "backoff", "decide"} => ~started
  BY DEF ExecInv, StartInv
<1>7. CASE Hook
  <2>1. CASE HookAllows
    BY <1>5, <1>6, <2>1, Mapping DEF HookAllows, Invoke, AbstractOutcome
  <2>2. CASE HookAllowsUnregistered \/ HookRefuses
    BY <1>2, <1>6, <2>2 DEF HookAllowsUnregistered, HookRefuses, AtRoute, F!Settled
  <2>3. CASE HookRaises
    BY <1>4, <1>6, <2>3 DEF HookRaises, AtRoute
  <2> QED
    BY <1>7, <2>1, <2>2, <2>3 DEF Hook
<1>8. CASE Call
  <2>1. ASSUME NEW answer, at = "call", CallSucceeds(answer) PROVE [F!Next]_F!vars
    <3>1. ~started /\ ~started'
      BY <2>1 DEF CallSucceeds, ExecInv, StartInv
    <3>2. AbstractOutcome' = F!Served(i)
      BY <2>1, <3>1 DEF CallSucceeds, Finish, AbstractOutcome, F!Served
    <3> QED
      BY <1>3, <2>1, <3>1, <3>2 DEF CallSucceeds, AtRoute
  <2>2. ASSUME NEW answer, at = "call", CallRetries(answer) PROVE [F!Next]_F!vars
    BY <1>5, <2>2 DEF CallRetries, AbstractOutcome
  <2>3. ASSUME NEW answer, at = "call", CallFails(answer) PROVE [F!Next]_F!vars
    BY <1>2, <2>3 DEF CallFails, AtRoute, F!Settled
  <2>4. CASE CallRaises
    BY <1>4, <2>4 DEF CallRaises, AtRoute
  <2>5. CASE Backoff
    BY <1>5, <1>6, <2>5 DEF Backoff, Invoke, AbstractOutcome
  <2> QED
    BY <1>8, <2>2, <2>4, <2>1, <2>3, <2>5 DEF Call
<1>9. CASE Stream
  <2>1. at = "call" /\ AtRoute /\ i \in Chain /\ i' = i
    BY <1>0, <1>9 DEF Stream, StreamEvent, StreamEnds, StreamBreaks, ConsumerLeaves, AtRoute
  <2>2. CASE started
    <3>1. verdict[i] = "served"
      BY <2>1, <2>2 DEF ExecInv, VerdictInv, AtRoute
    <3>2. verdict' = verdict /\ started' = started /\ UNCHANGED call
      BY <1>0, <1>9, <2>2, <3>1 DEF Stream, StreamEvent, StreamEnds, StreamBreaks, ConsumerLeaves
    <3>3. AbstractOutcome' = AbstractOutcome
      BY <2>1, <2>2, <3>2 DEF AbstractOutcome
    <3> QED
      BY <1>5, <3>2, <3>3
  <2>3. CASE ~started
    <3>1. verdict' = [verdict EXCEPT ![i] = "served"] /\ UNCHANGED call
      BY <1>9, <2>3 DEF Stream, StreamEvent, StreamEnds, StreamBreaks, ConsumerLeaves
    <3>2. started' \/ (started' = started /\ result' = [kind |-> "served", route |-> i])
      BY <1>9, <2>3 DEF Stream, StreamEvent, StreamEnds, StreamBreaks, ConsumerLeaves, Finish
    <3>3. AbstractOutcome' = F!Served(i)
      BY <2>1, <2>3, <3>2 DEF AbstractOutcome, F!Served
    <3> QED
      BY <1>3, <2>1, <2>3, <3>1, <3>3
  <2> QED
    BY <2>2, <2>3
<1>10. CASE Decide
  <2>1. /\ at = "decide" /\ i = Len(routes) + 1 /\ ~started /\ started' = started
        /\ result = Running /\ UNCHANGED <<call, verdict>>
    BY <1>6, <1>10 DEF Decide, ExecInv, LoopTypes
  <2>2. \A j \in Chain : verdict[j] \in F!Settled
    BY <1>0, <2>1 DEF ExecInv, VerdictInv
  <2>3. /\ \A v : F!With(v) = Having(v)
        /\ AbstractOutcome = F!Pending /\ AbstractOutcome' = result'
    BY <1>0, <2>1, Mapping DEF F!With, Having, AbstractOutcome
  <2>4. PICK e \in [kind : {"provider_error", "not_available", "not_registered"}, route : Chain] :
           result' = e /\ F!IsFailure(e)
    <3>1. /\ \/ lastError = 0 /\ Having("failed") = {}
             \/ lastError \in Having("failed") /\ \A j \in Having("failed") : j <= lastError
          /\ unavailable = Cardinality(Having("unavailable"))
          /\ \/ unregistered = <<>> /\ Having("unregistered") = {}
             \/ /\ unregistered \in Seq(Chain) /\ unregistered # <<>>
                /\ Head(unregistered) \in Having("unregistered")
                /\ \A j \in Having("unregistered") : Head(unregistered) <= j
      BY <2>1 DEF ExecInv, MemoryInv
    <3>2. \A v : Having(v) \subseteq Chain
      BY DEF Having
    <3>3. IsFiniteSet(Chain) /\ Cardinality(Chain) = Len(routes) /\ 1 \in Chain
      <4>1. Len(routes) \in Nat /\ Chain = 1..Len(routes) /\ 1 \in Chain
        BY <1>0 DEF ExecInv, LoopTypes, Chain
      <4>2. PICK n \in Nat : n = Len(routes)
        BY <4>1
      <4>3. IsFiniteSet(1..n) /\ Cardinality(1..n) = n
        <5>1. 1 \in Int /\ n \in Int
          OBVIOUS
        <5>2. IsFiniteSet(1..n) /\ Cardinality(1..n) = IF 1 > n THEN 0 ELSE n - 1 + 1
          BY <5>1, FS_Interval
        <5> QED
          BY <5>2
      <4> QED
        BY <4>1, <4>2, <4>3
    <3>4. /\ unavailable = Len(routes) => Having("unavailable") = Chain
          /\ Having("unavailable") = Chain => unavailable = Len(routes)
      BY <3>1, <3>2, <3>3, FS_Subset
    <3>5. ASSUME NEW kind \in {"provider_error", "not_available", "not_registered"},
                 NEW route \in Chain, Finish(kind, route),
                 F!IsFailure([kind |-> kind, route |-> route])
          PROVE  \E e \in [kind : {"provider_error", "not_available", "not_registered"},
                           route : Chain] : result' = e /\ F!IsFailure(e)
      BY <3>5 DEF Finish
    <3>6. CASE lastError # 0
      <4>1. lastError \in Having("failed") /\ \A j \in Having("failed") : j <= lastError
        BY <3>1, <3>6
      <4>2. Finish("provider_error", lastError) /\ lastError \in Chain
        BY <1>10, <3>2, <3>6, <4>1 DEF Decide, Decision
      <4>3. F!IsFailure([kind |-> "provider_error", route |-> lastError])
        BY <2>3, <4>1 DEF F!IsFailure
      <4> QED
        BY <3>5, <4>2, <4>3
    <3>7. CASE lastError = 0 /\ unavailable > 0 /\ unavailable = Len(routes)
      <4>1. Finish("not_available", 1)
        BY <1>10, <3>7 DEF Decide, Decision
      <4>2. F!IsFailure([kind |-> "not_available", route |-> 1])
        BY <1>0, <2>3, <3>4, <3>7 DEF F!IsFailure
      <4> QED
        BY <3>3, <3>5, <4>1, <4>2
    <3>8. CASE lastError = 0 /\ ~(unavailable > 0 /\ unavailable = Len(routes))
      <4>1. Having("failed") = {}
        BY <3>1, <3>2, <3>8, <1>0
      <4>2. unregistered # <<>>
        <5>1. SUFFICES ASSUME unregistered = <<>> PROVE FALSE
          OBVIOUS
        <5>2. Having("unregistered") = {}
          BY <3>1, <5>1
        <5>3. Having("unavailable") = Chain
          BY <2>2, <4>1, <5>2 DEF Having, F!Settled
        <5>4. unavailable = Len(routes) /\ Len(routes) > 0
          BY <1>0, <3>3, <3>4, <5>3
        <5> QED
          BY <3>8, <5>4
      <4>3. /\ Head(unregistered) \in Having("unregistered")
            /\ \A j \in Having("unregistered") : Head(unregistered) <= j
        BY <3>1, <4>2
      <4>4. Finish("not_registered", Head(unregistered)) /\ Head(unregistered) \in Chain
        BY <1>10, <3>2, <3>8, <4>2, <4>3 DEF Decide, Decision
      <4>5. F!IsFailure([kind |-> "not_registered", route |-> Head(unregistered)])
        BY <2>3, <4>1, <4>3 DEF F!IsFailure
      <4> QED
        BY <3>5, <4>4, <4>5
    <3> QED
      BY <3>6, <3>7, <3>8
  <2>5. F!GiveUp
    <3>1. /\ e.kind \in {"provider_error", "not_available", "not_registered"} /\ e.route \in F!Chain
          /\ e = [kind |-> e.kind, route |-> e.route]
      BY <1>0
    <3>2. \E kind \in {"provider_error", "not_available", "not_registered"}, j \in F!Chain :
             F!IsFailure([kind |-> kind, route |-> j]) /\ result' = [kind |-> kind, route |-> j]
      BY <2>4, <3>1
    <3> QED
      BY <1>0, <2>1, <2>2, <2>3, <3>2 DEF F!GiveUp
  <2> QED
    BY <2>5 DEF F!Next
<1>11. CASE UNCHANGED vars
  BY <1>5, <1>11 DEF vars, loop, AbstractOutcome
<1> QED
  BY <1>7, <1>9, <1>11, <1>8, <1>10 DEF Next, Step, Idle

-----------------------------------------------------------------------------
(* What the loop of execute and stream knows of the routes it has passed.  *)
THEOREM ExecInvariance ==
    Spec => [](ExecInv /\ AnswerInv)
<1>1. Init => ExecInv /\ AnswerInv
  BY ExecInit
<1>2. ExecInv /\ AnswerInv /\ [Next]_vars => (ExecInv /\ AnswerInv)'
  BY ExecStep, AnswerStep
<1> QED
  BY <1>1, <1>2, PTL DEF Spec

(* ProviderExecutor is a Failover: whatever is retried and streamed, the   *)
(* routes are settled in order and the error is the one that ADR 0003      *)
(* gives the caller.                                                       *)
THEOREM RefinesFailover ==
    Spec => ImplementsFailover
<1>1. Init => F!Init
  BY InitMaps
<1>2. ExecInv /\ [Next]_vars => [F!Next]_F!vars
  BY StepMaps
<1>3. Spec => [](ExecInv /\ AnswerInv)
  BY ExecInvariance
<1> QED
  BY <1>1, <1>2, <1>3, PTL DEF Spec, ImplementsFailover, F!Spec

(* A route that has answered in full is not asked again, and one whose     *)
(* adapter cannot translate the request is given up without an answer.     *)
THEOREM AnsweredAtMostOnce ==
    Spec => []AnsweredOnce
<1>1. ExecInv /\ AnswerInv => AnsweredOnce
  BY DEF AnswerInv, AnsweredOnce
<1>2. Spec => [](ExecInv /\ AnswerInv)
  BY ExecInvariance
<1> QED
  BY <1>1, <1>2, PTL

(* Once an event has been handed to the consumer no provider is called.    *)
THEOREM StreamIsSticky ==
    Spec => RouteIsSticky
<1>1. ExecInv /\ [Next]_vars => (events # <<>> => calls' = calls)
  <2> SUFFICES ASSUME ExecInv, Next \/ UNCHANGED vars, events # <<>> PROVE calls' = calls
    OBVIOUS
  <2> USE DEF history
  <2>1. at \in {"call", "done"}
    BY DEF ExecInv, StartInv
  <2>2. CASE Hook
    BY <2>1, <2>2 DEF Hook, HookAllows, HookAllowsUnregistered, HookRefuses, HookRaises
  <2>3. CASE Call
    BY <2>1, <2>3 DEF Call, CallSucceeds, CallRetries, CallFails, CallRaises, Backoff
  <2>4. CASE Stream \/ Decide \/ UNCHANGED vars
    BY <2>4 DEF Stream, StreamEvent, StreamEnds, StreamBreaks, ConsumerLeaves, Decide, vars
  <2> QED
    BY <2>2, <2>3, <2>4 DEF Next, Step, Idle, vars
<1>2. Spec => [](ExecInv /\ AnswerInv)
  BY ExecInvariance
<1> QED
  BY <1>1, <1>2, PTL DEF Spec, RouteIsSticky

(* What the loop counts, with the rest of its variables' types.            *)
THEOREM CountInvariance ==
    Spec => [](ExecInv /\ AnswerInv /\ CountInv)
<1>1. Init => ExecInv /\ AnswerInv /\ CountInv
  BY ExecInit, CountInit
<1>2. ExecInv /\ AnswerInv /\ CountInv /\ [Next]_vars => (ExecInv /\ AnswerInv /\ CountInv)'
  BY ExecStep, AnswerStep, CountStep
<1> QED
  BY <1>1, <1>2, PTL DEF Spec

(* The variables of execute and stream have their types; in particular no  *)
(* route is retried more than provider_max_retries times.                  *)
THEOREM ExecutorTypeCorrect == Spec => []TypeOK
<1>1. ExecInv /\ AnswerInv /\ CountInv => TypeOK
  <2> SUFFICES ASSUME ExecInv, AnswerInv, CountInv PROVE TypeOK
    OBVIOUS
  <2>1. answered \in [Chain -> 0..2]
    BY DEF ExecInv, LoopTypes, AnswerInv
  <2> QED
    BY <2>1 DEF ExecInv, LoopTypes, CountInv, TypeOK, Routes, Verdicts, Results
<1> QED
  BY <1>1, CountInvariance, PTL

(* The sum over one element.                                               *)
Sum(f, T) == MapThenSumSet(LAMBDA k : f[k], T)

LEMMA SumOfOne ==
    ASSUME NEW f, NEW j, f[j] \in Nat, NEW T, T = {j}
    PROVE  Sum(f, T) = f[j]
<1> DEFINE Def(g) == g = [s \in SUBSET T |->
               IF s = {} THEN 0 ELSE LET x == CHOOSE x \in s : TRUE IN f[x] + g[s \ {x}]]
           iter == CHOOSE g : Def(g)
           sums == [s \in SUBSET T |-> IF s = {} THEN 0 ELSE f[j]]
<1>1. \A s \in SUBSET T : s # {} => s = {j} /\ (CHOOSE x \in s : TRUE) = j /\ s \ {j} = {}
  OBVIOUS
<1>2. Def(sums)
  <2>1. \A s \in SUBSET T :
           sums[s] = IF s = {} THEN 0 ELSE LET x == CHOOSE x \in s : TRUE IN f[x] + sums[s \ {x}]
    <3>1. sums[{}] = 0 /\ sums[{j}] = f[j] /\ f[j] + 0 = f[j]
      OBVIOUS
    <3> HIDE DEF sums
    <3> QED
      BY <1>1, <3>1
  <2>2. sums = [s \in SUBSET T |-> sums[s]]
    OBVIOUS
  <2> HIDE DEF sums
  <2> QED
    BY <2>1, <2>2
<1>3. Def(iter)
  <2> HIDE DEF Def
  <2> QED
    BY <1>2
<1>4. Sum(f, T) = iter[T]
  BY DEF Sum, MapThenSumSet, MapThenFoldSet
<1> HIDE DEF iter
<1>5. iter[{}] = 0
  BY <1>3
<1>6. iter[T] = f[j] + iter[{}]
  BY <1>1, <1>3
<1> QED
  BY <1>4, <1>5, <1>6

(* However often the failover catalog names it, a model is called          *)
(* provider_max_retries + 1 times at most, for its route is the only one   *)
(* of that model; and a route that was skipped is not called.              *)
THEOREM CallsBounded == Spec => []CallsAreBounded
<1>1. ExecInv /\ CountInv => CallsAreBounded
  <2> SUFFICES ASSUME ExecInv, CountInv, NEW j \in Chain
               PROVE  /\ MapThenSumSet(LAMBDA k : calls[k],
                             {k \in Chain : routes[k].model = routes[j].model}) <= MaxRetries + 1
                      /\ verdict[j] \in {"unavailable", "unregistered"} => calls[j] = 0
    BY DEF CallsAreBounded
  <2>1. {k \in Chain : routes[k].model = routes[j].model} = {j} /\ calls[j] \in Nat
    BY DEF CountInv, ExecInv, LoopTypes
  <2>2. Sum(calls, {k \in Chain : routes[k].model = routes[j].model}) = calls[j]
    BY <2>1, SumOfOne
  <2>3. MapThenSumSet(LAMBDA k : calls[k], {k \in Chain : routes[k].model = routes[j].model})
          = calls[j]
    BY <2>2, Zenon DEF Sum
  <2>4. /\ calls[j] <= MaxRetries + 1
        /\ verdict[j] \in {"unavailable", "unregistered"} => calls[j] = 0
    BY DEF CountInv
  <2> QED
    BY <2>3, <2>4, Zenon
<1> QED
  BY <1>1, CountInvariance, PTL
=============================================================================
