-------------------------- MODULE PredicateProofs --------------------------
(***************************************************************************)
(* The table of implications is sound, for every value of the constants.   *)
(***************************************************************************)
EXTENDS Predicates, TLAPS

\* What lies below a path below p lies below p.
LEMMA PathTransitive ==
  ASSUME NEW p \in Seq(Segment), NEW q \in Seq(Segment), NEW s \in Seq(Segment),
         pathMatches(p, q), pathMatches(q, s)
  PROVE  pathMatches(p, s)
<1>1. Len(p) \in Nat /\ Len(q) \in Nat /\ Len(s) \in Nat
  OBVIOUS
<1>2. Len(p) <= Len(q) /\ Len(q) <= Len(s)
  BY DEF pathMatches
<1>3. ASSUME NEW i \in 1 .. Len(p)
      PROVE  s[i] = p[i]
  <2>1. i \in 1 .. Len(q)
    BY <1>1, <1>2
  <2> QED BY <2>1 DEF pathMatches
<1> QED BY <1>1, <1>2, <1>3 DEF pathMatches

\* A value that equals another is in the same ranges and below the same paths.
LEMMA TypedEqSubstitutes ==
  ASSUME NEW a, NEW b, typedEq(a, b), NEW p
  PROVE  /\ inRange(b, p) => inRange(a, p)
         /\ below(b, p) => below(a, p)
         /\ \A c : typedEq(b, c) => typedEq(a, c)
         /\ \A c : typedEq(c, b) => typedEq(a, c)
  BY DEF typedEq, inRange, below

\* A value of the right type that satisfies q satisfies every p that q implies.
LEMMA ImpliesSound ==
  ASSUME NEW q \in Predicate, NEW p \in Predicate, implies(q, p),
         NEW args, \A f \in DOMAIN args : args[f] \in Value,
         evalPredicate(q, args)
  PROVE  evalPredicate(p, args)
<1>. DEFINE v == args[q.ptr]
<1>1. q.ptr = p.ptr /\ q.ptr \in DOMAIN args /\ v \in Value
  BY DEF implies, evalPredicate
<1>2. CASE q.op = "eq"
  <2>1. typedEq(v, q.value)
    BY <1>2 DEF evalPredicate
  <2>2. CASE p.op = "eq"
    BY <1>1, <1>2, <2>1, <2>2, TypedEqSubstitutes
       DEF implies, impliesEq, isSingletonIn, evalPredicate
  <2>3. CASE p.op = "in"
    BY <1>1, <1>2, <2>1, <2>3, TypedEqSubstitutes
       DEF implies, impliesIn, evalPredicate
  <2>4. CASE p.op = "int_range"
    BY <1>1, <1>2, <2>1, <2>4, TypedEqSubstitutes
       DEF implies, impliesRange, evalPredicate
  <2>5. CASE p.op = "path_prefix"
    BY <1>1, <1>2, <2>1, <2>5, TypedEqSubstitutes
       DEF implies, impliesPrefix, evalPredicate
  <2> QED BY <2>2, <2>3, <2>4, <2>5 DEF implies
<1>3. CASE q.op = "in"
  <2>1. PICK x \in q.values : typedEq(v, x)
    BY <1>3 DEF evalPredicate
  <2>2. CASE p.op = "eq"
    BY <1>1, <1>3, <2>1, <2>2, TypedEqSubstitutes
       DEF implies, impliesEq, evalPredicate
  <2>3. CASE p.op = "in"
    <3>1. PICK a \in p.values : typedEq(a, x)
      BY <1>3, <2>1, <2>3 DEF implies, impliesIn
    <3> QED BY <1>1, <2>1, <2>3, <3>1, TypedEqSubstitutes DEF evalPredicate
  <2>4. CASE p.op = "int_range"
    BY <1>1, <1>3, <2>1, <2>4, TypedEqSubstitutes
       DEF implies, impliesRange, evalPredicate
  <2>5. CASE p.op = "path_prefix"
    BY <1>1, <1>3, <2>1, <2>5, TypedEqSubstitutes
       DEF implies, impliesPrefix, evalPredicate
  <2> QED BY <2>2, <2>3, <2>4, <2>5 DEF implies
<1>4. CASE q.op = "int_range"
  <2>1. v.type = "number" /\ q.min <= v.v /\ v.v <= q.max
    BY <1>4 DEF evalPredicate, inRange
  <2>2. p.op = "int_range" /\ p.min <= q.min /\ q.max <= p.max
    BY <1>4 DEF implies, impliesEq, isSingletonIn, impliesIn, impliesRange, impliesPrefix
  <2>3. v.v \in Int
    BY <1>1, <2>1 DEF Value
  <2>4. q.min \in Int /\ q.max \in Int
    BY <1>4 DEF Predicate
  <2>5. p.min \in Int /\ p.max \in Int
    BY <2>2 DEF Predicate
  <2>6. inRange(v, p)
    BY <2>1, <2>2, <2>3, <2>4, <2>5 DEF inRange
  <2> QED BY <1>1, <2>2, <2>6 DEF evalPredicate
<1>5. CASE q.op = "path_prefix"
  <2>1. v.type = "string" /\ pathMatches(q.value, v.v)
    BY <1>5 DEF evalPredicate, below
  <2>2. p.op = "path_prefix" /\ pathMatches(p.value, q.value)
    BY <1>5 DEF implies, impliesEq, isSingletonIn, impliesIn, impliesRange, impliesPrefix
  <2>3. v.v \in Seq(Segment)
    BY <1>1, <2>1 DEF Value
  <2>4. q.value \in Seq(Segment)
    BY <1>5 DEF Predicate
  <2>5. p.value \in Seq(Segment)
    BY <2>2 DEF Predicate
  <2>6. below(v, p)
    BY <2>1, <2>2, <2>3, <2>4, <2>5, PathTransitive DEF below
  <2> QED BY <1>1, <2>2, <2>6 DEF evalPredicate
<1> QED BY <1>2, <1>3, <1>4, <1>5 DEF Predicate

\* A scope that mint let through permits no argument its grant does not.
LEMMA MintScopesSound ==
  ASSUME NEW request, request \subseteq Scope, NEW granted, granted \subseteq Scope,
         NEW denied, checkMintScopes(request, granted, denied),
         NEW tool, NEW args, \A f \in DOMAIN args : args[f] \in Value,
         argsPermitted(request, tool, args)
  PROVE  argsPermitted(granted, tool, args)
<1>1. PICK s \in request : s.tool = tool /\ scopeHolds(s, args)
  BY DEF argsPermitted
<1>2. PICK g \in granted : scopeImplies(s, g)
  BY DEF checkMintScopes
<1>3. s \in Scope /\ g \in Scope
  OBVIOUS
<1>4. ASSUME NEW p \in g.where
      PROVE  evalPredicate(p, args)
  <2>1. PICK q \in s.where : implies(q, p)
    BY <1>2 DEF scopeImplies
  <2>2. evalPredicate(q, args)
    BY <1>1 DEF scopeHolds
  <2>3. q \in Predicate /\ p \in Predicate
    BY <1>3 DEF Scope
  <2> QED BY <2>1, <2>2, <2>3, ImpliesSound
<1>5. g.tool = tool
  BY <1>1, <1>2 DEF scopeImplies
<1> QED BY <1>4, <1>5 DEF argsPermitted, scopeHolds

\* The token's scopes passed the table when it was minted.
MintedInv ==
  /\ grants \in Grants
  /\ \/ minted = {}
     \/ minted \in Request /\ checkMintScopes(minted, grants, hardDeny)
  /\ \A c \in admitted : c.args \in Args
  /\ WithinGrant

\* Every call that passes the scopes of a minted token lies within the scopes
\* the policy grants, whatever the policy, the request and the arguments.
THEOREM AdmittedWithinGrant == ScopeSpec => []WithinGrant
<1>1. ASSUME SInit
      PROVE  MintedInv
  <2>1. grants \in Grants
    BY <1>1 DEF SInit
  <2>2. minted = {} /\ admitted = {}
    BY <1>1 DEF SInit
  <2>3. WithinGrant
    BY <2>2 DEF WithinGrant
  <2>4. \A c \in admitted : c.args \in Args
    BY <2>2
  <2>5. minted = {} \/ (minted \in Request /\ checkMintScopes(minted, grants, hardDeny))
    BY <2>2, Zenon
  <2> QED BY <2>1, <2>3, <2>4, <2>5, Zenon DEF MintedInv
<1>2. MintedInv /\ [SNext]_scopeVars => MintedInv'
  <2>. SUFFICES ASSUME MintedInv, [SNext]_scopeVars
                PROVE  MintedInv'
    OBVIOUS
  <2>1. ASSUME NEW request \in Request, mint(request)
        PROVE  MintedInv'
    BY <2>1 DEF mint, MintedInv, WithinGrant
  <2>2. ASSUME NEW tool \in Tool, NEW args \in Args, admit(tool, args)
        PROVE  MintedInv'
    <3>1. minted \in Request /\ checkMintScopes(minted, grants, hardDeny)
      BY <2>2 DEF admit, argsPermitted, MintedInv
    <3>2. minted \subseteq Scope /\ grants \subseteq Scope
      BY <3>1, ScopeAssumption DEF MintedInv
    <3>3. argsPermitted(grants, tool, args)
      <4>1. \A f \in DOMAIN args : args[f] \in Value
        BY ScopeAssumption
      <4>2. argsPermitted(minted, tool, args)
        BY <2>2 DEF admit
      <4> QED BY <3>1, <3>2, <4>1, <4>2, MintScopesSound
    <3>4. /\ admitted' = {[tool |-> tool, args |-> args]}
          /\ UNCHANGED <<grants, hardDeny, minted>>
      BY <2>2 DEF admit
    <3>5. WithinGrant'
      BY <3>3, <3>4 DEF WithinGrant
    <3> QED BY <3>1, <3>4, <3>5 DEF MintedInv
  <2>3. CASE UNCHANGED scopeVars
    BY <2>3 DEF scopeVars, MintedInv, WithinGrant
  <2> QED BY <2>1, <2>2, <2>3 DEF SNext
<1>3. MintedInv => WithinGrant
  BY DEF MintedInv
<1> QED BY <1>1, <1>2, <1>3, PTL DEF ScopeSpec
=============================================================================
