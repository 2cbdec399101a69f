----------------------------- MODULE Predicates -----------------------------
(***************************************************************************)
(* Scope predicates (core/predicates.ts): how a policy's grant bounds the  *)
(* scopes of a token at mint, and how those scopes bound the arguments of  *)
(* a call at admission.  Mint compares predicates by a fixed table, never  *)
(* by evaluating them, so the table has to be sound.                       *)
(*                                                                         *)
(* Strings are sequences of segments: the paths of core/schemas.ts neither *)
(* start nor end with a slash, and "p or anything strictly below p" is a   *)
(* prefix of segments.  The arguments of a call are the function of its    *)
(* scalar fields; a field that is missing, null or an object is not in its *)
(* domain.  Numbers are integers, as the schemas demand.                   *)
(***************************************************************************)
EXTENDS Integers, Sequences

CONSTANTS
  Tool, Field, Segment,
  Grants,  \* the scope sets a policy may grant
  Request, \* the scope sets a mint may ask for
  Args     \* the arguments of calls

VARIABLES
  grants, hardDeny, \* the policy: the principal's scopes, the tools denied
  minted,           \* the scopes of the token
  admitted          \* the calls let through with it

scopeVars == <<grants, hardDeny, minted, admitted>>

Value == [type : {"number"}, v : Int]
           \cup [type : {"string"}, v : Seq(Segment)]
           \cup [type : {"boolean"}, v : BOOLEAN]

Predicate == [ptr : Field, op : {"eq"}, value : Value]
               \cup [ptr : Field, op : {"in"}, values : SUBSET Value]
               \cup [ptr : Field, op : {"int_range"}, min : Int, max : Int]
               \cup [ptr : Field, op : {"path_prefix"}, value : Seq(Segment)]

Scope == [tool : Tool, where : SUBSET Predicate]

ASSUME ScopeAssumption ==
  /\ \A set \in Grants \cup Request : set \subseteq Scope
  /\ \A args \in Args : \A f \in DOMAIN args : f \in Field /\ args[f] \in Value

-----------------------------------------------------------------------------
\* Evaluation

typedEq(a, b) == a.type = b.type /\ a.v = b.v

pathMatches(prefix, s) ==
  Len(prefix) <= Len(s) /\ \A i \in 1 .. Len(prefix) : s[i] = prefix[i]

inRange(v, p) == v.type = "number" /\ p.min <= v.v /\ v.v <= p.max
below(v, p) == v.type = "string" /\ pathMatches(p.value, v.v)

evalPredicate(p, args) ==
  /\ p.ptr \in DOMAIN args
  /\ LET v == args[p.ptr]
     IN \/ p.op = "eq" /\ typedEq(v, p.value)
        \/ p.op = "in" /\ \E x \in p.values : typedEq(v, x)
        \/ p.op = "int_range" /\ inRange(v, p)
        \/ p.op = "path_prefix" /\ below(v, p)

scopeHolds(scope, args) == \A p \in scope.where : evalPredicate(p, args)

argsPermitted(scopes, tool, args) ==
  \E s \in scopes : s.tool = tool /\ scopeHolds(s, args)

-----------------------------------------------------------------------------
\* The table of implications: does request predicate q imply grant predicate p?

isSingletonIn(q) == q.op = "in" /\ \E x \in q.values : q.values = {x}

impliesEq(q, p) ==
  \/ q.op = "eq" /\ typedEq(q.value, p.value)
  \/ isSingletonIn(q) /\ \A x \in q.values : typedEq(x, p.value)

impliesIn(q, p) ==
  \/ q.op = "eq" /\ \E x \in p.values : typedEq(x, q.value)
  \/ q.op = "in" /\ \A b \in q.values : \E a \in p.values : typedEq(a, b)

\* Faulty form (WithinGrant): the upper end of the requested range is free.
impliesRange_OpenEnd(q, p) ==
  \/ q.op = "eq" /\ inRange(q.value, p)
  \/ q.op = "in" /\ \A b \in q.values : inRange(b, p)
  \/ q.op = "int_range" /\ p.min <= q.min

impliesRange(q, p) ==
  \/ q.op = "eq" /\ inRange(q.value, p)
  \/ q.op = "in" /\ \A b \in q.values : inRange(b, p)
  \/ q.op = "int_range" /\ p.min <= q.min /\ q.max <= p.max

impliesPrefix(q, p) ==
  \/ q.op = "eq" /\ below(q.value, p)
  \/ q.op = "in" /\ \A b \in q.values : below(b, p)
  \/ q.op = "path_prefix" /\ pathMatches(p.value, q.value)

implies(q, p) ==
  /\ q.ptr = p.ptr
  /\ \/ p.op = "eq" /\ impliesEq(q, p)
     \/ p.op = "in" /\ impliesIn(q, p)
     \/ p.op = "int_range" /\ impliesRange(q, p)
     \/ p.op = "path_prefix" /\ impliesPrefix(q, p)

\* Further predicates of the request only narrow it.
scopeImplies(request, grant) ==
  /\ request.tool = grant.tool
  /\ \A p \in grant.where : \E q \in request.where : implies(q, p)

checkMintScopes(request, granted, denied) ==
  \A s \in request : /\ s.tool \notin denied
                     /\ \E g \in granted : scopeImplies(s, g)

-----------------------------------------------------------------------------
\* A policy, a token minted under it, and the calls admitted with the token.
\* A token is bound to its policy revision, so the policy stands still.

SInit ==
  /\ grants \in Grants
  /\ hardDeny \in SUBSET Tool
  /\ minted = {}
  /\ admitted = {}

mint(request) ==
  /\ minted = {}
  /\ checkMintScopes(request, grants, hardDeny)
  /\ minted' = request
  /\ UNCHANGED <<grants, hardDeny, admitted>>

\* scopeCheck of engine/authority.ts
admit(tool, args) ==
  /\ tool \notin hardDeny
  /\ argsPermitted(minted, tool, args)
  /\ admitted' = {[tool |-> tool, args |-> args]}
  /\ UNCHANGED <<grants, hardDeny, minted>>

SNext ==
  \/ \E request \in Request : mint(request)
  \/ \E tool \in Tool, args \in Args : admit(tool, args)

ScopeSpec == SInit /\ [][SNext]_scopeVars

\* README: "minted scopes must be implied by the principal's grant".  What that
\* is for: whatever scopes the table lets a mint have, every call they let
\* through satisfies a scope of the policy itself.
WithinGrant ==
  \A c \in admitted : argsPermitted(grants, c.tool, c.args)
=============================================================================
