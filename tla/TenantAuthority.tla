--------------------------- MODULE TenantAuthority ---------------------------
(***************************************************************************)
(* The TenantAuthority: the agent routes, the control routes and the       *)
(* lifecycle over one store, and the properties that make it correct.      *)
(***************************************************************************)
EXTENDS AgentPlane, ControlPlane, Lifecycle

\* bootstrap() at second 0.
Init ==
  /\ phys = 0 /\ lastNow = 0
  /\ policy = [revision |-> 1, body |-> InitPolicy]
  /\ tasks = [i \in TaskId |-> NoRow]
  /\ tokens = [t \in TokenId |-> NoRow]
  /\ keys = [k \in Kid |-> IF k = InitKid
                THEN [state |-> "ACTIVE", last_exp |-> 0] ELSE NoRow]
  /\ activeKid = InitKid
  /\ revocations = {}
  /\ proofs = [p \in Proof |-> 0]
  /\ operations = [o \in ControlKid \X OpId |-> NoRow]
  /\ nonces = [x \in NonceId |-> NoRow]
  /\ calls = [i \in CallId |-> NoRow]
  /\ lastToken = 0 /\ lastNonce = 0
  /\ audit = {<<"deployment.installed", 1>>}
  /\ handlers = [h \in Handler |-> Idle]
  /\ dispatches = [c \in Call |-> 0]
  /\ executed = [p \in Proof |-> 0]
  /\ told = {}

AgentRequest ==
  \E t \in TokenId, p \in Proof :
    \/ \E h \in Handler, c \in Call, nonce \in {0} \cup NonceId :
         handleCall(h, t, p, nonce, c)
    \/ \E c \in Call : handleNonce(t, p, c)
    \/ \E i \in CallId : handleResult(t, p, i)

ControlRequest ==
  \E kid \in ControlKid, p \in Proof :
    \/ \E h \in Handler, op \in OpId, req \in MintRequest :
         handleMint(h, kid, p, op, req)
    \/ \E op \in OpId, target \in Target : handleRevoke(kid, p, op, target)
    \/ \E op \in OpId, rev \in 1 .. MaxRevision, body \in Policy :
         handlePolicy(kid, p, op, rev, body)
    \/ \E op \in OpId, old \in Kid, new \in Kid : handleRotate(kid, p, op, old, new)
    \/ \E t \in TokenId : handleInspect(kid, p, t)
    \/ handleAudit(kid, p)

\* The answers handlers wait for.
Answer ==
  \E h \in Handler :
    \/ \E obs \in Observation : callHeraldAnswers(h, obs) \/ mintHeraldAnswers(h, obs)
    \/ \E outcome \in Terminal : adapterReturns(h, outcome)

Recover == \E n \in {phys, now} : recover(n)
Maintain == \E n \in {phys, now} : runMaintenance(n)
StepBack == \E d \in 1 .. MaxBack : stepBack(d)

Next ==
  \/ phys <= LastRequest /\ (AgentRequest \/ ControlRequest)
  \/ Answer
  \/ tick \/ StepBack \/ crash
  \/ Recover \/ Maintain

Spec == Init /\ [][Next]_vars

\* The clock runs, an adapter answers or its timer fires, and whoever operates
\* the gateway keeps calling recover().  Nothing is assumed of the Herald
\* source, of the callers or of maintenance.
Fairness ==
  /\ WF_vars(tick)
  /\ \A h \in Handler : WF_vars(\E o \in Terminal : adapterReturns(h, o))
  /\ WF_vars(Recover)
FairSpec == Spec /\ Fairness

-----------------------------------------------------------------------------
\* Types

TimeType == phys \in 0 .. MaxTime /\ lastNow \in 0 .. MaxTime
CredType ==
  /\ policy \in PolicyRow
  /\ tasks \in [TaskId -> TaskRow \cup {NoRow}]
  /\ tokens \in [TokenId -> TokenRow \cup {NoRow}]
  /\ keys \in [Kid -> KeyRow \cup {NoRow}]
  /\ activeKid \in Kid
  /\ revocations \in SUBSET Target
  /\ lastToken \in 0 .. MaxToken
CallType ==
  /\ nonces \in [NonceId -> NonceRow \cup {NoRow}]
  /\ calls \in [CallId -> CallRow \cup {NoRow}]
  /\ lastNonce \in 0 .. MaxNonce
LogType ==
  /\ proofs \in [Proof -> Nat]
  /\ operations \in [ControlKid \X OpId -> OperationRow \cup {NoRow}]
  /\ executed \in [Proof -> Nat]
ObsType ==
  /\ handlers \in [Handler -> {Idle} \cup CallWait \cup MintWait \cup AdapterWait]
  /\ dispatches \in [Call -> Nat]
  /\ told \in SUBSET (Call \X Terminal)

\* Every column, every suspended handler and every observation keeps its type:
\* the states of a row are those the schema names, a handler waits at one of
\* the three awaits of the code and carries what that await needs.
TypeOK == TimeType /\ CredType /\ CallType /\ LogType /\ ObsType

-----------------------------------------------------------------------------
\* Calls

\* One-shot dispatch (README: "a replayed call returns the stored result,
\* never a second dispatch"): over the life of the database, through retries,
\* crashes, recovery, purges and clock steps, an adapter is invoked at most
\* once for a given call, and for one call at most of those of a task that
\* share a call id.
DispatchOnce ==
  \A c, d \in Call :
    /\ dispatches[c] <= 1
    /\ /\ c.id = d.id /\ c.task = d.task
       /\ dispatches[c] > 0 /\ dispatches[d] > 0
       => c = d

\* Whenever callInner hands a call to the adapter, the credential is live at
\* that moment, whatever was revoked, rotated or re-policied while the handler
\* waited for Herald; the call lies within what the policy in force grants the
\* subject; and a destructive call uses up an unexpired nonce of that token
\* and call.
DispatchAuthorised ==
  [][\A c \in Call : dispatches'[c] > dispatches[c] =>
       \E t \in TokenId :
         /\ credentialLive(t) /\ checkClockSafe
         /\ tokens[t].task = c.task
         /\ c \in policy.body.granted[tokens[t].who.sub]
         /\ c.tool \notin policy.body.hard_deny
         /\ destructive(c) =>
              \E x \in NonceId : nonceOpen(t, x, c) /\ nonces'[x].state = "CONSUMED"
    ]_vars

\* The audit log never tells two endings of one call, and the row agrees with
\* it: completeCall and recover() may race for the same reservation.
OneEnding ==
  \A c \in Call :
    /\ \A s, r \in Terminal :
         <<eventOf[s], c>> \in audit /\ <<eventOf[r], c>> \in audit => s = r
    /\ calls[c.id].state \in Terminal /\ calls[c.id].call = c =>
         <<eventOf[calls[c.id].state], c>> \in audit

\* A caller that was once told SUCCEEDED is never told another outcome of the
\* call, by the first reply, by a replay or by /results.
SuccessIsFinal ==
  \A c \in Call : <<c, "SUCCEEDED">> \in told =>
    \A s \in Terminal : <<c, s>> \in told => s = "SUCCEEDED"

\* A call's fate is its row; without a row, what the adapter has seen of it.
callFate == [c \in Call |->
  IF calls[c.id].state # "NONE" /\ calls[c.id].call = c THEN calls[c.id].state
  ELSE IF dispatches[c] > 0 THEN "GONE" ELSE "NONE"]
openPairs == {<<x, nonces[x].call>> : x \in openNonces}

\* Through its calls and nonces the authority is the service a client relies
\* on: rows, nonces, adapter invocations and answers agree through retries,
\* races, lost completions, crashes, recovery and purges.  In particular a
\* late completion never ends a call of another task that took over the id.
Service == INSTANCE CallService WITH
             fate <- callFate, open <- openPairs, issued <- 1 .. lastNonce,
             Destructive <- {c \in Call : destructive(c)}
ImplementsCallService == Service!Spec

openOf(t) == {x \in openNonces : nonces[x].tok = t}

\* What is under way stays within the limits, whoever comes for the last place:
\* handlers that waited for Herald side by side, retries after a crash, nonces
\* whose time is over and that nobody has closed.  Of a token and a call at most
\* one nonce is open, so that the unique index one_open_nonce (store.ts 20) never
\* turns a request for a nonce into STATE_UNAVAILABLE.
WithinLimits ==
  /\ Cardinality(inflightCalls) <= MAX_INFLIGHT_CALLS
  /\ Cardinality(liveTasks) <= MAX_LIVE_TASKS
  /\ Cardinality(openNonces) <= MAX_OPEN_NONCES_TENANT
  /\ \A t \in TokenId : Cardinality(openOf(t)) <= MAX_OPEN_NONCES_TOKEN
  /\ \A x, y \in openNonces :
       nonces[x].tok = nonces[y].tok /\ nonces[x].call = nonces[y].call => x = y

-----------------------------------------------------------------------------
\* Proofs and time

\* The request behind a signed proof commits at most once, although proof rows
\* are purged and the clock may step back: PROOF_RETENTION outlasts the window
\* in which the proof is accepted.
ExecutedOnce == \A p \in Proof : executed[p] <= 1

\* What maintenance has expired stays expired for the checks that only compare
\* times: last_now has passed the expiry for good.
ExpiredStays ==
  /\ \A i \in TaskId : tasks[i].state = "EXPIRED" => tasks[i].exp <= lastNow
  /\ \A t \in TokenId : tokens[t].state = "EXPIRED" => tokens[t].exp <= lastNow
  /\ \A x \in NonceId : nonces[x].state = "EXPIRED" => nonces[x].exp <= lastNow

\* Every transaction of the authority, seen through the proofs table and
\* last_now, is a step of the abstract ledger.
Ledger == INSTANCE ProofLedger WITH Time <- 0 .. MaxTime
ImplementsLedger == Ledger!Spec

-----------------------------------------------------------------------------
\* Credentials

\* /inspect reports ACTIVE exactly for the tokens that agentPrecheck would let
\* through, although derivedTokenState looks at neither the task row nor the
\* RETIRED state of the key.
InspectAgrees ==
  \A t \in TokenId : tokens[t].state # "NONE" =>
    (derivedTokenState(t) = "ACTIVE") = credentialLive(t)

\* A signing key is retired only after every token it signed has expired.
RetiredKeyDrained ==
  \A t \in TokenId :
    tokens[t].state # "NONE" /\ keys[tokens[t].kid].state = "RETIRED" =>
      tokens[t].exp <= lastNow

\* A token handed out by mint is usable at that moment: neither its task, its
\* subject nor its key is revoked and its policy is the one in force, whatever
\* was committed while the mint waited for Herald.
MintLive == [][lastToken' > lastToken => credentialLive(lastToken)']_vars

\* As long as a token has not expired, exactly one journalled operation holds
\* it: a retried mint finds its token and no operation mints twice.
MintJournalled ==
  \A t \in TokenId : tokens[t].state # "NONE" /\ now < tokens[t].exp =>
    Cardinality({o \in ControlKid \X OpId :
      operations[o].state = "SAVED" /\ operations[o].tok = t}) = 1

\* A principal for whom the policy requires a Herald card never gets an
\* unbound token under that policy (README: "Fail-closed Herald binding").
RequiredIsBound ==
  \A t \in TokenId : tokens[t].state # "NONE" =>
    (tokens[t].policy.body.herald[tokens[t].who.sub] = "required"
       => tokens[t].who.herald)

\* README: "`required` mints and calls check card freshness at the gateway".
\* Taken at its word, an observation that admits a destructive call is still
\* within its window when the call is dispatched.  heraldCheckAsync compares
\* the observation with the time captured before the await, and the admission
\* transaction does not look at it again, so a slow answer breaks this.
CardFreshAtDispatch ==
  [][\A h \in Handler :
       handlers[h].pc = "call_herald" /\ handlers'[h].pc = "adapter" =>
         now < handlers[h].at + FRESH_WINDOW]_vars

-----------------------------------------------------------------------------
\* Liveness

\* A reservation does not stay DISPATCHING for ever, whether its handler
\* lives, lost its completion or died with the process.
CallsSettle ==
  \A i \in CallId :
    calls[i].state = "DISPATCHING" ~> calls[i].state # "DISPATCHING"
=============================================================================
