----------------------------- MODULE AgentPlane -----------------------------
(***************************************************************************)
(* The agent routes of the TenantAuthority: POST /calls, /nonces and       *)
(* /results.  A request is a token t, a proof p signed by the token's key, *)
(* and a body.                                                             *)
(*                                                                         *)
(* The rate buckets are not modelled: callerBudget may refuse any request  *)
(* that reaches a transaction, so the denial disjunct of a transaction has *)
(* no guard.  The size of the database (checkStorageCapacity) likewise.    *)
(***************************************************************************)
EXTENDS AuthorityStore

\* The checks of agentPrecheck on the credential itself: token row, expiry,
\* revocations, key, task, binding and policy revision.
credentialLive(t) ==
  /\ tokens[t].state # "NONE"
  /\ LET tok  == tokens[t]
         task == tasks[tok.task]
     IN /\ now < tok.exp
        /\ tok.iat <= now + PROOF_LEEWAY
        /\ tok.state # "REVOKED" /\ ~revocation("token", t)
        /\ keys[tok.kid].state \in {"ACTIVE", "VERIFY_ONLY"}
        /\ ~revocation("signing_key", tok.kid)
        /\ ~revocation("subject", tok.who.sub)
        /\ ~revocation("task", tok.task)
        /\ task.state = "ACTIVE" /\ now < task.exp
        /\ task.who = tok.who
        /\ tok.policy = policy

agentPrecheck(t, p, routeTask) ==
  /\ checkClockSafe
  /\ credentialLive(t)
  /\ inWindow(p)
  /\ routeTask = tokens[t].task

scopeCheck(t, c) == /\ c.tool \notin policy.body.hard_deny
                    /\ c \in tokens[t].scopes

\* The gateway has verified the token and the proof: t was minted, and p is a
\* caller proof of the key the token is bound to.
authenticated(t, p) ==
  /\ t <= lastToken
  /\ p.kind = "caller"
  /\ tokens[t].state # "NONE" => p.signer = tokens[t].who.jkt

-----------------------------------------------------------------------------
\* POST /calls

nonceOpen(t, nonce, c) ==
  /\ nonce # 0
  /\ nonces[nonce].state = "OPEN"
  /\ nonces[nonce].tok = t
  /\ nonces[nonce].call = c
  /\ now < nonces[nonce].exp

\* What a terminal row answers to a caller; DISPATCHING answers 202.
storedOutcome(c) == IF calls[c.id].state \in Terminal
                      THEN {<<c, calls[c.id].state>>} ELSE {}

\* The caller is told the stored outcome, and reading a terminal row is audited.
tellStored(c) ==
  /\ told' = told \cup storedOutcome(c)
  /\ appendEvent({<<"result.read", o[1]>> : o \in storedOutcome(c)})

\* A matching retry.  A success whose result was purged is RESULT_GONE, which
\* is a denial.  This path does not move last_now.
replayCall(t, p, c) ==
  /\ calls[c.id].state # "NONE"
  /\ calls[c.id].call = c
  /\ calls[c.id].who.sub = tokens[t].who.sub
  /\ calls[c.id].who.jkt = tokens[t].who.jkt
  /\ calls[c.id].state = "SUCCEEDED" => calls[c.id].sealed
  /\ execute(p)
  /\ tellStored(c)
  /\ UNCHANGED <<lastNow, nonces, calls, lastNonce, dispatches>>

newCall(c) == calls[c.id].state = "NONE"

\* A new call: the reservation, the nonce and call.admitted commit together.
admitCall(t, p, nonce, c) ==
  /\ newCall(c)
  /\ Cardinality(inflightCalls) < MAX_INFLIGHT_CALLS
  /\ destructive(c) => nonceOpen(t, nonce, c)
  /\ execute(p)
  /\ appendEvent({<<"call.admitted", c>>})
  /\ calls' = [calls EXCEPT ![c.id] =
       [call |-> c, who |-> tokens[t].who, scopes |-> tokens[t].scopes,
        state |-> "DISPATCHING", admitted |-> now, sealed |-> FALSE,
        purge |-> tasks[c.task].exp + RESULT_RETENTION]]
  /\ nonces' = IF destructive(c)
                 THEN [nonces EXCEPT ![nonce].state = "CONSUMED"] ELSE nonces
  /\ bumpNow(now)
  /\ UNCHANGED <<lastNonce, told>>

\* Faulty form (DispatchAuthorised): what may have changed during the Herald
\* await is not checked again.
recheck_Skipped(t, p, c) == tokens[t].state # "NONE"

\* "repeat mutable checks"
recheck(t, p, c) == agentPrecheck(t, p, c.task) /\ scopeCheck(t, c)

\* The admission transaction, and the adapter invocation that follows it in
\* the same turn.  Only a crash can come between the two.
admissionTx(h, t, p, nonce, c) ==
  /\ UNCHANGED <<phys, credVars, operations>>
  /\ \/ deny(p) /\ goIdle(h) /\ UNCHANGED <<callVars, obsVars, executed>>
     \/ /\ recheck(t, p, c) /\ ~proofSeen(p)
        /\ \/ replayCall(t, p, c) /\ goIdle(h)
           \/ /\ admitCall(t, p, nonce, c)
              /\ \/ /\ suspend(h, [pc |-> "adapter", call |-> c,
                                   deadline |-> now + ADAPTER_DEADLINE])
                    /\ dispatches' = [dispatches EXCEPT ![c] = @ + 1]
                 \/ /\ handlers' = [x \in Handler |-> Idle]
                    /\ UNCHANGED dispatches

\* The first turn of handleCall, up to the Herald await when the token is
\* bound to a card.
handleCall(h, t, p, nonce, c) ==
  /\ handlers[h] = Idle
  /\ authenticated(t, p)
  /\ ~destructive(c) => nonce = 0 \* else the gateway answers NONCE_NOT_REQUIRED
  /\ LET passes == agentPrecheck(t, p, c.task) /\ scopeCheck(t, c)
     IN \/ /\ ~passes /\ unseen(p)
           /\ deny(p)
           /\ UNCHANGED <<phys, credVars, callVars, operations, handlers,
                          obsVars, executed>>
        \/ /\ passes /\ tokens[t].who.herald
           /\ suspend(h, [pc |-> "call_herald", tok |-> t, proof |-> p,
                          nonce |-> nonce, call |-> c, at |-> now])
           /\ UNCHANGED <<phys, lastNow, credVars, callVars, proofs,
                          operations, audit, obsVars, executed>>
        \/ passes /\ ~tokens[t].who.herald /\ admissionTx(h, t, p, nonce, c)

\* The Herald source answers, or cannot be reached.
callHeraldAnswers(h, obs) ==
  /\ handlers[h].pc = "call_herald"
  /\ LET w == handlers[h]
         window == IF destructive(w.call) THEN FRESH_WINDOW ELSE CACHE_WINDOW
     IN IF validateObservation(obs, w.at, window)
          THEN admissionTx(h, w.tok, w.proof, w.nonce, w.call)
          ELSE /\ deny(w.proof) /\ goIdle(h)
               /\ UNCHANGED <<phys, credVars, callVars, operations, obsVars,
                              executed>>

-----------------------------------------------------------------------------
\* Completion

eventOf == [SUCCEEDED |-> "call.succeeded", FAILED |-> "call.failed",
            UNKNOWN |-> "call.unknown", OUTPUT_BLOCKED |-> "call.output_blocked"]

\* Faulty form (OneEnding): a row that recover() has settled is completed again.
completeCall_Settled(c, state) ==
  /\ calls[c.id].state # "NONE"
  /\ calls' = [calls EXCEPT ![c.id].state = state]
  /\ appendEvent({<<eventOf[state], calls[c.id].call>>})
  /\ bumpNow(now)

\* Faulty form (TypeOK): the event kind is written into the state column.
completeCall_Kind(c, state) ==
  /\ calls[c.id].state = "DISPATCHING"
  /\ calls' = [calls EXCEPT ![c.id].state = eventOf[state]]
  /\ appendEvent({<<eventOf[state], calls[c.id].call>>})
  /\ bumpNow(now)

\* Only a success carries a result, and is kept for RESULT_RETENTION from here.
settledRow(row, state) ==
  IF state = "SUCCEEDED"
    THEN [row EXCEPT !.state = state, !.sealed = TRUE,
                     !.purge = now + RESULT_RETENTION]
    ELSE [row EXCEPT !.state = state, !.sealed = FALSE]

\* completeCall: only a DISPATCHING row is completed, once.
completeCall(c, state) ==
  /\ calls[c.id].state = "DISPATCHING"
  /\ calls' = [calls EXCEPT ![c.id] = settledRow(calls[c.id], state)]
  /\ appendEvent({<<eventOf[state], calls[c.id].call>>})
  /\ bumpNow(now)

\* The adapter returned, threw or ran into the deadline: outcome is the state
\* dispatchAndComplete asks completeCall for.  completeCall returns null when
\* the row has left DISPATCHING or the transaction fails; only a success is
\* then turned into UNKNOWN, the other replies are sent as they are.
adapterReturns(h, outcome) ==
  /\ handlers[h].pc = "adapter"
  /\ LET c == handlers[h].call
     IN /\ goIdle(h)
        /\ \/ /\ completeCall(c, outcome)
              /\ told' = told \cup {<<c, outcome>>}
           \/ /\ outcome = "SUCCEEDED"
              /\ completeCall(c, "UNKNOWN")
              /\ told' = told \cup {<<c, "UNKNOWN">>}
           \/ /\ told' = told \cup {<<c, IF outcome = "SUCCEEDED"
                                            THEN "UNKNOWN" ELSE outcome>>}
              /\ UNCHANGED <<calls, audit, lastNow>>
  /\ UNCHANGED <<phys, credVars, proofs, operations, nonces, lastNonce,
                 dispatches, executed>>

-----------------------------------------------------------------------------
\* POST /nonces

openNonces == {x \in NonceId : nonces[x].state = "OPEN"}

\* Faulty form (WithinLimits): an expired nonce stays open.
insertNonce_Kept(row, open) ==
  nonces' = [x \in NonceId |-> IF x = lastNonce + 1 THEN row ELSE nonces[x]]

\* The expired nonces of the token and call are closed, the new one inserted.
insertNonce(row, open) ==
  nonces' = [x \in NonceId |->
    IF x = lastNonce + 1 THEN row
    ELSE IF x \in open THEN [nonces[x] EXCEPT !.state = "EXPIRED"]
    ELSE nonces[x]]

\* An unexpired OPEN nonce of this token and call is handed out again; an
\* expired one is closed before a new one is inserted.
handleNonce(t, p, c) ==
  /\ authenticated(t, p) /\ unseen(p)
  /\ UNCHANGED <<phys, credVars, operations, handlers, calls, obsVars>>
  /\ LET open == {x \in openNonces : nonces[x].tok = t /\ nonces[x].call = c}
         live == {x \in open : now < nonces[x].exp}
         kept == openNonces \ open
     IN \/ deny(p) /\ UNCHANGED <<nonces, lastNonce, executed>>
        \/ /\ agentPrecheck(t, p, c.task) /\ scopeCheck(t, c)
           /\ destructive(c)
           /\ newCall(c)
           /\ execute(p) /\ bumpNow(now)
           /\ \/ /\ live # {}
                 /\ appendEvent({<<"nonce.read", x>> : x \in live})
                 /\ UNCHANGED <<nonces, lastNonce>>
              \/ /\ live = {}
                 /\ Cardinality({x \in kept : nonces[x].tok = t})
                      < MAX_OPEN_NONCES_TOKEN
                 /\ Cardinality(kept) < MAX_OPEN_NONCES_TENANT
                 /\ lastNonce < MaxNonce
                 /\ lastNonce' = lastNonce + 1
                 /\ insertNonce([tok |-> t, call |-> c, exp |-> now + NONCE_TTL,
                                 state |-> "OPEN"], open)
                 /\ appendEvent({<<"nonce.issued", lastNonce + 1>>}
                                  \cup {<<"nonce.expired", x>> : x \in open})

-----------------------------------------------------------------------------
\* POST /results

\* The row is shown only to the subject, key, task and scopes that made it.
handleResult(t, p, i) ==
  /\ authenticated(t, p) /\ unseen(p)
  /\ UNCHANGED <<phys, credVars, callVars, operations, handlers, dispatches>>
  /\ \/ deny(p) /\ UNCHANGED <<told, executed>>
     \/ /\ agentPrecheck(t, p, tokens[t].task)
        /\ calls[i].state # "NONE"
        /\ calls[i].who.sub = tokens[t].who.sub
        /\ calls[i].who.jkt = tokens[t].who.jkt
        /\ calls[i].call.task = tokens[t].task
        /\ calls[i].scopes = tokens[t].scopes
        /\ calls[i].state = "SUCCEEDED" => calls[i].sealed
        /\ execute(p) /\ bumpNow(now)
        /\ tellStored(calls[i].call)
=============================================================================
