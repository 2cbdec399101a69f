------------------------------ MODULE Lifecycle ------------------------------
(***************************************************************************)
(* What happens to the TenantAuthority outside the request handlers: the   *)
(* physical clock, a crash of the process, recover() and runMaintenance(). *)
(* Both maintenance entry points take the time from their caller; here     *)
(* that is a reading n of the physical or of the authority's own clock.    *)
(***************************************************************************)
EXTENDS AuthorityStore

\* The adapter timer (withDeadline) fires within the second it is due, so the
\* clock does not pass the deadline of a handler that still waits.
tick ==
  /\ phys < MaxTime
  /\ \A h \in Handler : handlers[h].pc = "adapter" => phys < handlers[h].deadline
  /\ phys' = phys + 1
  /\ UNCHANGED <<lastNow, credVars, callVars, proofs, operations, audit,
                 handlers, obsVars, executed>>

\* The wall clock is set back.
stepBack(d) ==
  /\ d <= phys
  /\ phys' = phys - d
  /\ UNCHANGED <<lastNow, credVars, callVars, proofs, operations, audit,
                 handlers, obsVars, executed>>

\* The process dies and restarts on the same database: the handlers are gone.
crash ==
  /\ \E h \in Handler : handlers[h] # Idle
  /\ handlers' = [h \in Handler |-> Idle]
  /\ UNCHANGED <<phys, lastNow, credVars, callVars, proofs, operations, audit,
                 obsVars, executed>>

\* Faulty forms: settled rows are taken too (SuccessIsFinal); only rows that
\* turn stale in this very second are taken (CallsSettle).
staleCalls_AnyState(n) == {i \in CallId : /\ calls[i].state # "NONE"
                                         /\ calls[i].admitted <= n - ADAPTER_DEADLINE}
staleCalls_ThisSecond(n) == {i \in inflightCalls :
                               calls[i].admitted = n - ADAPTER_DEADLINE}

staleCalls(n) == {i \in inflightCalls :
                    calls[i].admitted <= n - ADAPTER_DEADLINE}

\* Reservations older than the adapter deadline become UNKNOWN.
recover(n) ==
  LET stale == staleCalls(n)
  IN /\ calls' = [i \in CallId |-> IF i \in stale
                     THEN [calls[i] EXCEPT !.state = "UNKNOWN"] ELSE calls[i]]
     /\ appendEvent({<<"call.unknown", calls[i].call>> : i \in stale})
     /\ bumpNow(n)
     /\ UNCHANGED <<phys, credVars, nonces, lastNonce, proofs, operations,
                    handlers, obsVars, executed>>

\* SELECT ... LIMIT ALARM_BATCH takes any so many of the rows that are due.
batch(due) == {b \in SUBSET due :
                 \/ b = due /\ Cardinality(due) <= ALARM_BATCH
                 \/ Cardinality(b) = ALARM_BATCH}

dueIn(table, ids, state, n) ==
  {i \in ids : table[i].state = state /\ table[i].exp <= n}
setState(table, ids, rows, state) ==
  [i \in ids |-> IF i \in rows THEN [table[i] EXCEPT !.state = state] ELSE table[i]]
expired(kind, rows) == {<<kind, i>> : i \in rows}

\* Faulty forms: a replaced key is retired at once (RetiredKeyDrained); a call
\* is forgotten with its result, not with its task (DispatchOnce).
drained_AtOnce(n) == {k \in Kid : keys[k].state = "VERIFY_ONLY" /\ n \in Nat}
forgotten_WithResult(n) == {i \in CallId : /\ calls[i].state = "SUCCEEDED"
                                          /\ calls[i].purge <= n}

drained(n) == {k \in Kid : /\ keys[k].state = "VERIFY_ONLY"
                           /\ keys[k].last_exp + PROOF_LEEWAY <= n}
purgeable(n) == {i \in CallId : /\ calls[i].state = "SUCCEEDED"
                                /\ calls[i].sealed /\ calls[i].purge <= n}
forgotten(n) == {i \in CallId :
                   /\ calls[i].state # "NONE"
                   /\ tasks[calls[i].call.task].exp + RESULT_RETENTION <= n}
deadTokens(n) == {t \in TokenId : /\ tokens[t].state # "NONE"
                                  /\ tokens[t].exp + PROOF_RETENTION <= n}

\* The nonces of a token go with it, whichever state the nonces ended in.
runMaintenance(n) ==
  \E taskB \in batch(dueIn(tasks, TaskId, "ACTIVE", n)),
     tokB  \in batch(dueIn(tokens, TokenId, "ACTIVE", n)),
     nonB  \in batch(dueIn(nonces, NonceId, "OPEN", n)),
     keyB  \in batch(drained(n)),
     sealB \in batch(purgeable(n)),
     callB \in batch(forgotten(n)) :
    /\ tasks' = setState(tasks, TaskId, taskB, "EXPIRED")
    /\ tokens' = [t \in TokenId |-> IF t \in deadTokens(n) THEN NoRow
                    ELSE setState(tokens, TokenId, tokB, "EXPIRED")[t]]
    /\ nonces' = [x \in NonceId |->
         IF nonces[x].state # "NONE" /\ nonces[x].tok \in deadTokens(n)
           THEN NoRow ELSE setState(nonces, NonceId, nonB, "EXPIRED")[x]]
    /\ keys' = setState(keys, Kid, keyB, "RETIRED")
    /\ proofs' = [p \in Proof |-> IF proofs[p] <= n THEN 0 ELSE proofs[p]]
    /\ operations' = [o \in DOMAIN operations |->
         IF operations[o].state = "SAVED" /\ operations[o].exp <= n
           THEN NoRow ELSE operations[o]]
    /\ calls' = [i \in CallId |->
         IF i \in callB THEN NoRow
         ELSE IF i \in sealB THEN [calls[i] EXCEPT !.sealed = FALSE]
         ELSE calls[i]]
    /\ appendEvent(expired("task.expired", taskB) \cup expired("token.expired", tokB)
                     \cup expired("nonce.expired", nonB)
                     \cup expired("key.retired", keyB))
    /\ bumpNow(n)
    /\ UNCHANGED <<phys, policy, activeKid, revocations, lastToken, lastNonce,
                   handlers, obsVars, executed>>
=============================================================================
