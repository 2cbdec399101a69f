--------------------------- MODULE AuthorityStore ---------------------------
(***************************************************************************)
(* The tables, the clock and the shared helpers of the TenantAuthority     *)
(* (engine/authority.ts over engine/store.ts).                             *)
(*                                                                         *)
(* A row is a record; an absent row is NoRow, so that the state column can *)
(* always be read.  A hash is the value it hashes: the call hash of a call *)
(* is the call, the digest of a control body is the request, the policy    *)
(* hash is the pair of revision and body.  A scope list is the set of      *)
(* calls it permits.  Columns that no handler reads back (completed_at,    *)
(* audit_seq, reason, created_at) are left out.                            *)
(*                                                                         *)
(* Store.tx is one SQLite transaction of a single writer, so everything a  *)
(* handler does between two awaits is one step here, and a transaction     *)
(* that throws leaves no trace.                                            *)
(***************************************************************************)
EXTENDS Integers, FiniteSets

CONSTANTS
  TaskId, Sub, Jkt, Kid, ControlKid, OpId, \* identifiers
  Call,         \* tool calls: [id, task, tool, args]
  Proof,        \* signed proofs: [kind, signer, jti, iat]
  MintRequest,  \* mint bodies: [task, who, ttl, scopes]
  Policy,       \* policy bodies
  Observation,  \* Herald answers: [status, checked_at, valid_until]
  Controls,     \* control enrolments: kid |-> [roles, subjects]
  InitKid, InitPolicy, \* what bootstrap installs
  Handler       \* request handlers that can be suspended at an await

\* core/clock.ts and the limits at the top of engine/authority.ts
CONSTANTS
  PROOF_LEEWAY, NONCE_TTL, TOKEN_TTL_MIN, TOKEN_TTL_MAX, TASK_TTL,
  ADAPTER_DEADLINE, PROOF_RETENTION, RESULT_RETENTION, OPERATION_RETENTION,
  ALARM_BATCH, MAX_INFLIGHT_CALLS, MAX_LIVE_TASKS, MAX_OPEN_NONCES_TOKEN,
  MAX_OPEN_NONCES_TENANT, FRESH_WINDOW, CACHE_WINDOW

\* bounds of the instance, not of the code
CONSTANTS
  MaxToken, MaxNonce, \* ids the id generator may hand out
  MaxRevision,        \* policy revisions
  MaxTime,            \* last second of the physical clock
  LastRequest,        \* last second at which a request arrives
  MaxBack             \* seconds by which the physical clock may step back

VARIABLES
  phys, lastNow,              \* physical clock; meta.last_now
  policy,                     \* the active row of policies
  tasks, tokens, keys, activeKid, revocations,
  proofs, operations,         \* proofs[p] is expires_at, 0 when absent
  nonces, calls,
  lastToken, lastNonce,       \* ids handed out so far
  audit,                      \* the events written, as a set
  handlers,                   \* in-memory handlers suspended at an await
  dispatches, executed, told  \* observations: adapter invocations per call,
                              \* committed requests per proof, final outcomes
                              \* replied per call

credVars == <<policy, tasks, tokens, keys, activeKid, revocations, lastToken>>
callVars == <<nonces, calls, lastNonce>>
obsVars  == <<dispatches, told>>
vars == <<phys, lastNow, policy, tasks, tokens, keys, activeKid, revocations,
          proofs, operations, nonces, calls, lastToken, lastNonce, audit,
          handlers, dispatches, executed, told>>

-----------------------------------------------------------------------------
\* Rows

NoRow == [state |-> "NONE"]
CallId  == {c.id : c \in Call}
TokenId == 1 .. MaxToken
NonceId == 1 .. MaxNonce
Who == [sub : Sub, jkt : Jkt, herald : BOOLEAN]
PolicyRow == [revision : Nat, body : Policy]

TaskRow  == [who : Who, exp : Nat, state : {"ACTIVE", "REVOKED", "EXPIRED"}]
TokenRow == [task : TaskId, who : Who, kid : Kid, scopes : SUBSET Call,
             policy : PolicyRow, iat : Nat, exp : Nat,
             state : {"ACTIVE", "REVOKED", "EXPIRED"}]
KeyRow   == [state : {"ACTIVE", "VERIFY_ONLY", "COMPROMISED", "RETIRED"},
             last_exp : Nat]
NonceRow == [tok : TokenId, call : Call, exp : Nat,
             state : {"OPEN", "CONSUMED", "EXPIRED"}]
Terminal == {"SUCCEEDED", "FAILED", "UNKNOWN", "OUTPUT_BLOCKED"}
CallRow  == [call : Call, who : Who, scopes : SUBSET Call,
             state : {"DISPATCHING"} \cup Terminal, admitted : Nat,
             sealed : BOOLEAN, purge : Nat]

\* What POST /revoke can name, and the bodies the operations table digests.
Target == ({"token"} \X TokenId) \cup ({"task"} \X TaskId)
            \cup ({"subject"} \X Sub) \cup ({"signing_key"} \X Kid)
Request == ({"mint"} \X MintRequest) \cup ({"revoke"} \X Target)
             \cup ({"policy"} \X Nat \X Policy) \cup ({"rotate"} \X Kid \X Kid)
OperationRow == [state : {"SAVED"}, digest : Request, tok : 0 .. MaxToken,
                 exp : Nat]

\* A handler is idle, or suspended at one of the three awaits.
Idle == [pc |-> "idle"]
CallWait    == [pc : {"call_herald"}, tok : TokenId, proof : Proof,
                nonce : 0 .. MaxNonce, call : Call, at : Nat]
MintWait    == [pc : {"mint_herald"}, kid : ControlKid, proof : Proof,
                op : OpId, req : MintRequest, at : Nat]
AdapterWait == [pc : {"adapter"}, call : Call, deadline : Nat]

ASSUME ConstantAssumption ==
  /\ \A n \in {PROOF_LEEWAY, NONCE_TTL, TOKEN_TTL_MIN, TOKEN_TTL_MAX, TASK_TTL,
               ADAPTER_DEADLINE, RESULT_RETENTION, OPERATION_RETENTION,
               ALARM_BATCH, MAX_INFLIGHT_CALLS, MAX_LIVE_TASKS,
               MAX_OPEN_NONCES_TOKEN, MAX_OPEN_NONCES_TENANT, FRESH_WINDOW,
               CACHE_WINDOW, MaxToken, MaxNonce, MaxRevision, MaxTime,
               LastRequest, MaxBack} : n \in Nat
  \* core/clock.ts: 181 = 2 * 90 + 1, 30 > 0, 3600 >= 300, 86400 >= 300 and
  \* 20 <= 86400
  /\ PROOF_RETENTION \in Nat /\ PROOF_RETENTION > 2 * PROOF_LEEWAY
  /\ TOKEN_TTL_MIN > 0 /\ TASK_TTL >= TOKEN_TTL_MAX
  /\ OPERATION_RETENTION >= TOKEN_TTL_MAX
  /\ ADAPTER_DEADLINE <= RESULT_RETENTION
  /\ InitKid \in Kid /\ InitPolicy \in Policy

ASSUME RequestAssumption ==
  /\ \A c \in Call : /\ c.task \in TaskId
                     /\ c.tool \in {"documents.read", "records.delete"}
  /\ \A p \in Proof : p.iat \in Nat
  /\ \A p, q \in Proof : \* the primary key of table proofs
       p.kind = q.kind /\ p.signer = q.signer /\ p.jti = q.jti => p = q
  /\ MintRequest \subseteq [task : TaskId, who : Who, ttl : Nat,
                            scopes : SUBSET Call]
  /\ \A b \in Policy : /\ b.granted \in [Sub -> SUBSET Call]
                       /\ b.max_ttl \in [Sub -> Nat]
                       /\ b.herald \in [Sub -> {"required", "disabled"}]
                       /\ b.principals \subseteq Sub
  /\ \A k \in ControlKid : /\ Controls[k].roles \subseteq
                                {"minter", "operator", "auditor"}
                           /\ Controls[k].subjects \subseteq Sub

-----------------------------------------------------------------------------
\* Time

now == IF phys > lastNow THEN phys ELSE lastNow
checkClockSafe == phys >= lastNow - PROOF_LEEWAY

\* Faulty form, for the sensitivity of ExpiredStays: last_now is not saved.
bumpNow_NotSaved(n) == n \in Nat /\ UNCHANGED lastNow

bumpNow(n) == lastNow' = IF n > lastNow THEN n ELSE lastNow

\* |now - proof.iat| <= PROOF_LEEWAY
inWindow(p) == /\ now - p.iat <= PROOF_LEEWAY
               /\ p.iat - now <= PROOF_LEEWAY

-----------------------------------------------------------------------------
\* Shared helpers

revocation(kind, id) == <<kind, id>> \in revocations
proofSeen(p) == proofs[p] # 0

\* Faulty form (ExecutedOnce): a proof is remembered for one leeway only.
claimProof_OneLeeway(p) == proofs' = [proofs EXCEPT ![p] = now + PROOF_LEEWAY]

claimProof(p) == proofs' = [proofs EXCEPT ![p] = now + PROOF_RETENTION]
appendEvent(events) == audit' = audit \cup events
inflightCalls == {i \in CallId : calls[i].state = "DISPATCHING"}
destructive(c) == c.tool = "records.delete"

\* The denial transaction.  Every error code leaves the same trace: the proof
\* is claimed, access.denied is written and last_now moves up; a proof that
\* was seen before turns into PROOF_REPLAY and leaves none.
deny(p) ==
  IF proofSeen(p)
    THEN UNCHANGED <<proofs, audit, lastNow>>
    ELSE /\ claimProof(p)
         /\ appendEvent({<<"access.denied", p>>})
         /\ bumpNow(now)

\* A request that is answered within one turn has no effect at all when its
\* proof was seen before, so such a request is not a step of the model.
unseen(p) == ~proofSeen(p)

\* A committed request: its proof is claimed, and executed counts it.
execute(p) == /\ claimProof(p)
              /\ executed' = [executed EXCEPT ![p] = @ + 1]

goIdle(h) == handlers' = [handlers EXCEPT ![h] = Idle]
suspend(h, wait) == handlers' = [handlers EXCEPT ![h] = wait]

\* An answer of the Herald source, checked against the time captured before
\* the await (heraldCheckAsync passes it on as input.now).
validateObservation(obs, at, window) ==
  /\ obs.checked_at <= at
  /\ at < obs.valid_until
  /\ obs.valid_until - obs.checked_at <= window
  /\ obs.status = "active"
=============================================================================
