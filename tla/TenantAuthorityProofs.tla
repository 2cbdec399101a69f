----------------------- MODULE TenantAuthorityProofs -----------------------
(***************************************************************************)
(* Theorems about the TenantAuthority for every value of its constants.    *)
(***************************************************************************)
EXTENDS TenantAuthority, TLAPS

-----------------------------------------------------------------------------
\* Types

\* The numeric constants are natural numbers.
LEMMA NatConstants ==
  /\ PROOF_LEEWAY \in Nat /\ NONCE_TTL \in Nat /\ TASK_TTL \in Nat
  /\ ADAPTER_DEADLINE \in Nat /\ PROOF_RETENTION \in Nat
  /\ RESULT_RETENTION \in Nat /\ OPERATION_RETENTION \in Nat
  /\ MaxToken \in Nat /\ MaxNonce \in Nat /\ MaxTime \in Nat
  /\ MaxRevision \in Nat
  BY ConstantAssumption

\* The authority's clock is a natural number.
LEMMA NowType == TimeType => now \in 0 .. MaxTime /\ now \in Nat
  BY NatConstants DEF TimeType, now

LEMMA InitType == Init => TypeOK
  BY ConstantAssumption, NatConstants
     DEF Init, TypeOK, TimeType, CredType, CallType, LogType, ObsType,
         PolicyRow, KeyRow, Target

\* deny(): the proof row and last_now keep their types.
LEMMA DenyType ==
  ASSUME TypeOK, NEW p \in Proof, deny(p)
  PROVE  lastNow' \in 0 .. MaxTime /\ proofs' \in [Proof -> Nat]
  BY NatConstants, NowType
     DEF TypeOK, TimeType, LogType, deny, claimProof, bumpNow

\* A committed request: its proof row and its count keep their types.
LEMMA ExecuteType ==
  ASSUME TypeOK, NEW p \in Proof, execute(p)
  PROVE  proofs' \in [Proof -> Nat] /\ executed' \in [Proof -> Nat]
  BY NatConstants, NowType
     DEF TypeOK, TimeType, LogType, execute, claimProof

LEMMA BumpNowType ==
  ASSUME TypeOK, NEW n \in 0 .. MaxTime, bumpNow(n)
  PROVE  lastNow' \in 0 .. MaxTime
  BY DEF TypeOK, TimeType, bumpNow

LEMMA SuspendType ==
  ASSUME TypeOK, NEW h \in Handler,
         NEW w \in {Idle} \cup CallWait \cup MintWait \cup AdapterWait,
         suspend(h, w)
  PROVE  handlers' \in [Handler -> {Idle} \cup CallWait \cup MintWait \cup AdapterWait]
  BY DEF TypeOK, ObsType, suspend

LEMMA GoIdleType ==
  ASSUME TypeOK, NEW h \in Handler, goIdle(h)
  PROVE  handlers' \in [Handler -> {Idle} \cup CallWait \cup MintWait \cup AdapterWait]
  BY DEF TypeOK, ObsType, goIdle

\* The pieces of TypeOK that an action leaves alone.
LEMMA CredFrame == CredType /\ UNCHANGED credVars => CredType'
  BY DEF CredType, credVars, PolicyRow
LEMMA CallFrame == CallType /\ UNCHANGED callVars => CallType'
  BY DEF CallType, callVars

\* admitCall: the new reservation and the consumed nonce are well typed.
LEMMA AdmitType ==
  ASSUME TypeOK, NEW t \in TokenId, NEW p \in Proof,
         NEW nonce \in {0} \cup NonceId, NEW c \in Call,
         credentialLive(t), c.task = tokens[t].task, admitCall(t, p, nonce, c)
  PROVE  CallType' /\ lastNow' \in 0 .. MaxTime
<1>1. now \in Nat /\ now \in 0 .. MaxTime
  BY NowType DEF TypeOK
<1>2. tokens[t] \in TokenRow
  BY DEF TypeOK, CredType, credentialLive, NoRow
<1>3. c.task \in TaskId /\ tasks[c.task] \in TaskRow
  BY <1>2 DEF TypeOK, CredType, credentialLive, NoRow, TokenRow
<1>4. c.id \in CallId
  BY DEF CallId
<1>5. calls' \in [CallId -> CallRow \cup {NoRow}]
  <2>1. tasks[c.task].exp + RESULT_RETENTION \in Nat
    BY <1>3, NatConstants DEF TaskRow
  <2>2. tokens[t].who \in Who /\ tokens[t].scopes \in SUBSET Call
    BY <1>2 DEF TokenRow
  <2>. DEFINE row == [call |-> c, who |-> tokens[t].who, scopes |-> tokens[t].scopes,
        state |-> "DISPATCHING", admitted |-> now, sealed |-> FALSE,
        purge |-> tasks[c.task].exp + RESULT_RETENTION]
  <2>3. row \in CallRow
    BY <1>1, <2>1, <2>2 DEF CallRow
  <2>4. calls' = [calls EXCEPT ![c.id] = row]
    BY DEF admitCall
  <2>. HIDE DEF row
  <2> QED BY <1>4, <2>3, <2>4 DEF TypeOK, CallType
<1>6. nonces' \in [NonceId -> NonceRow \cup {NoRow}]
  <2>1. CASE ~destructive(c)
    BY <2>1 DEF admitCall, TypeOK, CallType
  <2>2. CASE destructive(c)
    <3>1. nonce \in NonceId /\ nonces[nonce].state = "OPEN"
      BY <2>2 DEF admitCall, nonceOpen
    <3>2. nonces[nonce] \in NonceRow
      BY <3>1 DEF TypeOK, CallType, NoRow
    <3>3. [nonces[nonce] EXCEPT !.state = "CONSUMED"] \in NonceRow
      BY <3>2 DEF NonceRow
    <3>4. nonces' = [nonces EXCEPT ![nonce] = [nonces[nonce] EXCEPT !.state = "CONSUMED"]]
      BY <2>2 DEF admitCall
    <3> QED BY <3>1, <3>3, <3>4 DEF TypeOK, CallType
  <2> QED BY <2>1, <2>2
<1>7. lastNonce' = lastNonce /\ lastNow' \in 0 .. MaxTime
  BY <1>1, BumpNowType DEF admitCall
<1> QED BY <1>5, <1>6, <1>7 DEF CallType, TypeOK

LEMMA AdmissionTxType ==
  ASSUME TypeOK, NEW h \in Handler, NEW t \in TokenId, NEW p \in Proof,
         NEW nonce \in {0} \cup NonceId, NEW c \in Call,
         admissionTx(h, t, p, nonce, c)
  PROVE  TypeOK'
<1>1. phys' \in 0 .. MaxTime /\ CredType'
  BY CredFrame DEF admissionTx, TypeOK, TimeType
<1>2. operations' \in [ControlKid \X OpId -> OperationRow \cup {NoRow}]
  BY DEF admissionTx, TypeOK, LogType
<1>3. CASE deny(p) /\ goIdle(h) /\ UNCHANGED <<callVars, obsVars, executed>>
  BY <1>1, <1>2, <1>3, DenyType, GoIdleType, CallFrame
     DEF TypeOK, TimeType, LogType, ObsType, obsVars
<1>4. CASE /\ recheck(t, p, c)
           /\ replayCall(t, p, c) /\ goIdle(h)
  <2>1. CallType' /\ lastNow' \in 0 .. MaxTime
    BY <1>4 DEF replayCall, TypeOK, CallType, TimeType
  <2>2. proofs' \in [Proof -> Nat] /\ executed' \in [Proof -> Nat]
    BY <1>4, ExecuteType DEF replayCall
  <2>3. told' \in SUBSET (Call \X Terminal) /\ dispatches' \in [Call -> Nat]
    BY <1>4 DEF replayCall, tellStored, storedOutcome, TypeOK, ObsType
  <2> QED BY <1>1, <1>2, <1>4, <2>1, <2>2, <2>3, GoIdleType
             DEF TypeOK, TimeType, LogType, ObsType
<1>5. CASE /\ recheck(t, p, c)
           /\ admitCall(t, p, nonce, c)
           /\ \/ /\ suspend(h, [pc |-> "adapter", call |-> c,
                                deadline |-> now + ADAPTER_DEADLINE])
                 /\ dispatches' = [dispatches EXCEPT ![c] = @ + 1]
              \/ /\ handlers' = [x \in Handler |-> Idle]
                 /\ UNCHANGED dispatches
  <2>1. CallType' /\ lastNow' \in 0 .. MaxTime
    BY <1>5, AdmitType DEF recheck, agentPrecheck
  <2>2. proofs' \in [Proof -> Nat] /\ executed' \in [Proof -> Nat]
    BY <1>5, ExecuteType DEF admitCall
  <2>3. told' \in SUBSET (Call \X Terminal) /\ dispatches' \in [Call -> Nat]
    BY <1>5 DEF admitCall, TypeOK, ObsType
  <2>4. handlers' \in [Handler -> {Idle} \cup CallWait \cup MintWait \cup AdapterWait]
    <3>1. [pc |-> "adapter", call |-> c, deadline |-> now + ADAPTER_DEADLINE]
            \in AdapterWait
      BY NowType, NatConstants DEF AdapterWait, TypeOK
    <3> QED BY <1>5, <3>1 DEF suspend, TypeOK, ObsType
  <2> QED BY <1>1, <1>2, <2>1, <2>2, <2>3, <2>4
             DEF TypeOK, TimeType, LogType, ObsType
<1> QED BY <1>3, <1>4, <1>5 DEF admissionTx

LEMMA HandleCallType ==
  ASSUME TypeOK, NEW h \in Handler, NEW t \in TokenId, NEW p \in Proof,
         NEW nonce \in {0} \cup NonceId, NEW c \in Call,
         handleCall(h, t, p, nonce, c)
  PROVE  TypeOK'
<1>1. CASE admissionTx(h, t, p, nonce, c)
  BY <1>1, AdmissionTxType
<1>2. CASE /\ deny(p)
           /\ UNCHANGED <<phys, credVars, callVars, operations, handlers,
                          obsVars, executed>>
  BY <1>2, DenyType, CredFrame, CallFrame
     DEF TypeOK, TimeType, LogType, ObsType, obsVars
<1>3. CASE /\ suspend(h, [pc |-> "call_herald", tok |-> t, proof |-> p,
                          nonce |-> nonce, call |-> c, at |-> now])
           /\ UNCHANGED <<phys, lastNow, credVars, callVars, proofs,
                          operations, audit, obsVars, executed>>
  <2>1. [pc |-> "call_herald", tok |-> t, proof |-> p, nonce |-> nonce,
         call |-> c, at |-> now] \in CallWait
    BY NowType, NatConstants DEF CallWait, TypeOK, NonceId
  <2>2. handlers' \in [Handler -> {Idle} \cup CallWait \cup MintWait \cup AdapterWait]
    BY <1>3, <2>1 DEF suspend, TypeOK, ObsType
  <2> QED BY <1>3, <2>2, CredFrame, CallFrame
             DEF TypeOK, TimeType, LogType, ObsType, obsVars
<1> QED BY <1>1, <1>2, <1>3 DEF handleCall

\* A handler found at an await carries the fields of that await.
LEMMA WaitType ==
  ASSUME TypeOK, NEW h \in Handler
  PROVE  /\ handlers[h].pc = "call_herald" => handlers[h] \in CallWait
         /\ handlers[h].pc = "mint_herald" => handlers[h] \in MintWait
         /\ handlers[h].pc = "adapter" => handlers[h] \in AdapterWait
  BY DEF TypeOK, ObsType, Idle, CallWait, MintWait, AdapterWait

LEMMA CallHeraldType ==
  ASSUME TypeOK, NEW h \in Handler, NEW obs \in Observation,
         callHeraldAnswers(h, obs)
  PROVE  TypeOK'
<1>. DEFINE w == handlers[h]
<1>1. /\ w.tok \in TokenId /\ w.proof \in Proof /\ w.call \in Call
      /\ w.nonce \in {0} \cup NonceId
  BY WaitType, NatConstants DEF callHeraldAnswers, CallWait, NonceId
<1>2. CASE admissionTx(h, w.tok, w.proof, w.nonce, w.call)
  <2>. HIDE DEF w
  <2> QED BY <1>1, <1>2, AdmissionTxType
<1>3. CASE /\ deny(w.proof) /\ goIdle(h)
           /\ UNCHANGED <<phys, credVars, callVars, operations, obsVars, executed>>
  <2>1. lastNow' \in 0 .. MaxTime /\ proofs' \in [Proof -> Nat]
    BY <1>1, <1>3, DenyType
  <2> QED BY <1>3, <2>1, GoIdleType, CredFrame, CallFrame
             DEF TypeOK, TimeType, LogType, ObsType, obsVars
<1> QED BY <1>2, <1>3 DEF callHeraldAnswers

\* completeCall: the settled row is well typed.
LEMMA CompleteType ==
  ASSUME TypeOK, NEW c \in Call, NEW state \in Terminal, completeCall(c, state)
  PROVE  /\ calls' \in [CallId -> CallRow \cup {NoRow}]
         /\ lastNow' \in 0 .. MaxTime
<1>1. now \in Nat /\ now \in 0 .. MaxTime
  BY NowType DEF TypeOK
<1>2. c.id \in CallId
  BY DEF CallId
<1>3. calls[c.id] \in CallRow
  BY <1>2 DEF completeCall, TypeOK, CallType, NoRow
<1>4. settledRow(calls[c.id], state) \in CallRow
  <2>1. \A row \in CallRow : settledRow(row, state) \in CallRow
    <3>. SUFFICES ASSUME NEW row \in CallRow
                  PROVE  settledRow(row, state) \in CallRow
      OBVIOUS
    <3>1. now + RESULT_RETENTION \in Nat
      BY <1>1, NatConstants
    <3>2. CASE state = "SUCCEEDED"
      BY <3>1, <3>2 DEF settledRow, CallRow
    <3>3. CASE state # "SUCCEEDED"
      BY <3>3 DEF settledRow, CallRow
    <3> QED BY <3>2, <3>3
  <2> QED BY <1>3, <2>1
<1>5. calls' = [calls EXCEPT ![c.id] = settledRow(calls[c.id], state)]
  BY DEF completeCall
<1>6. calls' \in [CallId -> CallRow \cup {NoRow}]
  BY <1>2, <1>4, <1>5 DEF TypeOK, CallType
<1> QED BY <1>1, <1>6, BumpNowType DEF completeCall

LEMMA AdapterType ==
  ASSUME TypeOK, NEW h \in Handler, NEW outcome \in Terminal,
         adapterReturns(h, outcome)
  PROVE  TypeOK'
<1>. DEFINE c == handlers[h].call
<1>1. c \in Call
  BY WaitType DEF adapterReturns, AdapterWait
<1>2. "UNKNOWN" \in Terminal
  BY DEF Terminal
<1>3. calls' \in [CallId -> CallRow \cup {NoRow}] /\ lastNow' \in 0 .. MaxTime
  <2>1. \/ completeCall(c, outcome) \/ completeCall(c, "UNKNOWN")
        \/ UNCHANGED <<calls, lastNow>>
    BY DEF adapterReturns
  <2>. HIDE DEF c
  <2> QED BY <1>1, <1>2, <2>1, CompleteType DEF TypeOK, TimeType, CallType
<1>4. told' \in SUBSET (Call \X Terminal)
  BY <1>1, <1>2 DEF adapterReturns, TypeOK, ObsType
<1>5. handlers' \in [Handler -> {Idle} \cup CallWait \cup MintWait \cup AdapterWait]
  BY GoIdleType DEF adapterReturns
<1>6. CredType'
  BY CredFrame DEF adapterReturns, TypeOK
<1>7. UNCHANGED <<phys, proofs, operations, nonces, lastNonce, dispatches, executed>>
  BY DEF adapterReturns
<1> QED BY <1>3, <1>4, <1>5, <1>6, <1>7
           DEF TypeOK, TimeType, CallType, LogType, ObsType

LEMMA HandleNonceType ==
  ASSUME TypeOK, NEW t \in TokenId, NEW p \in Proof, NEW c \in Call,
         handleNonce(t, p, c)
  PROVE  TypeOK'
<1>1. now \in Nat /\ now \in 0 .. MaxTime
  BY NowType DEF TypeOK
<1>2. CredType' /\ UNCHANGED <<phys, operations, handlers, calls, dispatches, told>>
  BY CredFrame DEF handleNonce, TypeOK, obsVars
<1>. DEFINE open == {x \in openNonces : nonces[x].tok = t /\ nonces[x].call = c}
            row == [tok |-> t, call |-> c, exp |-> now + NONCE_TTL, state |-> "OPEN"]
<1>3. CASE deny(p) /\ UNCHANGED <<nonces, lastNonce, executed>>
  BY <1>2, <1>3, DenyType DEF TypeOK, TimeType, CallType, LogType, ObsType
<1>4. CASE execute(p) /\ bumpNow(now) /\ UNCHANGED <<nonces, lastNonce>>
  BY <1>1, <1>2, <1>4, ExecuteType, BumpNowType
     DEF TypeOK, TimeType, CallType, LogType, ObsType
<1>5. CASE /\ execute(p) /\ bumpNow(now)
           /\ lastNonce < MaxNonce /\ lastNonce' = lastNonce + 1
           /\ insertNonce(row, open)
  <2>1. row \in NonceRow
    BY <1>1, NatConstants DEF NonceRow
  <2>2. \A x \in open : x \in NonceId /\ nonces[x] \in NonceRow
    BY DEF openNonces, TypeOK, CallType, NoRow
  <2>3. \A x \in open : [nonces[x] EXCEPT !.state = "EXPIRED"] \in NonceRow
    BY <2>2 DEF NonceRow
  <2>4. nonces' \in [NonceId -> NonceRow \cup {NoRow}]
    <3>. HIDE DEF row, open
    <3> QED BY <1>5, <2>1, <2>3 DEF insertNonce, TypeOK, CallType
  <2>5. lastNonce' \in 0 .. MaxNonce
    BY <1>5, NatConstants DEF TypeOK, CallType
  <2> QED BY <1>1, <1>2, <1>5, <2>4, <2>5, ExecuteType, BumpNowType
             DEF TypeOK, TimeType, CallType, LogType, ObsType
<1> QED BY <1>3, <1>4, <1>5 DEF handleNonce

LEMMA HandleResultType ==
  ASSUME TypeOK, NEW t \in TokenId, NEW p \in Proof, NEW i \in CallId,
         handleResult(t, p, i)
  PROVE  TypeOK'
<1>1. CredType' /\ CallType' /\ UNCHANGED <<phys, operations, handlers, dispatches>>
  BY CredFrame, CallFrame DEF handleResult, TypeOK
<1>2. CASE deny(p) /\ UNCHANGED <<told, executed>>
  BY <1>1, <1>2, DenyType DEF TypeOK, TimeType, LogType, ObsType
<1>3. CASE /\ calls[i].state # "NONE"
           /\ execute(p) /\ bumpNow(now)
           /\ tellStored(calls[i].call)
  <2>1. calls[i].call \in Call
    BY <1>3 DEF TypeOK, CallType, NoRow, CallRow
  <2>2. told' \in SUBSET (Call \X Terminal)
    BY <1>3, <2>1 DEF tellStored, storedOutcome, TypeOK, ObsType
  <2> QED BY <1>1, <1>3, <2>2, ExecuteType, BumpNowType, NowType
             DEF TypeOK, TimeType, LogType, ObsType
<1> QED BY <1>2, <1>3 DEF handleResult

\* The mutators of the control routes keep the credential tables well typed.
LEMMA MintMutatorType ==
  ASSUME TypeOK, NEW req \in MintRequest, mintMutator(req)
  PROVE  CredType' /\ lastToken + 1 \in TokenId
<1>1. now \in Nat /\ now \in 0 .. MaxTime
  BY NowType DEF TypeOK
<1>2. /\ req.task \in TaskId /\ req.who \in Who /\ req.ttl \in Nat
      /\ req.scopes \in SUBSET Call
  BY RequestAssumption
<1>3. lastToken + 1 \in TokenId /\ lastToken' \in 0 .. MaxToken
  BY NatConstants DEF mintMutator, TypeOK, CredType, TokenId
<1>4. tasks' \in [TaskId -> TaskRow \cup {NoRow}]
  <2>. DEFINE row == [who |-> req.who, exp |-> now + TASK_TTL, state |-> "ACTIVE"]
  <2>1. row \in TaskRow
    BY <1>1, <1>2, NatConstants DEF TaskRow
  <2>2. tasks' = tasks \/ tasks' = [tasks EXCEPT ![req.task] = row]
    BY DEF mintMutator
  <2>. HIDE DEF row
  <2> QED BY <1>2, <2>1, <2>2 DEF TypeOK, CredType
<1>5. tokens' \in [TokenId -> TokenRow \cup {NoRow}]
  <2>. DEFINE row == [task |-> req.task, who |-> req.who, kid |-> activeKid,
                      scopes |-> req.scopes, policy |-> policy, iat |-> now,
                      exp |-> now + req.ttl, state |-> "ACTIVE"]
  <2>1. row \in TokenRow
    BY <1>1, <1>2 DEF TokenRow, TypeOK, CredType
  <2>2. tokens' = [tokens EXCEPT ![lastToken + 1] = row]
    BY DEF mintMutator
  <2>. HIDE DEF row
  <2> QED BY <1>3, <2>1, <2>2 DEF TypeOK, CredType
<1>6. keys' \in [Kid -> KeyRow \cup {NoRow}]
  <2>1. activeKid \in Kid /\ keys[activeKid] \in KeyRow
    BY DEF mintMutator, TypeOK, CredType, NoRow
  <2>. DEFINE exp == IF now + req.ttl > keys[activeKid].last_exp
                       THEN now + req.ttl ELSE keys[activeKid].last_exp
  <2>2. exp \in Nat
    BY <1>1, <1>2, <2>1 DEF KeyRow
  <2>3. keys' = [keys EXCEPT ![activeKid] = [keys[activeKid] EXCEPT !.last_exp = exp]]
    BY DEF mintMutator
  <2>. HIDE DEF exp
  <2>4. [keys[activeKid] EXCEPT !.last_exp = exp] \in KeyRow
    BY <2>1, <2>2 DEF KeyRow
  <2> QED BY <2>1, <2>3, <2>4 DEF TypeOK, CredType
<1>7. UNCHANGED <<policy, activeKid, revocations>>
  BY DEF mintMutator
<1> QED BY <1>3, <1>4, <1>5, <1>6, <1>7 DEF TypeOK, CredType

LEMMA RevokeMutatorType ==
  ASSUME TypeOK, NEW target \in Target, revokeMutator(target[1], target[2])
  PROVE  CredType'
<1>. DEFINE kind == target[1]  id == target[2]
<1>1. CASE UNCHANGED <<tasks, tokens, keys, revocations>>
  BY <1>1 DEF revokeMutator, TypeOK, CredType
<1>2. CASE ~UNCHANGED <<tasks, tokens, keys, revocations>>
  <2>1. revocations' \in SUBSET Target
    <3>1. revocations' = revocations \cup {<<kind, id>>}
      BY <1>2 DEF revokeMutator
    <3>2. <<kind, id>> \in Target
      BY DEF Target
    <3> QED BY <3>1, <3>2 DEF TypeOK, CredType
  <2>2. \A row \in TaskRow \cup {NoRow}, hit \in BOOLEAN :
          revokeRow(row, hit) \in TaskRow \cup {NoRow}
    BY DEF revokeRow, TaskRow, NoRow
  <2>3. \A row \in TokenRow \cup {NoRow}, hit \in BOOLEAN :
          revokeRow(row, hit) \in TokenRow \cup {NoRow}
    BY DEF revokeRow, TokenRow, NoRow
  <2>4. tokens' \in [TokenId -> TokenRow \cup {NoRow}]
    <3>1. tokens' = [t \in TokenId |-> revokeRow(tokens[t], kind = "token" /\ t = id)]
      BY <1>2 DEF revokeMutator
    <3> QED BY <2>3, <3>1 DEF TypeOK, CredType
  <2>5. tasks' \in [TaskId -> TaskRow \cup {NoRow}]
    <3>. DEFINE hit(i) == \/ kind = "task" /\ i = id
                          \/ kind = "subject" /\ tasks[i].state # "NONE"
                               /\ tasks[i].who.sub = id
    <3>1. tasks' = [i \in TaskId |-> revokeRow(tasks[i], hit(i))]
      BY <1>2 DEF revokeMutator
    <3>2. \A i \in TaskId : hit(i) \in BOOLEAN
      OBVIOUS
    <3>. HIDE DEF hit
    <3> QED BY <2>2, <3>1, <3>2 DEF TypeOK, CredType
  <2>6. keys' \in [Kid -> KeyRow \cup {NoRow}]
    <3>1. \A row \in KeyRow : [row EXCEPT !.state = "COMPROMISED"] \in KeyRow
      BY DEF KeyRow
    <3>2. \A k \in Kid : keys[k].state \in {"ACTIVE", "VERIFY_ONLY"} => keys[k] \in KeyRow
      BY DEF TypeOK, CredType, NoRow
    <3>3. keys' = [k \in Kid |->
             IF /\ kind = "signing_key" /\ k = id
                /\ keys[k].state \in {"ACTIVE", "VERIFY_ONLY"}
               THEN [keys[k] EXCEPT !.state = "COMPROMISED"] ELSE keys[k]]
      BY <1>2 DEF revokeMutator
    <3> QED BY <3>1, <3>2, <3>3 DEF TypeOK, CredType
  <2> QED BY <2>1, <2>4, <2>5, <2>6 DEF revokeMutator, TypeOK, CredType
<1> QED BY <1>1, <1>2

LEMMA PolicyMutatorType ==
  ASSUME TypeOK, NEW expected \in Nat, NEW body \in Policy,
         policyMutator(expected, body)
  PROVE  CredType'
  BY DEF policyMutator, TypeOK, CredType, PolicyRow

LEMMA RotateMutatorType ==
  ASSUME TypeOK, NEW expected \in Kid, NEW new \in Kid,
         rotateMutator(expected, new)
  PROVE  CredType'
<1>1. activeKid \in Kid /\ keys \in [Kid -> KeyRow \cup {NoRow}]
  BY DEF TypeOK, CredType
<1>2. [state |-> "ACTIVE", last_exp |-> 0] \in KeyRow
  BY DEF KeyRow
<1>3. keys' \in [Kid -> KeyRow \cup {NoRow}]
  <2>1. \A row \in KeyRow \cup {NoRow} : demoted(row) \in KeyRow \cup {NoRow}
    BY DEF demoted, KeyRow, NoRow
  <2> QED BY <1>1, <1>2, <2>1 DEF rotateMutator
<1> QED BY <1>3 DEF rotateMutator, TypeOK, CredType

\* The control transaction around a mutator that keeps the tables well typed.
LEMMA ControlTxType ==
  ASSUME TypeOK, NEW kid \in ControlKid, NEW p \in Proof, NEW op \in OpId,
         NEW body \in Request, NEW tok \in 0 .. MaxToken,
         controlFrame,
         handlers' \in [Handler -> {Idle} \cup CallWait \cup MintWait \cup AdapterWait],
         \/ controlDeny(p)
         \/ replayOperation(kid, p, op, body)
         \/ CredType' /\ saveOperation(kid, p, op, body, tok)
  PROVE  TypeOK'
<1>1. now \in Nat /\ now \in 0 .. MaxTime
  BY NowType DEF TypeOK
<1>2. phys' \in 0 .. MaxTime /\ CallType' /\ UNCHANGED <<dispatches, told>>
  BY CallFrame DEF controlFrame, obsVars, TypeOK, TimeType
<1>3. CASE controlDeny(p)
  BY <1>2, <1>3, DenyType, CredFrame
     DEF controlDeny, TypeOK, TimeType, LogType, ObsType
<1>4. CASE replayOperation(kid, p, op, body)
  BY <1>1, <1>2, <1>4, ExecuteType, BumpNowType, CredFrame
     DEF replayOperation, TypeOK, TimeType, LogType, ObsType
<1>5. CASE CredType' /\ saveOperation(kid, p, op, body, tok)
  <2>. DEFINE row == [state |-> "SAVED", digest |-> body, tok |-> tok,
                      exp |-> now + OPERATION_RETENTION]
  <2>1. row \in OperationRow
    BY <1>1, NatConstants DEF OperationRow
  <2>2. operations' = [operations EXCEPT ![<<kid, op>>] = row]
    BY <1>5 DEF saveOperation
  <2>3. operations' \in [ControlKid \X OpId -> OperationRow \cup {NoRow}]
    <3>. HIDE DEF row
    <3> QED BY <2>1, <2>2 DEF TypeOK, LogType
  <2> QED BY <1>1, <1>2, <1>5, <2>3, ExecuteType, BumpNowType
             DEF saveOperation, TypeOK, TimeType, LogType, ObsType
<1> QED BY <1>3, <1>4, <1>5

LEMMA MintTxType ==
  ASSUME TypeOK, NEW h \in Handler, NEW kid \in ControlKid, NEW p \in Proof,
         NEW op \in OpId, NEW req \in MintRequest, mintTx(h, kid, p, op, req)
  PROVE  TypeOK'
<1>1. <<"mint", req>> \in Request
  BY DEF Request
<1>2. handlers' \in [Handler -> {Idle} \cup CallWait \cup MintWait \cup AdapterWait]
  BY GoIdleType DEF mintTx
<1>3. controlFrame
  BY DEF mintTx
<1>4. CASE mintMutator(req) /\ saveOperation(kid, p, op, <<"mint", req>>, lastToken + 1)
  <2>1. CredType' /\ lastToken + 1 \in 0 .. MaxToken
    BY <1>4, MintMutatorType, NatConstants DEF TokenId
  <2> QED BY <1>1, <1>2, <1>3, <1>4, <2>1, ControlTxType
<1>5. CASE controlDeny(p) \/ replayOperation(kid, p, op, <<"mint", req>>)
  <2>1. 0 \in 0 .. MaxToken
    BY NatConstants
  <2> QED BY <1>1, <1>2, <1>3, <1>5, <2>1, ControlTxType
<1> QED BY <1>4, <1>5 DEF mintTx

LEMMA HandleMintType ==
  ASSUME TypeOK, NEW h \in Handler, NEW kid \in ControlKid, NEW p \in Proof,
         NEW op \in OpId, NEW req \in MintRequest, handleMint(h, kid, p, op, req)
  PROVE  TypeOK'
<1>1. CASE mintTx(h, kid, p, op, req)
  BY <1>1, MintTxType
<1>2. CASE controlFrame /\ controlDeny(p) /\ UNCHANGED handlers
  BY <1>2, DenyType, CredFrame, CallFrame
     DEF controlFrame, controlDeny, obsVars, TypeOK, TimeType, LogType, ObsType
<1>3. CASE /\ suspend(h, [pc |-> "mint_herald", kid |-> kid, proof |-> p,
                          op |-> op, req |-> req, at |-> now])
           /\ UNCHANGED <<lastNow, credVars, proofs, operations, audit, executed>>
           /\ controlFrame
  <2>1. [pc |-> "mint_herald", kid |-> kid, proof |-> p, op |-> op,
         req |-> req, at |-> now] \in MintWait
    BY NowType DEF MintWait, TypeOK
  <2>2. handlers' \in [Handler -> {Idle} \cup CallWait \cup MintWait \cup AdapterWait]
    BY <1>3, <2>1 DEF suspend, TypeOK, ObsType
  <2> QED BY <1>3, <2>2, CredFrame, CallFrame
             DEF controlFrame, obsVars, TypeOK, TimeType, LogType, ObsType
<1> QED BY <1>1, <1>2, <1>3 DEF handleMint

LEMMA MintHeraldType ==
  ASSUME TypeOK, NEW h \in Handler, NEW obs \in Observation,
         mintHeraldAnswers(h, obs)
  PROVE  TypeOK'
<1>. DEFINE w == handlers[h]
<1>1. /\ w.kid \in ControlKid /\ w.proof \in Proof /\ w.op \in OpId
      /\ w.req \in MintRequest
  BY WaitType DEF mintHeraldAnswers, MintWait
<1>2. CASE mintTx(h, w.kid, w.proof, w.op, w.req)
  <2>. HIDE DEF w
  <2> QED BY <1>1, <1>2, MintTxType
<1>3. CASE controlFrame /\ controlDeny(w.proof) /\ goIdle(h)
  <2>1. lastNow' \in 0 .. MaxTime /\ proofs' \in [Proof -> Nat]
    BY <1>1, <1>3, DenyType DEF controlDeny
  <2> QED BY <1>3, <2>1, GoIdleType, CredFrame, CallFrame
     DEF controlFrame, controlDeny, obsVars, TypeOK, TimeType, LogType, ObsType
<1> QED BY <1>2, <1>3 DEF mintHeraldAnswers

\* The synchronous mutating routes: revoke, policy, rotate.
LEMMA ControlRouteType ==
  ASSUME TypeOK, NEW kid \in ControlKid, NEW p \in Proof, NEW op \in OpId,
         \/ \E target \in Target : handleRevoke(kid, p, op, target)
         \/ \E rev \in 1 .. MaxRevision, body \in Policy :
              handlePolicy(kid, p, op, rev, body)
         \/ \E old \in Kid, new \in Kid : handleRotate(kid, p, op, old, new)
  PROVE  TypeOK'
<1>1. 0 \in 0 .. MaxToken
  BY NatConstants
<1>2. ASSUME NEW target \in Target, handleRevoke(kid, p, op, target)
      PROVE  TypeOK'
  <2>1. <<"revoke", target>> \in Request
    BY DEF Request
  <2>2. /\ controlFrame /\ UNCHANGED handlers
        /\ \/ controlDeny(p)
           \/ replayOperation(kid, p, op, <<"revoke", target>>)
           \/ /\ revokeMutator(target[1], target[2])
              /\ saveOperation(kid, p, op, <<"revoke", target>>, 0)
    BY <1>2 DEF handleRevoke, controlOp
  <2>3. handlers' \in [Handler -> {Idle} \cup CallWait \cup MintWait \cup AdapterWait]
    BY <2>2 DEF TypeOK, ObsType
  <2> QED BY <1>1, <2>1, <2>2, <2>3, RevokeMutatorType, ControlTxType
<1>3. ASSUME NEW rev \in 1 .. MaxRevision, NEW body \in Policy,
             handlePolicy(kid, p, op, rev, body)
      PROVE  TypeOK'
  <2>1. rev \in Nat /\ <<"policy", rev, body>> \in Request
    BY NatConstants DEF Request
  <2>2. /\ controlFrame /\ UNCHANGED handlers
        /\ \/ controlDeny(p)
           \/ replayOperation(kid, p, op, <<"policy", rev, body>>)
           \/ /\ policyMutator(rev, body)
              /\ saveOperation(kid, p, op, <<"policy", rev, body>>, 0)
    BY <1>3 DEF handlePolicy, controlOp
  <2>3. handlers' \in [Handler -> {Idle} \cup CallWait \cup MintWait \cup AdapterWait]
    BY <2>2 DEF TypeOK, ObsType
  <2> QED BY <1>1, <2>1, <2>2, <2>3, PolicyMutatorType, ControlTxType
<1>4. ASSUME NEW old \in Kid, NEW new \in Kid, handleRotate(kid, p, op, old, new)
      PROVE  TypeOK'
  <2>1. <<"rotate", old, new>> \in Request
    BY DEF Request
  <2>2. /\ controlFrame /\ UNCHANGED handlers
        /\ \/ controlDeny(p)
           \/ replayOperation(kid, p, op, <<"rotate", old, new>>)
           \/ /\ rotateMutator(old, new)
              /\ saveOperation(kid, p, op, <<"rotate", old, new>>, 0)
    BY <1>4 DEF handleRotate, controlOp
  <2>3. handlers' \in [Handler -> {Idle} \cup CallWait \cup MintWait \cup AdapterWait]
    BY <2>2 DEF TypeOK, ObsType
  <2> QED BY <1>1, <2>1, <2>2, <2>3, RotateMutatorType, ControlTxType
<1> QED BY <1>2, <1>3, <1>4

LEMMA ControlReadType ==
  ASSUME TypeOK, NEW kid \in ControlKid, NEW p \in Proof,
         (\E t \in TokenId : handleInspect(kid, p, t)) \/ handleAudit(kid, p)
  PROVE  TypeOK'
<1>1. /\ controlFrame /\ UNCHANGED <<handlers, credVars, operations>>
      /\ \/ deny(p) /\ UNCHANGED executed
         \/ execute(p) /\ bumpNow(now)
  BY DEF handleInspect, handleAudit, controlRead
<1> QED BY <1>1, DenyType, ExecuteType, BumpNowType, NowType, CredFrame, CallFrame
           DEF controlFrame, obsVars, TypeOK, TimeType, LogType, ObsType

LEMMA RecoverType ==
  ASSUME TypeOK, NEW n \in 0 .. MaxTime, recover(n)
  PROVE  TypeOK'
<1>1. \A row \in CallRow : [row EXCEPT !.state = "UNKNOWN"] \in CallRow
  BY DEF CallRow, Terminal
<1>2. \A i \in staleCalls(n) : calls[i] \in CallRow
  BY DEF staleCalls, inflightCalls, TypeOK, CallType, NoRow
<1>3. calls' = [i \in CallId |-> IF i \in staleCalls(n)
                  THEN [calls[i] EXCEPT !.state = "UNKNOWN"] ELSE calls[i]]
  BY DEF recover
<1>4. calls' \in [CallId -> CallRow \cup {NoRow}]
  BY <1>1, <1>2, <1>3 DEF TypeOK, CallType
<1> QED BY <1>4, BumpNowType, CredFrame
           DEF recover, obsVars, TypeOK, TimeType, CallType, LogType, ObsType

\* The rows a maintenance pass picks exist, and change nothing but their state.
LEMMA MaintainType ==
  ASSUME TypeOK, NEW n \in 0 .. MaxTime, runMaintenance(n)
  PROVE  TypeOK'
<1>1. PICK taskB \in batch(dueIn(tasks, TaskId, "ACTIVE", n)),
           tokB  \in batch(dueIn(tokens, TokenId, "ACTIVE", n)),
           nonB  \in batch(dueIn(nonces, NonceId, "OPEN", n)),
           keyB  \in batch(drained(n)),
           sealB \in batch(purgeable(n)),
           callB \in batch(forgotten(n)) : runMaintenance(n)!(taskB, tokB, nonB, keyB, sealB, callB)
  BY DEF runMaintenance
<1>2. \A due : \A b \in batch(due) : b \subseteq due
  BY DEF batch
<1>3. tasks' \in [TaskId -> TaskRow \cup {NoRow}]
  <2>1. \A i \in taskB : [tasks[i] EXCEPT !.state = "EXPIRED"] \in TaskRow
    <3>1. \A i \in taskB : tasks[i] \in TaskRow
      BY <1>2 DEF dueIn, TypeOK, CredType, NoRow
    <3> QED BY <3>1 DEF TaskRow
  <2> QED BY <1>1, <2>1 DEF setState, TypeOK, CredType
<1>4. tokens' \in [TokenId -> TokenRow \cup {NoRow}]
  <2>1. \A t \in tokB : [tokens[t] EXCEPT !.state = "EXPIRED"] \in TokenRow
    <3>1. \A t \in tokB : tokens[t] \in TokenRow
      BY <1>2 DEF dueIn, TypeOK, CredType, NoRow
    <3> QED BY <3>1 DEF TokenRow
  <2>2. setState(tokens, TokenId, tokB, "EXPIRED") \in [TokenId -> TokenRow \cup {NoRow}]
    BY <2>1 DEF setState, TypeOK, CredType
  <2> QED BY <1>1, <2>2
<1>5. nonces' \in [NonceId -> NonceRow \cup {NoRow}]
  <2>1. \A x \in nonB : [nonces[x] EXCEPT !.state = "EXPIRED"] \in NonceRow
    <3>1. \A x \in nonB : nonces[x] \in NonceRow
      BY <1>2 DEF dueIn, TypeOK, CallType, NoRow
    <3> QED BY <3>1 DEF NonceRow
  <2>2. setState(nonces, NonceId, nonB, "EXPIRED") \in [NonceId -> NonceRow \cup {NoRow}]
    BY <2>1 DEF setState, TypeOK, CallType
  <2> QED BY <1>1, <2>2
<1>6. keys' \in [Kid -> KeyRow \cup {NoRow}]
  <2>1. \A k \in keyB : [keys[k] EXCEPT !.state = "RETIRED"] \in KeyRow
    <3>1. \A k \in keyB : keys[k] \in KeyRow
      BY <1>2 DEF drained, TypeOK, CredType, NoRow
    <3> QED BY <3>1 DEF KeyRow
  <2> QED BY <1>1, <2>1 DEF setState, TypeOK, CredType
<1>7. calls' \in [CallId -> CallRow \cup {NoRow}]
  <2>1. \A i \in sealB : [calls[i] EXCEPT !.sealed = FALSE] \in CallRow
    <3>1. \A i \in sealB : calls[i] \in CallRow
      BY <1>2 DEF purgeable, TypeOK, CallType, NoRow
    <3> QED BY <3>1 DEF CallRow
  <2> QED BY <1>1, <2>1 DEF TypeOK, CallType
<1>8. proofs' \in [Proof -> Nat]
  BY <1>1 DEF TypeOK, LogType
<1>9. operations' \in [ControlKid \X OpId -> OperationRow \cup {NoRow}]
  BY <1>1 DEF TypeOK, LogType
<1>10. lastNow' \in 0 .. MaxTime
  BY <1>1, BumpNowType
<1> QED BY <1>1, <1>3, <1>4, <1>5, <1>6, <1>7, <1>8, <1>9, <1>10
           DEF obsVars, TypeOK, TimeType, CredType, CallType, LogType, ObsType

\* The clock and a crash.
LEMMA EnvironmentType ==
  ASSUME TypeOK, tick \/ StepBack \/ crash
  PROVE  TypeOK'
<1>1. phys' \in 0 .. MaxTime /\ lastNow' \in 0 .. MaxTime
  <2>1. MaxBack \in Nat
    BY ConstantAssumption
  <2> QED BY <2>1, NatConstants DEF tick, StepBack, stepBack, crash, TypeOK, TimeType
<1>2. CredType' /\ CallType'
  BY CredFrame, CallFrame DEF tick, StepBack, stepBack, crash, TypeOK
<1>3. LogType'
  BY DEF tick, StepBack, stepBack, crash, TypeOK, LogType
<1>4. ObsType'
  BY DEF tick, StepBack, stepBack, crash, TypeOK, ObsType, obsVars
<1> QED BY <1>1, <1>2, <1>3, <1>4 DEF TypeOK, TimeType

LEMMA TypeStep == TypeOK /\ [Next]_vars => TypeOK'
<1>. SUFFICES ASSUME TypeOK, [Next]_vars
              PROVE  TypeOK'
  OBVIOUS
<1>1. CASE AgentRequest
  BY <1>1, HandleCallType, HandleNonceType, HandleResultType DEF AgentRequest
<1>2. CASE ControlRequest
  BY <1>2, HandleMintType, ControlRouteType, ControlReadType DEF ControlRequest
<1>3. CASE Answer
  BY <1>3, CallHeraldType, MintHeraldType, AdapterType DEF Answer
<1>4. CASE tick \/ StepBack \/ crash
  BY <1>4, EnvironmentType
<1>5. CASE Recover \/ Maintain
  <2>1. phys \in 0 .. MaxTime /\ now \in 0 .. MaxTime
    BY NowType DEF TypeOK, TimeType
  <2> QED BY <1>5, <2>1, RecoverType, MaintainType DEF Recover, Maintain
<1>6. CASE UNCHANGED vars
  BY <1>6, CredFrame, CallFrame
     DEF vars, credVars, callVars, TypeOK, TimeType, LogType, ObsType
<1> QED BY <1>1, <1>2, <1>3, <1>4, <1>5, <1>6 DEF Next

\* The authority keeps every table, handler and observation well typed
\* (AuthorityStore's row types), for any number of callers, keys, handlers and
\* ids and any bounds.
THEOREM TypeCorrect == Spec => []TypeOK
  BY InitType, TypeStep, PTL DEF Spec
=============================================================================
