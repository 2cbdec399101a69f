-------------------------- MODULE CredentialProofs --------------------------
(***************************************************************************)
(* What holds of tokens, tasks, keys, tombstones and the journal of mints, *)
(* for every value of the constants.                                       *)
(*                                                                         *)
(* Every step is first sorted by what it does to the credentials           *)
(* (CredStep); each part of the invariant is then proved kind by kind.     *)
(***************************************************************************)
EXTENDS ServiceProofs, FiniteSetTheorems

-----------------------------------------------------------------------------
\* The kinds of steps

Still == UNCHANGED <<credVars, operations>>

\* The response of a mutation is journalled under o, with the time set to now.
Journals(o, tok) ==
  /\ operations[o].state = "NONE"
  /\ \E digest \in Request :
       operations' = [operations EXCEPT ![o] =
         [state |-> "SAVED", digest |-> digest, tok |-> tok,
          exp |-> now + OPERATION_RETENTION]]
  /\ lastNow' = now /\ UNCHANGED phys

\* A principal that needs a card asked for a bound token.
asksBound(req) == /\ req.who.sub \in policy.body.principals
                  /\ policy.body.herald[req.who.sub] = "required"
                  => req.who.herald

Mints(req, o) == mintMutator(req) /\ asksBound(req) /\ Journals(o, lastToken + 1)
Mutates(o) ==
  /\ \/ \E target \in Target : revokeMutator(target[1], target[2])
     \/ \E rev \in 1 .. MaxRevision, body \in Policy : policyMutator(rev, body)
     \/ \E old \in Kid, new \in Kid : rotateMutator(old, new)
  /\ Journals(o, 0)

\* Only a request for a bound token waits for Herald at /mint.
MintsBound == \A h \in Handler : handlers[h].pc = "mint_herald" => handlers[h].req.who.herald

\* A nonce is closed when its time has passed.
NoncesAge ==
  \A x \in NonceId : nonces'[x].state = "EXPIRED" =>
    \/ nonces[x].state = "EXPIRED" /\ nonces'[x].exp = nonces[x].exp
    \/ nonces'[x].exp <= lastNow'

CredStep ==
  \/ Still
  \/ \E req \in MintRequest, o \in ControlKid \X OpId : Mints(req, o)
  \/ \E o \in ControlKid \X OpId : Mutates(o)
  \/ Maintain

LEMMA MintSorted ==
  ASSUME TypeOK, NEW h \in Handler, NEW kid \in ControlKid, NEW p \in Proof,
         NEW op \in OpId, NEW req \in MintRequest, mintTx(h, kid, p, op, req),
         savedOperation(kid, op).state # "SAVED" => asksBound(req)
  PROVE  CredStep
<1>1. CASE controlDeny(p)
  BY <1>1 DEF controlDeny, CredStep, Still
<1>2. CASE replayOperation(kid, p, op, <<"mint", req>>)
  BY <1>2 DEF replayOperation, CredStep, Still
<1>3. CASE mintMutator(req) /\ saveOperation(kid, p, op, <<"mint", req>>, lastToken + 1)
  <2>1. <<kid, op>> \in ControlKid \X OpId /\ <<"mint", req>> \in Request
    BY DEF Request
  <2>2. asksBound(req) /\ lastNow' = now
    BY <1>3, BumpToNow DEF saveOperation, TypeOK
  <2>3. Mints(req, <<kid, op>>)
    BY <1>3, <2>1, <2>2 DEF Mints, Journals, saveOperation, savedOperation, mintTx, controlFrame
  <2> QED BY <2>1, <2>3 DEF CredStep
<1> QED BY <1>1, <1>2, <1>3 DEF mintTx

LEMMA ControlOpSorted ==
  ASSUME TypeOK, NEW kid \in ControlKid, NEW p \in Proof, NEW op \in OpId,
         NEW body \in Request, saveOperation(kid, p, op, body, 0), UNCHANGED phys,
         \/ \E target \in Target : revokeMutator(target[1], target[2])
         \/ \E rev \in 1 .. MaxRevision, b \in Policy : policyMutator(rev, b)
         \/ \E old \in Kid, new \in Kid : rotateMutator(old, new)
  PROVE  CredStep
<1>1. <<kid, op>> \in ControlKid \X OpId
  OBVIOUS
<1>2. lastNow' = now
  BY BumpToNow DEF saveOperation, TypeOK
<1>3. Mutates(<<kid, op>>)
  BY <1>1, <1>2 DEF Mutates, Journals, saveOperation, savedOperation
<1> QED BY <1>1, <1>3 DEF CredStep

LEMMA ControlCred ==
  ASSUME TypeOK, ControlRequest
  PROVE  CredStep
<1>1. PICK kid \in ControlKid, p \in Proof :
        \/ \E h \in Handler, op \in OpId, req \in MintRequest :
             handleMint(h, kid, p, op, req)
        \/ \E op \in OpId, target \in Target : handleRevoke(kid, p, op, target)
        \/ \E op \in OpId, rev \in 1 .. MaxRevision, body \in Policy :
             handlePolicy(kid, p, op, rev, body)
        \/ \E op \in OpId, old \in Kid, new \in Kid :
             handleRotate(kid, p, op, old, new)
        \/ \E t \in TokenId : handleInspect(kid, p, t)
        \/ handleAudit(kid, p)
  BY DEF ControlRequest
<1>2. ASSUME NEW h \in Handler, NEW op \in OpId, NEW req \in MintRequest,
             handleMint(h, kid, p, op, req)
      PROVE  CredStep
  <2>1. mintAllowed(kid, req) => asksBound(req)
    BY DEF mintAllowed, asksBound
  <2>2. CASE Still
    BY <2>2 DEF CredStep
  <2>3. CASE /\ savedOperation(kid, op).state = "SAVED" \/ mintAllowed(kid, req)
             /\ mintTx(h, kid, p, op, req)
    BY <2>1, <2>3, MintSorted
  <2> QED BY <1>2, <2>2, <2>3 DEF handleMint, controlDeny, Still
<1>3. ASSUME NEW op \in OpId, NEW target \in Target, handleRevoke(kid, p, op, target)
      PROVE  CredStep
  <2>1. <<"revoke", target>> \in Request
    BY DEF Request
  <2>2. \/ Still
        \/ /\ revokeMutator(target[1], target[2])
           /\ saveOperation(kid, p, op, <<"revoke", target>>, 0) /\ UNCHANGED phys
    BY <1>3 DEF handleRevoke, controlOp, controlDeny, controlFrame, replayOperation, Still
  <2> QED BY <2>1, <2>2, ControlOpSorted DEF CredStep
<1>4. ASSUME NEW op \in OpId, NEW rev \in 1 .. MaxRevision, NEW body \in Policy,
             handlePolicy(kid, p, op, rev, body)
      PROVE  CredStep
  <2>1. <<"policy", rev, body>> \in Request
    BY NatConstants DEF Request
  <2>2. \/ Still
        \/ /\ policyMutator(rev, body)
           /\ saveOperation(kid, p, op, <<"policy", rev, body>>, 0) /\ UNCHANGED phys
    BY <1>4 DEF handlePolicy, controlOp, controlDeny, controlFrame, replayOperation, Still
  <2> QED BY <2>1, <2>2, ControlOpSorted DEF CredStep
<1>5. ASSUME NEW op \in OpId, NEW old \in Kid, NEW new \in Kid,
             handleRotate(kid, p, op, old, new)
      PROVE  CredStep
  <2>1. <<"rotate", old, new>> \in Request
    BY DEF Request
  <2>2. \/ Still
        \/ /\ rotateMutator(old, new)
           /\ saveOperation(kid, p, op, <<"rotate", old, new>>, 0) /\ UNCHANGED phys
    BY <1>5 DEF handleRotate, controlOp, controlDeny, controlFrame, replayOperation, Still
  <2> QED BY <2>1, <2>2, ControlOpSorted DEF CredStep
<1>6. ASSUME (\E t \in TokenId : handleInspect(kid, p, t)) \/ handleAudit(kid, p)
      PROVE  CredStep
  BY <1>6 DEF handleInspect, handleAudit, controlRead, CredStep, Still
<1> QED BY <1>1, <1>2, <1>3, <1>4, <1>5, <1>6

\* The control routes leave calls and nonces alone.
LEMMA ControlSame == ControlRequest => UNCHANGED <<calls, nonces>>
<1>. SUFFICES ASSUME ControlRequest
              PROVE  controlFrame
  BY DEF controlFrame, callVars
<1>1. ASSUME NEW h, NEW kid, NEW p, NEW op, NEW req, handleMint(h, kid, p, op, req)
      PROVE  controlFrame
  BY <1>1 DEF handleMint, mintTx
<1>2. ASSUME NEW kid, NEW p, NEW op, NEW x, NEW y,
             \/ handleRevoke(kid, p, op, x) \/ handlePolicy(kid, p, op, x, y)
             \/ handleRotate(kid, p, op, x, y)
             \/ handleInspect(kid, p, x) \/ handleAudit(kid, p)
      PROVE  controlFrame
  BY <1>2 DEF handleRevoke, handlePolicy, handleRotate, controlOp,
              handleInspect, handleAudit, controlRead
<1> QED BY <1>1, <1>2 DEF ControlRequest

LEMMA EveryStepIsACredStep == TypeOK /\ MintsBound /\ [Next]_vars => CredStep
<1>. SUFFICES ASSUME TypeOK, MintsBound, [Next]_vars
              PROVE  CredStep
  OBVIOUS
<1>1. CASE AgentRequest
  <2>1. ASSUME NEW h, NEW t, NEW p, NEW nonce, NEW c, handleCall(h, t, p, nonce, c)
        PROVE  Still
    BY <2>1 DEF handleCall, admissionTx, Still
  <2>2. ASSUME NEW t, NEW p, NEW c, handleNonce(t, p, c) \/ handleResult(t, p, c)
        PROVE  Still
    BY <2>2 DEF handleNonce, handleResult, Still
  <2> QED BY <1>1, <2>1, <2>2 DEF AgentRequest, CredStep
<1>2. ASSUME NEW h \in Handler, NEW obs \in Observation, mintHeraldAnswers(h, obs)
      PROVE  CredStep
  <2>. DEFINE w == handlers[h]
  <2>1. /\ w.kid \in ControlKid /\ w.proof \in Proof /\ w.op \in OpId
        /\ w.req \in MintRequest
    BY <1>2, WaitType DEF mintHeraldAnswers, MintWait
  <2>2. asksBound(w.req)
    BY <1>2 DEF mintHeraldAnswers, MintsBound, asksBound
  <2>3. Still \/ mintTx(h, w.kid, w.proof, w.op, w.req)
    BY <1>2 DEF mintHeraldAnswers, controlDeny, Still
  <2>. HIDE DEF w
  <2> QED BY <2>1, <2>2, <2>3, MintSorted DEF CredStep
<1>3. CASE Answer
  BY <1>2, <1>3 DEF Answer, callHeraldAnswers, adapterReturns, admissionTx,
                    CredStep, Still
<1>4. CASE tick \/ StepBack \/ crash \/ Recover \/ UNCHANGED vars
  BY <1>4 DEF tick, StepBack, stepBack, crash, Recover, recover, vars, credVars,
              CredStep, Still
<1> QED BY <1>1, <1>3, <1>4, ControlCred DEF Next, CredStep

-----------------------------------------------------------------------------
\* Handlers and nonces

LEMMA MintsBoundStep == TypeOK /\ MintsBound /\ [Next]_vars => MintsBound'
<1>. DEFINE Starts == \A h \in Handler : handlers'[h].pc = "mint_herald" =>
                        handlers'[h] = handlers[h] \/ handlers'[h].req.who.herald
<1>. SUFFICES ASSUME TypeOK, MintsBound, [Next]_vars
              PROVE  Starts
  BY DEF MintsBound
<1>1. ASSUME NEW h \in Handler, goIdle(h)
      PROVE  Starts
  BY <1>1 DEF goIdle, Idle, TypeOK, ObsType
<1>2. ASSUME NEW h \in Handler, NEW w, w.pc # "mint_herald" \/ w.req.who.herald,
             suspend(h, w)
      PROVE  Starts
  BY <1>2 DEF suspend, TypeOK, ObsType
<1>3. UNCHANGED handlers => Starts
  OBVIOUS
<1>4. handlers' = [h \in Handler |-> Idle] => Starts
  BY DEF Idle
<1>. HIDE DEF Starts
<1>5. ASSUME NEW h \in Handler, NEW t \in TokenId, NEW p \in Proof,
             NEW nonce, NEW c, admissionTx(h, t, p, nonce, c)
      PROVE  Starts
  BY <1>1, <1>2, <1>4, <1>5 DEF admissionTx
<1>6. CASE AgentRequest
  <2>1. ASSUME NEW h \in Handler, NEW t \in TokenId, NEW p \in Proof,
               NEW nonce, NEW c, handleCall(h, t, p, nonce, c)
        PROVE  Starts
    <3>. DEFINE w == [pc |-> "call_herald", tok |-> t, proof |-> p,
                      nonce |-> nonce, call |-> c, at |-> now]
    <3>1. w.pc # "mint_herald"
      OBVIOUS
    <3>2. UNCHANGED handlers \/ suspend(h, w) \/ admissionTx(h, t, p, nonce, c)
      BY <2>1 DEF handleCall
    <3>. HIDE DEF w
    <3> QED BY <1>2, <1>3, <1>5, <3>1, <3>2
  <2>2. ASSUME NEW t, NEW p, NEW c, handleNonce(t, p, c) \/ handleResult(t, p, c)
        PROVE  Starts
    BY <1>3, <2>2 DEF handleNonce, handleResult
  <2> QED BY <1>6, <2>1, <2>2 DEF AgentRequest
<1>7. CASE ControlRequest
  <2>1. ASSUME NEW h \in Handler, NEW kid, NEW p, NEW op, NEW req,
               handleMint(h, kid, p, op, req)
        PROVE  Starts
    <3>. DEFINE w == [pc |-> "mint_herald", kid |-> kid, proof |-> p,
                      op |-> op, req |-> req, at |-> now]
    <3>1. w.req = req
      OBVIOUS
    <3>2. UNCHANGED handlers \/ goIdle(h) \/ (req.who.herald /\ suspend(h, w))
      BY <2>1 DEF handleMint, mintTx
    <3>. HIDE DEF w
    <3> QED BY <1>1, <1>2, <1>3, <3>1, <3>2
  <2>2. ASSUME NEW kid, NEW p, NEW op, NEW x, NEW y,
               \/ handleRevoke(kid, p, op, x) \/ handlePolicy(kid, p, op, x, y)
               \/ handleRotate(kid, p, op, x, y)
               \/ handleInspect(kid, p, x) \/ handleAudit(kid, p)
        PROVE  Starts
    <3>1. UNCHANGED handlers
      BY <2>2 DEF handleRevoke, handlePolicy, handleRotate, controlOp,
                  handleInspect, handleAudit, controlRead
    <3> QED BY <1>3, <3>1
  <2> QED BY <1>7, <2>1, <2>2 DEF ControlRequest
<1>8. CASE Answer
  <2>1. ASSUME NEW h \in Handler, NEW obs \in Observation, callHeraldAnswers(h, obs)
        PROVE  Starts
    <3>1. handlers[h].tok \in TokenId /\ handlers[h].proof \in Proof
      BY <2>1, WaitType DEF callHeraldAnswers, CallWait
    <3> QED BY <1>1, <1>5, <2>1, <3>1 DEF callHeraldAnswers
  <2> QED BY <1>1, <1>8, <2>1 DEF Answer, mintHeraldAnswers, mintTx, adapterReturns
<1>9. CASE tick \/ StepBack \/ crash \/ Recover \/ Maintain \/ UNCHANGED vars
  <2>1. CASE tick \/ StepBack \/ Recover \/ UNCHANGED vars
    BY <1>3, <2>1 DEF tick, StepBack, stepBack, Recover, recover, vars
  <2>2. CASE Maintain
    BY <1>3, <2>2 DEF Maintain, runMaintenance
  <2> QED BY <1>4, <1>9, <2>1, <2>2 DEF crash
<1> QED BY <1>6, <1>7, <1>8, <1>9 DEF Next

-----------------------------------------------------------------------------
\* How rows move

Dead == {"COMPROMISED", "RETIRED"}

\* A task row stays with its owner and expiry; it is revoked only under a
\* tombstone and expired only in time.
TaskMoves(i) ==
  /\ tasks[i].state # "NONE" =>
       /\ tasks'[i].state # "NONE"
       /\ tasks'[i].who = tasks[i].who /\ tasks'[i].exp = tasks[i].exp
  /\ tasks'[i].state = "REVOKED" =>
       \/ tasks[i].state = "REVOKED"
       \/ <<"task", i>> \in revocations' \/ <<"subject", tasks'[i].who.sub>> \in revocations'
  /\ tasks'[i].state = "EXPIRED" =>
       tasks[i].state = "EXPIRED" \/ tasks'[i].exp <= lastNow'

\* A token row keeps what it was minted with.
TokenMoves(t) ==
  /\ tokens'[t].state # "NONE" =>
       /\ tokens[t].state # "NONE"
       /\ tokens'[t].task = tokens[t].task /\ tokens'[t].who = tokens[t].who
       /\ tokens'[t].scopes = tokens[t].scopes
       /\ tokens'[t].kid = tokens[t].kid /\ tokens'[t].policy = tokens[t].policy
       /\ tokens'[t].iat = tokens[t].iat /\ tokens'[t].exp = tokens[t].exp
  /\ tokens'[t].state = "EXPIRED" =>
       tokens[t].state = "EXPIRED" \/ tokens'[t].exp <= lastNow'

\* A key stays, covers what it covered, and is retired only when drained.
KeyMoves(k) ==
  /\ keys[k].state # "NONE" =>
       keys'[k].state # "NONE" /\ keys'[k].last_exp >= keys[k].last_exp
  /\ keys[k].state \in Dead => keys'[k].state \in Dead
  /\ keys'[k].state = "RETIRED" =>
       \/ keys[k].state = "RETIRED"
       \/ keys[k].state # "NONE" /\ keys[k].last_exp <= lastNow'

\* Tombstones stay; a new one names a token that exists or a key now dead.
TombsMove ==
  /\ revocations \subseteq revocations'
  /\ \A t \in TokenId : <<"token", t>> \in revocations' =>
       <<"token", t>> \in revocations \/ tokens[t].state # "NONE"
  /\ \A k \in Kid : <<"signing_key", k>> \in revocations' =>
       <<"signing_key", k>> \in revocations \/ keys'[k].state \in Dead

Moves == /\ \A i \in TaskId : TaskMoves(i)
         /\ \A k \in Kid : KeyMoves(k)
         /\ TombsMove

LEMMA ExistingToken ==
  ASSUME TypeOK, NEW t \in TokenId, tokens[t].state # "NONE"
  PROVE  tokens[t] \in TokenRow
  BY DEF TypeOK, CredType, NoRow

LEMMA ExistingKey ==
  ASSUME TypeOK, NEW k \in Kid, keys[k].state # "NONE"
  PROVE  keys[k] \in KeyRow
  BY DEF TypeOK, CredType, NoRow

LEMMA SameMove ==
  ASSUME TypeOK
  PROVE  /\ \A i \in TaskId : tasks'[i] = tasks[i] => TaskMoves(i)
         /\ \A t \in TokenId : tokens'[t] = tokens[t] => TokenMoves(t)
         /\ \A k \in Kid : keys'[k] = keys[k] => KeyMoves(k)
<1>1. ASSUME NEW k \in Kid, keys'[k] = keys[k]
      PROVE  KeyMoves(k)
  <2>1. keys[k].state # "NONE" => keys[k].last_exp \in Nat
    BY ExistingKey DEF KeyRow
  <2> QED BY <1>1, <2>1 DEF KeyMoves
<1> QED BY <1>1 DEF TaskMoves, TokenMoves

LEMMA StillMoves ==
  ASSUME TypeOK, UNCHANGED credVars
  PROVE  Moves /\ \A t \in TokenId : TokenMoves(t)
  BY SameMove DEF credVars, Moves, TombsMove

\* What a mint writes.
LEMMA MintEffect ==
  ASSUME TypeOK, NEW req \in MintRequest, mintMutator(req), lastNow' = now
  PROVE  LET x == lastToken + 1  tok == tokens'[lastToken + 1]
         IN /\ x \in TokenId /\ lastToken' = x
            /\ \A t \in TokenId : t # x => TokenMoves(t)
            /\ Moves /\ UNCHANGED <<policy, revocations>>
            /\ tok.state = "ACTIVE" /\ tok.task = req.task /\ tok.who = req.who
            /\ tok.kid = activeKid /\ tok.policy = policy /\ tok.iat = now
            /\ tok.exp = now + req.ttl /\ req.ttl \in Nat /\ req.ttl > 0
            /\ req.ttl <= TOKEN_TTL_MAX
            /\ keys'[activeKid].state = "ACTIVE" /\ keys[activeKid].state = "ACTIVE"
            /\ tok.exp <= keys'[activeKid].last_exp
            /\ req.task \in TaskId /\ tasks'[req.task].state = "ACTIVE"
            /\ tasks'[req.task].who = req.who /\ tok.exp <= tasks'[req.task].exp
            /\ notRevoked(req) /\ req.who.sub \in policy.body.principals
<1>. DEFINE x == lastToken + 1
            row == [task |-> req.task, who |-> req.who, kid |-> activeKid,
                    scopes |-> req.scopes, policy |-> policy, iat |-> now,
                    exp |-> now + req.ttl, state |-> "ACTIVE"]
            task == [who |-> req.who, exp |-> now + TASK_TTL, state |-> "ACTIVE"]
<1>1. /\ now \in Nat /\ req.ttl \in Nat /\ req.task \in TaskId /\ activeKid \in Kid
      /\ TOKEN_TTL_MIN \in Nat /\ TOKEN_TTL_MAX \in Nat /\ TASK_TTL \in Nat
      /\ TOKEN_TTL_MIN > 0 /\ TASK_TTL >= TOKEN_TTL_MAX
  BY NowType, RequestAssumption, ConstantAssumption DEF TypeOK, TimeType, CredType
<1>2. req.ttl > 0 /\ req.ttl <= TOKEN_TTL_MAX
  BY <1>1 DEF mintMutator
<1>3. x \in TokenId /\ lastToken' = x
  BY NatConstants DEF mintMutator, TypeOK, CredType, TokenId
<1>4. tokens'[x] = row /\ \A t \in TokenId : t # x => tokens'[t] = tokens[t]
  BY <1>3 DEF mintMutator, TypeOK, CredType
<1>5. /\ row.state = "ACTIVE" /\ row.task = req.task /\ row.who = req.who
      /\ row.kid = activeKid /\ row.policy = policy /\ row.iat = now
      /\ row.exp = now + req.ttl
  OBVIOUS
<1>6. keys[activeKid].state = "ACTIVE" /\ keys[activeKid] \in KeyRow
  BY <1>1, ExistingKey DEF mintMutator
<1>7. /\ keys'[activeKid].state = "ACTIVE"
      /\ keys'[activeKid].last_exp = IF now + req.ttl > keys[activeKid].last_exp
                                       THEN now + req.ttl ELSE keys[activeKid].last_exp
      /\ \A k \in Kid : k # activeKid => keys'[k] = keys[k]
  BY <1>6 DEF mintMutator, TypeOK, CredType, KeyRow
<1>8. /\ keys'[activeKid].last_exp >= now + req.ttl
      /\ keys'[activeKid].last_exp >= keys[activeKid].last_exp
  BY <1>1, <1>6, <1>7 DEF KeyRow
<1>9. KeyMoves(activeKid)
  BY <1>6, <1>7, <1>8 DEF KeyMoves, Dead
<1>10. /\ \A i \in TaskId : i # req.task => tasks'[i] = tasks[i]
       /\ tasks[req.task].state # "NONE" =>
            /\ tasks'[req.task] = tasks[req.task] /\ tasks[req.task].state = "ACTIVE"
            /\ tasks[req.task].who = req.who /\ now + req.ttl <= tasks[req.task].exp
       /\ tasks[req.task].state = "NONE" => tasks'[req.task] = task
  BY <1>1 DEF mintMutator, taskAccepts, TypeOK, CredType
<1>11. task.state = "ACTIVE" /\ task.who = req.who /\ now + req.ttl <= task.exp
  BY <1>1, <1>2
<1>. HIDE DEF row, task
<1>12. /\ tasks'[req.task].state = "ACTIVE" /\ tasks'[req.task].who = req.who
       /\ now + req.ttl <= tasks'[req.task].exp
  BY <1>10, <1>11
<1>13. \A i \in TaskId : TaskMoves(i)
  BY <1>10, <1>12, SameMove DEF TaskMoves
<1>14. Moves
  BY <1>1, <1>7, <1>9, <1>13, SameMove DEF Moves, TombsMove, mintMutator
<1> QED BY <1>1, <1>2, <1>3, <1>4, <1>5, <1>6, <1>7, <1>8, <1>12, <1>14, SameMove
        DEF mintMutator

LEMMA RevokeMoves ==
  ASSUME TypeOK, NEW target \in Target, revokeMutator(target[1], target[2])
  PROVE  Moves /\ (\A t \in TokenId : TokenMoves(t)) /\ UNCHANGED <<policy, lastToken>>
<1>. DEFINE kind == target[1]  id == target[2]
<1>1. CASE UNCHANGED <<tasks, tokens, keys, revocations>>
  BY <1>1, SameMove DEF revokeMutator, Moves, TombsMove
<1>2. CASE ~revocation(kind, id)
  <2>1. /\ revocations' = revocations \cup {<<kind, id>>}
        /\ knownTarget(kind, id)
        /\ \A t \in TokenId : tokens'[t] = revokeRow(tokens[t], kind = "token" /\ t = id)
        /\ \A i \in TaskId : tasks'[i] =
             revokeRow(tasks[i], \/ kind = "task" /\ i = id
                                 \/ kind = "subject" /\ tasks[i].state # "NONE"
                                      /\ tasks[i].who.sub = id)
        /\ \A k \in Kid : keys'[k] =
             IF /\ kind = "signing_key" /\ k = id
                /\ keys[k].state \in {"ACTIVE", "VERIFY_ONLY"}
               THEN [keys[k] EXCEPT !.state = "COMPROMISED"] ELSE keys[k]
    BY <1>2 DEF revokeMutator, revocation
  <2>2. ASSUME NEW t \in TokenId
        PROVE  TokenMoves(t)
    <3>1. CASE tokens'[t] = tokens[t]
      BY <3>1, SameMove
    <3>2. CASE /\ tokens[t].state = "ACTIVE"
               /\ tokens'[t] = [tokens[t] EXCEPT !.state = "REVOKED"]
      <4>1. tokens[t] \in TokenRow
        BY <3>2, ExistingToken
      <4> QED BY <3>2, <4>1 DEF TokenMoves, TokenRow
    <3> QED BY <2>1, <3>1, <3>2 DEF revokeRow
  <2>3. ASSUME NEW i \in TaskId
        PROVE  TaskMoves(i)
    <3>1. CASE tasks'[i] = tasks[i]
      BY <3>1, SameMove
    <3>2. CASE /\ tasks[i].state = "ACTIVE"
               /\ tasks'[i] = [tasks[i] EXCEPT !.state = "REVOKED"]
               /\ \/ kind = "task" /\ i = id
                  \/ kind = "subject" /\ tasks[i].who.sub = id
      <4>1. tasks[i] \in TaskRow
        BY <3>2, ExistingTask
      <4>2. /\ tasks'[i].who = tasks[i].who /\ tasks'[i].exp = tasks[i].exp
            /\ tasks'[i].state = "REVOKED"
        BY <3>2, <4>1 DEF TaskRow
      <4> QED BY <2>1, <3>2, <4>2 DEF TaskMoves
    <3> QED BY <2>1, <3>1, <3>2 DEF revokeRow
  <2>4. ASSUME NEW k \in Kid
        PROVE  KeyMoves(k) /\ (kind = "signing_key" /\ k = id => keys'[k].state \in Dead)
    <3>1. CASE keys'[k] = keys[k] /\ ~(kind = "signing_key" /\ k = id)
      BY <3>1, SameMove
    <3>2. CASE kind = "signing_key" /\ k = id
      <4>1. keys[k].state # "NONE" /\ keys[k] \in KeyRow
        BY <2>1, <3>2, ExistingKey DEF knownTarget
      <4>2. keys'[k].state \in Dead /\ keys'[k].last_exp = keys[k].last_exp
            /\ (keys'[k].state = "RETIRED" => keys[k].state = "RETIRED")
        BY <2>1, <3>2, <4>1 DEF KeyRow, Dead
      <4> QED BY <4>1, <4>2 DEF KeyMoves, KeyRow, Dead
    <3> QED BY <2>1, <3>1, <3>2
  <2>5. TombsMove
    BY <2>1, <2>4 DEF TombsMove, knownTarget
  <2> QED BY <2>2, <2>3, <2>4, <2>5 DEF Moves, revokeMutator
<1> QED BY <1>1, <1>2 DEF revokeMutator

LEMMA PolicyMoves ==
  ASSUME TypeOK, NEW rev, NEW body, policyMutator(rev, body)
  PROVE  Moves /\ (\A t \in TokenId : TokenMoves(t)) /\ UNCHANGED lastToken
  BY SameMove DEF policyMutator, Moves, TombsMove

LEMMA RotateMoves ==
  ASSUME TypeOK, NEW old \in Kid, NEW new \in Kid, rotateMutator(old, new)
  PROVE  Moves /\ (\A t \in TokenId : TokenMoves(t)) /\ UNCHANGED <<policy, lastToken>>
<1>1. ASSUME NEW k \in Kid
      PROVE  KeyMoves(k)
  <2>1. CASE keys[k].state = "NONE"
    <3>1. k = new \/ k = activeKid \/ keys'[k] = keys[k]
      BY DEF rotateMutator, TypeOK, CredType
    <3>2. k # new => keys'[k] = keys[k]
      BY <2>1, <3>1 DEF rotateMutator, demoted, TypeOK, CredType
    <3>3. k = new => keys'[k].state = "ACTIVE"
      BY DEF rotateMutator, TypeOK, CredType
    <3> QED BY <2>1, <3>2, <3>3, SameMove DEF KeyMoves, Dead
  <2>2. CASE keys[k].state # "NONE"
    <3>1. k # new /\ keys[k] \in KeyRow
      BY <2>2, ExistingKey DEF rotateMutator
    <3>2. \/ keys'[k] = keys[k]
          \/ keys[k].state = "ACTIVE" /\ keys'[k] = [keys[k] EXCEPT !.state = "VERIFY_ONLY"]
      BY <3>1 DEF rotateMutator, demoted, TypeOK, CredType
    <3> QED BY <2>2, <3>1, <3>2, SameMove DEF KeyMoves, KeyRow, Dead
  <2> QED BY <2>1, <2>2
<1> QED BY <1>1, SameMove DEF rotateMutator, Moves, TombsMove

LEMMA MaintainMoves ==
  ASSUME TypeOK, NEW n \in 0 .. MaxTime, runMaintenance(n)
  PROVE  /\ Moves /\ (\A t \in TokenId : TokenMoves(t)) /\ UNCHANGED <<policy, lastToken>>
         /\ \A o \in ControlKid \X OpId :
              \/ operations'[o] = operations[o]
              \/ operations'[o] = NoRow /\ operations[o].exp <= lastNow'
                 /\ operations[o].state = "SAVED"
         /\ NoncesAge
<1>1. PICK taskB \in batch(dueIn(tasks, TaskId, "ACTIVE", n)),
           tokB  \in batch(dueIn(tokens, TokenId, "ACTIVE", n)),
           nonB  \in batch(dueIn(nonces, NonceId, "OPEN", n)),
           keyB  \in batch(drained(n)),
           sealB \in batch(purgeable(n)),
           callB \in batch(forgotten(n)) : runMaintenance(n)!(taskB, tokB, nonB, keyB, sealB, callB)
  BY DEF runMaintenance
<1>2. lastNow' >= n /\ n \in Nat /\ lastNow' \in Nat
  BY <1>1, NatConstants, BumpNowType DEF bumpNow, TypeOK, TimeType
<1>3. ASSUME NEW i \in TaskId
      PROVE  TaskMoves(i)
  <2>1. CASE tasks'[i] = tasks[i]
    BY <2>1, SameMove
  <2>2. CASE i \in taskB /\ tasks'[i] = [tasks[i] EXCEPT !.state = "EXPIRED"]
    <3>1. tasks[i].state = "ACTIVE" /\ tasks[i].exp <= n /\ tasks[i] \in TaskRow
      BY <2>2, ExistingTask DEF batch, dueIn
    <3>2. /\ tasks'[i].who = tasks[i].who /\ tasks'[i].exp = tasks[i].exp
          /\ tasks'[i].state = "EXPIRED" /\ tasks[i].exp \in Nat
      BY <2>2, <3>1 DEF TaskRow
    <3> QED BY <1>2, <3>1, <3>2 DEF TaskMoves
  <2> QED BY <1>1, <2>1, <2>2 DEF setState
<1>4. ASSUME NEW t \in TokenId
      PROVE  TokenMoves(t)
  <2>1. CASE tokens'[t] = tokens[t]
    BY <2>1, SameMove
  <2>2. CASE tokens'[t] = NoRow
    BY <2>2 DEF TokenMoves, NoRow
  <2>3. CASE t \in tokB /\ tokens'[t] = [tokens[t] EXCEPT !.state = "EXPIRED"]
    <3>1. tokens[t].state = "ACTIVE" /\ tokens[t].exp <= n /\ tokens[t] \in TokenRow
      BY <2>3, ExistingToken DEF batch, dueIn
    <3>2. tokens[t].exp \in Nat
      BY <3>1 DEF TokenRow
    <3> QED BY <1>2, <2>3, <3>1, <3>2 DEF TokenMoves, TokenRow
  <2> QED BY <1>1, <2>1, <2>2, <2>3 DEF setState
<1>5. ASSUME NEW k \in Kid
      PROVE  KeyMoves(k)
  <2>1. CASE keys'[k] = keys[k]
    BY <2>1, SameMove
  <2>2. CASE k \in keyB /\ keys'[k] = [keys[k] EXCEPT !.state = "RETIRED"]
    <3>1. keys[k].state = "VERIFY_ONLY" /\ keys[k].last_exp + PROOF_LEEWAY <= n
          /\ keys[k] \in KeyRow
      BY <2>2, ExistingKey DEF batch, drained
    <3>2. keys'[k].state = "RETIRED" /\ keys'[k].last_exp = keys[k].last_exp
          /\ keys[k].last_exp \in Nat
      BY <2>2, <3>1 DEF KeyRow
    <3> QED BY <1>2, <3>1, <3>2, NatConstants DEF KeyMoves, Dead
  <2> QED BY <1>1, <2>1, <2>2 DEF setState
<1>6. UNCHANGED <<policy, lastToken, revocations>>
  BY <1>1
<1>7. ASSUME NEW o \in ControlKid \X OpId
      PROVE  \/ operations'[o] = operations[o]
             \/ operations'[o] = NoRow /\ operations[o].exp <= lastNow'
                /\ operations[o].state = "SAVED"
  <2>1. \/ operations'[o] = operations[o]
        \/ operations'[o] = NoRow /\ operations[o].exp <= n /\ operations[o].state = "SAVED"
    BY <1>1 DEF TypeOK, LogType
  <2>2. operations[o].state = "SAVED" => operations[o].exp \in Nat
    BY DEF TypeOK, LogType, NoRow, OperationRow
  <2> QED BY <1>2, <2>1, <2>2
<1>8. NoncesAge
  <2>. SUFFICES ASSUME NEW x \in NonceId, nonces'[x].state = "EXPIRED"
                PROVE  \/ nonces[x].state = "EXPIRED" /\ nonces'[x].exp = nonces[x].exp
                       \/ nonces'[x].exp <= lastNow'
    BY DEF NoncesAge
  <2>1. CASE nonces'[x] = nonces[x]
    BY <2>1
  <2>2. CASE x \in nonB /\ nonces'[x] = [nonces[x] EXCEPT !.state = "EXPIRED"]
    <3>1. nonces[x].exp <= n /\ nonces[x] \in NonceRow
      BY <2>2 DEF batch, dueIn, TypeOK, CallType, NoRow
    <3>2. nonces'[x].exp = nonces[x].exp /\ nonces[x].exp \in Nat
      BY <2>2, <3>1 DEF NonceRow
    <3> QED BY <1>2, <3>1, <3>2
  <2> QED BY <1>1, <2>1, <2>2 DEF setState, NoRow
<1> QED BY <1>3, <1>4, <1>5, <1>6, <1>7, <1>8 DEF Moves, TombsMove

-----------------------------------------------------------------------------
\* The invariant

\* A token's key covers it and is retired only after it; its task is its
\* owner's and outlasts it.
Signed(t) ==
  tokens[t].state # "NONE" =>
    LET tok == tokens[t]  key == keys[tokens[t].kid]  task == tasks[tokens[t].task]
    IN /\ t <= lastToken /\ tok.iat <= lastNow
       /\ key.state # "NONE" /\ tok.exp <= key.last_exp
       /\ key.state = "RETIRED" => tok.exp <= lastNow
       /\ task.state # "NONE" /\ task.who = tok.who /\ tok.exp <= task.exp

\* What the checks read off a row and off the tombstones agrees.
Tombs ==
  /\ \A t \in TokenId : <<"token", t>> \in revocations => t <= lastToken
  /\ \A k \in Kid : <<"signing_key", k>> \in revocations => keys[k].state \in Dead
  /\ \A i \in TaskId : tasks[i].state = "REVOKED" =>
       <<"task", i>> \in revocations \/ <<"subject", tasks[i].who.sub>> \in revocations

CredInv == (\A t \in TokenId : Signed(t)) /\ Tombs /\ ExpiredStays

LEMMA LastTokenType == TypeOK => lastToken \in Nat /\ \A t \in TokenId : t \in Nat
  BY NatConstants DEF TypeOK, CredType, TokenId

LEMMA TokenFields ==
  ASSUME TypeOK, NEW t \in TokenId, tokens[t].state # "NONE"
  PROVE  /\ tokens[t].exp \in Nat /\ tokens[t].iat \in Nat
         /\ tokens[t].kid \in Kid /\ tokens[t].task \in TaskId
  BY ExistingToken DEF TokenRow

LEMMA LastExpType ==
  ASSUME TypeOK, NEW k \in Kid, keys[k].state # "NONE"
  PROVE  keys[k].last_exp \in Nat
  BY ExistingKey DEF KeyRow

LEMMA SignedStays ==
  ASSUME TypeOK, TypeOK', NEW t \in TokenId, Signed(t), TokenMoves(t), Moves,
         lastNow' >= lastNow, lastToken' >= lastToken
  PROVE  Signed(t)'
<1>. SUFFICES ASSUME tokens'[t].state # "NONE"
              PROVE  Signed(t)'
  BY DEF Signed
<1>. DEFINE k == tokens[t].kid  i == tokens[t].task
<1>1. /\ tokens[t].state # "NONE"
      /\ tokens'[t].task = i /\ tokens'[t].who = tokens[t].who
      /\ tokens'[t].kid = k /\ tokens'[t].iat = tokens[t].iat
      /\ tokens'[t].exp = tokens[t].exp
  BY DEF TokenMoves
<1>2. /\ t \in Nat /\ lastToken \in Nat /\ lastToken' \in Nat
      /\ lastNow \in Nat /\ lastNow' \in Nat
      /\ tokens[t].exp \in Nat /\ tokens[t].iat \in Nat /\ k \in Kid /\ i \in TaskId
  BY <1>1, LastTokenType, TokenFields, NatConstants DEF TypeOK, CredType, TimeType
<1>3. /\ t <= lastToken /\ tokens[t].iat <= lastNow
      /\ keys[k].state # "NONE" /\ tokens[t].exp <= keys[k].last_exp
      /\ keys[k].state = "RETIRED" => tokens[t].exp <= lastNow
      /\ tasks[i].state # "NONE" /\ tasks[i].who = tokens[t].who
      /\ tokens[t].exp <= tasks[i].exp
  BY <1>1 DEF Signed
<1>4. TaskMoves(i) /\ KeyMoves(k)
  BY <1>2 DEF Moves
<1>5. /\ tasks'[i].state # "NONE" /\ tasks'[i].who = tokens[t].who
      /\ tokens[t].exp <= tasks'[i].exp
  BY <1>3, <1>4 DEF TaskMoves
<1>6. /\ keys'[k].state # "NONE" /\ keys'[k].last_exp >= keys[k].last_exp
      /\ keys'[k].state = "RETIRED" =>
           keys[k].state = "RETIRED" \/ keys[k].last_exp <= lastNow'
  BY <1>3, <1>4 DEF KeyMoves
<1>7. keys[k].last_exp \in Nat /\ keys'[k].last_exp \in Nat
  BY <1>2, <1>3, <1>6, LastExpType, ExistingKey DEF TypeOK, CredType, KeyRow, NoRow
<1>. HIDE DEF k, i
<1>8. /\ t <= lastToken' /\ tokens[t].iat <= lastNow' /\ tokens[t].exp <= keys'[k].last_exp
      /\ keys'[k].state = "RETIRED" => tokens[t].exp <= lastNow'
  BY <1>2, <1>3, <1>6, <1>7
<1> QED BY <1>1, <1>5, <1>6, <1>8 DEF Signed

LEMMA TombsStay ==
  ASSUME TypeOK, TypeOK', Tombs, \A t \in TokenId : Signed(t), Moves,
         lastToken' >= lastToken
  PROVE  Tombs'
<1>1. ASSUME NEW t \in TokenId, <<"token", t>> \in revocations'
      PROVE  t <= lastToken'
  <2>1. t <= lastToken
    BY <1>1 DEF Moves, TombsMove, Tombs, Signed
  <2> QED BY <2>1, LastTokenType DEF TypeOK, CredType
<1>2. ASSUME NEW k \in Kid, <<"signing_key", k>> \in revocations'
      PROVE  keys'[k].state \in Dead
  BY <1>2 DEF Moves, TombsMove, KeyMoves, Tombs
<1>3. ASSUME NEW i \in TaskId, tasks'[i].state = "REVOKED"
      PROVE  \/ <<"task", i>> \in revocations'
             \/ <<"subject", tasks'[i].who.sub>> \in revocations'
  BY <1>3 DEF Moves, TombsMove, TaskMoves, Tombs
<1> QED BY <1>1, <1>2, <1>3 DEF Tombs

LEMMA ExpiredStep ==
  ASSUME TypeOK, TypeOK', ExpiredStays, Moves, NoncesAge, lastNow' >= lastNow,
         \A t \in TokenId : TokenMoves(t) \/ tokens'[t].state = "ACTIVE"
  PROVE  ExpiredStays'
<1>1. lastNow \in Nat /\ lastNow' \in Nat
  BY NatConstants DEF TypeOK, TimeType
<1>2. ASSUME NEW i \in TaskId, tasks'[i].state = "EXPIRED"
      PROVE  tasks'[i].exp <= lastNow'
  <2>1. tasks[i].state = "EXPIRED" => tasks[i].exp \in Nat /\ tasks'[i].exp = tasks[i].exp
    BY ExistingTask DEF Moves, TaskMoves, TaskRow
  <2>2. tasks[i].state = "EXPIRED" \/ tasks'[i].exp <= lastNow'
    BY <1>2 DEF Moves, TaskMoves
  <2> QED BY <1>1, <2>1, <2>2 DEF ExpiredStays
<1>3. ASSUME NEW t \in TokenId, tokens'[t].state = "EXPIRED"
      PROVE  tokens'[t].exp <= lastNow'
  <2>1. TokenMoves(t)
    BY <1>3
  <2>2. tokens'[t].exp = tokens[t].exp /\ tokens[t].exp \in Nat
    BY <1>3, <2>1, TokenFields DEF TokenMoves
  <2> QED BY <1>1, <1>3, <2>1, <2>2 DEF ExpiredStays, TokenMoves
<1>4. ASSUME NEW x \in NonceId, nonces'[x].state = "EXPIRED"
      PROVE  nonces'[x].exp <= lastNow'
  <2>1. nonces[x].state = "EXPIRED" => nonces[x].exp \in Nat
    BY DEF TypeOK, CallType, NoRow, NonceRow
  <2> QED BY <1>1, <1>4, <2>1 DEF NoncesAge, ExpiredStays
<1> QED BY <1>2, <1>3, <1>4 DEF ExpiredStays

\* Only handleNonce, admission and maintenance touch nonces.
OpenFor(t, c) == {x \in openNonces : nonces[x].tok = t /\ nonces[x].call = c}
NonceRowOf(t, c) == [tok |-> t, call |-> c, exp |-> now + NONCE_TTL, state |-> "OPEN"]

Consumes(t, nonce, c) == /\ nonces' = [nonces EXCEPT ![nonce].state = "CONSUMED"]
                         /\ nonceOpen(t, nonce, c)

\* The open nonces of t and c have all expired, and there is room without them.
Inserts(t, c) ==
  /\ bumpNow(now) /\ lastNonce < MaxNonce
  /\ insertNonce(NonceRowOf(t, c), OpenFor(t, c))
  /\ \A x \in OpenFor(t, c) : ~(now < nonces[x].exp)
  /\ Cardinality({x \in openNonces \ OpenFor(t, c) : nonces[x].tok = t}) < MAX_OPEN_NONCES_TOKEN
  /\ Cardinality(openNonces \ OpenFor(t, c)) < MAX_OPEN_NONCES_TENANT

NonceStep ==
  \/ UNCHANGED nonces
  \/ \E t \in TokenId, c \in Call : Inserts(t, c)
  \/ \E t, nonce, c : Consumes(t, nonce, c)
  \/ Maintain

LEMMA NonceSorted == [Next]_vars => NonceStep
<1>. SUFFICES ASSUME [Next]_vars
              PROVE  NonceStep
  OBVIOUS
<1>1. ASSUME NEW h, NEW t, NEW p, NEW nonce, NEW c, admissionTx(h, t, p, nonce, c)
      PROVE  NonceStep
  BY <1>1 DEF admissionTx, callVars, replayCall, admitCall, NonceStep, Consumes
<1>2. ASSUME NEW t \in TokenId, NEW p \in Proof, NEW c \in Call, handleNonce(t, p, c)
      PROVE  NonceStep
  <2>1. UNCHANGED nonces \/ Inserts(t, c)
    BY <1>2 DEF handleNonce, Inserts, OpenFor, NonceRowOf
  <2> QED BY <2>1 DEF NonceStep
<1>3. CASE AgentRequest
  <2>1. ASSUME NEW h, NEW t, NEW p, NEW nonce, NEW c, handleCall(h, t, p, nonce, c)
        PROVE  NonceStep
    BY <1>1, <2>1 DEF handleCall, callVars, NonceStep
  <2>2. ASSUME NEW t, NEW p, NEW i, handleResult(t, p, i)
        PROVE  NonceStep
    BY <2>2 DEF handleResult, callVars, NonceStep
  <2> QED BY <1>2, <1>3, <2>1, <2>2 DEF AgentRequest
<1>4. CASE ControlRequest
  BY <1>4, ControlSame DEF NonceStep
<1>5. CASE Answer
  <2>1. ASSUME NEW h, NEW obs, callHeraldAnswers(h, obs)
        PROVE  NonceStep
    BY <1>1, <2>1 DEF callHeraldAnswers, callVars, NonceStep
  <2>2. ASSUME NEW h, NEW obs, mintHeraldAnswers(h, obs)
        PROVE  NonceStep
    BY <2>2 DEF mintHeraldAnswers, mintTx, controlFrame, callVars, NonceStep
  <2>3. ASSUME NEW h, NEW o, adapterReturns(h, o)
        PROVE  NonceStep
    BY <2>3 DEF adapterReturns, NonceStep
  <2> QED BY <1>5, <2>1, <2>2, <2>3 DEF Answer
<1>6. CASE tick \/ StepBack \/ crash \/ Recover \/ UNCHANGED vars
  BY <1>6 DEF tick, StepBack, stepBack, crash, Recover, recover, vars, callVars, NonceStep
<1>7. CASE Maintain
  BY <1>7 DEF NonceStep
<1> QED BY <1>3, <1>4, <1>5, <1>6, <1>7 DEF Next

LEMMA OpenRow ==
  ASSUME TypeOK, NEW x \in NonceId, nonces[x].state # "NONE"
  PROVE  nonces[x] \in NonceRow
  BY DEF TypeOK, CallType, NoRow

\* A nonce other than the one consumed is left alone.
LEMMA ConsumeEffect ==
  ASSUME TypeOK, NEW t, NEW nonce, NEW c, Consumes(t, nonce, c), NEW x \in NonceId
  PROVE  nonces'[x] = nonces[x] \/ nonces'[x].state = "CONSUMED"
<1>1. x = nonce => nonces[x] \in NonceRow
  BY OpenRow DEF Consumes, nonceOpen
<1> QED BY <1>1 DEF Consumes, TypeOK, CallType, NonceRow

\* The new nonce is open, those it replaces are closed, the others stay.
LEMMA InsertEffect ==
  ASSUME TypeOK, NEW t \in TokenId, NEW c \in Call, Inserts(t, c), NEW x \in NonceId
  PROVE  \/ x = lastNonce + 1 /\ nonces'[x] = NonceRowOf(t, c)
         \/ x # lastNonce + 1 /\ x \in OpenFor(t, c) /\ nonces[x] \in NonceRow
            /\ nonces'[x] = [nonces[x] EXCEPT !.state = "EXPIRED"]
         \/ x # lastNonce + 1 /\ x \notin OpenFor(t, c) /\ nonces'[x] = nonces[x]
<1>1. x \in OpenFor(t, c) => nonces[x] \in NonceRow
  BY OpenRow DEF OpenFor, openNonces
<1> QED BY <1>1 DEF Inserts, insertNonce

LEMMA NoncesAgeStep == TypeOK /\ [Next]_vars => NoncesAge
<1>. SUFFICES ASSUME TypeOK, [Next]_vars
              PROVE  NoncesAge
  OBVIOUS
<1>1. CASE UNCHANGED nonces
  BY <1>1 DEF NoncesAge
<1>2. ASSUME NEW t, NEW nonce, NEW c, Consumes(t, nonce, c)
      PROVE  NoncesAge
  BY <1>2, ConsumeEffect DEF NoncesAge
<1>3. ASSUME NEW t \in TokenId, NEW c \in Call, Inserts(t, c)
      PROVE  NoncesAge
  <2>. SUFFICES ASSUME NEW x \in NonceId, nonces'[x].state = "EXPIRED"
                PROVE  \/ nonces[x].state = "EXPIRED" /\ nonces'[x].exp = nonces[x].exp
                       \/ nonces'[x].exp <= lastNow'
    BY DEF NoncesAge
  <2>1. lastNow' = now /\ now \in Nat
    BY <1>3, BumpToNow, NowType DEF TypeOK, Inserts
  <2>2. NonceRowOf(t, c).state = "OPEN"
    BY DEF NonceRowOf
  <2>3. CASE x \in OpenFor(t, c) /\ nonces'[x] = [nonces[x] EXCEPT !.state = "EXPIRED"]
             /\ nonces[x] \in NonceRow
    <3>1. nonces'[x].exp = nonces[x].exp /\ nonces[x].exp \in Nat
      BY <2>3 DEF NonceRow
    <3>2. ~(now < nonces[x].exp)
      BY <1>3, <2>3 DEF Inserts
    <3> QED BY <2>1, <3>1, <3>2
  <2> QED BY <1>3, <2>2, <2>3, InsertEffect
<1>4. CASE Maintain
  BY <1>4, MaintainMoves, NowType DEF Maintain, TypeOK, TimeType
<1> QED BY <1>1, <1>2, <1>3, <1>4, NonceSorted DEF NonceStep

\* What the kinds of steps have in common.
LEMMA StepMoves ==
  ASSUME TypeOK, MintsBound, [Next]_vars
  PROVE  /\ Moves /\ lastNow' >= lastNow /\ lastToken' >= lastToken
         /\ \/ \A t \in TokenId : TokenMoves(t)
            \/ /\ \E req \in MintRequest, o \in ControlKid \X OpId : Mints(req, o)
               /\ \A t \in TokenId : t # lastToken + 1 => TokenMoves(t)
               /\ tokens'[lastToken + 1].state = "ACTIVE"
<1>1. lastNow' >= lastNow /\ lastToken \in Nat
  BY ClockMonotone, LastTokenType
<1>2. CASE Still
  BY <1>1, <1>2, StillMoves DEF Still, credVars
<1>3. ASSUME NEW req \in MintRequest, NEW o \in ControlKid \X OpId, Mints(req, o)
      PROVE  /\ Moves /\ lastToken' >= lastToken
             /\ \A t \in TokenId : t # lastToken + 1 => TokenMoves(t)
             /\ tokens'[lastToken + 1].state = "ACTIVE"
  <2>1. mintMutator(req) /\ lastNow' = now
    BY <1>3 DEF Mints, Journals
  <2>2. /\ Moves /\ lastToken' = lastToken + 1
        /\ \A t \in TokenId : t # lastToken + 1 => TokenMoves(t)
        /\ tokens'[lastToken + 1].state = "ACTIVE"
    BY <2>1, MintEffect
  <2> QED BY <1>1, <2>2
<1>4. CASE \E o \in ControlKid \X OpId : Mutates(o)
  <2>1. \/ \E target \in Target : revokeMutator(target[1], target[2])
        \/ \E rev \in 1 .. MaxRevision, body \in Policy : policyMutator(rev, body)
        \/ \E old \in Kid, new \in Kid : rotateMutator(old, new)
    BY <1>4 DEF Mutates
  <2> QED BY <1>1, <2>1, RevokeMoves, PolicyMoves, RotateMoves
<1>5. CASE Maintain
  BY <1>1, <1>5, MaintainMoves, NowType DEF Maintain, TypeOK, TimeType
<1>6. CASE \E req \in MintRequest, o \in ControlKid \X OpId : Mints(req, o)
  BY <1>1, <1>3, <1>6
<1>7. MintsBound /\ [Next]_vars => CredStep
  BY EveryStepIsACredStep
<1> QED BY <1>2, <1>4, <1>5, <1>6, <1>7 DEF CredStep

LEMMA CredStepKeeps ==
  ASSUME TypeOK, TypeOK', MintsBound, CredInv, [Next]_vars
  PROVE  CredInv'
<1>1. /\ Moves /\ lastNow' >= lastNow /\ lastToken' >= lastToken
      /\ \/ \A t \in TokenId : TokenMoves(t)
         \/ /\ \E req \in MintRequest, o \in ControlKid \X OpId : Mints(req, o)
            /\ \A t \in TokenId : t # lastToken + 1 => TokenMoves(t)
            /\ tokens'[lastToken + 1].state = "ACTIVE"
  BY StepMoves
<1>2. ASSUME NEW t \in TokenId
      PROVE  Signed(t)'
  <2>1. CASE TokenMoves(t)
    BY <1>1, <2>1, SignedStays DEF CredInv
  <2>2. ASSUME NEW req \in MintRequest, NEW o \in ControlKid \X OpId, Mints(req, o),
               t = lastToken + 1
        PROVE  Signed(t)'
    <3>. DEFINE tok == tokens'[t]
    <3>1. /\ lastToken' = t /\ tok.state = "ACTIVE" /\ tok.task = req.task
          /\ tok.who = req.who /\ tok.kid = activeKid /\ tok.iat = now
          /\ keys'[activeKid].state = "ACTIVE" /\ tok.exp <= keys'[activeKid].last_exp
          /\ tasks'[req.task].state = "ACTIVE" /\ tasks'[req.task].who = req.who
          /\ tok.exp <= tasks'[req.task].exp
      BY <2>2, MintEffect DEF Mints, Journals
    <3>2. lastNow' = now /\ now \in Nat /\ t \in Nat
      BY <2>2, NowType, LastTokenType DEF Mints, Journals, TypeOK
    <3> QED BY <3>1, <3>2 DEF Signed
  <2> QED BY <1>1, <2>1, <2>2
<1>3. Tombs'
  BY <1>1, TombsStay DEF CredInv
<1>4. \A t \in TokenId : TokenMoves(t) \/ tokens'[t].state = "ACTIVE"
  BY <1>1
<1>5. ExpiredStays'
  BY <1>1, <1>4, NoncesAgeStep, ExpiredStep DEF CredInv
<1> QED BY <1>2, <1>3, <1>5 DEF CredInv

LEMMA CredInvHolds == Spec => [](TypeOK /\ MintsBound /\ CredInv)
<1>1. Init => MintsBound /\ CredInv
  BY DEF Init, MintsBound, Idle, CredInv, Signed, Tombs, ExpiredStays, NoRow
<1> QED BY <1>1, CredStepKeeps, MintsBoundStep, TypeCorrect, TypeStep, PTL DEF Spec

-----------------------------------------------------------------------------
\* The theorems

\* What maintenance has expired stays expired, although the physical clock may
\* step back: last_now has passed the expiry.
THEOREM ExpiredStaysExpired == Spec => []ExpiredStays
<1>1. CredInv => ExpiredStays
  BY DEF CredInv
<1> QED BY <1>1, CredInvHolds, PTL

\* A signing key is retired only after every token it signed has expired.
THEOREM RetiredKeysAreDrained == Spec => []RetiredKeyDrained
<1>1. CredInv => RetiredKeyDrained
  BY DEF CredInv, Signed, RetiredKeyDrained
<1> QED BY <1>1, CredInvHolds, PTL

LEMMA InspectSound == TypeOK /\ CredInv => InspectAgrees
<1>. SUFFICES ASSUME TypeOK, CredInv, NEW t \in TokenId, tokens[t].state # "NONE"
              PROVE  (derivedTokenState(t) = "ACTIVE") = credentialLive(t)
  BY DEF InspectAgrees
<1>. DEFINE tok == tokens[t]  task == tasks[tokens[t].task]  key == keys[tokens[t].kid]
<1>1. /\ tok.exp \in Nat /\ tok.iat \in Nat /\ tok.kid \in Kid /\ tok.task \in TaskId
      /\ lastNow \in Nat /\ now \in Nat /\ now >= lastNow /\ PROOF_LEEWAY \in Nat
  BY TokenFields, NowType, NowAhead, NatConstants DEF TypeOK, TimeType
<1>2. /\ tok.iat <= lastNow /\ key.state # "NONE"
      /\ key.state = "RETIRED" => tok.exp <= lastNow
      /\ task.state # "NONE" /\ task.who = tok.who /\ tok.exp <= task.exp
  BY DEF CredInv, Signed
<1>3. task.exp \in Nat /\ task.state \in {"ACTIVE", "REVOKED", "EXPIRED"}
      /\ key.state \in {"ACTIVE", "VERIFY_ONLY", "COMPROMISED", "RETIRED"}
  BY <1>1, <1>2, ExistingTask, ExistingKey DEF TaskRow, KeyRow
<1>4. /\ key.state = "RETIRED" => ~(now < tok.exp)
      /\ task.state = "EXPIRED" => ~(now < tok.exp)
      /\ now < tok.exp => now < task.exp
      /\ tok.iat <= now + PROOF_LEEWAY
  BY <1>1, <1>2, <1>3 DEF CredInv, ExpiredStays
<1>5. now >= tok.exp <=> ~(now < tok.exp)
  BY <1>1
<1>6. task.state = "REVOKED" =>
        revocation("task", tok.task) \/ revocation("subject", tok.who.sub)
  BY <1>1, <1>2 DEF CredInv, Tombs, revocation
<1>7. revocation("signing_key", tok.kid) => key.state \in Dead
  BY <1>1 DEF CredInv, Tombs, revocation
<1>8. derivedTokenState(t) = "ACTIVE" <=>
        /\ tok.state # "REVOKED" /\ ~revocation("token", t)
        /\ ~revocation("task", tok.task) /\ ~revocation("subject", tok.who.sub)
        /\ ~revocation("signing_key", tok.kid) /\ key.state # "COMPROMISED"
        /\ ~(now >= tok.exp) /\ tok.policy = policy
  BY DEF derivedTokenState
<1>9. credentialLive(t) <=>
        /\ now < tok.exp /\ tok.iat <= now + PROOF_LEEWAY
        /\ tok.state # "REVOKED" /\ ~revocation("token", t)
        /\ key.state \in {"ACTIVE", "VERIFY_ONLY"}
        /\ ~revocation("signing_key", tok.kid) /\ ~revocation("subject", tok.who.sub)
        /\ ~revocation("task", tok.task)
        /\ task.state = "ACTIVE" /\ now < task.exp
        /\ task.who = tok.who /\ tok.policy = policy
  BY DEF credentialLive
<1>. HIDE DEF tok, task, key
<1>10. derivedTokenState(t) = "ACTIVE" <=> credentialLive(t)
  BY <1>2, <1>3, <1>4, <1>5, <1>6, <1>8, <1>9
<1>11. credentialLive(t) \in BOOLEAN
  BY DEF credentialLive
<1> QED BY <1>10, <1>11

\* /inspect reports ACTIVE for exactly the tokens the agent routes let through,
\* although it reads neither the task row nor the RETIRED state of the key: a
\* live token's task is its owner's, unexpired and revoked only under a
\* tombstone, and its key is not drained.
THEOREM InspectTellsTheTruth == Spec => []InspectAgrees
  BY InspectSound, CredInvHolds, PTL

LEMMA RequiredStep ==
  TypeOK /\ MintsBound /\ RequiredIsBound /\ [Next]_vars => RequiredIsBound'
<1>. SUFFICES ASSUME TypeOK, MintsBound, RequiredIsBound, [Next]_vars,
                     NEW t \in TokenId, tokens'[t].state # "NONE",
                     tokens'[t].policy.body.herald[tokens'[t].who.sub] = "required"
              PROVE  tokens'[t].who.herald
  BY DEF RequiredIsBound
<1>1. CASE TokenMoves(t)
  BY <1>1 DEF TokenMoves, RequiredIsBound
<1>2. ASSUME NEW req \in MintRequest, NEW o \in ControlKid \X OpId, Mints(req, o),
             t = lastToken + 1
      PROVE  tokens'[t].who.herald
  <2>1. /\ tokens'[t].who = req.who /\ tokens'[t].policy = policy
        /\ req.who.sub \in policy.body.principals
    BY <1>2, MintEffect DEF Mints, Journals
  <2> QED BY <1>2, <2>1 DEF Mints, asksBound
<1> QED BY <1>1, <1>2, StepMoves

\* No principal for whom the policy requires a Herald card is minted an unbound
\* token under that policy, although the mint awaits Herald between its checks
\* and its transaction: only a bound request waits.
THEOREM RequiredTokensAreBound == Spec => []RequiredIsBound
<1>1. Init => RequiredIsBound
  BY DEF Init, RequiredIsBound, NoRow
<1> QED BY <1>1, RequiredStep, CredInvHolds, PTL DEF Spec

LEMMA MintedLive ==
  ASSUME TypeOK, TypeOK', MintsBound, CredInv, CredInv', [Next]_vars,
         lastToken' > lastToken
  PROVE  credentialLive(lastToken)'
<1>1. PICK req \in MintRequest, o \in ControlKid \X OpId : Mints(req, o)
  <2>1. ~(lastToken > lastToken)
    BY LastTokenType
  <2>2. \A o \in ControlKid \X OpId : Mutates(o) => UNCHANGED lastToken
    BY DEF Mutates, revokeMutator, policyMutator, rotateMutator
  <2>3. Maintain => UNCHANGED lastToken
    BY DEF Maintain, runMaintenance
  <2> QED BY <2>1, <2>2, <2>3, EveryStepIsACredStep DEF CredStep, Still, credVars
<1>2. /\ lastToken' \in TokenId /\ lastToken' = lastToken + 1 /\ UNCHANGED <<policy, revocations>>
      /\ tokens'[lastToken'].state = "ACTIVE" /\ tokens'[lastToken'].task = req.task
      /\ tokens'[lastToken'].who = req.who /\ tokens'[lastToken'].kid = activeKid
      /\ tokens'[lastToken'].policy = policy /\ tokens'[lastToken'].iat = now
      /\ tokens'[lastToken'].exp = now + req.ttl /\ req.ttl \in Nat /\ req.ttl > 0
      /\ keys'[activeKid].state = "ACTIVE" /\ activeKid \in Kid
      /\ tasks'[req.task].state = "ACTIVE" /\ tasks'[req.task].who = req.who
      /\ tokens'[lastToken'].exp <= tasks'[req.task].exp /\ req.task \in TaskId
      /\ notRevoked(req)
  BY <1>1, MintEffect DEF Mints, Journals, TypeOK, CredType
<1>3. now' = now /\ now \in Nat /\ PROOF_LEEWAY \in Nat /\ lastToken \in Nat
  BY <1>1, NowType, LastTokenType, NatConstants
     DEF Mints, Journals, TypeOK, TimeType, now
<1>4. tasks'[req.task].exp \in Nat
  BY <1>2, ExistingTask DEF TypeOK, CredType, TaskRow, NoRow
<1>5. /\ now' < tokens'[lastToken'].exp /\ tokens'[lastToken'].iat <= now' + PROOF_LEEWAY
      /\ now' < tasks'[req.task].exp
  BY <1>2, <1>3, <1>4
<1>6. ~(<<"token", lastToken'>> \in revocations')
  BY <1>2, <1>3 DEF CredInv, Tombs
<1>7. ~(<<"signing_key", activeKid>> \in revocations')
  BY <1>2 DEF CredInv, Tombs, Dead
<1>8. ~(<<"task", req.task>> \in revocations') /\ ~(<<"subject", req.who.sub>> \in revocations')
  BY <1>2 DEF notRevoked, revocation
<1> QED BY <1>2, <1>5, <1>6, <1>7, <1>8 DEF credentialLive, revocation

\* A token handed out by mint is usable at that moment, whatever was revoked,
\* rotated or re-policied while the mint waited for Herald.
THEOREM MintedTokensAreLive == Spec => MintLive
<1>1. TypeOK /\ TypeOK' /\ MintsBound /\ CredInv /\ CredInv' /\ [Next]_vars
        => (lastToken' > lastToken => credentialLive(lastToken)')
  BY MintedLive
<1> QED BY <1>1, CredInvHolds, TypeCorrect, TypeStep, PTL DEF Spec, MintLive

-----------------------------------------------------------------------------
\* Dispatches

\* A token grants no more than the policy it was minted under.
Granted(t) ==
  tokens[t].state # "NONE" =>
    tokens[t].scopes \subseteq tokens[t].policy.body.granted[tokens[t].who.sub]

LEMMA GrantedStep ==
  ASSUME TypeOK, MintsBound, \A t \in TokenId : Granted(t), [Next]_vars
  PROVE  \A t \in TokenId : Granted(t)'
<1>. SUFFICES ASSUME NEW t \in TokenId
              PROVE  Granted(t)'
  OBVIOUS
<1>1. CASE TokenMoves(t)
  BY <1>1 DEF TokenMoves, Granted
<1>2. ASSUME NEW req \in MintRequest, NEW o \in ControlKid \X OpId, Mints(req, o),
             t = lastToken + 1
      PROVE  Granted(t)'
  <2>1. mintMutator(req)
    BY <1>2 DEF Mints
  <2>2. /\ tokens'[t].who = req.who /\ tokens'[t].policy = policy
        /\ tokens'[t].scopes = req.scopes
    BY <1>2, <2>1 DEF mintMutator, TypeOK, CredType
  <2>3. req.scopes \subseteq policy.body.granted[req.who.sub]
    BY <2>1 DEF mintMutator, checkMintScopes
  <2> QED BY <2>2, <2>3 DEF Granted
<1> QED BY <1>1, <1>2, StepMoves

\* What the property says of a step that dispatches c.
Authorised(c) ==
  \E t \in TokenId :
    /\ credentialLive(t) /\ checkClockSafe
    /\ tokens[t].task = c.task
    /\ c \in policy.body.granted[tokens[t].who.sub]
    /\ c.tool \notin policy.body.hard_deny
    /\ destructive(c) =>
         \E x \in NonceId : nonceOpen(t, x, c) /\ nonces'[x].state = "CONSUMED"

LEMMA AdmissionAuthorised ==
  ASSUME TypeOK, NEW h \in Handler, NEW t \in TokenId, NEW p \in Proof,
         NEW nonce \in {0} \cup NonceId, NEW c \in Call, Granted(t),
         Admits(h, t, p, nonce, c)
  PROVE  Authorised(c)
<1>1. recheck(t, p, c) /\ admitCall(t, p, nonce, c)
  BY DEF Admits
<1>2. /\ credentialLive(t) /\ checkClockSafe /\ tokens[t].task = c.task
      /\ c.tool \notin policy.body.hard_deny /\ c \in tokens[t].scopes
  BY <1>1 DEF recheck, agentPrecheck, scopeCheck
<1>3. tokens[t].state # "NONE" /\ tokens[t].policy = policy
  BY <1>2 DEF credentialLive
<1>4. c \in policy.body.granted[tokens[t].who.sub]
  BY <1>2, <1>3 DEF Granted
<1>5. ASSUME destructive(c)
      PROVE  nonce \in NonceId /\ nonceOpen(t, nonce, c) /\ nonces'[nonce].state = "CONSUMED"
  <2>1. nonceOpen(t, nonce, c) /\ nonces' = [nonces EXCEPT ![nonce].state = "CONSUMED"]
    BY <1>1, <1>5 DEF admitCall
  <2>2. nonce \in NonceId /\ nonces[nonce].state = "OPEN"
    BY <2>1 DEF nonceOpen
  <2>3. nonces \in [NonceId -> NonceRow \cup {NoRow}]
    BY DEF TypeOK, CallType
  <2>4. nonces[nonce] \in NonceRow
    BY <2>2, <2>3 DEF NoRow
  <2>5. nonces'[nonce].state = "CONSUMED"
    BY <2>1, <2>2, <2>3, <2>4 DEF NonceRow
  <2> QED BY <2>1, <2>2, <2>5
<1> QED BY <1>2, <1>4, <1>5 DEF Authorised

LEMMA DispatchStepAuthorised ==
  ASSUME TypeOK, MintsBound, \A t \in TokenId : Granted(t), [Next]_vars,
         NEW c \in Call, dispatches'[c] > dispatches[c]
  PROVE  Authorised(c)
<1>1. dispatches \in [Call -> Nat] /\ ~(dispatches[c] > dispatches[c])
  <2>1. dispatches \in [Call -> Nat]
    BY DEF TypeOK, ObsType
  <2> QED BY <2>1
<1>2. UNCHANGED dispatches => ~(dispatches'[c] > dispatches[c])
  BY <1>1
<1>3. /\ Idles => UNCHANGED dispatches
      /\ \A i \in CallId : Reads(i) => UNCHANGED dispatches
      /\ \A d \in Call, row \in NonceRow, closed \in SUBSET openNonces :
           Issues(d, row, closed) => UNCHANGED dispatches
  BY DEF Idles, Reads, Issues, Quiet
<1>4. \A h \in Handler, outcome \in Terminal :
        adapterReturns(h, outcome) => UNCHANGED dispatches
  BY DEF adapterReturns
<1>5. Recover \/ Maintain => UNCHANGED dispatches
  <2>1. \A n \in {phys, now} : recover(n) => UNCHANGED dispatches
    BY DEF recover, obsVars
  <2>2. Maintain => UNCHANGED obsVars
    BY DEF Maintain, runMaintenance
  <2> QED BY <2>1, <2>2 DEF Recover, obsVars
<1>6. ASSUME NEW h \in Handler, NEW t \in TokenId, NEW p \in Proof,
             NEW nonce \in {0} \cup NonceId, NEW d \in Call,
             Admits(h, t, p, nonce, d)
      PROVE  Authorised(c)
  <2>1. \/ UNCHANGED dispatches
        \/ dispatches' = [dispatches EXCEPT ![d] = @ + 1]
    BY <1>6 DEF Admits
  <2>2. c = d
    BY <1>1, <2>1
  <2>3. Authorised(d)
    BY <1>6, AdmissionAuthorised
  <2> QED BY <2>2, <2>3
<1> QED BY <1>2, <1>3, <1>4, <1>5, <1>6, EveryStepIsSorted DEF ServiceStep

\* Every dispatch is authorised when it happens: the checks made before the
\* Herald await are made again with the admission, and what the token grants the
\* policy in force granted when it was minted, because a token of another policy
\* is not live.
THEOREM DispatchesAreAuthorised == Spec => DispatchAuthorised
<1>1. Init => \A t \in TokenId : Granted(t)
  BY DEF Init, Granted, NoRow
<1>2. /\ TypeOK /\ MintsBound /\ (\A t \in TokenId : Granted(t)) /\ [Next]_vars
           => (\A t \in TokenId : Granted(t))'
  BY GrantedStep
<1>3. /\ TypeOK /\ MintsBound /\ (\A t \in TokenId : Granted(t)) /\ [Next]_vars
           => [\A c \in Call : dispatches'[c] > dispatches[c] => Authorised(c)]_vars
  BY DispatchStepAuthorised
<1> QED BY <1>1, <1>2, <1>3, CredInvHolds, PTL DEF Spec, DispatchAuthorised, Authorised

-----------------------------------------------------------------------------
\* The journal of mints.  An operation names a token that was handed out, two
\* operations never name the same one, and the operation of a token is kept
\* at least until the token has expired.

Operation == ControlKid \X OpId
names(o, t) == operations[o].state = "SAVED" /\ operations[o].tok = t

Journalled(t) ==
  tokens[t].state # "NONE" =>
    \/ tokens[t].exp <= lastNow
    \/ \E o \in Operation : names(o, t) /\ tokens[t].exp <= operations[o].exp

JournalInv ==
  /\ \A o \in Operation : operations[o].state = "SAVED" =>
       operations[o].tok \in 0 .. lastToken
  /\ \A o1, o2 \in Operation : \A t \in TokenId : names(o1, t) /\ names(o2, t) => o1 = o2
  /\ \A t \in TokenId : Journalled(t)

\* An operation stays, is purged when its time has passed, or is new.
OperationMoves(o, tok) ==
  \/ operations'[o] = operations[o]
  \/ operations'[o].state = "NONE" /\ operations[o].exp <= lastNow'
  \/ /\ operations[o].state = "NONE" /\ operations'[o].state = "SAVED"
     /\ operations'[o].tok = tok

LEMMA JournalsMoves ==
  ASSUME TypeOK, NEW p \in Operation, NEW tok, Journals(p, tok)
  PROVE  /\ operations[p].state = "NONE" /\ operations'[p].state = "SAVED"
         /\ operations'[p].tok = tok /\ operations'[p].exp = now + OPERATION_RETENTION
         /\ \A o \in Operation : o # p => operations'[o] = operations[o]
<1>1. PICK digest \in Request :
        operations' = [operations EXCEPT ![p] =
          [state |-> "SAVED", digest |-> digest, tok |-> tok,
           exp |-> now + OPERATION_RETENTION]]
  BY DEF Journals
<1>2. DOMAIN operations = Operation
  BY DEF TypeOK, LogType, Operation
<1> QED BY <1>1, <1>2 DEF Journals

\* What is journalled keeps its operation in a step that mints no token.
LEMMA JournalKept ==
  ASSUME TypeOK, TypeOK', JournalInv, lastNow' >= lastNow, lastToken' = lastToken,
         \A t \in TokenId : TokenMoves(t),
         \A o \in Operation : OperationMoves(o, 0)
  PROVE  JournalInv'
<1>1. /\ lastToken \in Nat /\ lastNow \in Nat /\ \A t \in TokenId : t # 0 /\ t \in Nat
      /\ lastNow' \in Nat
  BY LastTokenType DEF TypeOK, TimeType, TokenId
<1>2. ASSUME NEW o \in Operation, NEW t \in TokenId, names(o, t)'
      PROVE  names(o, t)
  BY <1>1, <1>2 DEF names, OperationMoves
<1>3. \A o \in Operation : operations'[o].state = "SAVED" => operations'[o].tok \in 0 .. lastToken'
  BY <1>1 DEF OperationMoves, JournalInv
<1>4. \A o1, o2 \in Operation : \A t \in TokenId : names(o1, t)' /\ names(o2, t)' => o1 = o2
  BY <1>2 DEF JournalInv
<1>5. ASSUME NEW t \in TokenId, tokens'[t].state # "NONE"
      PROVE  \/ tokens'[t].exp <= lastNow'
             \/ \E o \in Operation : names(o, t)' /\ tokens'[t].exp <= operations'[o].exp
  <2>1. /\ tokens[t].state # "NONE" /\ tokens'[t].exp = tokens[t].exp
        /\ tokens[t].exp \in Nat
    BY <1>5, TokenFields DEF TokenMoves
  <2>2. CASE tokens[t].exp <= lastNow
    BY <1>1, <2>1, <2>2
  <2>3. ASSUME NEW o \in Operation, names(o, t), tokens[t].exp <= operations[o].exp
        PROVE  \/ tokens'[t].exp <= lastNow'
               \/ names(o, t)' /\ tokens'[t].exp <= operations'[o].exp
    <3>1. operations[o].exp \in Nat
      BY <2>3 DEF names, TypeOK, LogType, Operation, NoRow, OperationRow
    <3>2. OperationMoves(o, 0)
      OBVIOUS
    <3> QED BY <1>1, <2>1, <2>3, <3>1, <3>2 DEF OperationMoves, names
  <2> QED BY <2>1, <2>2, <2>3 DEF JournalInv, Journalled
<1> QED BY <1>3, <1>4, <1>5 DEF JournalInv, Journalled

\* A mint journals the token it hands out, and no other operation names it.
LEMMA MintIsJournalled ==
  ASSUME TypeOK, TypeOK', JournalInv, lastNow' >= lastNow,
         NEW req \in MintRequest, NEW p \in Operation, Mints(req, p)
  PROVE  JournalInv'
<1>. DEFINE x == lastToken + 1
<1>1. /\ x \in TokenId /\ lastToken' = x /\ tokens'[x].exp = now + req.ttl
      /\ req.ttl \in Nat /\ req.ttl <= TOKEN_TTL_MAX
      /\ \A t \in TokenId : t # x => TokenMoves(t)
  BY MintEffect DEF Mints, Journals
<1>2. /\ operations[p].state = "NONE" /\ operations'[p].state = "SAVED"
      /\ operations'[p].tok = x /\ operations'[p].exp = now + OPERATION_RETENTION
      /\ \A o \in Operation : o # p => operations'[o] = operations[o]
  BY JournalsMoves DEF Mints
<1>3. /\ lastToken \in Nat /\ lastNow \in Nat /\ now \in Nat
      /\ \A t \in TokenId : t # 0 /\ t \in Nat
      /\ lastNow' \in Nat
      /\ OPERATION_RETENTION \in Nat /\ OPERATION_RETENTION >= TOKEN_TTL_MAX
      /\ TOKEN_TTL_MAX \in Nat
  BY LastTokenType, NowType, ConstantAssumption DEF TypeOK, TimeType, TokenId
<1>. HIDE DEF x
<1>4. lastToken' > lastToken /\ x > lastToken
  BY <1>1, <1>3 DEF x
<1>5. \A o \in Operation : operations'[o].state = "SAVED" => operations'[o].tok \in 0 .. lastToken'
  <2>. SUFFICES ASSUME NEW o \in Operation, operations'[o].state = "SAVED"
                PROVE  operations'[o].tok \in 0 .. lastToken'
    OBVIOUS
  <2>1. CASE o = p
    BY <1>1, <1>2, <1>3, <2>1 DEF x
  <2>2. CASE o # p
    <3>1. operations[o].tok \in 0 .. lastToken /\ operations'[o] = operations[o]
      BY <1>2, <2>2 DEF JournalInv
    <3> QED BY <1>1, <1>3, <1>4, <3>1 DEF x
  <2> QED BY <2>1, <2>2
<1>6. ASSUME NEW o \in Operation, NEW t \in TokenId, names(o, t)'
      PROVE  IF o = p THEN t = x ELSE t # x /\ names(o, t)
  <2>1. CASE o = p
    BY <1>2, <1>6, <2>1 DEF names
  <2>2. CASE o # p
    <3>1. operations'[o] = operations[o]
      BY <1>2, <2>2
    <3>2. names(o, t)
      BY <1>6, <3>1 DEF names
    <3>3. t \in 0 .. lastToken
      BY <3>2 DEF names, JournalInv
    <3> QED BY <1>3, <1>4, <2>2, <3>2, <3>3 DEF x
  <2> QED BY <2>1, <2>2
<1>7. \A o1, o2 \in Operation : \A t \in TokenId : names(o1, t)' /\ names(o2, t)' => o1 = o2
  BY <1>6 DEF JournalInv
<1>8. ASSUME NEW t \in TokenId, tokens'[t].state # "NONE"
      PROVE  \/ tokens'[t].exp <= lastNow'
             \/ \E o \in Operation : names(o, t)' /\ tokens'[t].exp <= operations'[o].exp
  <2>1. CASE t = x
    <3>1. names(p, t)'
      BY <1>2, <2>1 DEF names
    <3>2. tokens'[t].exp <= operations'[p].exp
      BY <1>1, <1>2, <1>3, <2>1
    <3> QED BY <3>1, <3>2
  <2>2. CASE t # x
    <3>1. /\ tokens[t].state # "NONE" /\ tokens'[t].exp = tokens[t].exp
          /\ tokens[t].exp \in Nat
      BY <1>1, <1>8, <2>2, TokenFields DEF TokenMoves
    <3>2. CASE tokens[t].exp <= lastNow
      BY <1>3, <3>1, <3>2
    <3>3. ASSUME NEW o \in Operation, names(o, t), tokens[t].exp <= operations[o].exp
          PROVE  names(o, t)' /\ tokens'[t].exp <= operations'[o].exp
      <4>1. o # p
        BY <1>2, <3>3 DEF names
      <4>2. operations'[o] = operations[o]
        BY <1>2, <4>1
      <4> QED BY <3>1, <3>3, <4>2 DEF names
    <3> QED BY <3>1, <3>2, <3>3 DEF JournalInv, Journalled
  <2> QED BY <2>1, <2>2
<1> QED BY <1>5, <1>7, <1>8 DEF JournalInv, Journalled

LEMMA JournalStep ==
  ASSUME TypeOK, TypeOK', MintsBound, JournalInv, [Next]_vars
  PROVE  JournalInv'
<1>1. lastNow' >= lastNow
  BY ClockMonotone
<1>2. CASE Still
  <2>1. /\ lastToken' = lastToken /\ \A t \in TokenId : TokenMoves(t)
        /\ \A o \in Operation : OperationMoves(o, 0)
    BY <1>2, StillMoves DEF Still, credVars, OperationMoves
  <2> QED BY <1>1, <2>1, JournalKept
<1>3. CASE \E req \in MintRequest, o \in ControlKid \X OpId : Mints(req, o)
  BY <1>1, <1>3, MintIsJournalled DEF Operation
<1>4. ASSUME NEW p \in Operation, Mutates(p)
      PROVE  JournalInv'
  <2>1. \/ \E target \in Target : revokeMutator(target[1], target[2])
        \/ \E rev \in 1 .. MaxRevision, body \in Policy : policyMutator(rev, body)
        \/ \E old \in Kid, new \in Kid : rotateMutator(old, new)
    BY <1>4 DEF Mutates
  <2>2. (\A t \in TokenId : TokenMoves(t)) /\ lastToken' = lastToken
    BY <1>1, <2>1, RevokeMoves, PolicyMoves, RotateMoves
  <2>3. \A o \in Operation : OperationMoves(o, 0)
    <3>1. Journals(p, 0)
      BY <1>4 DEF Mutates
    <3> QED BY <3>1, JournalsMoves DEF OperationMoves
  <2> QED BY <1>1, <2>2, <2>3, JournalKept
<1>5. CASE Maintain
  <2>1. PICK n \in 0 .. MaxTime : runMaintenance(n)
    BY <1>5, NowType DEF Maintain, TypeOK, TimeType
  <2>2. /\ lastToken' = lastToken /\ \A t \in TokenId : TokenMoves(t)
        /\ \A o \in Operation :
             \/ operations'[o] = operations[o]
             \/ operations'[o] = NoRow /\ operations[o].exp <= lastNow'
    BY <2>1, MaintainMoves DEF Operation
  <2>3. \A o \in Operation : OperationMoves(o, 0)
    BY <2>2 DEF OperationMoves, NoRow
  <2> QED BY <1>1, <2>2, <2>3, JournalKept
<1>6. CredStep
  BY EveryStepIsACredStep
<1> QED BY <1>2, <1>3, <1>4, <1>5, <1>6 DEF CredStep, Operation

LEMMA JournalledOnce == TypeOK /\ JournalInv => MintJournalled
<1>. SUFFICES ASSUME TypeOK, JournalInv, NEW t \in TokenId, tokens[t].state # "NONE",
                     now < tokens[t].exp
              PROVE  Cardinality({o \in Operation : names(o, t)}) = 1
  BY DEF MintJournalled, names, Operation
<1>1. now \in Nat /\ lastNow \in Nat /\ now >= lastNow /\ tokens[t].exp \in Nat
  BY TokenFields DEF TypeOK, TimeType, now
<1>2. PICK o \in Operation : names(o, t)
  BY <1>1 DEF JournalInv, Journalled
<1>3. {q \in Operation : names(q, t)} = {o}
  BY <1>2 DEF JournalInv
<1> QED BY <1>3, FS_Singleton

\* A token that has not expired is held by exactly one operation: a retried
\* mint finds its token, no operation mints twice, and the journal outlives the
\* tokens because an operation is kept longer than any token lives.
THEOREM MintedOnce == Spec => []MintJournalled
<1>1. Init => JournalInv
  BY DEF Init, JournalInv, Journalled, names, Operation, NoRow
<1> QED BY <1>1, JournalledOnce, JournalStep, CredInvHolds, TypeStep, PTL DEF Spec

-----------------------------------------------------------------------------
\* The limits on what is under way

LEMMA NatLimits ==
  /\ MAX_INFLIGHT_CALLS \in Nat /\ MAX_LIVE_TASKS \in Nat
  /\ MAX_OPEN_NONCES_TENANT \in Nat /\ MAX_OPEN_NONCES_TOKEN \in Nat
  BY ConstantAssumption

\* A limit survives what takes away, and what counts before it adds one.
LEMMA FewerCounted ==
  ASSUME NEW S, IsFiniteSet(S), NEW N \in Nat, Cardinality(S) <= N, NEW T, T \subseteq S
  PROVE  IsFiniteSet(T) /\ Cardinality(T) <= N
<1>1. IsFiniteSet(T) /\ Cardinality(T) <= Cardinality(S)
  BY FS_Subset
<1>2. Cardinality(S) \in Nat /\ Cardinality(T) \in Nat
  BY <1>1, FS_CardinalityType
<1> QED BY <1>1, <1>2

LEMMA OneMoreCounted ==
  ASSUME NEW S, IsFiniteSet(S), NEW N \in Nat, Cardinality(S) < N,
         NEW x, NEW T, T \subseteq S \cup {x}
  PROVE  IsFiniteSet(T) /\ Cardinality(T) <= N
<1>1. /\ IsFiniteSet(S \cup {x})
      /\ Cardinality(S \cup {x}) \in {Cardinality(S), Cardinality(S) + 1}
  BY FS_AddElement
<1>2. Cardinality(S) \in Nat
  BY FS_CardinalityType
<1>3. Cardinality(S \cup {x}) <= N
  BY <1>1, <1>2
<1> QED BY <1>1, <1>3, FewerCounted

InFlightBounded == IsFiniteSet(inflightCalls) /\ Cardinality(inflightCalls) <= MAX_INFLIGHT_CALLS
TasksBounded == IsFiniteSet(liveTasks) /\ Cardinality(liveTasks) <= MAX_LIVE_TASKS
NoncesBounded ==
  /\ Cardinality(openNonces) <= MAX_OPEN_NONCES_TENANT
  /\ \A t \in TokenId : Cardinality(openOf(t)) <= MAX_OPEN_NONCES_TOKEN
  /\ \A x, y \in openNonces :
       nonces[x].tok = nonces[y].tok /\ nonces[x].call = nonces[y].call => x = y

LimitsInv == InFlightBounded /\ TasksBounded /\ NoncesBounded

LEMMA LimitsAreWithin == LimitsInv => WithinLimits
  BY DEF LimitsInv, InFlightBounded, TasksBounded, NoncesBounded, WithinLimits

\* Only an admission puts a call in flight, and it counts first.
LEMMA InFlightStep ==
  ASSUME TypeOK, InFlightBounded, [Next]_vars
  PROVE  InFlightBounded'
<1>1. ASSUME inflightCalls' \subseteq inflightCalls
      PROVE  InFlightBounded'
  BY <1>1, FewerCounted, NatLimits DEF InFlightBounded
<1>2. CASE UNCHANGED calls
  BY <1>1, <1>2 DEF inflightCalls
<1>3. ASSUME NEW c, NEW t, NEW p, NEW nonce, admitCall(t, p, nonce, c)
      PROVE  InFlightBounded'
  <2>1. inflightCalls' \subseteq inflightCalls \cup {c.id}
    BY <1>3 DEF admitCall, inflightCalls, TypeOK, CallType
  <2>2. Cardinality(inflightCalls) < MAX_INFLIGHT_CALLS
    BY <1>3 DEF admitCall
  <2> QED BY <2>1, <2>2, OneMoreCounted, NatLimits DEF InFlightBounded
<1>4. ASSUME NEW c \in Call, NEW s \in Terminal, completeCall(c, s)
      PROVE  InFlightBounded'
  <2>1. inflightCalls' \subseteq inflightCalls
    BY <1>4, SettledRow DEF inflightCalls
  <2> QED BY <1>1, <2>1
<1>5. ASSUME NEW h \in Handler, NEW o \in Terminal, adapterReturns(h, o)
      PROVE  InFlightBounded'
  <2>1. handlers[h].call \in Call
    BY <1>5, Waiter DEF adapterReturns
  <2>2. UNCHANGED calls \/ \E s \in Terminal : completeCall(handlers[h].call, s)
    BY <1>5 DEF adapterReturns, Terminal
  <2> QED BY <1>2, <1>4, <2>1, <2>2
<1>6. CASE Recover
  <2>1. PICK n \in 0 .. MaxTime : recover(n)
    BY <1>6, NowType DEF Recover, TypeOK, TimeType
  <2>2. inflightCalls' \subseteq inflightCalls
    BY <2>1, RecoverRows DEF inflightCalls
  <2> QED BY <1>1, <2>2
<1>7. CASE Maintain
  <2>1. PICK n \in 0 .. MaxTime : runMaintenance(n)
    BY <1>7, NowType DEF Maintain, TypeOK, TimeType
  <2>2. inflightCalls' \subseteq inflightCalls
    BY <2>1, MaintainRows DEF inflightCalls
  <2> QED BY <1>1, <2>2
<1>8. ServiceStep
  BY EveryStepIsSorted
<1> QED
  BY <1>2, <1>3, <1>5, <1>6, <1>7, <1>8
     DEF ServiceStep, Idles, Reads, Issues, Quiet, Admits

\* Only a mint makes a task live, and it counts before it makes a new one.
LEMMA TasksStep ==
  ASSUME TypeOK, MintsBound, TasksBounded, [Next]_vars
  PROVE  TasksBounded'
<1>1. ASSUME liveTasks' \subseteq liveTasks
      PROVE  TasksBounded'
  BY <1>1, FewerCounted, NatLimits DEF TasksBounded
<1>2. ASSUME NEW state, state # "ACTIVE",
             \A i \in TaskId : \/ tasks'[i] = tasks[i]
                               \/ tasks'[i] = [tasks[i] EXCEPT !.state = state]
      PROVE  TasksBounded'
  <2>1. ASSUME NEW i \in TaskId, tasks'[i].state = "ACTIVE"
        PROVE  tasks[i].state = "ACTIVE"
    <3>1. tasks[i] \in TaskRow \/ tasks[i] = NoRow
      BY DEF TypeOK, CredType
    <3> QED BY <1>2, <2>1, <3>1 DEF TaskRow, NoRow
  <2> QED BY <1>1, <2>1 DEF liveTasks
<1>3. CASE UNCHANGED tasks
  BY <1>1, <1>3 DEF liveTasks
<1>4. ASSUME NEW req \in MintRequest, mintMutator(req)
      PROVE  TasksBounded'
  <2>1. CASE tasks[req.task].state # "NONE"
    BY <1>3, <1>4, <2>1 DEF mintMutator
  <2>2. CASE tasks[req.task].state = "NONE"
    <3>1. liveTasks' \subseteq liveTasks \cup {req.task}
      BY <1>4, <2>2 DEF mintMutator, liveTasks, TypeOK, CredType
    <3>2. Cardinality(liveTasks) < MAX_LIVE_TASKS
      BY <1>4, <2>2 DEF mintMutator, taskAccepts
    <3> QED BY <3>1, <3>2, OneMoreCounted, NatLimits DEF TasksBounded
  <2> QED BY <2>1, <2>2
<1>5. ASSUME NEW target \in Target, revokeMutator(target[1], target[2])
      PROVE  TasksBounded'
  <2>1. \A i \in TaskId : tasks'[i] = tasks[i] \/ tasks'[i] = [tasks[i] EXCEPT !.state = "REVOKED"]
    BY <1>5 DEF revokeMutator, revokeRow
  <2> QED BY <1>2, <2>1
<1>6. ASSUME NEW n, runMaintenance(n)
      PROVE  TasksBounded'
  <2>1. \A i \in TaskId : tasks'[i] = tasks[i] \/ tasks'[i] = [tasks[i] EXCEPT !.state = "EXPIRED"]
    BY <1>6 DEF runMaintenance, setState
  <2> QED BY <1>2, <2>1
<1>7. ASSUME NEW o, Mutates(o)
      PROVE  TasksBounded'
  BY <1>3, <1>5, <1>7 DEF Mutates, policyMutator, rotateMutator
<1>8. CredStep
  BY EveryStepIsACredStep
<1> QED BY <1>3, <1>4, <1>6, <1>7, <1>8 DEF CredStep, Still, credVars, Mints, Maintain

\* Only /nonces opens one, and it closes the others of its token and call and
\* counts first.
LEMMA OpenFinite == IsFiniteSet(openNonces)
<1>1. IsFiniteSet(1 .. MaxNonce)
  BY FS_Interval, NatConstants
<1>2. openNonces \in SUBSET (1 .. MaxNonce)
  BY DEF openNonces, NonceId
<1> QED BY <1>1, <1>2, FS_Subset

LEMMA FewerNonces ==
  ASSUME NoncesBounded, \A x \in NonceId : nonces'[x] = nonces[x] \/ nonces'[x].state # "OPEN"
  PROVE  NoncesBounded'
<1>1. IsFiniteSet(openNonces)
  BY OpenFinite
<1>2. /\ openNonces' \subseteq openNonces
      /\ \A x \in openNonces' : nonces'[x] = nonces[x]
  BY DEF openNonces
<1>3. Cardinality(openNonces)' <= MAX_OPEN_NONCES_TENANT
  BY <1>1, <1>2, FewerCounted, NatLimits DEF NoncesBounded
<1>4. ASSUME NEW t \in TokenId
      PROVE  Cardinality(openOf(t))' <= MAX_OPEN_NONCES_TOKEN
  <2>1. openOf(t)' \subseteq openOf(t) /\ openOf(t) \subseteq openNonces
    BY <1>2 DEF openOf
  <2>2. IsFiniteSet(openOf(t))
    BY <1>1, <2>1, FS_Subset
  <2> QED BY <2>1, <2>2, FewerCounted, NatLimits DEF NoncesBounded
<1> QED BY <1>2, <1>3, <1>4 DEF NoncesBounded

LEMMA InsertKeepsBounds ==
  ASSUME TypeOK, NoncesBounded, NEW t \in TokenId, NEW c \in Call, Inserts(t, c)
  PROVE  NoncesBounded'
<1>. DEFINE new  == lastNonce + 1
            kept == openNonces \ OpenFor(t, c)
            mine == {x \in kept : nonces[x].tok = t}
<1>1. new \in NonceId /\ nonces'[new] = NonceRowOf(t, c)
  <2>1. lastNonce \in 0 .. MaxNonce /\ lastNonce < MaxNonce
    BY DEF Inserts, TypeOK, CallType
  <2>2. new \in NonceId
    BY <2>1, NatConstants DEF NonceId
  <2> QED BY <2>2 DEF Inserts, insertNonce
<1>2. NonceRowOf(t, c).tok = t /\ NonceRowOf(t, c).call = c /\ NonceRowOf(t, c).state = "OPEN"
  BY DEF NonceRowOf
<1>3. ASSUME NEW x \in openNonces', x # new
      PROVE  x \in kept /\ nonces'[x] = nonces[x]
  <2>1. x \in NonceId /\ nonces'[x].state = "OPEN"
    BY DEF openNonces
  <2>2. ~(/\ x \in OpenFor(t, c) /\ nonces[x] \in NonceRow
          /\ nonces'[x] = [nonces[x] EXCEPT !.state = "EXPIRED"])
    BY <2>1 DEF NonceRow
  <2> QED BY <1>3, <2>1, <2>2, InsertEffect DEF openNonces
<1>4. IsFiniteSet(openNonces) /\ IsFiniteSet(kept) /\ IsFiniteSet(mine)
  <2>1. IsFiniteSet(openNonces)
    BY OpenFinite
  <2>2. kept \in SUBSET openNonces /\ mine \in SUBSET openNonces
    OBVIOUS
  <2> QED BY <2>1, <2>2, FS_Subset
<1>5. Cardinality(kept) < MAX_OPEN_NONCES_TENANT /\ Cardinality(mine) < MAX_OPEN_NONCES_TOKEN
  BY DEF Inserts
<1>6. \A x \in kept : ~(nonces[x].tok = t /\ nonces[x].call = c) /\ x \in openNonces
  BY DEF OpenFor
<1>. HIDE DEF new, kept
<1>7. Cardinality(openNonces)' <= MAX_OPEN_NONCES_TENANT
  <2>1. openNonces' \subseteq kept \cup {new}
    BY <1>3
  <2> QED BY <1>4, <1>5, <2>1, OneMoreCounted, NatLimits
<1>8. ASSUME NEW u \in TokenId
      PROVE  Cardinality(openOf(u))' <= MAX_OPEN_NONCES_TOKEN
  <2>1. CASE u = t
    <3>1. openOf(u)' \subseteq mine \cup {new}
      BY <1>3, <2>1 DEF openOf
    <3>. HIDE DEF mine
    <3> QED BY <1>4, <1>5, <3>1, OneMoreCounted, NatLimits
  <2>2. CASE u # t
    <3>1. openOf(u)' \subseteq openOf(u) /\ openOf(u) \subseteq openNonces
      BY <1>1, <1>2, <1>3, <1>6, <2>2 DEF openOf
    <3>2. IsFiniteSet(openOf(u))
      BY <1>4, <3>1, FS_Subset
    <3> QED BY <3>1, <3>2, FewerCounted, NatLimits DEF NoncesBounded
  <2> QED BY <2>1, <2>2
<1>9. ASSUME NEW x \in openNonces', NEW y \in openNonces',
             nonces'[x].tok = nonces'[y].tok, nonces'[x].call = nonces'[y].call
      PROVE  x = y
  <2>1. CASE x = new \/ y = new
    BY <1>1, <1>2, <1>3, <1>6, <1>9, <2>1
  <2>2. CASE x # new /\ y # new
    BY <1>3, <1>6, <1>9, <2>2 DEF NoncesBounded
  <2> QED BY <2>1, <2>2
<1> QED BY <1>7, <1>8, <1>9 DEF NoncesBounded

LEMMA NoncesStep ==
  ASSUME TypeOK, NoncesBounded, [Next]_vars
  PROVE  NoncesBounded'
<1>1. CASE UNCHANGED nonces
  BY <1>1, FewerNonces
<1>2. ASSUME NEW t, NEW nonce, NEW c, Consumes(t, nonce, c)
      PROVE  NoncesBounded'
  <2>1. \A x \in NonceId : nonces'[x] = nonces[x] \/ nonces'[x].state # "OPEN"
    BY <1>2, ConsumeEffect
  <2> QED BY <2>1, FewerNonces
<1>3. ASSUME NEW n, runMaintenance(n)
      PROVE  NoncesBounded'
  <2>1. PICK nonB \in batch(dueIn(nonces, NonceId, "OPEN", n)) :
          \A x \in NonceId :
            \/ nonces'[x] = NoRow \/ nonces'[x] = nonces[x]
            \/ x \in nonB /\ nonces'[x] = [nonces[x] EXCEPT !.state = "EXPIRED"]
    BY <1>3 DEF runMaintenance, setState
  <2>2. \A x \in nonB : x \in NonceId /\ nonces[x].state = "OPEN"
    BY DEF batch, dueIn
  <2>3. ASSUME NEW x \in NonceId
        PROVE  nonces'[x] = nonces[x] \/ nonces'[x].state # "OPEN"
    <3>1. x \in nonB => nonces[x] \in NonceRow
      BY <2>2, OpenRow
    <3>2. /\ NoRow.state # "OPEN"
          /\ x \in nonB => [nonces[x] EXCEPT !.state = "EXPIRED"].state # "OPEN"
      BY <3>1 DEF NonceRow, NoRow
    <3> QED BY <2>1, <3>2
  <2> QED BY <2>3, FewerNonces
<1> QED BY <1>1, <1>2, <1>3, NonceSorted, InsertKeepsBounds DEF NonceStep, Maintain

LEMMA LimitsStep ==
  ASSUME TypeOK, MintsBound, LimitsInv, [Next]_vars
  PROVE  LimitsInv'
  BY InFlightStep, TasksStep, NoncesStep DEF LimitsInv

LEMMA InitLimits == Init => LimitsInv
<1>. SUFFICES ASSUME Init
              PROVE  LimitsInv
  OBVIOUS
<1>1. /\ inflightCalls = {} /\ liveTasks = {} /\ openNonces = {}
      /\ \A t \in TokenId : openOf(t) = {}
  BY DEF Init, inflightCalls, liveTasks, openNonces, openOf, NoRow
<1> QED
  BY <1>1, FS_EmptySet, NatLimits
     DEF LimitsInv, InFlightBounded, TasksBounded, NoncesBounded

\* Never more calls in flight, live tasks or open nonces than the limits, and of
\* a token and call never two open nonces: each is counted in the transaction
\* that adds to it, after the await of a handler that had one.
THEOREM LimitsHold == Spec => []WithinLimits
<1>1. Spec => [](TypeOK /\ MintsBound)
  BY CredInvHolds, PTL
<1>2. TypeOK /\ MintsBound /\ LimitsInv /\ [Next]_vars => LimitsInv'
  BY LimitsStep
<1>3. LimitsInv => WithinLimits
  BY LimitsAreWithin
<1>4. LimitsInv /\ UNCHANGED vars => LimitsInv'
  BY DEF LimitsInv, InFlightBounded, TasksBounded, NoncesBounded, vars, callVars, credVars,
         inflightCalls, liveTasks, openNonces, openOf
<1> QED BY <1>1, <1>2, <1>3, InitLimits, PTL DEF Spec
=============================================================================
