--------------------------- MODULE SnapshotProofs ---------------------------
(***************************************************************************)
(* Restores, for every value of the constants: types are kept, the clock   *)
(* does not run back, no token minted before a cutover is ever live again, *)
(* the authority's properties hold of the restored tables, and what they   *)
(* have a history of is not repeated.                                      *)
(***************************************************************************)
EXTENDS Snapshot, CredentialProofs

-----------------------------------------------------------------------------
\* Types

\* A step of the authority under the ingress is a step of the authority.
LEMMA IngressStep == AuthorityStep => Next
  BY DEF AuthorityStep, Ingress, ReadOrRevoke, AgentRequest, ControlRequest, Next

LEMMA AuthorityStepType ==
  ASSUME SnapshotTypeOK, AuthorityStep
  PROVE  SnapshotTypeOK'
<1>1. TypeOK'
  BY IngressStep, TypeStep DEF SnapshotTypeOK
<1>2. acknowledged' \in SUBSET Target
  BY <1>1 DEF AuthorityStep, SnapshotTypeOK, TypeOK, CredType, Target
<1> QED BY <1>1, <1>2 DEF AuthorityStep, SnapshotTypeOK, DumpType, History, Target

LEMMA RestoreType ==
  ASSUME SnapshotTypeOK, NEW new \in Kid, restoreSnapshot(new)
  PROVE  SnapshotTypeOK'
<1>1. TypeOK /\ DumpType /\ now \in 0 .. MaxTime /\ now \in Nat
  BY NowType DEF SnapshotTypeOK, restoreSnapshot, TypeOK
<1>2. TimeType'
  BY <1>1, NatConstants DEF restoreSnapshot, cutClock, DumpType, TypeOK, TimeType
<1>3. tasks' \in [TaskId -> TaskRow \cup {NoRow}] /\ revocations' \in SUBSET Target
  <2>1. ASSUME NEW i \in liveInSnapshot
        PROVE  [snapshot.tasks[i] EXCEPT !.state = "REVOKED"] \in TaskRow
    BY <1>1 DEF DumpType, liveInSnapshot, TaskRow, NoRow
  <2>2. {"task"} \X liveInSnapshot \subseteq Target
    BY DEF liveInSnapshot, Target
  <2> QED BY <1>1, <2>1, <2>2 DEF restoreSnapshot, cutTasks, DumpType
<1>4. keys' \in [Kid -> KeyRow \cup {NoRow}]
  <2>1. demoted(snapshot.keys[snapshot.activeKid]) \in KeyRow \cup {NoRow}
    BY <1>1 DEF DumpType, demoted, KeyRow, NoRow
  <2>2. [state |-> "ACTIVE", last_exp |-> 0] \in KeyRow
    BY DEF KeyRow
  <2> QED BY <1>1, <2>1, <2>2 DEF restoreSnapshot, DumpType
<1>5. CredType'
  BY <1>1, <1>3, <1>4
     DEF restoreSnapshot, restoreRows, DumpType, TypeOK, CredType, PolicyRow, Target
<1>6. CallType' /\ LogType'
  BY <1>1 DEF restoreSnapshot, restoreRows, DumpType, TypeOK, CallType, LogType
<1>7. ObsType'
  BY <1>1 DEF restoreSnapshot, obsVars, TypeOK, ObsType
<1>8. cutover' \in 0 .. MaxToken /\ acknowledged' \in SUBSET Target
  BY <1>1 DEF restoreSnapshot, TypeOK, CredType, SnapshotTypeOK
<1>9. maintenanceMode' \in BOOLEAN /\ (snapshot' # NoSnapshot => DumpType')
  BY <1>1 DEF restoreSnapshot, SnapshotTypeOK, DumpType, History
<1>10. lost' \in History
  <2>1. /\ executed \in [Proof -> Nat] /\ dispatches \in [Call -> Nat]
        /\ snapshot.kept \in History
    BY <1>1 DEF TypeOK, LogType, ObsType, DumpType
  <2> QED BY <2>1 DEF restoreSnapshot, History
<1> QED BY <1>2, <1>5, <1>6, <1>7, <1>8, <1>9, <1>10 DEF TypeOK, SnapshotTypeOK

\* The operator's other methods and a restart leave the tables alone.
TablesStay == UNCHANGED <<phys, lastNow, credVars, callVars, proofs, operations,
                          audit, obsVars, executed>>

LEMMA KeptType == SnapshotTypeOK => kept \in History
  BY DEF SnapshotTypeOK, TypeOK, LogType, ObsType, kept, History

LEMMA RestType ==
  ASSUME SnapshotTypeOK,
         restart \/ enterMaintenance \/ exitMaintenance \/ exportSnapshot
         \/ UNCHANGED allVars
  PROVE  SnapshotTypeOK' /\ TablesStay
<1>1. TablesStay
  BY DEF restart, enterMaintenance, exitMaintenance, setMaintenance,
         exportSnapshot, allVars, vars, credVars, callVars, obsVars, TablesStay
<1>2. TypeOK'
  <2>1. TypeOK
    BY DEF SnapshotTypeOK
  <2>2. handlers' \in [Handler -> {Idle} \cup CallWait \cup MintWait \cup AdapterWait]
    BY <2>1 DEF restart, enterMaintenance, exitMaintenance, setMaintenance,
                exportSnapshot, allVars, vars, TypeOK, ObsType
  <2> QED BY <1>1, <2>1, <2>2, CredFrame, CallFrame
             DEF TablesStay, TypeOK, TimeType, LogType, ObsType, obsVars
<1>3. maintenanceMode' \in BOOLEAN /\ cutover' \in 0 .. MaxToken
      /\ acknowledged' \in SUBSET Target /\ lost' \in History
  BY DEF SnapshotTypeOK, restart, enterMaintenance, exitMaintenance,
         setMaintenance, exportSnapshot, allVars, snapVars
<1>4. snapshot' # NoSnapshot => DumpType'
  <2>1. CASE exportSnapshot
    BY <2>1, KeptType DEF SnapshotTypeOK, exportSnapshot, DumpType, TypeOK, TimeType,
                          CredType, CallType, LogType
  <2>2. CASE UNCHANGED snapshot
    BY <2>2 DEF SnapshotTypeOK, DumpType, History
  <2> QED BY <2>1, <2>2 DEF restart, enterMaintenance, exitMaintenance,
                            setMaintenance, allVars, snapVars
<1> QED BY <1>1, <1>2, <1>3, <1>4 DEF SnapshotTypeOK

\* Every table, every snapshot and every observation keeps its type.
THEOREM SnapshotTypeCorrect == SSpec => []SnapshotTypeOK
<1>1. SInit => SnapshotTypeOK
  <2>. SUFFICES ASSUME SInit PROVE SnapshotTypeOK
    OBVIOUS
  <2>1. maintenanceMode \in BOOLEAN
    BY DEF SInit
  <2>2. cutover \in 0 .. MaxToken
    BY NatConstants DEF SInit
  <2>3. lost \in History
    BY DEF SInit, History
  <2> QED BY <2>1, <2>2, <2>3, InitType DEF SInit, SnapshotTypeOK
<1>2. SnapshotTypeOK /\ [SNext]_allVars => SnapshotTypeOK'
  BY AuthorityStepType, RestoreType, RestType DEF SNext, Restore
<1> QED BY <1>1, <1>2, PTL DEF SSpec

-----------------------------------------------------------------------------
\* The clock

\* now() is read before the tables are replaced, and it is not behind last_now.
THEOREM ClockNeverRunsBack == SSpec => ClockForward
<1>1. SnapshotTypeOK /\ [SNext]_allVars => [lastNow' >= lastNow]_allVars
  <2>. SUFFICES ASSUME SnapshotTypeOK, [SNext]_allVars
                PROVE  lastNow' >= lastNow
    OBVIOUS
  <2>1. lastNow \in Nat /\ TypeOK /\ TimeType
    BY NatConstants DEF SnapshotTypeOK, TypeOK, TimeType
  <2>2. CASE AuthorityStep
    BY <2>1, <2>2, IngressStep, ClockMonotone
  <2>3. ASSUME NEW new \in Kid, restoreSnapshot(new)
        PROVE  lastNow' >= lastNow
    <3>1. now \in Nat /\ now >= lastNow /\ snapshot.lastNow \in Nat
      BY <2>1, <2>3, NowType, NowAhead, NatConstants
         DEF SnapshotTypeOK, restoreSnapshot, DumpType
    <3> QED BY <2>1, <2>3, <3>1 DEF restoreSnapshot, cutClock
  <2>4. CASE UNCHANGED lastNow
    BY <2>1, <2>4
  <2> QED BY <2>2, <2>3, <2>4, RestType DEF SNext, Restore, TablesStay
<1> QED BY <1>1, SnapshotTypeCorrect, PTL DEF SSpec, ClockForward

-----------------------------------------------------------------------------
\* Tokens minted before a cutover

\* What a step of the authority may do to tasks and tokens: a task that is
\* over stays so, and a token is either an old one of the same task or the
\* next one, of a task that exists.
TasksOnlyEnd ==
  \A i \in TaskId : tasks[i].state # "NONE" =>
    /\ tasks'[i].state # "NONE"
    /\ tasks'[i].state = "ACTIVE" => tasks[i].state = "ACTIVE"

NewToken(t) == /\ t = lastToken + 1 /\ lastToken' = t
               /\ tasks'[tokens'[t].task].state # "NONE"

TokensStay ==
  /\ lastToken' \in {lastToken, lastToken + 1}
  /\ \A t \in TokenId : tokens'[t].state # "NONE" =>
       \/ tokens[t].state # "NONE" /\ tokens'[t].task = tokens[t].task
       \/ NewToken(t)

GrantStep == TasksOnlyEnd /\ TokensStay

LEMMA NoGrant == UNCHANGED <<tasks, tokens, lastToken>> => GrantStep
  BY DEF GrantStep, TasksOnlyEnd, TokensStay

LEMMA MintGrants ==
  ASSUME TypeOK, NEW req \in MintRequest, mintMutator(req)
  PROVE  GrantStep
<1>1. lastToken \in 0 .. MaxToken /\ lastToken + 1 \in TokenId
  BY MintMutatorType DEF TypeOK, CredType
<1>2. req.task \in TaskId
  BY RequestAssumption
<1>3. TasksOnlyEnd /\ tasks'[req.task].state # "NONE"
  BY <1>2 DEF mintMutator, TasksOnlyEnd, TypeOK, CredType
<1>4. ASSUME NEW t \in TokenId
      PROVE  tokens'[t] = tokens[t] \/ (t = lastToken + 1 /\ tokens'[t].task = req.task)
  BY <1>1 DEF mintMutator, TypeOK, CredType
<1>5. lastToken' = lastToken + 1
  BY DEF mintMutator
<1> QED BY <1>3, <1>4, <1>5 DEF GrantStep, TokensStay, NewToken

LEMMA RevokeGrants ==
  ASSUME TypeOK, NEW target \in Target, revokeMutator(target[1], target[2])
  PROVE  GrantStep
<1>1. ASSUME NEW i \in TaskId
      PROVE  tasks'[i] = tasks[i] \/ tasks'[i] = [tasks[i] EXCEPT !.state = "REVOKED"]
  BY DEF revokeMutator, revokeRow
<1>2. ASSUME NEW t \in TokenId
      PROVE  \/ tokens'[t] = tokens[t]
             \/ /\ tokens[t].state = "ACTIVE"
                /\ tokens'[t] = [tokens[t] EXCEPT !.state = "REVOKED"]
  BY DEF revokeMutator, revokeRow
<1>3. TasksOnlyEnd
  BY <1>1, ExistingTask DEF TasksOnlyEnd, TaskRow
<1>4. UNCHANGED lastToken
  BY DEF revokeMutator
<1>5. TokensStay
  BY <1>2, <1>4, ExistingToken DEF TokensStay, TokenRow
<1> QED BY <1>3, <1>5 DEF GrantStep

LEMMA MaintainGrants ==
  ASSUME TypeOK, NEW n \in 0 .. MaxTime, runMaintenance(n)
  PROVE  GrantStep
<1>1. PICK taskB \in batch(dueIn(tasks, TaskId, "ACTIVE", n)),
           tokB  \in batch(dueIn(tokens, TokenId, "ACTIVE", n)),
           nonB  \in batch(dueIn(nonces, NonceId, "OPEN", n)),
           keyB  \in batch(drained(n)),
           sealB \in batch(purgeable(n)),
           callB \in batch(forgotten(n)) : runMaintenance(n)!(taskB, tokB, nonB, keyB, sealB, callB)
  BY DEF runMaintenance
<1>2. ASSUME NEW i \in TaskId
      PROVE  tasks'[i] = tasks[i] \/ tasks'[i] = [tasks[i] EXCEPT !.state = "EXPIRED"]
  BY <1>1 DEF setState
<1>3. TasksOnlyEnd
  BY <1>2, ExistingTask DEF TasksOnlyEnd, TaskRow
<1>4. ASSUME NEW t \in TokenId, tokens'[t].state # "NONE"
      PROVE  tokens[t].state # "NONE" /\ tokens'[t].task = tokens[t].task
  <2>1. t \notin deadTokens(n)
    BY <1>1, <1>4 DEF NoRow
  <2>2. \/ tokens'[t] = tokens[t]
        \/ t \in tokB /\ tokens'[t] = [tokens[t] EXCEPT !.state = "EXPIRED"]
    BY <1>1, <2>1 DEF setState
  <2>3. t \in tokB => tokens[t].state # "NONE"
    BY DEF batch, dueIn
  <2> QED BY <1>4, <2>2, <2>3, ExistingToken DEF TokenRow
<1>5. UNCHANGED lastToken
  BY <1>1
<1> QED BY <1>3, <1>4, <1>5 DEF GrantStep, TokensStay

\* A transaction with its denial and its replay: only a mint grants.
LEMMA MintTxGrants ==
  ASSUME TypeOK, NEW h \in Handler, NEW kid \in ControlKid, NEW p \in Proof,
         NEW op \in OpId, NEW req \in MintRequest, mintTx(h, kid, p, op, req)
  PROVE  GrantStep
  BY MintGrants, NoGrant DEF mintTx, controlDeny, replayOperation, credVars

LEMMA AgentGrants ==
  ASSUME AgentRequest
  PROVE  GrantStep
<1>1. UNCHANGED credVars
  <2>1. ASSUME NEW h \in Handler, NEW t \in TokenId, NEW p \in Proof,
               NEW nonce \in {0} \cup NonceId, NEW c \in Call,
               handleCall(h, t, p, nonce, c)
        PROVE  UNCHANGED credVars
    BY <2>1 DEF handleCall, admissionTx
  <2>2. ASSUME NEW t \in TokenId, NEW p \in Proof, NEW c \in Call,
               handleNonce(t, p, c)
        PROVE  UNCHANGED credVars
    BY <2>2 DEF handleNonce
  <2>3. ASSUME NEW t \in TokenId, NEW p \in Proof, NEW i \in CallId,
               handleResult(t, p, i)
        PROVE  UNCHANGED credVars
    BY <2>3 DEF handleResult
  <2> QED BY <2>1, <2>2, <2>3 DEF AgentRequest
<1> QED BY <1>1, NoGrant DEF credVars

LEMMA ControlGrants ==
  ASSUME TypeOK, ControlRequest
  PROVE  GrantStep
<1>1. PICK kid \in ControlKid, p \in Proof :
        \/ \E h \in Handler, op \in OpId, req \in MintRequest :
             handleMint(h, kid, p, op, req)
        \/ \E op \in OpId, target \in Target : handleRevoke(kid, p, op, target)
        \/ \E op \in OpId, rev \in 1 .. MaxRevision, body \in Policy :
             handlePolicy(kid, p, op, rev, body)
        \/ \E op \in OpId, old \in Kid, new \in Kid :
             handleRotate(kid, p, op, old, new)
        \/ \E t \in TokenId : handleInspect(kid, p, t)
        \/ handleAudit(kid, p)
  BY DEF ControlRequest
<1>2. ASSUME NEW h \in Handler, NEW op \in OpId, NEW req \in MintRequest,
             handleMint(h, kid, p, op, req)
      PROVE  GrantStep
  BY <1>2, MintTxGrants, NoGrant DEF handleMint, controlDeny, credVars
<1>3. ASSUME NEW op \in OpId, NEW target \in Target, handleRevoke(kid, p, op, target)
      PROVE  GrantStep
  BY <1>3, RevokeGrants, NoGrant
     DEF handleRevoke, controlOp, controlDeny, replayOperation, credVars
<1>4. ASSUME NEW op \in OpId, NEW rev \in 1 .. MaxRevision, NEW body \in Policy,
             handlePolicy(kid, p, op, rev, body)
      PROVE  GrantStep
  BY <1>4, NoGrant
     DEF handlePolicy, controlOp, controlDeny, replayOperation, policyMutator, credVars
<1>5. ASSUME NEW op \in OpId, NEW old \in Kid, NEW new \in Kid,
             handleRotate(kid, p, op, old, new)
      PROVE  GrantStep
  BY <1>5, NoGrant
     DEF handleRotate, controlOp, controlDeny, replayOperation, rotateMutator, credVars
<1>6. ASSUME (\E t \in TokenId : handleInspect(kid, p, t)) \/ handleAudit(kid, p)
      PROVE  GrantStep
  BY <1>6, NoGrant DEF handleInspect, handleAudit, controlRead, credVars
<1> QED BY <1>1, <1>2, <1>3, <1>4, <1>5, <1>6

LEMMA AnswerGrants ==
  ASSUME TypeOK, Answer
  PROVE  GrantStep
<1>1. PICK h \in Handler :
        \/ \E obs \in Observation : callHeraldAnswers(h, obs) \/ mintHeraldAnswers(h, obs)
        \/ \E outcome \in Terminal : adapterReturns(h, outcome)
  BY DEF Answer
<1>2. ASSUME NEW obs \in Observation, mintHeraldAnswers(h, obs)
      PROVE  GrantStep
  <2>. DEFINE w == handlers[h]
  <2>1. /\ w.kid \in ControlKid /\ w.proof \in Proof /\ w.op \in OpId
        /\ w.req \in MintRequest
    BY <1>2, WaitType DEF mintHeraldAnswers, MintWait
  <2>2. \/ mintTx(h, w.kid, w.proof, w.op, w.req)
        \/ UNCHANGED <<tasks, tokens, lastToken>>
    BY <1>2 DEF mintHeraldAnswers, controlDeny, credVars
  <2>. HIDE DEF w
  <2> QED BY <2>1, <2>2, MintTxGrants, NoGrant
<1>3. ASSUME \/ \E obs \in Observation : callHeraldAnswers(h, obs)
             \/ \E outcome \in Terminal : adapterReturns(h, outcome)
      PROVE  GrantStep
  BY <1>3, NoGrant DEF callHeraldAnswers, admissionTx, adapterReturns, credVars
<1> QED BY <1>1, <1>2, <1>3

LEMMA AuthorityGrants ==
  ASSUME TypeOK, AuthorityStep
  PROVE  GrantStep
<1>1. phys \in 0 .. MaxTime /\ now \in 0 .. MaxTime
  BY NowType DEF TypeOK, TimeType
<1>2. CASE AgentRequest
  BY <1>2, AgentGrants
<1>3. CASE ControlRequest
  BY <1>3, ControlGrants
<1>4. CASE Answer
  BY <1>4, AnswerGrants
<1>5. CASE tick \/ StepBack \/ Recover
  BY <1>5, NoGrant DEF tick, StepBack, stepBack, Recover, recover, credVars
<1>6. CASE Maintain
  BY <1>1, <1>6, MaintainGrants DEF Maintain
<1>7. Ingress => AgentRequest \/ ControlRequest
  BY DEF Ingress, ReadOrRevoke, AgentRequest, ControlRequest
<1> QED BY <1>2, <1>3, <1>4, <1>5, <1>6, <1>7 DEF AuthorityStep

\* The invariant: every token row has a task row, in the tables and in the
\* snapshot; the tokens handed out before the cutover belong to tasks that are
\* over.
CutInv ==
  /\ cutover <= lastToken
  /\ \A t \in TokenId : tokens[t].state # "NONE" =>
       /\ t <= lastToken
       /\ tasks[tokens[t].task].state # "NONE"
       /\ t <= cutover => tasks[tokens[t].task].state # "ACTIVE"
  /\ snapshot # NoSnapshot => \A t \in TokenId : snapshot.tokens[t].state # "NONE" =>
       /\ t <= lastToken
       /\ snapshot.tasks[snapshot.tokens[t].task].state # "NONE"

LEMMA GrantKeeps ==
  ASSUME SnapshotTypeOK, CutInv, GrantStep, UNCHANGED <<cutover, snapshot>>
  PROVE  CutInv'
<1>1. /\ lastToken \in Nat /\ lastToken' \in Nat /\ lastToken' >= lastToken
      /\ cutover \in Nat /\ TypeOK /\ TokenId \subseteq Nat
  BY NatConstants DEF SnapshotTypeOK, TypeOK, CredType, GrantStep, TokensStay, TokenId
<1>2. cutover' <= lastToken'
  BY <1>1 DEF CutInv
<1>3. ASSUME NEW t \in TokenId, tokens'[t].state # "NONE"
      PROVE  /\ t <= lastToken'
             /\ tasks'[tokens'[t].task].state # "NONE"
             /\ t <= cutover => tasks'[tokens'[t].task].state # "ACTIVE"
  <2>1. CASE tokens[t].state # "NONE" /\ tokens'[t].task = tokens[t].task
    <3>1. tokens[t].task \in TaskId
      BY <1>1, <2>1, ExistingToken DEF TokenRow
    <3>2. /\ t <= lastToken /\ tasks[tokens[t].task].state # "NONE"
          /\ t <= cutover => tasks[tokens[t].task].state # "ACTIVE"
      BY <2>1 DEF CutInv
    <3> QED BY <1>1, <2>1, <3>1, <3>2 DEF GrantStep, TasksOnlyEnd
  <2>2. CASE NewToken(t)
    BY <1>1, <2>2 DEF NewToken, CutInv
  <2> QED BY <1>3, <2>1, <2>2 DEF GrantStep, TokensStay
<1>4. ASSUME snapshot' # NoSnapshot, NEW t \in TokenId, snapshot'.tokens[t].state # "NONE"
      PROVE  /\ t <= lastToken'
             /\ snapshot'.tasks[snapshot'.tokens[t].task].state # "NONE"
  BY <1>1, <1>4 DEF CutInv
<1> QED BY <1>2, <1>3, <1>4 DEF CutInv

LEMMA RestoreCuts ==
  ASSUME SnapshotTypeOK, CutInv, NEW new \in Kid, restoreSnapshot(new)
  PROVE  CutInv'
<1>1. lastToken \in Nat /\ DumpType /\ snapshot # NoSnapshot
  BY NatConstants DEF SnapshotTypeOK, TypeOK, CredType, restoreSnapshot
<1>2. lastToken' = lastToken /\ cutover' = lastToken /\ snapshot' = snapshot
      /\ tokens' = snapshot.tokens
  BY DEF restoreSnapshot, restoreRows
<1>3. ASSUME NEW i \in TaskId, snapshot.tasks[i].state # "NONE"
      PROVE  tasks'[i].state # "NONE" /\ tasks'[i].state # "ACTIVE"
  <2>1. snapshot.tasks[i] \in TaskRow
    BY <1>1, <1>3 DEF DumpType, NoRow
  <2>2. CASE i \in liveInSnapshot
    BY <2>1, <2>2 DEF restoreSnapshot, cutTasks, TaskRow
  <2>3. CASE i \notin liveInSnapshot
    BY <1>3, <2>3 DEF restoreSnapshot, cutTasks, liveInSnapshot
  <2> QED BY <2>2, <2>3
<1>4. ASSUME NEW t \in TokenId, snapshot.tokens[t].state # "NONE"
      PROVE  /\ t <= lastToken /\ snapshot.tokens[t].task \in TaskId
             /\ snapshot.tasks[snapshot.tokens[t].task].state # "NONE"
  BY <1>1, <1>4 DEF CutInv, DumpType, NoRow, TokenRow
<1> QED BY <1>1, <1>2, <1>3, <1>4 DEF CutInv

LEMMA RestKeeps ==
  ASSUME SnapshotTypeOK, CutInv,
         restart \/ enterMaintenance \/ exitMaintenance \/ exportSnapshot
         \/ UNCHANGED allVars
  PROVE  CutInv'
<1>1. UNCHANGED <<tasks, tokens, lastToken>>
  BY RestType DEF TablesStay, credVars
<1>2. UNCHANGED cutover
  BY DEF restart, enterMaintenance, exitMaintenance, setMaintenance,
         exportSnapshot, allVars, snapVars
<1>3. CASE UNCHANGED snapshot
  BY <1>1, <1>2, <1>3 DEF CutInv
<1>4. CASE exportSnapshot
  <2>1. snapshot'.tokens = tokens /\ snapshot'.tasks = tasks
    BY <1>4 DEF exportSnapshot
  <2> QED BY <1>1, <1>2, <2>1 DEF CutInv
<1> QED BY <1>3, <1>4 DEF restart, enterMaintenance, exitMaintenance,
                          setMaintenance, allVars, snapVars

\* A token minted before a cutover is never live again: its row is gone, or
\* its task was live in the snapshot and has been revoked, or was over already.
THEOREM OldTokensStayDead == SSpec => []OldTokensDead
<1>1. SInit => CutInv
  BY DEF SInit, Init, CutInv, NoRow
<1>2. SnapshotTypeOK /\ CutInv /\ [SNext]_allVars => CutInv'
  <2>. SUFFICES ASSUME SnapshotTypeOK, CutInv, [SNext]_allVars
                PROVE  CutInv'
    OBVIOUS
  <2>1. CASE AuthorityStep
    BY <2>1, AuthorityGrants, GrantKeeps DEF SnapshotTypeOK, AuthorityStep
  <2>2. CASE Restore
    BY <2>2, RestoreCuts DEF Restore
  <2> QED BY <2>1, <2>2, RestKeeps DEF SNext
<1>3. CutInv => OldTokensDead
  BY DEF CutInv, OldTokensDead, credentialLive
<1> QED BY <1>1, <1>2, <1>3, SnapshotTypeCorrect, PTL DEF SSpec

-----------------------------------------------------------------------------
\* What holds of the tables holds of every snapshot, and of the tables again
\* when a snapshot is restored.

StoreInv ==
  /\ MintsBound /\ CredInv
  /\ \A t \in TokenId : Granted(t)
  /\ RequiredIsBound
  /\ JournalInv
  /\ RowsInv /\ EndingInv
  /\ LimitsInv

LEMMA StoreStep ==
  ASSUME TypeOK, TypeOK', StoreInv, [Next]_vars
  PROVE  StoreInv'
<1>1. /\ MintsBound /\ CredInv /\ (\A t \in TokenId : Granted(t)) /\ RequiredIsBound
      /\ JournalInv /\ RowsInv /\ EndingInv /\ LimitsInv
  BY DEF StoreInv
<1>2. MintsBound' /\ CredInv' /\ RequiredIsBound'
  BY <1>1, MintsBoundStep, CredStepKeeps, RequiredStep
<1>3. \A t \in TokenId : Granted(t)'
  BY <1>1, GrantedStep
<1>4. JournalInv'
  BY <1>1, JournalStep
<1>5. RowsInv' /\ EndingInv'
  BY <1>1, RowsStep, EndingStep
<1>6. LimitsInv'
  BY <1>1, LimitsStep
<1> QED BY <1>2, <1>3, <1>4, <1>5, <1>6 DEF StoreInv

LEMMA InitStores == Init => StoreInv
<1>. SUFFICES ASSUME Init
              PROVE  StoreInv
  OBVIOUS
<1>1. MintsBound /\ CredInv /\ (\A t \in TokenId : Granted(t)) /\ RequiredIsBound
  BY DEF Init, MintsBound, Idle, CredInv, Signed, Tombs, ExpiredStays, Granted,
         RequiredIsBound, NoRow
<1>2. JournalInv
  BY DEF Init, JournalInv, Journalled, names, Operation, NoRow
<1>3. EndingInv /\ RowsInv /\ LimitsInv
  BY InitEndings, InitLimits
<1> QED BY <1>1, <1>2, <1>3 DEF StoreInv

\* The parts of StoreInv that speak of the tables, said of the snapshot.
DumpSigned(t) ==
  snapshot.tokens[t].state # "NONE" =>
    LET tok == snapshot.tokens[t]
        key == snapshot.keys[tok.kid]
        task == snapshot.tasks[tok.task]
    IN /\ t <= lastToken /\ tok.iat <= snapshot.lastNow
       /\ key.state # "NONE" /\ tok.exp <= key.last_exp
       /\ key.state = "RETIRED" => tok.exp <= snapshot.lastNow
       /\ task.state # "NONE" /\ task.who = tok.who /\ tok.exp <= task.exp
       /\ tok.scopes \subseteq tok.policy.body.granted[tok.who.sub]
       /\ tok.policy.body.herald[tok.who.sub] = "required" => tok.who.herald

DumpTombs ==
  /\ \A t \in TokenId : <<"token", t>> \in snapshot.revocations => t <= lastToken
  /\ \A k \in Kid : <<"signing_key", k>> \in snapshot.revocations =>
       snapshot.keys[k].state \in Dead
  /\ \A i \in TaskId : snapshot.tasks[i].state = "REVOKED" =>
       \/ <<"task", i>> \in snapshot.revocations
       \/ <<"subject", snapshot.tasks[i].who.sub>> \in snapshot.revocations

DumpExpired ==
  /\ \A i \in TaskId : snapshot.tasks[i].state = "EXPIRED" =>
       snapshot.tasks[i].exp <= snapshot.lastNow
  /\ \A t \in TokenId : snapshot.tokens[t].state = "EXPIRED" =>
       snapshot.tokens[t].exp <= snapshot.lastNow
  /\ \A x \in NonceId : snapshot.nonces[x].state = "EXPIRED" =>
       snapshot.nonces[x].exp <= snapshot.lastNow

dumpNames(o, t) == snapshot.operations[o].state = "SAVED" /\ snapshot.operations[o].tok = t

DumpJournal ==
  /\ \A o \in Operation : snapshot.operations[o].state = "SAVED" =>
       snapshot.operations[o].tok \in 0 .. lastToken
  /\ \A o1, o2 \in Operation : \A t \in TokenId :
       dumpNames(o1, t) /\ dumpNames(o2, t) => o1 = o2
  /\ \A t \in TokenId : snapshot.tokens[t].state # "NONE" =>
       \/ snapshot.tokens[t].exp <= snapshot.lastNow
       \/ \E o \in Operation : /\ dumpNames(o, t)
                               /\ snapshot.tokens[t].exp <= snapshot.operations[o].exp

DumpRows ==
  \A i \in CallId : snapshot.calls[i].state # "NONE" =>
    /\ snapshot.tasks[snapshot.calls[i].call.task].state # "NONE"
    /\ snapshot.calls[i].call.id = i

dumpEnded(s, c) == <<eventOf[s], c>> \in snapshot.audit

DumpEndings ==
  \A c \in Call :
    /\ \A s, r \in Terminal : dumpEnded(s, c) /\ dumpEnded(r, c) => s = r
    /\ \A s \in Terminal :
         snapshot.calls[c.id].state = s /\ snapshot.calls[c.id].call = c => dumpEnded(s, c)
    /\ \A s \in Terminal : dumpEnded(s, c) =>
         /\ \/ snapshot.calls[c.id].state # "NONE" /\ snapshot.calls[c.id].call = c
            \/ /\ snapshot.tasks[c.task].state # "NONE"
               /\ snapshot.tasks[c.task].exp <= snapshot.lastNow
         /\ ~(snapshot.calls[c.id].state = "DISPATCHING" /\ snapshot.calls[c.id].call = c)

dumpInflight == {i \in CallId : snapshot.calls[i].state = "DISPATCHING"}
dumpTasks == {i \in TaskId : snapshot.tasks[i].state = "ACTIVE"}
dumpOpen == {x \in NonceId : snapshot.nonces[x].state = "OPEN"}
dumpOpenOf(t) == {x \in dumpOpen : snapshot.nonces[x].tok = t}

DumpLimits ==
  /\ IsFiniteSet(dumpInflight) /\ Cardinality(dumpInflight) <= MAX_INFLIGHT_CALLS
  /\ IsFiniteSet(dumpTasks) /\ Cardinality(dumpTasks) <= MAX_LIVE_TASKS
  /\ Cardinality(dumpOpen) <= MAX_OPEN_NONCES_TENANT
  /\ \A t \in TokenId : Cardinality(dumpOpenOf(t)) <= MAX_OPEN_NONCES_TOKEN
  /\ \A x, y \in dumpOpen :
       /\ snapshot.nonces[x].tok = snapshot.nonces[y].tok
       /\ snapshot.nonces[x].call = snapshot.nonces[y].call
       => x = y

DumpInv ==
  snapshot # NoSnapshot =>
    /\ \A t \in TokenId : DumpSigned(t)
    /\ DumpTombs /\ DumpExpired /\ DumpJournal /\ DumpRows /\ DumpEndings
    /\ DumpLimits

\* A snapshot is kept as it is; only the number of tokens handed out grows.
LEMMA DumpStays ==
  ASSUME DumpInv, UNCHANGED snapshot, lastToken \in Nat, lastToken' \in Nat,
         lastToken' >= lastToken
  PROVE  DumpInv'
<1>. SUFFICES ASSUME snapshot # NoSnapshot
              PROVE  /\ \A t \in TokenId : DumpSigned(t)'
                     /\ DumpTombs' /\ DumpExpired' /\ DumpJournal' /\ DumpRows'
                     /\ DumpEndings' /\ DumpLimits'
  BY DEF DumpInv
<1>1. \A t \in TokenId : t <= lastToken => t <= lastToken'
  BY NatConstants DEF TokenId
<1>2. \A t \in TokenId : DumpSigned(t)'
  BY <1>1 DEF DumpInv, DumpSigned
<1>3. DumpTombs' /\ DumpExpired'
  BY <1>1 DEF DumpInv, DumpTombs, DumpExpired
<1>4. DumpJournal'
  <2>1. \A n \in 0 .. lastToken : n \in 0 .. lastToken'
    OBVIOUS
  <2> QED BY <2>1 DEF DumpInv, DumpJournal, dumpNames
<1>5. DumpRows' /\ DumpEndings'
  BY DEF DumpInv, DumpRows, DumpEndings, dumpEnded
<1>6. DumpLimits'
  BY DEF DumpInv, DumpLimits, dumpInflight, dumpTasks, dumpOpen, dumpOpenOf
<1> QED BY <1>2, <1>3, <1>4, <1>5, <1>6

\* A snapshot is a copy of the tables.
LEMMA DumpTaken ==
  ASSUME StoreInv, exportSnapshot
  PROVE  DumpInv'
<1>1. /\ snapshot'.lastNow = lastNow /\ snapshot'.tasks = tasks
      /\ snapshot'.tokens = tokens /\ snapshot'.keys = keys
      /\ snapshot'.revocations = revocations /\ snapshot'.operations = operations
      /\ snapshot'.nonces = nonces /\ snapshot'.calls = calls
      /\ snapshot'.audit = audit
  BY DEF exportSnapshot
<1>2. UNCHANGED lastToken
  BY DEF exportSnapshot, vars
<1>3. \A t \in TokenId : DumpSigned(t)'
  BY <1>1, <1>2 DEF StoreInv, CredInv, Signed, Granted, RequiredIsBound, DumpSigned
<1>4. DumpTombs'
  BY <1>1, <1>2 DEF StoreInv, CredInv, Tombs, DumpTombs
<1>5. DumpExpired'
  BY <1>1 DEF StoreInv, CredInv, ExpiredStays, DumpExpired
<1>6. DumpJournal'
  BY <1>1, <1>2 DEF StoreInv, JournalInv, Journalled, names, DumpJournal, dumpNames
<1>7. DumpRows'
  BY <1>1 DEF StoreInv, RowsInv, RowsHaveTasks, RowsKeyed, DumpRows
<1>8. DumpEndings'
  BY <1>1 DEF StoreInv, EndingInv, OneEnding, Ended, Accounted, UnderWay,
              DumpEndings, dumpEnded
<1>9. DumpLimits'
  <2>1. /\ dumpInflight' = inflightCalls /\ dumpTasks' = liveTasks /\ dumpOpen' = openNonces
        /\ \A t \in TokenId : dumpOpenOf(t)' = openOf(t)
    BY <1>1 DEF dumpInflight, dumpTasks, dumpOpen, dumpOpenOf, inflightCalls, liveTasks,
                openNonces, openOf
  <2>2. LimitsInv
    BY DEF StoreInv
  <2> QED
    BY <1>1, <2>1, <2>2
       DEF LimitsInv, InFlightBounded, TasksBounded, NoncesBounded, DumpLimits
<1> QED BY <1>3, <1>4, <1>5, <1>6, <1>7, <1>8, <1>9 DEF DumpInv

-----------------------------------------------------------------------------
\* A restore

\* The clock passes that of the snapshot, and a task of the snapshot is left
\* alone or revoked under a tombstone.
LEMMA RestoredTasks ==
  ASSUME SnapshotTypeOK, NEW new \in Kid, restoreSnapshot(new)
  PROVE  /\ DumpType /\ snapshot # NoSnapshot
         /\ lastNow' \in Nat /\ snapshot.lastNow \in Nat /\ lastNow' >= snapshot.lastNow
         /\ snapshot.revocations \subseteq revocations'
         /\ \A t \in TokenId : <<"token", t>> \in revocations' =>
              <<"token", t>> \in snapshot.revocations
         /\ \A k \in Kid : <<"signing_key", k>> \in revocations' =>
              <<"signing_key", k>> \in snapshot.revocations
         /\ \A i \in TaskId :
              \/ /\ tasks'[i] = snapshot.tasks[i]
                 /\ snapshot.tasks[i].state # "ACTIVE"
              \/ /\ snapshot.tasks[i] \in TaskRow /\ snapshot.tasks[i].state = "ACTIVE"
                 /\ tasks'[i].state = "REVOKED" /\ <<"task", i>> \in revocations'
                 /\ tasks'[i].who = snapshot.tasks[i].who
                 /\ tasks'[i].exp = snapshot.tasks[i].exp
<1>1. DumpType /\ snapshot # NoSnapshot
  BY DEF SnapshotTypeOK, restoreSnapshot
<1>2. lastNow' \in Nat /\ snapshot.lastNow \in Nat /\ lastNow' >= snapshot.lastNow
  BY <1>1, NowType, NatConstants
     DEF DumpType, SnapshotTypeOK, TypeOK, restoreSnapshot, cutClock
<1>3. revocations' = snapshot.revocations \cup ({"task"} \X liveInSnapshot)
  BY DEF restoreSnapshot, cutTasks
<1>4. ASSUME NEW i \in TaskId
      PROVE  \/ /\ tasks'[i] = snapshot.tasks[i]
                /\ snapshot.tasks[i].state # "ACTIVE"
             \/ /\ snapshot.tasks[i] \in TaskRow /\ snapshot.tasks[i].state = "ACTIVE"
                /\ tasks'[i].state = "REVOKED" /\ <<"task", i>> \in revocations'
                /\ tasks'[i].who = snapshot.tasks[i].who
                /\ tasks'[i].exp = snapshot.tasks[i].exp
  <2>1. CASE i \in liveInSnapshot
    <3>1. snapshot.tasks[i].state = "ACTIVE" /\ snapshot.tasks[i] \in TaskRow
      BY <1>1, <2>1 DEF liveInSnapshot, DumpType, NoRow
    <3>2. tasks'[i] = [snapshot.tasks[i] EXCEPT !.state = "REVOKED"]
      BY <2>1 DEF restoreSnapshot, cutTasks
    <3> QED BY <1>3, <2>1, <3>1, <3>2 DEF TaskRow
  <2>2. CASE i \notin liveInSnapshot
    BY <2>2 DEF restoreSnapshot, cutTasks, liveInSnapshot
  <2> QED BY <2>1, <2>2
<1> QED BY <1>1, <1>2, <1>3, <1>4

\* The keys of the snapshot stay, the active one drained; the new one is none of
\* them.
LEMMA RestoredKeys ==
  ASSUME SnapshotTypeOK, NEW new \in Kid, restoreSnapshot(new)
  PROVE  \A k \in Kid : snapshot.keys[k].state # "NONE" =>
           /\ keys'[k].state # "NONE" /\ keys'[k].last_exp = snapshot.keys[k].last_exp
           /\ keys'[k].state = "RETIRED" => snapshot.keys[k].state = "RETIRED"
           /\ snapshot.keys[k].state \in Dead => keys'[k].state \in Dead
<1>. SUFFICES ASSUME NEW k \in Kid, snapshot.keys[k].state # "NONE"
              PROVE  /\ keys'[k].state # "NONE"
                     /\ keys'[k].last_exp = snapshot.keys[k].last_exp
                     /\ keys'[k].state = "RETIRED" => snapshot.keys[k].state = "RETIRED"
                     /\ snapshot.keys[k].state \in Dead => keys'[k].state \in Dead
  OBVIOUS
<1>1. DumpType /\ snapshot.keys[k] \in KeyRow /\ k # new
  BY DEF SnapshotTypeOK, restoreSnapshot, DumpType, NoRow
<1>2. keys' = [snapshot.keys EXCEPT
         ![snapshot.activeKid] = demoted(snapshot.keys[snapshot.activeKid]),
         ![new] = [state |-> "ACTIVE", last_exp |-> 0]]
  BY DEF restoreSnapshot
<1>3. keys'[k] \in {snapshot.keys[k], demoted(snapshot.keys[k])}
  BY <1>1, <1>2 DEF DumpType
<1> QED BY <1>1, <1>3 DEF demoted, KeyRow, Dead

LEMMA RestoreSigned ==
  ASSUME SnapshotTypeOK, DumpInv, NEW new \in Kid, restoreSnapshot(new),
         NEW t \in TokenId
  PROVE  Signed(t)' /\ Granted(t)'
<1>1. DumpType /\ DumpSigned(t) /\ lastToken' = lastToken
      /\ tokens'[t] = snapshot.tokens[t]
  BY RestoredTasks DEF DumpInv, restoreSnapshot, restoreRows
<1>2. ASSUME snapshot.tokens[t].state # "NONE"
      PROVE  Signed(t)'
  <2>. DEFINE tok == snapshot.tokens[t]
  <2>1. /\ tok.task \in TaskId /\ tok.kid \in Kid /\ tok.iat \in Nat /\ tok.exp \in Nat
    BY <1>1, <1>2 DEF DumpType, NoRow, TokenRow
  <2>2. /\ t <= lastToken /\ tok.iat <= snapshot.lastNow
        /\ snapshot.keys[tok.kid].state # "NONE"
        /\ tok.exp <= snapshot.keys[tok.kid].last_exp
        /\ snapshot.keys[tok.kid].state = "RETIRED" => tok.exp <= snapshot.lastNow
        /\ snapshot.tasks[tok.task].state # "NONE"
        /\ snapshot.tasks[tok.task].who = tok.who
        /\ tok.exp <= snapshot.tasks[tok.task].exp
    BY <1>1, <1>2 DEF DumpSigned
  <2>3. /\ keys'[tok.kid].state # "NONE" /\ tok.exp <= keys'[tok.kid].last_exp
        /\ keys'[tok.kid].state = "RETIRED" => tok.exp <= snapshot.lastNow
    BY <2>1, <2>2, RestoredKeys
  <2>4. /\ tasks'[tok.task].state # "NONE" /\ tasks'[tok.task].who = tok.who
        /\ tok.exp <= tasks'[tok.task].exp
    BY <2>1, <2>2, RestoredTasks
  <2>5. lastNow' \in Nat /\ snapshot.lastNow \in Nat /\ lastNow' >= snapshot.lastNow
        /\ tokens'[t] = tok /\ t <= lastToken'
    BY <1>1, <2>2, RestoredTasks
  <2>. HIDE DEF tok
  <2>6. /\ tok.iat <= lastNow'
        /\ keys'[tok.kid].state = "RETIRED" => tok.exp <= lastNow'
    BY <2>1, <2>2, <2>3, <2>5
  <2> QED BY <2>3, <2>4, <2>5, <2>6 DEF Signed
<1> QED BY <1>1, <1>2 DEF Signed, Granted, DumpSigned

LEMMA RestoreTombs ==
  ASSUME SnapshotTypeOK, DumpInv, NEW new \in Kid, restoreSnapshot(new)
  PROVE  Tombs' /\ ExpiredStays' /\ RequiredIsBound'
<1>1. /\ DumpType /\ DumpTombs /\ DumpExpired /\ \A t \in TokenId : DumpSigned(t)
      /\ lastToken' = lastToken /\ tokens' = snapshot.tokens /\ nonces' = snapshot.nonces
  BY RestoredTasks DEF DumpInv, restoreSnapshot, restoreRows
<1>2. ASSUME NEW k \in Kid, <<"signing_key", k>> \in revocations'
      PROVE  keys'[k].state \in Dead
  <2>1. snapshot.keys[k].state \in Dead
    BY <1>1, <1>2, RestoredTasks DEF DumpTombs
  <2> QED BY <2>1, RestoredKeys DEF Dead
<1>3. Tombs'
  BY <1>1, <1>2, RestoredTasks DEF DumpTombs, Tombs
<1>4. lastNow' \in Nat /\ snapshot.lastNow \in Nat /\ lastNow' >= snapshot.lastNow
  BY RestoredTasks
<1>5. ASSUME NEW i \in TaskId, tasks'[i].state = "EXPIRED"
      PROVE  tasks'[i].exp <= lastNow'
  <2>1. tasks'[i] = snapshot.tasks[i]
    BY <1>5, RestoredTasks
  <2>2. snapshot.tasks[i] \in TaskRow
    BY <1>1, <1>5, <2>1 DEF DumpType, NoRow
  <2> QED BY <1>1, <1>4, <1>5, <2>1, <2>2 DEF DumpExpired, TaskRow
<1>6. ASSUME NEW t \in TokenId, tokens'[t].state = "EXPIRED"
      PROVE  tokens'[t].exp <= lastNow'
  <2>1. snapshot.tokens[t] \in TokenRow
    BY <1>1, <1>6 DEF DumpType, NoRow
  <2> QED BY <1>1, <1>4, <1>6, <2>1 DEF DumpExpired, TokenRow
<1>7. ASSUME NEW x \in NonceId, nonces'[x].state = "EXPIRED"
      PROVE  nonces'[x].exp <= lastNow'
  <2>1. snapshot.nonces[x] \in NonceRow
    BY <1>1, <1>7 DEF DumpType, NoRow
  <2> QED BY <1>1, <1>4, <1>7, <2>1 DEF DumpExpired, NonceRow
<1>8. RequiredIsBound'
  BY <1>1 DEF RequiredIsBound, DumpSigned
<1> QED BY <1>3, <1>5, <1>6, <1>7, <1>8 DEF ExpiredStays

LEMMA RestoreJournal ==
  ASSUME SnapshotTypeOK, DumpInv, NEW new \in Kid, restoreSnapshot(new)
  PROVE  JournalInv'
<1>1. /\ DumpType /\ DumpJournal /\ lastToken' = lastToken
      /\ tokens' = snapshot.tokens /\ operations' = snapshot.operations
      /\ lastNow' \in Nat /\ snapshot.lastNow \in Nat /\ lastNow' >= snapshot.lastNow
  BY RestoredTasks DEF DumpInv, restoreSnapshot, restoreRows
<1>2. ASSUME NEW t \in TokenId, snapshot.tokens[t].state # "NONE",
             snapshot.tokens[t].exp <= snapshot.lastNow
      PROVE  snapshot.tokens[t].exp <= lastNow'
  <2>1. snapshot.tokens[t].exp \in Nat
    BY <1>1, <1>2 DEF DumpType, NoRow, TokenRow
  <2> QED BY <1>1, <1>2, <2>1
<1>3. \A t \in TokenId : Journalled(t)'
  BY <1>1, <1>2 DEF DumpJournal, dumpNames, Journalled, names
<1> QED BY <1>1, <1>3 DEF DumpJournal, dumpNames, JournalInv, names

LEMMA RestoreEndings ==
  ASSUME SnapshotTypeOK, DumpInv, NEW new \in Kid, restoreSnapshot(new)
  PROVE  RowsInv' /\ EndingInv'
<1>1. /\ DumpType /\ DumpRows /\ DumpEndings /\ calls' = snapshot.calls
      /\ audit' = snapshot.audit \cup {<<"storage.migrated", new>>}
      /\ lastNow' \in Nat /\ snapshot.lastNow \in Nat /\ lastNow' >= snapshot.lastNow
  BY RestoredTasks DEF DumpInv, restoreSnapshot, restoreRows
<1>2. ASSUME NEW i \in TaskId, snapshot.tasks[i].state # "NONE"
      PROVE  tasks'[i].state # "NONE" /\ tasks'[i].exp = snapshot.tasks[i].exp
             /\ snapshot.tasks[i].exp \in Nat
  <2>1. snapshot.tasks[i] \in TaskRow
    BY <1>1, <1>2 DEF DumpType, NoRow
  <2>2. tasks'[i].state # "NONE" /\ tasks'[i].exp = snapshot.tasks[i].exp
    BY <1>2, RestoredTasks
  <2> QED BY <2>1, <2>2 DEF TaskRow
<1>3. RowsInv'
  <2>1. ASSUME NEW i \in CallId, snapshot.calls[i].state # "NONE"
        PROVE  snapshot.calls[i].call.task \in TaskId
    BY <1>1, <2>1, RequestAssumption DEF DumpType, NoRow, CallRow
  <2> QED BY <1>1, <1>2, <2>1 DEF DumpRows, RowsInv, RowsHaveTasks, RowsKeyed
<1>4. ASSUME NEW c \in Call, NEW s \in Terminal
      PROVE  Ended(s, c)' <=> dumpEnded(s, c)
  BY <1>1 DEF Ended, dumpEnded, Terminal, eventOf
<1>5. \A c \in Call : \A s, r \in Terminal : Ended(s, c)' /\ Ended(r, c)' => s = r
  BY <1>1, <1>4 DEF DumpEndings
<1>6. \A c \in Call : \A s \in Terminal : RowEnds(c, s)' => Ended(s, c)'
  BY <1>1, <1>4 DEF DumpEndings, RowEnds
<1>7. ASSUME NEW c \in Call, NEW s \in Terminal, Ended(s, c)'
      PROVE  Accounted(c)' /\ ~UnderWay(c)'
  <2>1. c.task \in TaskId
    BY RequestAssumption
  <2>2. /\ \/ snapshot.calls[c.id].state # "NONE" /\ snapshot.calls[c.id].call = c
           \/ /\ snapshot.tasks[c.task].state # "NONE"
              /\ snapshot.tasks[c.task].exp <= snapshot.lastNow
        /\ ~(snapshot.calls[c.id].state = "DISPATCHING" /\ snapshot.calls[c.id].call = c)
    BY <1>1, <1>4, <1>7 DEF DumpEndings
  <2>3. CASE /\ snapshot.tasks[c.task].state # "NONE"
             /\ snapshot.tasks[c.task].exp <= snapshot.lastNow
    <3>1. tasks'[c.task].state # "NONE" /\ tasks'[c.task].exp <= lastNow'
      BY <1>1, <1>2, <2>1, <2>3
    <3> QED BY <1>1, <2>2, <3>1 DEF Accounted, UnderWay
  <2> QED BY <1>1, <2>2, <2>3 DEF Accounted, UnderWay
<1> QED BY <1>3, <1>5, <1>6, <1>7, EndingsRead

\* The restored tables hold what the snapshot held, and of its tasks at most the
\* live ones are live.
LEMMA RestoreLimits ==
  ASSUME SnapshotTypeOK, DumpInv, NEW new \in Kid, restoreSnapshot(new)
  PROVE  LimitsInv'
<1>1. DumpLimits
  BY DEF DumpInv, restoreSnapshot
<1>2. nonces' = snapshot.nonces /\ calls' = snapshot.calls
  BY DEF restoreSnapshot, restoreRows
<1>3. /\ inflightCalls' = dumpInflight /\ openNonces' = dumpOpen
      /\ \A t \in TokenId : openOf(t)' = dumpOpenOf(t)
  BY <1>2 DEF dumpInflight, dumpOpen, dumpOpenOf, inflightCalls, openNonces, openOf
<1>4. liveTasks' \subseteq dumpTasks
  BY RestoredTasks DEF liveTasks, dumpTasks
<1>5. IsFiniteSet(liveTasks)' /\ Cardinality(liveTasks)' <= MAX_LIVE_TASKS
  BY <1>1, <1>4, FewerCounted, NatLimits DEF DumpLimits
<1> QED
  BY <1>1, <1>2, <1>3, <1>5
     DEF DumpLimits, LimitsInv, InFlightBounded, TasksBounded, NoncesBounded

LEMMA RestoreStores ==
  ASSUME SnapshotTypeOK, StoreInv, DumpInv, NEW new \in Kid, restoreSnapshot(new)
  PROVE  StoreInv' /\ DumpInv'
<1>1. MintsBound'
  BY DEF StoreInv, MintsBound, restoreSnapshot
<1>2. UNCHANGED snapshot /\ lastToken' = lastToken /\ lastToken \in Nat
  BY LastTokenType DEF SnapshotTypeOK, restoreSnapshot
<1>3. DumpInv'
  BY <1>2, DumpStays
<1>4. CredInv' /\ RequiredIsBound' /\ \A t \in TokenId : Granted(t)'
  BY RestoreSigned, RestoreTombs DEF CredInv
<1>5. JournalInv' /\ RowsInv' /\ EndingInv'
  BY RestoreJournal, RestoreEndings
<1>6. LimitsInv'
  BY RestoreLimits
<1> QED BY <1>1, <1>3, <1>4, <1>5, <1>6 DEF StoreInv

\* Without a restore, the authority takes one of its own steps: a restart is a
\* crash, or nothing when no handler was under way.
LEMMA OwnStep ==
  ASSUME TypeOK, [SNext]_allVars, ~Restore
  PROVE  [Next]_vars
<1>1. CASE AuthorityStep
  BY <1>1, IngressStep
<1>2. CASE restart
  <2>1. CASE \E h \in Handler : handlers[h] # Idle
    BY <1>2, <2>1 DEF restart, crash, Next
  <2>2. CASE \A h \in Handler : handlers[h] = Idle
    <3>1. UNCHANGED handlers
      BY <1>2, <2>2 DEF restart, TypeOK, ObsType
    <3> QED BY <1>2, <3>1 DEF restart, vars, credVars, callVars, obsVars
  <2> QED BY <2>1, <2>2
<1>3. CASE enterMaintenance \/ exitMaintenance \/ exportSnapshot \/ UNCHANGED allVars
  BY <1>3 DEF enterMaintenance, exitMaintenance, setMaintenance, exportSnapshot, allVars
<1> QED BY <1>1, <1>2, <1>3 DEF SNext

LEMMA SnapshotKept ==
  ASSUME SnapshotTypeOK, SnapshotTypeOK', StoreInv, DumpInv, [SNext]_allVars, ~Restore
  PROVE  StoreInv' /\ DumpInv'
<1>1. TypeOK /\ TypeOK' /\ MintsBound /\ [Next]_vars
  BY OwnStep DEF SnapshotTypeOK, StoreInv
<1>2. StoreInv'
  BY <1>1, StoreStep
<1>3. lastToken \in Nat /\ lastToken' \in Nat /\ lastToken' >= lastToken
  BY <1>1, StepMoves, LastTokenType, NatConstants DEF TypeOK, CredType
<1>4. exportSnapshot \/ UNCHANGED snapshot
  BY DEF SNext, AuthorityStep, restart, enterMaintenance, exitMaintenance,
         setMaintenance, allVars, snapVars
<1>5. DumpInv'
  BY <1>3, <1>4, DumpStays, DumpTaken
<1> QED BY <1>2, <1>5

LEMMA StoresHold == SSpec => [](SnapshotTypeOK /\ StoreInv /\ DumpInv)
<1>1. SInit => StoreInv /\ DumpInv
  <2>. SUFFICES ASSUME SInit
                PROVE  StoreInv /\ DumpInv
    OBVIOUS
  <2>1. Init /\ DumpInv
    BY DEF SInit, DumpInv
  <2>2. StoreInv
    BY <2>1, InitStores
  <2> QED BY <2>1, <2>2
<1>2. /\ SnapshotTypeOK /\ SnapshotTypeOK' /\ StoreInv /\ DumpInv /\ [SNext]_allVars
        => StoreInv' /\ DumpInv'
  BY RestoreStores, SnapshotKept DEF Restore
<1> QED BY <1>1, <1>2, SnapshotTypeCorrect, PTL DEF SSpec

-----------------------------------------------------------------------------
\* The authority's properties hold through restores.

\* /inspect and the agent routes agree on every token, after any restore too:
\* the restored rows agreed when the dump was taken, a task revoked at the
\* cutover gets its tombstone, and the drained key is not a dead one.
THEOREM InspectTellsTheTruthRestored == SSpec => []InspectAgrees
<1>1. SnapshotTypeOK /\ StoreInv => InspectAgrees
  BY InspectSound DEF SnapshotTypeOK, StoreInv
<1> QED BY <1>1, StoresHold, PTL

\* A signing key is retired only after its tokens have expired, although a
\* restore replaces the keys along with the tokens they signed.
THEOREM RetiredKeysAreDrainedRestored == SSpec => []RetiredKeyDrained
<1>1. StoreInv => RetiredKeyDrained
  BY DEF StoreInv, CredInv, Signed, RetiredKeyDrained
<1> QED BY <1>1, StoresHold, PTL

\* What was expired in a snapshot is expired by the clock after its restore.
THEOREM ExpiredStaysExpiredRestored == SSpec => []ExpiredStays
<1>1. StoreInv => ExpiredStays
  BY DEF StoreInv, CredInv
<1> QED BY <1>1, StoresHold, PTL

\* No restore brings back an unbound token of a principal that needs a card.
THEOREM RequiredTokensAreBoundRestored == SSpec => []RequiredIsBound
<1>1. StoreInv => RequiredIsBound
  BY DEF StoreInv
<1> QED BY <1>1, StoresHold, PTL

\* The journal of a snapshot goes with its tokens: after a restore, too, exactly
\* one operation holds a token that has not expired, and no id is handed out
\* twice, because the next one is never below those of the snapshot.
THEOREM MintedOnceRestored == SSpec => []MintJournalled
<1>1. SnapshotTypeOK /\ StoreInv => MintJournalled
  BY JournalledOnce DEF SnapshotTypeOK, StoreInv
<1> QED BY <1>1, StoresHold, PTL

\* The log of a snapshot goes with its call rows: a handler that waited for its
\* adapter through the restore ends only a call that the restored log has not
\* ended.
THEOREM CallsEndOnceRestored == SSpec => []OneEnding
<1>1. StoreInv => OneEnding
  BY DEF StoreInv, EndingInv
<1> QED BY <1>1, StoresHold, PTL

\* The limits hold after any restore: what a snapshot holds was counted when it was
\* taken, and nothing a suspended handler does later is added without counting.
THEOREM LimitsHoldRestored == SSpec => []WithinLimits
<1>1. StoreInv => WithinLimits
  BY LimitsAreWithin DEF StoreInv
<1> QED BY <1>1, StoresHold, PTL

\* A restore neither mints nor dispatches.
LEMMA RestoreIsQuiet ==
  ASSUME SnapshotTypeOK, Restore
  PROVE  ~(lastToken' > lastToken) /\ \A c \in Call : ~(dispatches'[c] > dispatches[c])
<1>1. lastToken' = lastToken /\ dispatches' = dispatches
  BY DEF Restore, restoreSnapshot, obsVars
<1>2. lastToken \in Nat /\ dispatches \in [Call -> Nat]
  BY LastTokenType DEF SnapshotTypeOK, TypeOK, ObsType
<1> QED BY <1>1, <1>2

\* A mint that waited for Herald through a restore hands out a live token: its
\* transaction looks at the restored tables and tombstones.
THEOREM MintedTokensAreLiveRestored == SSpec => MintLive
<1>1. /\ SnapshotTypeOK /\ SnapshotTypeOK' /\ StoreInv /\ StoreInv' /\ [SNext]_allVars
        => (lastToken' > lastToken => credentialLive(lastToken)')
  <2>. SUFFICES ASSUME SnapshotTypeOK, SnapshotTypeOK', StoreInv, StoreInv',
                       [SNext]_allVars, lastToken' > lastToken
                PROVE  credentialLive(lastToken)'
    OBVIOUS
  <2>1. TypeOK /\ TypeOK' /\ MintsBound /\ CredInv /\ CredInv'
    BY DEF SnapshotTypeOK, StoreInv
  <2>2. [Next]_vars
    BY <2>1, OwnStep, RestoreIsQuiet
  <2> QED BY <2>1, <2>2, MintedLive
<1> QED BY <1>1, StoresHold, PTL DEF SSpec, MintLive

\* No call is dispatched on credentials that a restore has cut off: an admission
\* that waited for Herald through it checks the restored tables again.
THEOREM DispatchesAreAuthorisedRestored == SSpec => DispatchAuthorised
<1>1. /\ SnapshotTypeOK /\ StoreInv /\ [SNext]_allVars
        => [\A c \in Call : dispatches'[c] > dispatches[c] => Authorised(c)]_vars
  <2>. SUFFICES ASSUME SnapshotTypeOK, StoreInv, [SNext]_allVars,
                       NEW c \in Call, dispatches'[c] > dispatches[c]
                PROVE  Authorised(c)
    OBVIOUS
  <2>1. TypeOK /\ MintsBound /\ \A t \in TokenId : Granted(t)
    BY DEF SnapshotTypeOK, StoreInv
  <2>2. [Next]_vars
    BY <2>1, OwnStep, RestoreIsQuiet
  <2> QED BY <2>1, <2>2, DispatchStepAuthorised
<1> QED BY <1>1, StoresHold, PTL DEF SSpec, DispatchAuthorised, Authorised
-----------------------------------------------------------------------------
\* What the tables have a history of

\* Commits and dispatches counted from what restores have taken out.  The bases
\* are named first, so that a step is argued with them fixed.
HistoryInv ==
  \E e \in [Proof -> Int], d \in [Call -> Int] :
    /\ e = lost.executed /\ d = lost.dispatches
    /\ Remembered(e) /\ DispatchedSince(d)

\* The same of the snapshot.
DumpHistory ==
  LET done == snapshot.kept IN
  /\ \A p \in Proof :
       /\ done.executed[p] <= 1
       /\ done.executed[p] = 1 =>
            snapshot.proofs[p] >= Horizon(p) \/ snapshot.lastNow >= Horizon(p)
  /\ \A c, d \in Call :
       /\ done.dispatches[c] <= 1
       /\ /\ c.id = d.id /\ c.task = d.task
          /\ done.dispatches[c] > 0 /\ done.dispatches[d] > 0
          => c = d
  /\ \A c \in Call : done.dispatches[c] > 0 =>
       \/ snapshot.calls[c.id].state # "NONE" /\ snapshot.calls[c.id].call = c
       \/ /\ snapshot.tasks[c.task].state # "NONE"
          /\ snapshot.tasks[c.task].exp <= snapshot.lastNow

DumpHistoryInv == snapshot # NoSnapshot => DumpHistory

LEMMA HistoryStep ==
  ASSUME TypeOK, HistoryInv, [Next]_vars, UNCHANGED lost
  PROVE  HistoryInv'
<1>1. PICK e \in [Proof -> Int], d \in [Call -> Int] :
        /\ e = lost.executed /\ d = lost.dispatches
        /\ Remembered(e) /\ DispatchedSince(d)
  BY DEF HistoryInv
<1>2. Remembered(e)'
  BY <1>1, EveryStepIsALedgerStep, LedgerKeeps
<1>3. DispatchedSince(d)'
  BY <1>1, DispatchSinceStep
<1>4. e = lost'.executed /\ d = lost'.dispatches
  BY <1>1
<1> QED BY <1>2, <1>3, <1>4 DEF HistoryInv

\* A dump records its history along with its rows.
LEMMA HistoryTaken ==
  ASSUME SnapshotTypeOK, HistoryInv, exportSnapshot
  PROVE  DumpHistory'
<1>1. PICK e \in [Proof -> Int], d \in [Call -> Int] :
        /\ e = lost.executed /\ d = lost.dispatches
        /\ Remembered(e) /\ DispatchedSince(d)
  BY DEF HistoryInv
<1>2. /\ snapshot'.lastNow = lastNow /\ snapshot'.tasks = tasks
      /\ snapshot'.proofs = proofs /\ snapshot'.calls = calls
  BY DEF exportSnapshot
<1>3. /\ \A p \in Proof : snapshot'.kept.executed[p] = executed[p] - e[p]
      /\ \A c \in Call : snapshot'.kept.dispatches[c] = dispatches[c] - d[c]
  BY <1>1 DEF exportSnapshot, kept
<1>4. dispatches \in [Call -> Nat]
  BY DEF SnapshotTypeOK, TypeOK, ObsType
<1>5. \A p \in Proof :
        /\ snapshot'.kept.executed[p] <= 1
        /\ snapshot'.kept.executed[p] = 1 =>
             snapshot'.proofs[p] >= Horizon(p) \/ snapshot'.lastNow >= Horizon(p)
  BY <1>1, <1>2, <1>3 DEF Remembered
<1>6. \A c \in Call : snapshot'.kept.dispatches[c] > 0 <=> dispatches[c] > d[c]
  BY <1>3, <1>4
<1>7. \A c, x \in Call :
        /\ snapshot'.kept.dispatches[c] <= 1
        /\ /\ c.id = x.id /\ c.task = x.task
           /\ snapshot'.kept.dispatches[c] > 0 /\ snapshot'.kept.dispatches[x] > 0
           => c = x
  BY <1>1, <1>3, <1>6 DEF DispatchedSince, OnceSince
<1>8. \A c \in Call : snapshot'.kept.dispatches[c] > 0 =>
        \/ snapshot'.calls[c.id].state # "NONE" /\ snapshot'.calls[c.id].call = c
        \/ /\ snapshot'.tasks[c.task].state # "NONE"
           /\ snapshot'.tasks[c.task].exp <= snapshot'.lastNow
  BY <1>1, <1>2, <1>6 DEF DispatchedSince, Accounted
<1> QED BY <1>5, <1>7, <1>8 DEF DumpHistory, Horizon

\* What a restore brings back still stops what it has a history of: rows come
\* back as they were dumped, tasks keep their expiry, the clock is not behind.
LEMMA RestoreHistory ==
  ASSUME SnapshotTypeOK, DumpInv, DumpHistory, NEW new \in Kid, restoreSnapshot(new)
  PROVE  HistoryInv'
<1>1. /\ DumpType /\ DumpRows /\ proofs' = snapshot.proofs /\ calls' = snapshot.calls
      /\ lastNow' \in Nat /\ snapshot.lastNow \in Nat /\ lastNow' >= snapshot.lastNow
  BY RestoredTasks DEF DumpInv, restoreSnapshot, restoreRows
<1>2. /\ executed \in [Proof -> Nat] /\ dispatches \in [Call -> Nat]
      /\ snapshot.kept \in History
  BY <1>1 DEF SnapshotTypeOK, DumpType, TypeOK, LogType, ObsType
<1>3. PICK e \in [Proof -> Int], d \in [Call -> Int] :
        /\ e = [p \in Proof |-> executed[p] - snapshot.kept.executed[p]]
        /\ d = [c \in Call |-> dispatches[c] - snapshot.kept.dispatches[c]]
  <2>1. /\ [p \in Proof |-> executed[p] - snapshot.kept.executed[p]] \in [Proof -> Int]
        /\ [c \in Call |-> dispatches[c] - snapshot.kept.dispatches[c]] \in [Call -> Int]
    BY <1>2 DEF History
  <2> QED BY <2>1
<1>4. e = lost'.executed /\ d = lost'.dispatches
  BY <1>3 DEF restoreSnapshot
<1>5. UNCHANGED <<executed, dispatches>>
  BY DEF restoreSnapshot, obsVars
<1>6. /\ \A p \in Proof : executed'[p] - e[p] = snapshot.kept.executed[p]
      /\ \A c \in Call : dispatches'[c] - d[c] = snapshot.kept.dispatches[c]
      /\ \A c \in Call : dispatches'[c] > d[c] <=> snapshot.kept.dispatches[c] > 0
  BY <1>2, <1>3, <1>5 DEF History
<1>7. ASSUME NEW p \in Proof, snapshot.lastNow >= Horizon(p)
      PROVE  lastNow' >= Horizon(p)
  <2>1. Horizon(p) \in Int
    BY RequestAssumption, NatConstants DEF Horizon
  <2> QED BY <1>1, <1>7, <2>1
<1>8. Remembered(e)'
  BY <1>1, <1>6, <1>7 DEF DumpHistory, Remembered, Horizon
<1>9. ASSUME NEW i \in TaskId, snapshot.tasks[i].state # "NONE"
      PROVE  tasks'[i].state # "NONE" /\ tasks'[i].exp = snapshot.tasks[i].exp
             /\ snapshot.tasks[i].exp \in Nat
  <2>1. snapshot.tasks[i] \in TaskRow
    BY <1>1, <1>9 DEF DumpType, NoRow
  <2>2. tasks'[i].state # "NONE" /\ tasks'[i].exp = snapshot.tasks[i].exp
    BY <1>9, RestoredTasks
  <2> QED BY <2>1, <2>2 DEF TaskRow
<1>10. ASSUME NEW c \in Call, dispatches'[c] > d[c]
       PROVE  Accounted(c)'
  <2>1. c.task \in TaskId
    BY RequestAssumption
  <2>2. \/ snapshot.calls[c.id].state # "NONE" /\ snapshot.calls[c.id].call = c
        \/ /\ snapshot.tasks[c.task].state # "NONE"
           /\ snapshot.tasks[c.task].exp <= snapshot.lastNow
    BY <1>6, <1>10 DEF DumpHistory
  <2> QED BY <1>1, <1>9, <2>1, <2>2 DEF Accounted
<1>11. RowsHaveTasks'
  <2>1. ASSUME NEW i \in CallId, snapshot.calls[i].state # "NONE"
        PROVE  snapshot.calls[i].call.task \in TaskId
    BY <1>1, <2>1, RequestAssumption DEF DumpType, NoRow, CallRow
  <2> QED BY <1>1, <1>9, <2>1 DEF DumpRows, RowsHaveTasks
<1>12. OnceSince(d)'
  BY <1>6 DEF DumpHistory, OnceSince
<1>13. DispatchedSince(d)'
  BY <1>10, <1>11, <1>12 DEF DispatchedSince
<1> QED BY <1>4, <1>8, <1>13 DEF HistoryInv

LEMMA HistoriesHold == SSpec => [](SnapshotTypeOK /\ HistoryInv /\ DumpHistoryInv)
<1>1. SInit => HistoryInv /\ DumpHistoryInv
  <2>. SUFFICES ASSUME SInit
                PROVE  HistoryInv /\ DumpHistoryInv
    OBVIOUS
  <2>. DEFINE e == [p \in Proof |-> 0]
              d == [c \in Call |-> 0]
  <2>1. e \in [Proof -> Int] /\ d \in [Call -> Int]
    OBVIOUS
  <2>2. e = lost.executed /\ d = lost.dispatches
    BY DEF SInit
  <2>3. Remembered(e)
    BY DEF SInit, Init, Remembered
  <2>4. DispatchedSince(d)
    BY DEF SInit, Init, DispatchedSince, OnceSince, RowsHaveTasks, NoRow
  <2>5. DumpHistoryInv
    BY DEF SInit, DumpHistoryInv
  <2>. HIDE DEF e, d
  <2> QED BY <2>1, <2>2, <2>3, <2>4, <2>5 DEF HistoryInv
<1>2. SnapshotTypeOK /\ SnapshotTypeOK' /\ DumpInv /\ HistoryInv /\ DumpHistoryInv
      /\ [SNext]_allVars => HistoryInv' /\ DumpHistoryInv'
  <2>. SUFFICES ASSUME SnapshotTypeOK, SnapshotTypeOK', DumpInv,
                       HistoryInv, DumpHistoryInv, [SNext]_allVars
                PROVE  HistoryInv' /\ DumpHistoryInv'
    OBVIOUS
  <2>1. ASSUME NEW new \in Kid, restoreSnapshot(new)
        PROVE  HistoryInv' /\ DumpHistoryInv'
    <3>1. snapshot # NoSnapshot /\ UNCHANGED snapshot
      BY <2>1 DEF restoreSnapshot
    <3> QED BY <2>1, <3>1, RestoreHistory DEF DumpHistoryInv, DumpHistory
  <2>2. CASE ~Restore
    <3>1. TypeOK /\ [Next]_vars
      BY <2>2, OwnStep DEF SnapshotTypeOK
    <3>2. UNCHANGED lost /\ (exportSnapshot \/ UNCHANGED snapshot)
      BY <2>2 DEF SNext, AuthorityStep, restart, enterMaintenance, exitMaintenance,
                  setMaintenance, exportSnapshot, allVars, snapVars
    <3>3. HistoryInv'
      BY <3>1, <3>2, HistoryStep
    <3>4. DumpHistoryInv'
      BY <3>2, HistoryTaken DEF DumpHistoryInv, DumpHistory
    <3> QED BY <3>3, <3>4
  <2> QED BY <2>1, <2>2 DEF Restore
<1> QED BY <1>1, <1>2, StoresHold, PTL DEF SSpec

\* What the tables have a history of, a snapshot restored or not, has happened
\* once and is still stopped: a committed proof is in the table or out of its
\* window, a dispatched call has its row or a task that has run out.
THEOREM RestoresRemember == SSpec => []RemembersOnce
<1>1. SnapshotTypeOK /\ HistoryInv => RemembersOnce
  <2>. SUFFICES ASSUME SnapshotTypeOK, HistoryInv
                PROVE  RemembersOnce
    OBVIOUS
  <2>1. PICK e \in [Proof -> Int], d \in [Call -> Int] :
          /\ e = lost.executed /\ d = lost.dispatches
          /\ Remembered(e) /\ DispatchedSince(d)
    BY DEF HistoryInv
  <2>2. /\ executed \in [Proof -> Nat] /\ dispatches \in [Call -> Nat]
        /\ lastNow \in Nat /\ now \in Nat /\ now >= lastNow
    BY NowType, NowAhead, NatConstants
       DEF SnapshotTypeOK, TypeOK, LogType, ObsType, TimeType
  <2>3. ASSUME NEW p \in Proof
        PROVE  /\ kept.executed[p] <= 1
               /\ kept.executed[p] = 1 => proofSeen(p) \/ ~inWindow(p)
    <3>1. kept.executed[p] = executed[p] - e[p]
      BY <2>1 DEF kept
    <3>2. /\ p.iat \in Nat /\ Horizon(p) \in Int
          /\ Horizon(p) > p.iat + PROOF_LEEWAY /\ PROOF_LEEWAY \in Nat
      BY RequestAssumption, NatConstants, ConstantAssumption DEF Horizon
    <3>3. proofs[p] >= Horizon(p) => proofSeen(p)
      BY <3>2 DEF proofSeen
    <3>4. lastNow >= Horizon(p) => ~inWindow(p)
      BY <2>2, <3>2 DEF inWindow
    <3> QED BY <2>1, <3>1, <3>3, <3>4 DEF Remembered
  <2>4. ASSUME NEW c \in Call
        PROVE  /\ kept.dispatches[c] <= 1
               /\ kept.dispatches[c] = 1 =>
                    \/ calls[c.id].state # "NONE" /\ calls[c.id].call = c
                    \/ tasks[c.task].state # "NONE" /\ tasks[c.task].exp <= now
    <3>1. kept.dispatches[c] = dispatches[c] - d[c]
      BY <2>1 DEF kept
    <3>2. kept.dispatches[c] = 1 => Accounted(c)
      BY <2>1, <2>2, <3>1 DEF DispatchedSince
    <3>3. tasks[c.task].state # "NONE" => tasks[c.task].exp \in Nat
      <4>1. c.task \in TaskId
        BY RequestAssumption
      <4> QED BY <4>1, ExistingTask DEF SnapshotTypeOK, TaskRow
    <3>4. Accounted(c) =>
            \/ calls[c.id].state # "NONE" /\ calls[c.id].call = c
            \/ tasks[c.task].state # "NONE" /\ tasks[c.task].exp <= now
      BY <2>2, <3>3 DEF Accounted
    <3> QED BY <2>1, <3>1, <3>2, <3>4 DEF DispatchedSince, OnceSince
  <2> QED BY <2>3, <2>4 DEF RemembersOnce
<1> QED BY <1>1, HistoriesHold, PTL
=============================================================================
