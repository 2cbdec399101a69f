--------------------------- MODULE DispatchProofs ---------------------------
(***************************************************************************)
(* Replay protection and one-shot dispatch, for every value of the         *)
(* constants: the authority implements the abstract ledger of proofs, the  *)
(* ledger lets the request behind a proof commit at most once, and a call  *)
(* is dispatched at most once.                                             *)
(***************************************************************************)
EXTENDS TenantAuthorityProofs

-----------------------------------------------------------------------------
\* Every step of the authority is a step of the ledger

\* The step a transaction of the authority makes on the ledger.
LedgerStep == [Ledger!Next]_(Ledger!ledgerVars)

\* A step that only raises last_now, as completeCall and recover() do.
LEMMA AdvanceStep ==
  ASSUME TypeOK, NEW n \in 0 .. MaxTime, bumpNow(n), UNCHANGED <<proofs, executed>>
  PROVE  LedgerStep
<1>1. CASE n > lastNow
  BY <1>1, NatConstants
     DEF LedgerStep, Ledger!Next, Ledger!Advance, bumpNow, TypeOK, TimeType
<1>2. CASE ~(n > lastNow)
  BY <1>2 DEF LedgerStep, Ledger!ledgerVars, bumpNow
<1> QED BY <1>1, <1>2

LEMMA StutterStep ==
  ASSUME UNCHANGED <<lastNow, proofs, executed>>
  PROVE  LedgerStep
  BY DEF LedgerStep, Ledger!ledgerVars

\* now() never lies behind last_now.
LEMMA NowAhead == TimeType => now >= lastNow
  BY NatConstants DEF TimeType, now

\* bumpNow(now) sets last_now to now.
LEMMA BumpToNow == TimeType /\ bumpNow(now) => lastNow' = now
  BY NatConstants DEF TimeType, now, bumpNow

\* deny() enters the proof or, when it was seen, does nothing.
LEMMA DenyStep ==
  ASSUME TypeOK, NEW p \in Proof, deny(p), UNCHANGED executed
  PROVE  LedgerStep
<1>1. CASE proofSeen(p)
  BY <1>1, StutterStep DEF deny
<1>2. CASE ~proofSeen(p)
  <2>1. Ledger!Refuse(p, now)
    BY <1>2, NowAhead, BumpToNow
       DEF deny, proofSeen, claimProof, Ledger!Refuse, Ledger!Enter, TypeOK
  <2> QED BY <2>1, NowType DEF LedgerStep, Ledger!Next, TypeOK
<1> QED BY <1>1, <1>2

\* A request commits with a proof that is not in the table and in its window.
LEMMA CommitStep ==
  ASSUME TypeOK, NEW p \in Proof, execute(p), ~proofSeen(p), inWindow(p),
         bumpNow(now) \/ UNCHANGED lastNow
  PROVE  LedgerStep
<1>1. Ledger!Commit(p, now)
  BY NowAhead, BumpToNow
     DEF execute, proofSeen, claimProof, inWindow, Ledger!Commit, Ledger!Enter,
         TypeOK
<1> QED BY <1>1, NowType DEF LedgerStep, Ledger!Next, TypeOK

LEMMA AdmissionStep ==
  ASSUME TypeOK, NEW h \in Handler, NEW t \in TokenId, NEW p \in Proof,
         NEW nonce \in {0} \cup NonceId, NEW c \in Call,
         admissionTx(h, t, p, nonce, c)
  PROVE  LedgerStep
<1>1. CASE deny(p) /\ UNCHANGED executed
  BY <1>1, DenyStep
<1>2. CASE recheck(t, p, c) /\ ~proofSeen(p)
             /\ (replayCall(t, p, c) \/ admitCall(t, p, nonce, c))
  BY <1>2, CommitStep DEF recheck, agentPrecheck, replayCall, admitCall
<1> QED BY <1>1, <1>2 DEF admissionTx

LEMMA AgentStep ==
  ASSUME TypeOK, AgentRequest
  PROVE  LedgerStep
<1>1. PICK t \in TokenId, p \in Proof :
        \/ \E h \in Handler, c \in Call, nonce \in {0} \cup NonceId :
             handleCall(h, t, p, nonce, c)
        \/ \E c \in Call : handleNonce(t, p, c)
        \/ \E i \in CallId : handleResult(t, p, i)
  BY DEF AgentRequest
<1>2. ASSUME NEW h \in Handler, NEW c \in Call, NEW nonce \in {0} \cup NonceId,
             handleCall(h, t, p, nonce, c)
      PROVE  LedgerStep
  BY <1>2, DenyStep, StutterStep, AdmissionStep DEF handleCall
<1>3. ASSUME NEW c \in Call, handleNonce(t, p, c)
      PROVE  LedgerStep
  BY <1>3, DenyStep, CommitStep DEF handleNonce, agentPrecheck, unseen
<1>4. ASSUME NEW i \in CallId, handleResult(t, p, i)
      PROVE  LedgerStep
  BY <1>4, DenyStep, CommitStep DEF handleResult, agentPrecheck, unseen
<1> QED BY <1>1, <1>2, <1>3, <1>4

LEMMA MintTxStep ==
  ASSUME TypeOK, NEW h \in Handler, NEW kid \in ControlKid, NEW p \in Proof,
         NEW op \in OpId, NEW req \in MintRequest, mintTx(h, kid, p, op, req)
  PROVE  LedgerStep
  BY DenyStep, CommitStep
     DEF mintTx, controlDeny, controlGate, replayOperation, saveOperation

LEMMA ControlStep ==
  ASSUME TypeOK, ControlRequest
  PROVE  LedgerStep
<1>1. PICK kid \in ControlKid, p \in Proof :
        \/ \E h \in Handler, op \in OpId, req \in MintRequest :
             handleMint(h, kid, p, op, req)
        \/ \E op \in OpId, target \in Target : handleRevoke(kid, p, op, target)
        \/ \E op \in OpId, rev \in 1 .. MaxRevision, body \in Policy :
             handlePolicy(kid, p, op, rev, body)
        \/ \E op \in OpId, old \in Kid, new \in Kid :
             handleRotate(kid, p, op, old, new)
        \/ \E t \in TokenId : handleInspect(kid, p, t)
        \/ handleAudit(kid, p)
  BY DEF ControlRequest
<1>2. ASSUME NEW h \in Handler, NEW op \in OpId, NEW req \in MintRequest,
             handleMint(h, kid, p, op, req)
      PROVE  LedgerStep
  BY <1>2, MintTxStep, DenyStep, StutterStep DEF handleMint, controlDeny
<1>3. ASSUME \/ controlDeny(p)
             \/ deny(p) /\ UNCHANGED executed
             \/ ~proofSeen(p) /\ inWindow(p) /\ execute(p) /\ bumpNow(now)
      PROVE  LedgerStep
  BY <1>3, DenyStep, CommitStep DEF controlDeny
<1>4. ASSUME NEW op \in OpId, NEW target \in Target, handleRevoke(kid, p, op, target)
      PROVE  LedgerStep
  BY <1>3, <1>4 DEF handleRevoke, controlOp, controlGate, replayOperation, saveOperation
<1>5. ASSUME NEW op \in OpId, NEW rev \in 1 .. MaxRevision, NEW body \in Policy,
             handlePolicy(kid, p, op, rev, body)
      PROVE  LedgerStep
  BY <1>3, <1>5 DEF handlePolicy, controlOp, controlGate, replayOperation, saveOperation
<1>6. ASSUME NEW op \in OpId, NEW old \in Kid, NEW new \in Kid,
             handleRotate(kid, p, op, old, new)
      PROVE  LedgerStep
  BY <1>3, <1>6 DEF handleRotate, controlOp, controlGate, replayOperation, saveOperation
<1>7. ASSUME NEW t \in TokenId, handleInspect(kid, p, t)
      PROVE  LedgerStep
  BY <1>3, <1>7 DEF handleInspect, controlRead, controlGate
<1>8. ASSUME handleAudit(kid, p)
      PROVE  LedgerStep
  BY <1>3, <1>8 DEF handleAudit, controlRead, controlGate
<1> QED BY <1>1, <1>2, <1>4, <1>5, <1>6, <1>7, <1>8

LEMMA AnswerStep ==
  ASSUME TypeOK, Answer
  PROVE  LedgerStep
<1>1. PICK h \in Handler :
        \/ \E obs \in Observation : callHeraldAnswers(h, obs) \/ mintHeraldAnswers(h, obs)
        \/ \E outcome \in Terminal : adapterReturns(h, outcome)
  BY DEF Answer
<1>. DEFINE w == handlers[h]
<1>2. ASSUME NEW obs \in Observation, callHeraldAnswers(h, obs)
      PROVE  LedgerStep
  <2>1. /\ w.tok \in TokenId /\ w.proof \in Proof /\ w.call \in Call
        /\ w.nonce \in {0} \cup NonceId
    BY <1>2, WaitType, NatConstants DEF callHeraldAnswers, CallWait, NonceId
  <2>2. \/ admissionTx(h, w.tok, w.proof, w.nonce, w.call)
        \/ deny(w.proof) /\ UNCHANGED executed
    BY <1>2 DEF callHeraldAnswers
  <2>. HIDE DEF w
  <2> QED BY <2>1, <2>2, AdmissionStep, DenyStep
<1>3. ASSUME NEW obs \in Observation, mintHeraldAnswers(h, obs)
      PROVE  LedgerStep
  <2>1. /\ w.kid \in ControlKid /\ w.proof \in Proof /\ w.op \in OpId
        /\ w.req \in MintRequest
    BY <1>3, WaitType DEF mintHeraldAnswers, MintWait
  <2>2. \/ mintTx(h, w.kid, w.proof, w.op, w.req)
        \/ deny(w.proof) /\ UNCHANGED executed
    BY <1>3 DEF mintHeraldAnswers, controlDeny
  <2>. HIDE DEF w
  <2> QED BY <2>1, <2>2, MintTxStep, DenyStep
<1>4. ASSUME NEW outcome \in Terminal, adapterReturns(h, outcome)
      PROVE  LedgerStep
  <2>1. UNCHANGED <<proofs, executed>> /\ (bumpNow(now) \/ UNCHANGED lastNow)
    BY <1>4 DEF adapterReturns, completeCall
  <2> QED BY <2>1, AdvanceStep, StutterStep, NowType DEF TypeOK
<1> QED BY <1>1, <1>2, <1>3, <1>4

LEMMA LifecycleStep ==
  ASSUME TypeOK, tick \/ StepBack \/ crash \/ Recover \/ Maintain
  PROVE  LedgerStep
<1>1. phys \in 0 .. MaxTime /\ now \in 0 .. MaxTime
  BY NowType DEF TypeOK, TimeType
<1>2. CASE tick \/ StepBack \/ crash
  BY <1>2, StutterStep DEF tick, StepBack, stepBack, crash
<1>3. CASE Recover
  BY <1>1, <1>3, AdvanceStep DEF Recover, recover
<1>4. ASSUME NEW n \in 0 .. MaxTime, runMaintenance(n)
      PROVE  LedgerStep
  <2>1. Ledger!Forget(n)
    BY <1>4 DEF runMaintenance, bumpNow, Ledger!Forget
  <2> QED BY <2>1 DEF LedgerStep, Ledger!Next
<1> QED BY <1>1, <1>2, <1>3, <1>4 DEF Maintain

LEMMA EveryStepIsALedgerStep == TypeOK /\ [Next]_vars => LedgerStep
<1>. SUFFICES ASSUME TypeOK, [Next]_vars
              PROVE  LedgerStep
  OBVIOUS
<1>1. CASE UNCHANGED vars
  BY <1>1, StutterStep DEF vars
<1> QED BY <1>1, AgentStep, ControlStep, AnswerStep, LifecycleStep DEF Next

\* Every behaviour of the authority is one of the ledger: whichever handler,
\* crash, recovery or purge it is, a step enters a proof that was not there,
\* commits it within its window, forgets what has run out or moves the clock up.
THEOREM AuthorityImplementsLedger == Spec => ImplementsLedger
<1>1. Init => Ledger!Init
  BY DEF Init, Ledger!Init
<1> QED BY <1>1, EveryStepIsALedgerStep, TypeCorrect, PTL
           DEF Spec, ImplementsLedger, Ledger!Spec, LedgerStep

-----------------------------------------------------------------------------
\* The ledger commits a proof once

\* The second from which a proof of iat can no longer be in its window.
Horizon(p) == p.iat - PROOF_LEEWAY + PROOF_RETENTION

\* Commits are counted from a base b: nothing, or what restores have taken out
\* of the tables.  A proof committed since is still in the table, or the clock is
\* past its window: a row entered at n lives until n + PROOF_RETENTION, and
\* n >= iat - leeway.
Remembered(b) ==
  \A p \in Proof :
    /\ executed[p] - b[p] <= 1
    /\ executed[p] - b[p] = 1 => proofs[p] >= Horizon(p) \/ lastNow >= Horizon(p)

LEMMA LedgerKeeps ==
  ASSUME TypeOK, NEW b \in [Proof -> Int], Remembered(b), LedgerStep
  PROVE  Remembered(b)'
<1>. SUFFICES ASSUME NEW p \in Proof
              PROVE  /\ executed'[p] - b[p] <= 1
                     /\ executed'[p] - b[p] = 1 => \/ proofs'[p] >= Horizon(p)
                                            \/ lastNow' >= Horizon(p)
  BY DEF Remembered, Horizon
<1>1. /\ lastNow \in Nat /\ proofs \in [Proof -> Nat] /\ executed \in [Proof -> Nat]
      /\ p.iat \in Nat /\ b[p] \in Int /\ executed[p] \in Nat
  BY RequestAssumption, NatConstants DEF TypeOK, TimeType, LogType
<1>2. /\ PROOF_LEEWAY \in Nat /\ PROOF_RETENTION \in Nat
      /\ PROOF_RETENTION > 2 * PROOF_LEEWAY
  BY NatConstants, ConstantAssumption
<1>3. Horizon(p) \in Int /\ Horizon(p) > p.iat + PROOF_LEEWAY
  BY <1>1, <1>2 DEF Horizon
<1>4. ASSUME NEW n \in 0 .. MaxTime, NEW q \in Proof, Ledger!Refuse(q, n)
      PROVE  /\ executed'[p] - b[p] <= 1
             /\ executed'[p] - b[p] = 1 => proofs'[p] >= Horizon(p) \/ lastNow' >= Horizon(p)
  BY <1>1, <1>2, <1>3, <1>4, NatConstants
     DEF Ledger!Refuse, Ledger!Enter, Remembered
<1>5. ASSUME NEW n \in 0 .. MaxTime, NEW q \in Proof, Ledger!Commit(q, n)
      PROVE  /\ executed'[p] - b[p] <= 1
             /\ executed'[p] - b[p] = 1 => proofs'[p] >= Horizon(p) \/ lastNow' >= Horizon(p)
  <2>1. n \in Nat /\ n >= lastNow
    BY <1>5, NatConstants DEF Ledger!Commit, Ledger!Enter
  <2>2. CASE p = q
    <3>1. executed[p] - b[p] # 1
      BY <1>1, <1>2, <1>3, <1>5, <2>1, <2>2
         DEF Ledger!Commit, Ledger!Enter, Remembered
    <3>2. executed[p] - b[p] <= 0
      BY <1>1, <3>1 DEF Remembered
    <3>3. executed'[p] - b[p] <= 1 /\ proofs'[p] = n + PROOF_RETENTION
      BY <1>1, <1>5, <2>2, <3>2 DEF Ledger!Commit, Ledger!Enter
    <3>4. n + PROOF_RETENTION >= Horizon(p)
      BY <1>1, <1>2, <1>5, <2>1, <2>2 DEF Ledger!Commit, Horizon
    <3> QED BY <3>3, <3>4
  <2>3. CASE p # q
    BY <1>1, <1>2, <1>3, <1>5, <2>1, <2>3 DEF Ledger!Commit, Ledger!Enter, Remembered
  <2> QED BY <2>2, <2>3
<1>6. ASSUME NEW n \in 0 .. MaxTime, Ledger!Forget(n)
      PROVE  /\ executed'[p] - b[p] <= 1
             /\ executed'[p] - b[p] = 1 => proofs'[p] >= Horizon(p) \/ lastNow' >= Horizon(p)
  BY <1>1, <1>3, <1>6, NatConstants DEF Ledger!Forget, Remembered
<1>7. ASSUME NEW n \in 0 .. MaxTime, Ledger!Advance(n)
      PROVE  /\ executed'[p] - b[p] <= 1
             /\ executed'[p] - b[p] = 1 => proofs'[p] >= Horizon(p) \/ lastNow' >= Horizon(p)
  BY <1>1, <1>3, <1>7, NatConstants DEF Ledger!Advance, Remembered
<1>8. CASE UNCHANGED Ledger!ledgerVars
  BY <1>8 DEF Ledger!ledgerVars, Remembered
<1> QED BY <1>4, <1>5, <1>6, <1>7, <1>8 DEF LedgerStep, Ledger!Next

\* The request behind a signed proof commits at most once over the life of the
\* database, through purges of the proofs table and steps of the clock; it
\* rests on PROOF_RETENTION > 2 * PROOF_LEEWAY (core/clock.ts: 181 and 90).
THEOREM ProofCommitsOnce == Spec => []ExecutedOnce
<1>. DEFINE zero == [p \in Proof |-> 0]
<1>1. Init => Remembered(zero)
  BY DEF Init, Remembered
<1>2. TypeOK /\ Remembered(zero) => ExecutedOnce
  BY DEF Remembered, ExecutedOnce, TypeOK, LogType
<1>3. TypeOK /\ Remembered(zero) /\ LedgerStep => Remembered(zero)'
  BY LedgerKeeps
<1>. HIDE DEF zero
<1> QED BY <1>1, <1>2, <1>3, AuthorityImplementsLedger, TypeCorrect, PTL
           DEF Spec, ImplementsLedger, Ledger!Spec, LedgerStep

-----------------------------------------------------------------------------
\* One-shot dispatch

\* What remains of a dispatched call: its row or, once the row is purged, a
\* task that is over.  The row stops a second admission (the existing-row
\* check), the expired task stops it afterwards (agentPrecheck).
Accounted(c) ==
  \/ calls[c.id].state # "NONE" /\ calls[c.id].call = c
  \/ tasks[c.task].state # "NONE" /\ tasks[c.task].exp <= lastNow

\* A call row belongs to a task that exists.
RowsHaveTasks ==
  \A i \in CallId :
    calls[i].state # "NONE" => tasks[calls[i].call.task].state # "NONE"

\* Dispatches are counted from a base b, as commits are.
OnceSince(b) ==
  \A c, d \in Call :
    /\ dispatches[c] - b[c] <= 1
    /\ /\ c.id = d.id /\ c.task = d.task
       /\ dispatches[c] > b[c] /\ dispatches[d] > b[d]
       => c = d

DispatchedSince(b) ==
  /\ OnceSince(b)
  /\ \A c \in Call : dispatches[c] > b[c] => Accounted(c)
  /\ RowsHaveTasks

DispatchInv ==
  /\ DispatchOnce
  /\ \A c \in Call : dispatches[c] > 0 => Accounted(c)
  /\ RowsHaveTasks

-----------------------------------------------------------------------------
\* What no step does

\* last_now never moves back.
LEMMA ClockMonotone == TypeOK /\ [Next]_vars => lastNow' >= lastNow
<1>. SUFFICES ASSUME TypeOK, LedgerStep
              PROVE  lastNow' >= lastNow
  BY EveryStepIsALedgerStep
<1>1. lastNow \in Nat
  BY NatConstants DEF TypeOK, TimeType
<1>2. ASSUME NEW n \in 0 .. MaxTime,
             \/ \E p \in Proof : Ledger!Refuse(p, n) \/ Ledger!Commit(p, n)
             \/ Ledger!Forget(n) \/ Ledger!Advance(n)
      PROVE  lastNow' >= lastNow
  BY <1>1, <1>2, NatConstants
     DEF Ledger!Refuse, Ledger!Commit, Ledger!Enter, Ledger!Forget, Ledger!Advance
<1>3. CASE UNCHANGED Ledger!ledgerVars
  BY <1>1, <1>3 DEF Ledger!ledgerVars
<1> QED BY <1>2, <1>3 DEF LedgerStep, Ledger!Next

\* A task row, once there, stays and keeps its expiry.
TasksStay ==
  \A i \in TaskId : tasks[i].state # "NONE" =>
    tasks'[i].state # "NONE" /\ tasks'[i].exp = tasks[i].exp

\* A call row stays with its call or goes RESULT_RETENTION after its task, and
\* none is new.
RowsStay ==
  \A i \in CallId :
    /\ calls[i].state # "NONE" =>
         \/ calls'[i].state # "NONE" /\ calls'[i].call = calls[i].call
         \/ tasks[calls[i].call.task].exp + RESULT_RETENTION <= lastNow'
    /\ calls'[i].state # "NONE" =>
         calls[i].state # "NONE" /\ calls'[i].call = calls[i].call

LEMMA ExistingTask ==
  ASSUME TypeOK, NEW i \in TaskId, tasks[i].state # "NONE"
  PROVE  tasks[i] \in TaskRow
  BY DEF TypeOK, CredType, NoRow

LEMMA ExistingCall ==
  ASSUME TypeOK, NEW i \in CallId, calls[i].state # "NONE"
  PROVE  calls[i] \in CallRow /\ calls[i].call.task \in TaskId
  BY RequestAssumption DEF TypeOK, CallType, NoRow, CallRow

LEMMA MintKeepsTasks ==
  ASSUME TypeOK, NEW req \in MintRequest, mintMutator(req)
  PROVE  TasksStay
  BY RequestAssumption DEF mintMutator, TasksStay, TypeOK, CredType

LEMMA RevokeKeepsTasks ==
  ASSUME TypeOK, NEW target \in Target, revokeMutator(target[1], target[2])
  PROVE  TasksStay
<1>. SUFFICES ASSUME NEW i \in TaskId, tasks[i].state # "NONE"
              PROVE  tasks'[i].state # "NONE" /\ tasks'[i].exp = tasks[i].exp
  BY DEF TasksStay
<1>1. tasks[i] \in TaskRow
  BY ExistingTask
<1>2. tasks'[i] = tasks[i] \/ tasks'[i] = [tasks[i] EXCEPT !.state = "REVOKED"]
  BY DEF revokeMutator, revokeRow
<1> QED BY <1>1, <1>2 DEF TaskRow

LEMMA MaintainKeeps ==
  ASSUME TypeOK, RowsHaveTasks, NEW n \in 0 .. MaxTime, runMaintenance(n)
  PROVE  TasksStay /\ RowsStay
<1>1. PICK taskB \in batch(dueIn(tasks, TaskId, "ACTIVE", n)),
           tokB  \in batch(dueIn(tokens, TokenId, "ACTIVE", n)),
           nonB  \in batch(dueIn(nonces, NonceId, "OPEN", n)),
           keyB  \in batch(drained(n)),
           sealB \in batch(purgeable(n)),
           callB \in batch(forgotten(n)) : runMaintenance(n)!(taskB, tokB, nonB, keyB, sealB, callB)
  BY DEF runMaintenance
<1>2. TasksStay
  <2>. SUFFICES ASSUME NEW i \in TaskId, tasks[i].state # "NONE"
                PROVE  tasks'[i].state # "NONE" /\ tasks'[i].exp = tasks[i].exp
    BY DEF TasksStay
  <2>1. tasks'[i] = tasks[i] \/ tasks'[i] = [tasks[i] EXCEPT !.state = "EXPIRED"]
    BY <1>1 DEF setState
  <2> QED BY <2>1, ExistingTask DEF TaskRow
<1>3. lastNow' >= n
  BY <1>1, NatConstants DEF bumpNow, TypeOK, TimeType
<1>4. ASSUME NEW i \in CallId, calls[i].state # "NONE"
      PROVE  \/ calls'[i].state # "NONE" /\ calls'[i].call = calls[i].call
             \/ tasks[calls[i].call.task].exp + RESULT_RETENTION <= lastNow'
  <2>1. CASE i \in callB
    <3>1. tasks[calls[i].call.task].exp + RESULT_RETENTION <= n
      BY <2>1 DEF batch, forgotten
    <3>2. tasks[calls[i].call.task].exp \in Nat
      BY <1>4, ExistingCall, ExistingTask DEF RowsHaveTasks, TaskRow
    <3> QED BY <1>1, <1>3, <3>1, <3>2, BumpNowType, NatConstants
  <2>2. CASE i \notin callB
    <3>1. calls'[i] = calls[i] \/ calls'[i] = [calls[i] EXCEPT !.sealed = FALSE]
      BY <1>1, <2>2
    <3> QED BY <1>4, <3>1, ExistingCall DEF CallRow
  <2> QED BY <2>1, <2>2
<1>5. ASSUME NEW i \in CallId, calls'[i].state # "NONE"
      PROVE  calls[i].state # "NONE" /\ calls'[i].call = calls[i].call
  <2>1. i \notin callB
    BY <1>1, <1>5 DEF NoRow
  <2>2. \/ calls'[i] = calls[i]
        \/ i \in sealB /\ calls'[i] = [calls[i] EXCEPT !.sealed = FALSE]
    BY <1>1, <2>1
  <2>3. i \in sealB => calls[i].state # "NONE"
    BY DEF batch, purgeable
  <2> QED BY <1>5, <2>2, <2>3, ExistingCall DEF CallRow
<1> QED BY <1>2, <1>4, <1>5 DEF RowsStay

-----------------------------------------------------------------------------
\* The invariant is inductive

\* The row of a call, or else its task that is over, stays.
LEMMA AccountedStays ==
  ASSUME TypeOK, RowsHaveTasks, [Next]_vars, TasksStay, RowsStay, NEW c \in Call,
         Accounted(c)
  PROVE  Accounted(c)'
<1>1. lastNow' >= lastNow /\ lastNow \in Nat /\ lastNow' \in Nat
  BY ClockMonotone, TypeStep, NatConstants DEF TypeOK, TimeType
<1>2. c.task \in TaskId /\ c.id \in CallId
  BY RequestAssumption DEF CallId
<1>3. CASE calls[c.id].state # "NONE" /\ calls[c.id].call = c
  <2>1. tasks[c.task].state # "NONE"
    BY <1>2, <1>3 DEF RowsHaveTasks
  <2>2. tasks[c.task].exp \in Nat /\ RESULT_RETENTION \in Nat
    BY <1>2, <2>1, ExistingTask, NatConstants DEF TaskRow
  <2>3. tasks'[c.task].state # "NONE" /\ tasks'[c.task].exp = tasks[c.task].exp
    BY <1>2, <2>1 DEF TasksStay
  <2>4. CASE tasks[c.task].exp + RESULT_RETENTION <= lastNow'
    BY <1>1, <2>2, <2>3, <2>4 DEF Accounted
  <2>5. CASE calls'[c.id].state # "NONE" /\ calls'[c.id].call = c
    BY <2>5 DEF Accounted
  <2> QED BY <1>2, <1>3, <2>4, <2>5 DEF RowsStay
<1>4. CASE tasks[c.task].state # "NONE" /\ tasks[c.task].exp <= lastNow
  <2>1. tasks[c.task].exp \in Nat
    BY <1>2, <1>4, ExistingTask DEF TaskRow
  <2> QED BY <1>1, <1>2, <1>4, <2>1 DEF TasksStay, Accounted
<1> QED BY <1>3, <1>4 DEF Accounted

\* A step that neither dispatches nor admits.
LEMMA QuietStep ==
  ASSUME TypeOK, NEW b \in [Call -> Int], DispatchedSince(b), [Next]_vars, TasksStay, RowsStay, UNCHANGED dispatches
  PROVE  DispatchedSince(b)'
<1>1. OnceSince(b)'
  BY DEF DispatchedSince, OnceSince
<1>2. \A c \in Call : dispatches'[c] > b[c] => Accounted(c)'
  BY AccountedStays DEF DispatchedSince
<1>3. RowsHaveTasks'
  BY ExistingCall DEF RowsStay, TasksStay, DispatchedSince, RowsHaveTasks
<1> QED BY <1>1, <1>2, <1>3 DEF DispatchedSince

\* An admission adds one row, where there was none, and no task ends with it.
RowAdded(c) ==
  /\ c.id \in CallId /\ c.task \in TaskId
  /\ tasks[c.task].state = "ACTIVE" /\ now < tasks[c.task].exp
  /\ calls[c.id].state = "NONE"
  /\ now \in Nat /\ lastNow \in Nat /\ now >= lastNow /\ lastNow' = now
  /\ tasks[c.task].exp \in Nat
  /\ calls'[c.id].state = "DISPATCHING" /\ calls'[c.id].call = c
  /\ \A i \in CallId : i # c.id => calls'[i] = calls[i]
  /\ \A d \in Call : d.id = c.id /\ d.task = c.task => ~Accounted(d)
  /\ \A d \in Call : Accounted(d) => Accounted(d)'

LEMMA AdmitRows ==
  ASSUME TypeOK, NEW t \in TokenId, NEW p \in Proof,
         NEW nonce \in {0} \cup NonceId, NEW c \in Call,
         recheck(t, p, c), admitCall(t, p, nonce, c), UNCHANGED tasks
  PROVE  RowAdded(c)
<1>1. c.id \in CallId /\ c.task \in TaskId
  BY RequestAssumption DEF CallId
<1>2. /\ tasks[c.task].state = "ACTIVE" /\ now < tasks[c.task].exp
      /\ calls[c.id].state = "NONE"
  BY DEF recheck, agentPrecheck, credentialLive, admitCall, newCall
<1>3. /\ now \in Nat /\ lastNow \in Nat /\ now >= lastNow /\ lastNow' = now
      /\ tasks[c.task].exp \in Nat
  BY <1>1, <1>2, NowType, NowAhead, BumpToNow, ExistingTask, NatConstants
     DEF admitCall, TypeOK, TimeType, TaskRow
<1>4. ASSUME NEW d \in Call, d.id = c.id, d.task = c.task
      PROVE  ~Accounted(d)
  BY <1>2, <1>3, <1>4 DEF Accounted
<1>5. /\ calls'[c.id].state = "DISPATCHING" /\ calls'[c.id].call = c
      /\ \A i \in CallId : i # c.id => calls'[i] = calls[i]
  BY <1>1 DEF admitCall, TypeOK, CallType
<1>6. ASSUME NEW d \in Call, Accounted(d)
      PROVE  Accounted(d)'
  <2>1. d.task \in TaskId /\ d.id \in CallId
    BY RequestAssumption DEF CallId
  <2>2. CASE calls[d.id].state # "NONE" /\ calls[d.id].call = d
    BY <1>2, <1>5, <2>1, <2>2 DEF Accounted
  <2>3. CASE tasks[d.task].state # "NONE" /\ tasks[d.task].exp <= lastNow
    <3>1. tasks[d.task].exp \in Nat
      BY <2>1, <2>3, ExistingTask DEF TaskRow
    <3> QED BY <1>3, <2>3, <3>1 DEF Accounted
  <2>4. \/ calls[d.id].state # "NONE" /\ calls[d.id].call = d
        \/ tasks[d.task].state # "NONE" /\ tasks[d.task].exp <= lastNow
    BY <1>6 DEF Accounted
  <2> QED BY <2>2, <2>3, <2>4
<1> QED BY <1>1, <1>2, <1>3, <1>4, <1>5, <1>6 DEF RowAdded

\* An admission, followed by the dispatch or by a crash.
LEMMA AdmitStep ==
  ASSUME TypeOK, NEW b \in [Call -> Int], DispatchedSince(b), NEW t \in TokenId, NEW p \in Proof,
         NEW nonce \in {0} \cup NonceId, NEW c \in Call,
         recheck(t, p, c), admitCall(t, p, nonce, c), UNCHANGED tasks,
         dispatches' \in {dispatches, [dispatches EXCEPT ![c] = @ + 1]}
  PROVE  DispatchedSince(b)'
<1>. RowAdded(c)
  BY AdmitRows
<1>1. ASSUME NEW d \in Call, d.id = c.id, d.task = c.task
      PROVE  dispatches[d] <= b[d]
  BY <1>1 DEF RowAdded, DispatchedSince, TypeOK, ObsType
<1>2. OnceSince(b)'
  BY <1>1 DEF OnceSince, DispatchedSince, TypeOK, ObsType
<1>3. ASSUME NEW d \in Call, dispatches'[d] > b[d]
      PROVE  Accounted(d)'
  <2>1. CASE d = c
    <3>1. calls'[c.id].state = "DISPATCHING" /\ calls'[c.id].call = c
      BY DEF RowAdded
    <3> QED BY <2>1, <3>1 DEF Accounted
  <2>2. CASE d # c
    BY <1>3, <2>2 DEF RowAdded, DispatchedSince, TypeOK, ObsType
  <2> QED BY <2>1, <2>2
<1>4. RowsHaveTasks'
  BY DEF RowAdded, DispatchedSince, RowsHaveTasks
<1> QED BY <1>2, <1>3, <1>4 DEF DispatchedSince

LEMMA UnchangedRowsStay == UNCHANGED calls => RowsStay
  BY DEF RowsStay
LEMMA UnchangedTasksStay == UNCHANGED tasks => TasksStay
  BY DEF TasksStay

LEMMA AdmissionKeeps ==
  ASSUME TypeOK, NEW b \in [Call -> Int], DispatchedSince(b), [Next]_vars, NEW h \in Handler, NEW t \in TokenId,
         NEW p \in Proof, NEW nonce \in {0} \cup NonceId, NEW c \in Call,
         admissionTx(h, t, p, nonce, c)
  PROVE  DispatchedSince(b)'
<1>1. UNCHANGED tasks
  BY DEF admissionTx, credVars
<1>2. CASE UNCHANGED <<calls, dispatches>>
  BY <1>1, <1>2, QuietStep, UnchangedRowsStay, UnchangedTasksStay
<1>3. CASE /\ recheck(t, p, c) /\ admitCall(t, p, nonce, c)
           /\ dispatches' \in {dispatches, [dispatches EXCEPT ![c] = @ + 1]}
  BY <1>1, <1>3, AdmitStep
<1> QED BY <1>2, <1>3 DEF admissionTx, callVars, obsVars, replayCall

LEMMA AgentKeeps ==
  ASSUME TypeOK, NEW b \in [Call -> Int], DispatchedSince(b), [Next]_vars, AgentRequest
  PROVE  DispatchedSince(b)'
<1>1. PICK t \in TokenId, p \in Proof :
        \/ \E h \in Handler, c \in Call, nonce \in {0} \cup NonceId :
             handleCall(h, t, p, nonce, c)
        \/ \E c \in Call : handleNonce(t, p, c)
        \/ \E i \in CallId : handleResult(t, p, i)
  BY DEF AgentRequest
<1>2. CASE UNCHANGED <<tasks, calls, dispatches>>
  BY <1>2, QuietStep, UnchangedRowsStay, UnchangedTasksStay
<1>3. ASSUME NEW h \in Handler, NEW c \in Call, NEW nonce \in {0} \cup NonceId,
             handleCall(h, t, p, nonce, c)
      PROVE  DispatchedSince(b)'
  BY <1>2, <1>3, AdmissionKeeps DEF handleCall, credVars, callVars, obsVars
<1>4. ASSUME \/ \E c \in Call : handleNonce(t, p, c)
             \/ \E i \in CallId : handleResult(t, p, i)
      PROVE  DispatchedSince(b)'
  BY <1>2, <1>4 DEF handleNonce, handleResult, credVars, callVars, obsVars
<1> QED BY <1>1, <1>3, <1>4

LEMMA MintTxKeeps ==
  ASSUME TypeOK, NEW b \in [Call -> Int], DispatchedSince(b), [Next]_vars, NEW h \in Handler, NEW kid \in ControlKid,
         NEW p \in Proof, NEW op \in OpId, NEW req \in MintRequest,
         mintTx(h, kid, p, op, req)
  PROVE  DispatchedSince(b)'
<1>1. UNCHANGED <<calls, dispatches>>
  BY DEF mintTx, controlFrame, callVars, obsVars
<1>2. TasksStay
  BY MintKeepsTasks, UnchangedTasksStay
     DEF mintTx, controlDeny, replayOperation, credVars
<1> QED BY <1>1, <1>2, QuietStep, UnchangedRowsStay

LEMMA ControlKeeps ==
  ASSUME TypeOK, NEW b \in [Call -> Int], DispatchedSince(b), [Next]_vars, ControlRequest
  PROVE  DispatchedSince(b)'
<1>1. PICK kid \in ControlKid, p \in Proof :
        \/ \E h \in Handler, op \in OpId, req \in MintRequest :
             handleMint(h, kid, p, op, req)
        \/ \E op \in OpId, target \in Target : handleRevoke(kid, p, op, target)
        \/ \E op \in OpId, rev \in 1 .. MaxRevision, body \in Policy :
             handlePolicy(kid, p, op, rev, body)
        \/ \E op \in OpId, old \in Kid, new \in Kid :
             handleRotate(kid, p, op, old, new)
        \/ \E t \in TokenId : handleInspect(kid, p, t)
        \/ handleAudit(kid, p)
  BY DEF ControlRequest
<1>2. ASSUME controlFrame, TasksStay
      PROVE  DispatchedSince(b)'
  BY <1>2, QuietStep, UnchangedRowsStay DEF controlFrame, callVars, obsVars
<1>3. ASSUME NEW h \in Handler, NEW op \in OpId, NEW req \in MintRequest,
             handleMint(h, kid, p, op, req)
      PROVE  DispatchedSince(b)'
  BY <1>2, <1>3, MintTxKeeps, UnchangedTasksStay
     DEF handleMint, controlDeny, credVars
<1>4. ASSUME NEW op \in OpId, NEW target \in Target, handleRevoke(kid, p, op, target)
      PROVE  DispatchedSince(b)'
  BY <1>2, <1>4, RevokeKeepsTasks, UnchangedTasksStay
     DEF handleRevoke, controlOp, controlDeny, replayOperation, credVars
<1>5. ASSUME NEW op \in OpId, NEW rev \in 1 .. MaxRevision, NEW body \in Policy,
             handlePolicy(kid, p, op, rev, body)
      PROVE  DispatchedSince(b)'
  BY <1>2, <1>5, UnchangedTasksStay
     DEF handlePolicy, controlOp, controlDeny, replayOperation, policyMutator, credVars
<1>6. ASSUME NEW op \in OpId, NEW old \in Kid, NEW new \in Kid,
             handleRotate(kid, p, op, old, new)
      PROVE  DispatchedSince(b)'
  BY <1>2, <1>6, UnchangedTasksStay
     DEF handleRotate, controlOp, controlDeny, replayOperation, rotateMutator, credVars
<1>7. ASSUME (\E t \in TokenId : handleInspect(kid, p, t)) \/ handleAudit(kid, p)
      PROVE  DispatchedSince(b)'
  BY <1>2, <1>7, UnchangedTasksStay
     DEF handleInspect, handleAudit, controlRead, credVars
<1> QED BY <1>1, <1>3, <1>4, <1>5, <1>6, <1>7

\* completeCall and recover() settle rows and leave their calls alone.
LEMMA CompleteKeepsRows ==
  ASSUME TypeOK, NEW c \in Call, NEW state \in Terminal, completeCall(c, state)
  PROVE  RowsStay
<1>1. c.id \in CallId
  BY DEF CallId
<1>2. calls[c.id].state = "DISPATCHING" /\ calls[c.id] \in CallRow
  BY <1>1, ExistingCall DEF completeCall
<1>3. /\ settledRow(calls[c.id], state).state = state
      /\ settledRow(calls[c.id], state).call = calls[c.id].call
  BY <1>2 DEF settledRow, CallRow
<1>4. state # "NONE"
  BY DEF Terminal
<1>5. calls' = [calls EXCEPT ![c.id] = settledRow(calls[c.id], state)]
  BY DEF completeCall
<1> QED BY <1>1, <1>2, <1>3, <1>4, <1>5 DEF RowsStay, TypeOK, CallType

LEMMA RecoverKeepsRows ==
  ASSUME TypeOK, NEW n \in 0 .. MaxTime, recover(n)
  PROVE  RowsStay
<1>1. \A i \in staleCalls(n) : calls[i].state = "DISPATCHING" /\ calls[i] \in CallRow
  BY ExistingCall DEF staleCalls, inflightCalls
<1>2. \A row \in CallRow : LET new == [row EXCEPT !.state = "UNKNOWN"]
                           IN  new.state = "UNKNOWN" /\ new.call = row.call
  BY DEF CallRow
<1>3. calls' = [i \in CallId |-> IF i \in staleCalls(n)
                  THEN [calls[i] EXCEPT !.state = "UNKNOWN"] ELSE calls[i]]
  BY DEF recover
<1> QED BY <1>1, <1>2, <1>3 DEF RowsStay

LEMMA AnswerKeeps ==
  ASSUME TypeOK, NEW b \in [Call -> Int], DispatchedSince(b), [Next]_vars, Answer
  PROVE  DispatchedSince(b)'
<1>1. PICK h \in Handler :
        \/ \E obs \in Observation : callHeraldAnswers(h, obs) \/ mintHeraldAnswers(h, obs)
        \/ \E outcome \in Terminal : adapterReturns(h, outcome)
  BY DEF Answer
<1>. DEFINE w == handlers[h]
<1>2. CASE UNCHANGED <<tasks, calls, dispatches>>
  BY <1>2, QuietStep, UnchangedRowsStay, UnchangedTasksStay
<1>3. ASSUME NEW obs \in Observation, callHeraldAnswers(h, obs)
      PROVE  DispatchedSince(b)'
  <2>1. /\ w.tok \in TokenId /\ w.proof \in Proof /\ w.call \in Call
        /\ w.nonce \in {0} \cup NonceId
    BY <1>3, WaitType, NatConstants DEF callHeraldAnswers, CallWait, NonceId
  <2>2. \/ admissionTx(h, w.tok, w.proof, w.nonce, w.call)
        \/ UNCHANGED <<tasks, calls, dispatches>>
    BY <1>3 DEF callHeraldAnswers, credVars, callVars, obsVars
  <2>. HIDE DEF w
  <2> QED BY <1>2, <2>1, <2>2, AdmissionKeeps
<1>4. ASSUME NEW obs \in Observation, mintHeraldAnswers(h, obs)
      PROVE  DispatchedSince(b)'
  <2>1. /\ w.kid \in ControlKid /\ w.proof \in Proof /\ w.op \in OpId
        /\ w.req \in MintRequest
    BY <1>4, WaitType DEF mintHeraldAnswers, MintWait
  <2>2. \/ mintTx(h, w.kid, w.proof, w.op, w.req)
        \/ UNCHANGED <<tasks, calls, dispatches>>
    BY <1>4 DEF mintHeraldAnswers, controlFrame, controlDeny, credVars, callVars, obsVars
  <2>. HIDE DEF w
  <2> QED BY <1>2, <2>1, <2>2, MintTxKeeps
<1>5. ASSUME NEW outcome \in Terminal, adapterReturns(h, outcome)
      PROVE  DispatchedSince(b)'
  <2>1. w.call \in Call /\ "UNKNOWN" \in Terminal
    BY <1>5, WaitType DEF adapterReturns, AdapterWait, Terminal
  <2>2. /\ UNCHANGED <<tasks, dispatches>>
        /\ \/ completeCall(w.call, outcome) \/ completeCall(w.call, "UNKNOWN")
           \/ UNCHANGED calls
    BY <1>5 DEF adapterReturns, credVars
  <2>. HIDE DEF w
  <2> QED BY <2>1, <2>2, CompleteKeepsRows, UnchangedRowsStay, UnchangedTasksStay, QuietStep
<1> QED BY <1>1, <1>3, <1>4, <1>5

LEMMA LifecycleKeeps ==
  ASSUME TypeOK, NEW b \in [Call -> Int], DispatchedSince(b), [Next]_vars, tick \/ StepBack \/ crash \/ Recover \/ Maintain
  PROVE  DispatchedSince(b)'
<1>1. phys \in 0 .. MaxTime /\ now \in 0 .. MaxTime
  BY NowType DEF TypeOK, TimeType
<1>2. CASE tick \/ StepBack \/ crash
  BY <1>2, QuietStep, UnchangedRowsStay, UnchangedTasksStay
     DEF tick, StepBack, stepBack, crash, credVars, callVars, obsVars
<1>3. ASSUME NEW n \in 0 .. MaxTime, recover(n)
      PROVE  DispatchedSince(b)'
  BY <1>3, QuietStep, RecoverKeepsRows, UnchangedTasksStay DEF recover, credVars, obsVars
<1>4. ASSUME NEW n \in 0 .. MaxTime, runMaintenance(n)
      PROVE  DispatchedSince(b)'
  <2>1. UNCHANGED dispatches
    BY <1>4 DEF runMaintenance, obsVars
  <2> QED BY <1>4, <2>1, QuietStep, MaintainKeeps DEF DispatchedSince
<1> QED BY <1>1, <1>2, <1>3, <1>4 DEF Recover, Maintain

LEMMA DispatchSinceStep ==
  ASSUME TypeOK, NEW b \in [Call -> Int], DispatchedSince(b), [Next]_vars
  PROVE  DispatchedSince(b)'
<1>1. CASE UNCHANGED vars
  BY <1>1, QuietStep, UnchangedRowsStay, UnchangedTasksStay DEF vars
<1> QED BY <1>1, AgentKeeps, ControlKeeps, AnswerKeeps, LifecycleKeeps DEF Next

LEMMA FromZero ==
  ASSUME dispatches \in [Call -> Nat]
  PROVE  DispatchInv <=> DispatchedSince([c \in Call |-> 0])
  BY DEF DispatchInv, DispatchOnce, DispatchedSince, OnceSince

LEMMA DispatchStep == TypeOK /\ DispatchInv /\ [Next]_vars => DispatchInv'
<1>. SUFFICES ASSUME TypeOK, DispatchInv, [Next]_vars
              PROVE  DispatchInv'
  OBVIOUS
<1>. DEFINE zero == [c \in Call |-> 0]
<1>1. dispatches \in [Call -> Nat] /\ dispatches' \in [Call -> Nat]
  BY TypeStep DEF TypeOK, ObsType
<1>2. DispatchedSince(zero)
  BY <1>1, FromZero
<1>3. DispatchedSince(zero)'
  BY <1>2, DispatchSinceStep
<1> QED BY <1>1, <1>3 DEF DispatchInv, DispatchOnce, DispatchedSince, OnceSince

\* An adapter is invoked at most once for a call, and for at most one of the
\* calls of a task that share a call id, however often the call is retried,
\* whichever process dies and whatever maintenance purges.
THEOREM CallsDispatchOnce == Spec => []DispatchOnce
<1>1. Init => DispatchInv
  BY DEF Init, DispatchInv, DispatchOnce, RowsHaveTasks, NoRow
<1>2. DispatchInv => DispatchOnce
  BY DEF DispatchInv
<1> QED BY <1>1, <1>2, DispatchStep, TypeCorrect, PTL DEF Spec
=============================================================================
