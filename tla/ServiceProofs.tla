---------------------------- MODULE ServiceProofs ----------------------------
(***************************************************************************)
(* The authority implements the call service, and a success it has told is *)
(* final, for every value of the constants.                                *)
(*                                                                         *)
(* Every step is first sorted by what it does to the calls (ServiceStep);  *)
(* the invariant and the refinement are then proved kind by kind.          *)
(***************************************************************************)
EXTENDS DispatchProofs

-----------------------------------------------------------------------------
\* The kinds of steps

\* Time passes within the deadlines of the handlers that wait.
ClockKept ==
  \/ phys' \in Nat /\ phys' <= phys /\ lastNow' \in {lastNow, phys, now}
  \/ tick

\* No handler starts to wait for an adapter.
NoneStarts == \A h \in Handler : handlers'[h].pc = "adapter" => handlers'[h] = handlers[h]

Framed == ClockKept /\ NoneStarts /\ TasksStay
Quiet  == Framed /\ UNCHANGED <<calls, dispatches>>

\* The stored outcome of a row is told.
Reads(i) == /\ Quiet /\ UNCHANGED <<nonces, lastNonce>>
            /\ calls[i].state # "NONE"
            /\ told' = told \cup storedOutcome(calls[i].call)

\* A new nonce for c, closing some others.
Issues(c, row, closed) ==
  /\ Quiet /\ UNCHANGED told
  /\ lastNonce < MaxNonce /\ lastNonce' = lastNonce + 1
  /\ row.call = c /\ row.state = "OPEN"
  /\ insertNonce(row, closed)

\* An admission with its dispatch, or with the crash that prevents it.
Admits(h, t, p, nonce, c) ==
  /\ UNCHANGED <<phys, tasks>>
  /\ recheck(t, p, c) /\ admitCall(t, p, nonce, c)
  /\ \/ /\ suspend(h, [pc |-> "adapter", call |-> c,
                       deadline |-> now + ADAPTER_DEADLINE])
        /\ dispatches' = [dispatches EXCEPT ![c] = @ + 1]
     \/ handlers' = [x \in Handler |-> Idle] /\ UNCHANGED dispatches

Idles == Quiet /\ UNCHANGED <<nonces, lastNonce, told>>

ServiceStep ==
  \/ Idles
  \/ \E i \in CallId : Reads(i)
  \/ \E c \in Call, row \in NonceRow, closed \in SUBSET openNonces : Issues(c, row, closed)
  \/ \E h \in Handler, t \in TokenId, p \in Proof, nonce \in {0} \cup NonceId, c \in Call :
       Admits(h, t, p, nonce, c)
  \/ \E h \in Handler, outcome \in Terminal : adapterReturns(h, outcome)
  \/ Recover \/ Maintain

\* bumpNow and deny keep the clock; so do the ways handlers end or suspend.
LEMMA PhysType == TypeOK => phys \in Nat /\ lastNow \in Nat
  BY NatConstants DEF TypeOK, TimeType

LEMMA BumpKept ==
  ASSUME TypeOK, UNCHANGED phys, bumpNow(now) \/ UNCHANGED lastNow
  PROVE  ClockKept
  BY PhysType DEF bumpNow, ClockKept

LEMMA DenyKept ==
  ASSUME TypeOK, NEW p \in Proof, deny(p), UNCHANGED phys
  PROVE  ClockKept
  BY BumpKept DEF deny

LEMMA IdleStarts ==
  ASSUME TypeOK, NEW h \in Handler, goIdle(h)
  PROVE  NoneStarts
  BY DEF goIdle, NoneStarts, Idle, TypeOK, ObsType

LEMMA SameStarts == UNCHANGED handlers => NoneStarts
  BY DEF NoneStarts

LEMMA AdmissionSorted ==
  ASSUME TypeOK, NEW h \in Handler, NEW t \in TokenId, NEW p \in Proof,
         NEW nonce \in {0} \cup NonceId, NEW c \in Call,
         admissionTx(h, t, p, nonce, c)
  PROVE  ServiceStep
<1>1. UNCHANGED <<phys, tasks>> /\ TasksStay
  BY UnchangedTasksStay DEF admissionTx, credVars
<1>2. CASE deny(p) /\ goIdle(h) /\ UNCHANGED <<callVars, obsVars, executed>>
  BY <1>1, <1>2, DenyKept, IdleStarts
     DEF callVars, obsVars, ServiceStep, Idles, Quiet, Framed
<1>3. CASE replayCall(t, p, c) /\ goIdle(h)
  <2>1. c.id \in CallId /\ calls[c.id].state # "NONE" /\ calls[c.id].call = c
    BY <1>3 DEF replayCall, CallId
  <2>2. told' = told \cup storedOutcome(c)
    BY <1>3 DEF replayCall, tellStored
  <2>3. ClockKept /\ NoneStarts
    BY <1>1, <1>3, BumpKept, IdleStarts DEF replayCall
  <2>4. Reads(c.id)
    BY <1>1, <1>3, <2>1, <2>2, <2>3 DEF replayCall, Reads, Quiet, Framed
  <2> QED BY <2>1, <2>4 DEF ServiceStep
<1>4. CASE /\ recheck(t, p, c) /\ admitCall(t, p, nonce, c)
           /\ \/ /\ suspend(h, [pc |-> "adapter", call |-> c,
                                deadline |-> now + ADAPTER_DEADLINE])
                 /\ dispatches' = [dispatches EXCEPT ![c] = @ + 1]
              \/ handlers' = [x \in Handler |-> Idle] /\ UNCHANGED dispatches
  <2>1. Admits(h, t, p, nonce, c)
    BY <1>1, <1>4 DEF Admits
  <2> QED BY <2>1 DEF ServiceStep
<1> QED BY <1>2, <1>3, <1>4 DEF admissionTx

LEMMA AgentSorted ==
  ASSUME TypeOK, AgentRequest
  PROVE  ServiceStep
<1>1. PICK t \in TokenId, p \in Proof :
        \/ \E h \in Handler, c \in Call, nonce \in {0} \cup NonceId :
             handleCall(h, t, p, nonce, c)
        \/ \E c \in Call : handleNonce(t, p, c)
        \/ \E i \in CallId : handleResult(t, p, i)
  BY DEF AgentRequest
<1>2. ASSUME UNCHANGED <<phys, tasks, calls, dispatches, nonces, lastNonce, told>>,
             ClockKept, NoneStarts
      PROVE  ServiceStep
  BY <1>2, UnchangedTasksStay DEF ServiceStep, Idles, Quiet, Framed
<1>3. ASSUME NEW h \in Handler, NEW c \in Call, NEW nonce \in {0} \cup NonceId,
             handleCall(h, t, p, nonce, c)
      PROVE  ServiceStep
  <2>1. CASE /\ deny(p)
             /\ UNCHANGED <<phys, credVars, callVars, handlers, obsVars>>
    BY <1>2, <2>1, <1>3, DenyKept, SameStarts DEF credVars, callVars, obsVars
  <2>2. CASE /\ suspend(h, [pc |-> "call_herald", tok |-> t, proof |-> p,
                            nonce |-> nonce, call |-> c, at |-> now])
             /\ UNCHANGED <<phys, lastNow, credVars, callVars, obsVars>>
    <3>1. NoneStarts
      BY <2>2 DEF suspend, NoneStarts, TypeOK, ObsType
    <3> QED BY <1>2, <2>2, <3>1, BumpKept DEF credVars, callVars, obsVars
  <2> QED BY <1>3, <2>1, <2>2, AdmissionSorted DEF handleCall
<1>4. ASSUME NEW c \in Call, handleNonce(t, p, c)
      PROVE  ServiceStep
  <2>. DEFINE open == {x \in openNonces : nonces[x].tok = t /\ nonces[x].call = c}
              row  == [tok |-> t, call |-> c, exp |-> now + NONCE_TTL, state |-> "OPEN"]
  <2>1. UNCHANGED <<phys, tasks, calls, dispatches, told>> /\ NoneStarts /\ TasksStay
    BY <1>4, SameStarts, UnchangedTasksStay DEF handleNonce, credVars, obsVars
  <2>2. \/ deny(p) /\ UNCHANGED <<nonces, lastNonce>>
        \/ bumpNow(now) /\ UNCHANGED <<nonces, lastNonce>>
        \/ /\ bumpNow(now) /\ lastNonce < MaxNonce /\ lastNonce' = lastNonce + 1
           /\ insertNonce(row, open)
    BY <1>4 DEF handleNonce
  <2>3. row \in NonceRow /\ open \in SUBSET openNonces
    BY NowType, NatConstants DEF TypeOK, NonceRow
  <2>4. row.call = c /\ row.state = "OPEN"
    OBVIOUS
  <2>. HIDE DEF open, row
  <2>5. ClockKept
    BY <2>1, <2>2, DenyKept, BumpKept
  <2>6. CASE UNCHANGED <<nonces, lastNonce>>
    BY <1>2, <2>1, <2>5, <2>6
  <2>7. CASE lastNonce < MaxNonce /\ lastNonce' = lastNonce + 1 /\ insertNonce(row, open)
    <3>1. Issues(c, row, open)
      BY <2>1, <2>4, <2>5, <2>7 DEF Issues, Quiet, Framed
    <3> QED BY <2>3, <3>1 DEF ServiceStep
  <2> QED BY <2>2, <2>6, <2>7
<1>5. ASSUME NEW i \in CallId, handleResult(t, p, i)
      PROVE  ServiceStep
  <2>1. /\ UNCHANGED <<phys, tasks, calls, dispatches, nonces, lastNonce>>
        /\ NoneStarts /\ TasksStay
    BY <1>5, SameStarts, UnchangedTasksStay DEF handleResult, credVars, callVars
  <2>2. \/ deny(p) /\ UNCHANGED told
        \/ /\ bumpNow(now) /\ calls[i].state # "NONE"
           /\ told' = told \cup storedOutcome(calls[i].call)
    BY <1>5 DEF handleResult, tellStored
  <2>3. ClockKept
    BY <2>1, <2>2, DenyKept, BumpKept
  <2>4. UNCHANGED told \/ Reads(i)
    BY <2>1, <2>2, <2>3 DEF Reads, Quiet, Framed
  <2> QED BY <1>2, <2>1, <2>3, <2>4 DEF ServiceStep
<1> QED BY <1>1, <1>3, <1>4, <1>5

LEMMA MintTxSorted ==
  ASSUME TypeOK, NEW h \in Handler, NEW kid \in ControlKid, NEW p \in Proof,
         NEW op \in OpId, NEW req \in MintRequest, mintTx(h, kid, p, op, req)
  PROVE  Idles
<1>1. UNCHANGED <<phys, calls, dispatches, told, nonces, lastNonce>> /\ NoneStarts
  BY IdleStarts DEF mintTx, controlFrame, callVars, obsVars
<1>2. TasksStay
  BY MintKeepsTasks, UnchangedTasksStay
     DEF mintTx, controlDeny, replayOperation, credVars
<1>3. ClockKept
  BY <1>1, DenyKept, BumpKept DEF mintTx, controlDeny, replayOperation, saveOperation
<1> QED BY <1>1, <1>2, <1>3 DEF Idles, Quiet, Framed

LEMMA ControlSorted ==
  ASSUME TypeOK, ControlRequest
  PROVE  Idles
<1>1. PICK kid \in ControlKid, p \in Proof :
        \/ \E h \in Handler, op \in OpId, req \in MintRequest :
             handleMint(h, kid, p, op, req)
        \/ \E op \in OpId, target \in Target : handleRevoke(kid, p, op, target)
        \/ \E op \in OpId, rev \in 1 .. MaxRevision, body \in Policy :
             handlePolicy(kid, p, op, rev, body)
        \/ \E op \in OpId, old \in Kid, new \in Kid :
             handleRotate(kid, p, op, old, new)
        \/ \E t \in TokenId : handleInspect(kid, p, t)
        \/ handleAudit(kid, p)
  BY DEF ControlRequest
<1>2. ASSUME controlFrame, TasksStay, NoneStarts, deny(p) \/ bumpNow(now)
      PROVE  Idles
  BY <1>2, DenyKept, BumpKept DEF controlFrame, callVars, obsVars, Idles, Quiet, Framed
<1>3. ASSUME NEW h \in Handler, NEW op \in OpId, NEW req \in MintRequest,
             handleMint(h, kid, p, op, req)
      PROVE  Idles
  <2>1. CASE /\ controlFrame /\ controlDeny(p) /\ UNCHANGED handlers
    BY <1>2, <2>1, SameStarts, <1>3, UnchangedTasksStay DEF controlDeny, credVars
  <2>2. CASE /\ controlFrame /\ UNCHANGED <<lastNow, credVars>>
             /\ suspend(h, [pc |-> "mint_herald", kid |-> kid, proof |-> p,
                            op |-> op, req |-> req, at |-> now])
    <3>1. NoneStarts
      BY <2>2 DEF suspend, NoneStarts, TypeOK, ObsType
    <3>2. ClockKept /\ TasksStay
      BY <2>2, BumpKept, UnchangedTasksStay DEF controlFrame, credVars
    <3> QED BY <2>2, <3>1, <3>2 DEF controlFrame, callVars, obsVars, Idles, Quiet, Framed
  <2> QED BY <1>3, <2>1, <2>2, MintTxSorted DEF handleMint
<1>4. ASSUME NEW op \in OpId, NEW target \in Target, handleRevoke(kid, p, op, target)
      PROVE  Idles
  BY <1>2, SameStarts, <1>4, RevokeKeepsTasks, UnchangedTasksStay
     DEF handleRevoke, controlOp, controlDeny, replayOperation, saveOperation, credVars
<1>5. ASSUME NEW op \in OpId, NEW rev \in 1 .. MaxRevision, NEW body \in Policy,
             handlePolicy(kid, p, op, rev, body)
      PROVE  Idles
  BY <1>2, SameStarts, <1>5, UnchangedTasksStay
     DEF handlePolicy, controlOp, controlDeny, replayOperation, saveOperation,
         policyMutator, credVars
<1>6. ASSUME NEW op \in OpId, NEW old \in Kid, NEW new \in Kid,
             handleRotate(kid, p, op, old, new)
      PROVE  Idles
  BY <1>2, SameStarts, <1>6, UnchangedTasksStay
     DEF handleRotate, controlOp, controlDeny, replayOperation, saveOperation,
         rotateMutator, credVars
<1>7. ASSUME (\E t \in TokenId : handleInspect(kid, p, t)) \/ handleAudit(kid, p)
      PROVE  Idles
  BY <1>2, SameStarts, <1>7, UnchangedTasksStay
     DEF handleInspect, handleAudit, controlRead, credVars
<1> QED BY <1>1, <1>3, <1>4, <1>5, <1>6, <1>7

LEMMA AnswerSorted ==
  ASSUME TypeOK, Answer
  PROVE  ServiceStep
<1>1. PICK h \in Handler :
        \/ \E obs \in Observation : callHeraldAnswers(h, obs) \/ mintHeraldAnswers(h, obs)
        \/ \E outcome \in Terminal : adapterReturns(h, outcome)
  BY DEF Answer
<1>. DEFINE w == handlers[h]
<1>2. ASSUME NEW p \in Proof, deny(p), goIdle(h),
             UNCHANGED <<phys, tasks, calls, dispatches, nonces, lastNonce, told>>
      PROVE  ServiceStep
  BY <1>2, DenyKept, IdleStarts, UnchangedTasksStay DEF ServiceStep, Idles, Quiet, Framed
<1>3. ASSUME NEW obs \in Observation, callHeraldAnswers(h, obs)
      PROVE  ServiceStep
  <2>1. /\ w.tok \in TokenId /\ w.proof \in Proof /\ w.call \in Call
        /\ w.nonce \in {0} \cup NonceId
    BY <1>3, WaitType, NatConstants DEF callHeraldAnswers, CallWait, NonceId
  <2>2. \/ admissionTx(h, w.tok, w.proof, w.nonce, w.call)
        \/ /\ deny(w.proof) /\ goIdle(h)
           /\ UNCHANGED <<phys, tasks, calls, dispatches, nonces, lastNonce, told>>
    BY <1>3 DEF callHeraldAnswers, credVars, callVars, obsVars
  <2>. HIDE DEF w
  <2> QED BY <1>2, <2>1, <2>2, AdmissionSorted
<1>4. ASSUME NEW obs \in Observation, mintHeraldAnswers(h, obs)
      PROVE  ServiceStep
  <2>1. /\ w.kid \in ControlKid /\ w.proof \in Proof /\ w.op \in OpId
        /\ w.req \in MintRequest
    BY <1>4, WaitType DEF mintHeraldAnswers, MintWait
  <2>2. \/ mintTx(h, w.kid, w.proof, w.op, w.req)
        \/ /\ deny(w.proof) /\ goIdle(h)
           /\ UNCHANGED <<phys, tasks, calls, dispatches, nonces, lastNonce, told>>
    BY <1>4 DEF mintHeraldAnswers, controlFrame, controlDeny, credVars, callVars, obsVars
  <2>. HIDE DEF w
  <2> QED BY <1>2, <2>1, <2>2, MintTxSorted DEF ServiceStep
<1> QED BY <1>1, <1>3, <1>4 DEF ServiceStep

LEMMA EveryStepIsSorted == TypeOK /\ [Next]_vars => ServiceStep
<1>. SUFFICES ASSUME TypeOK, [Next]_vars
              PROVE  ServiceStep
  OBVIOUS
<1>1. ASSUME ClockKept, NoneStarts,
             UNCHANGED <<tasks, calls, dispatches, nonces, lastNonce, told>>
      PROVE  ServiceStep
  BY <1>1, UnchangedTasksStay DEF ServiceStep, Idles, Quiet, Framed
<1>2. CASE tick
  BY <1>1, <1>2 DEF tick, ClockKept, NoneStarts, credVars, callVars, obsVars
<1>3. ASSUME NEW d \in 1 .. MaxBack, stepBack(d)
      PROVE  ServiceStep
  <2>1. phys' \in Nat /\ phys' <= phys
    BY <1>3, PhysType, ConstantAssumption DEF stepBack
  <2> QED BY <1>1, <1>3, <2>1 DEF stepBack, ClockKept, NoneStarts, credVars, callVars, obsVars
<1>4. CASE crash
  <2>1. NoneStarts
    BY <1>4 DEF crash, NoneStarts, Idle
  <2> QED BY <1>1, <1>4, <2>1, BumpKept DEF crash, credVars, callVars, obsVars
<1>5. CASE UNCHANGED vars
  <2>1. NoneStarts
    BY <1>5, SameStarts DEF vars
  <2> QED BY <1>1, <1>5, <2>1, BumpKept DEF vars
<1> QED BY <1>2, <1>3, <1>4, <1>5, AgentSorted, ControlSorted, AnswerSorted
        DEF Next, StepBack, ServiceStep
-----------------------------------------------------------------------------
\* The invariant

\* What a handler that waits for an adapter may rely on: its call was
\* dispatched and has its row, which at most recover() has settled; while it is
\* under way no ending was told; and the row outlives the deadline.
Supported(h) ==
  LET w   == handlers[h]
      row == calls[w.call.id]
  IN /\ row.state \in {"DISPATCHING", "UNKNOWN"} /\ row.call = w.call
     /\ dispatches[w.call] > 0
     /\ row.state = "DISPATCHING" => \A a \in told : a[1] # w.call
     /\ now <= w.deadline
     /\ w.deadline < tasks[w.call.task].exp + RESULT_RETENTION

WaitersSupported == \A h \in Handler : handlers[h].pc = "adapter" => Supported(h)
WaitersDiffer ==
  \A g, h \in Handler :
    /\ handlers[g].pc = "adapter" /\ handlers[h].pc = "adapter"
    /\ handlers[g].call = handlers[h].call
    => g = h
RowsKeyed == \A i \in CallId : calls[i].state # "NONE" => calls[i].call.id = i
ToldAccounted == \A a \in told : Accounted(a[1])

ServiceInv == WaitersSupported /\ WaitersDiffer /\ RowsKeyed /\ ToldAccounted

\* A waiting handler's call, with its types.
LEMMA Waiter ==
  ASSUME TypeOK, NEW h \in Handler, handlers[h].pc = "adapter"
  PROVE  /\ handlers[h] \in AdapterWait
         /\ handlers[h].call \in Call /\ handlers[h].call.id \in CallId
         /\ handlers[h].call.task \in TaskId /\ handlers[h].deadline \in Nat
  BY WaitType, RequestAssumption DEF AdapterWait, CallId

LEMMA StillDiffer == WaitersDiffer /\ NoneStarts => WaitersDiffer'
  BY DEF WaitersDiffer, NoneStarts

\* The deadline of a waiting handler is not passed.
LEMMA DeadlineKept ==
  ASSUME TypeOK, TypeOK', ClockKept, NEW h \in Handler, handlers[h].pc = "adapter",
         now <= handlers[h].deadline
  PROVE  now' <= handlers[h].deadline
<1>1. /\ phys \in Nat /\ lastNow \in Nat /\ phys' \in Nat /\ lastNow' \in Nat
      /\ handlers[h].deadline \in Nat
  BY PhysType, Waiter DEF TypeOK, TimeType
<1>2. CASE phys' <= phys /\ lastNow' \in {lastNow, phys, now}
  BY <1>1, <1>2 DEF now
<1>3. CASE tick
  BY <1>1, <1>3 DEF now, tick
<1> QED BY <1>2, <1>3 DEF ClockKept

\* What one handler relies on survives a step that leaves its dispatch count,
\* its task and the deadline alone and at most settles its row as UNKNOWN.
LEMMA SupportStays ==
  ASSUME TypeOK, TypeOK', RowsHaveTasks, ClockKept, TasksStay,
         NEW h \in Handler, handlers[h].pc = "adapter", Supported(h),
         handlers'[h] = handlers[h],
         dispatches'[handlers[h].call] = dispatches[handlers[h].call],
         LET i == handlers[h].call.id
         IN /\ calls'[i].state \in {calls[i].state, "UNKNOWN"}
            /\ calls'[i].call = calls[i].call
            /\ calls'[i].state = "DISPATCHING" =>
                 \A a \in told' : a \in told \/ a[1] # handlers[h].call
  PROVE  Supported(h)'
<1>. DEFINE w == handlers[h]
<1>1. w.call.id \in CallId /\ w.call.task \in TaskId /\ w.deadline \in Nat
  BY Waiter
<1>2. calls[w.call.id].state # "NONE" /\ calls[w.call.id].call = w.call
  BY DEF Supported
<1>3. tasks'[w.call.task].exp = tasks[w.call.task].exp
  BY <1>1, <1>2 DEF RowsHaveTasks, TasksStay
<1>4. now' <= w.deadline
  BY DeadlineKept DEF Supported
<1>5. /\ calls'[w.call.id].state \in {"DISPATCHING", "UNKNOWN"}
      /\ calls'[w.call.id].call = w.call
      /\ calls'[w.call.id].state = "DISPATCHING" => \A a \in told' : a[1] # w.call
  BY <1>2 DEF Supported
<1>6. w' = w
  OBVIOUS
<1>7. /\ dispatches'[w.call] > 0
      /\ w.deadline < tasks'[w.call.task].exp + RESULT_RETENTION
  BY <1>3 DEF Supported
<1> QED BY <1>4, <1>5, <1>6, <1>7 DEF Supported

\* Quiet steps: nothing is told, or the outcome of a settled row.
LEMMA QuietKeeps ==
  ASSUME TypeOK, TypeOK', DispatchInv, ServiceInv, [Next]_vars, Quiet,
         \/ UNCHANGED told
         \/ \E i \in CallId : /\ calls[i].state # "NONE"
                              /\ told' = told \cup storedOutcome(calls[i].call)
  PROVE  ServiceInv'
<1>1. UNCHANGED <<calls, dispatches>> /\ NoneStarts /\ TasksStay /\ ClockKept /\ RowsHaveTasks
  BY DEF Quiet, Framed, DispatchInv
<1>2. \A a \in told' : a \in told \/ \E i \in CallId :
        /\ calls[i].state # "NONE" /\ calls[i].call.id = i
        /\ calls[i].state \in Terminal /\ a = <<calls[i].call, calls[i].state>>
  BY DEF storedOutcome, ServiceInv, RowsKeyed
<1>3. WaitersSupported'
  <2>. SUFFICES ASSUME NEW h \in Handler, handlers'[h].pc = "adapter"
                PROVE  Supported(h)'
    BY DEF WaitersSupported
  <2>1. handlers'[h] = handlers[h] /\ handlers[h].pc = "adapter" /\ Supported(h)
    BY <1>1 DEF NoneStarts, ServiceInv, WaitersSupported
  <2>2. ASSUME NEW a \in told', calls[handlers[h].call.id].state = "DISPATCHING",
               a[1] = handlers[h].call
        PROVE  a \in told
    BY <1>2, <2>2 DEF Terminal
  <2>3. calls[handlers[h].call.id] = calls'[handlers[h].call.id]
    BY <1>1
  <2> QED BY <1>1, <2>1, <2>2, <2>3, SupportStays
<1>4. RowsKeyed'
  BY <1>1 DEF ServiceInv, RowsKeyed
<1>5. ToldAccounted'
  <2>. SUFFICES ASSUME NEW a \in told'
                PROVE  Accounted(a[1])'
    BY DEF ToldAccounted
  <2>1. a \in Call \X Terminal
    BY DEF TypeOK, ObsType
  <2>2. Accounted(a[1])
    BY <1>2 DEF Accounted, ServiceInv, ToldAccounted
  <2> QED BY <1>1, <2>1, <2>2, AccountedStays, UnchangedRowsStay
<1> QED BY <1>1, <1>3, <1>4, <1>5, StillDiffer DEF ServiceInv

\* An admission: the new waiter's call was never told of and no other waits.
LEMMA AdmitsKeeps ==
  ASSUME TypeOK, TypeOK', DispatchInv, ServiceInv, NEW h \in Handler, NEW t \in TokenId,
         NEW p \in Proof, NEW nonce \in {0} \cup NonceId, NEW c \in Call,
         Admits(h, t, p, nonce, c)
  PROVE  ServiceInv'
<1>. DEFINE new == [pc |-> "adapter", call |-> c, deadline |-> now + ADAPTER_DEADLINE]
<1>1. /\ UNCHANGED <<phys, tasks, told>> /\ TasksStay /\ ClockKept /\ RowsHaveTasks
      /\ \A g \in Handler : handlers'[g] \in {handlers[g], Idle} \/ (g = h /\ handlers'[g] = new)
      /\ \A d \in Call \ {c} : dispatches'[d] = dispatches[d]
      /\ handlers'[h] = new => dispatches'[c] > 0
  BY BumpKept, UnchangedTasksStay
     DEF Admits, admitCall, suspend, Idle, DispatchInv, TypeOK, ObsType
<1>2. /\ calls[c.id].state = "NONE" /\ c.id \in CallId /\ c.task \in TaskId
      /\ now < tasks[c.task].exp /\ tasks[c.task].exp \in Nat
      /\ now \in Nat /\ lastNow' = now
      /\ calls'[c.id].state = "DISPATCHING" /\ calls'[c.id].call = c
      /\ \A i \in CallId : i # c.id => calls'[i] = calls[i]
      /\ \A d \in Call : d.id = c.id /\ d.task = c.task => ~Accounted(d)
      /\ \A d \in Call : Accounted(d) => Accounted(d)'
  <2>1. recheck(t, p, c) /\ admitCall(t, p, nonce, c) /\ UNCHANGED tasks
    BY DEF Admits
  <2>2. RowAdded(c)
    BY <2>1, AdmitRows
  <2> QED BY <2>2 DEF RowAdded
<1>3. ASSUME NEW g \in Handler, handlers[g].pc = "adapter"
      PROVE  /\ handlers[g].call.id # c.id /\ handlers[g].call # c
             /\ handlers[g].call.id \in CallId
  BY <1>2, <1>3, Waiter DEF ServiceInv, WaitersSupported, Supported
<1>4. ASSUME NEW a \in told
      PROVE  Accounted(a[1])' /\ a[1] # c
  <2>1. a[1] \in Call /\ Accounted(a[1])
    BY <1>4 DEF TypeOK, ObsType, ServiceInv, ToldAccounted
  <2> QED BY <1>2, <2>1
<1>5. WaitersSupported'
  <2>. SUFFICES ASSUME NEW g \in Handler, handlers'[g].pc = "adapter"
                PROVE  Supported(g)'
    BY DEF WaitersSupported
  <2>1. CASE handlers'[g] = handlers[g]
    <3>1. Supported(g) /\ handlers[g].pc = "adapter"
      BY <2>1 DEF ServiceInv, WaitersSupported
    <3>2. /\ calls'[handlers[g].call.id] = calls[handlers[g].call.id]
          /\ dispatches'[handlers[g].call] = dispatches[handlers[g].call]
      BY <1>1, <1>2, <1>3, <3>1, Waiter
    <3> QED BY <1>1, <2>1, <3>1, <3>2, SupportStays
  <2>2. CASE g = h /\ handlers'[g] = new
    <3>1. now' = now
      BY <1>1, <1>2, PhysType DEF now
    <3>2. ADAPTER_DEADLINE \in Nat /\ RESULT_RETENTION \in Nat
          /\ ADAPTER_DEADLINE <= RESULT_RETENTION
      BY ConstantAssumption, NatConstants
    <3>3. /\ now <= now + ADAPTER_DEADLINE
          /\ now + ADAPTER_DEADLINE < tasks[c.task].exp + RESULT_RETENTION
      BY <1>2, <3>2
    <3>4. dispatches'[c] > 0 /\ \A a \in told' : a[1] # c
      BY <1>1, <1>4, <2>2
    <3>5. new.call = c /\ new.deadline = now + ADAPTER_DEADLINE /\ new' = new
      BY <3>1
    <3>. HIDE DEF new
    <3> QED BY <1>1, <1>2, <2>2, <3>1, <3>3, <3>4, <3>5 DEF Supported
  <2> QED BY <1>1, <2>1, <2>2 DEF Idle
<1>6. WaitersDiffer'
  <2>. SUFFICES ASSUME NEW f \in Handler, NEW g \in Handler,
                       handlers'[f].pc = "adapter", handlers'[g].pc = "adapter",
                       handlers'[f].call = handlers'[g].call
                PROVE  f = g
    BY DEF WaitersDiffer
  <2>1. new.call = c
    OBVIOUS
  <2>2. /\ handlers'[f] = handlers[f] \/ (f = h /\ handlers'[f] = new)
        /\ handlers'[g] = handlers[g] \/ (g = h /\ handlers'[g] = new)
    BY <1>1 DEF Idle
  <2>. HIDE DEF new
  <2> QED BY <1>3, <2>1, <2>2 DEF ServiceInv, WaitersDiffer
<1>7. RowsKeyed'
  BY <1>2 DEF ServiceInv, RowsKeyed
<1>8. ToldAccounted'
  BY <1>1, <1>4 DEF ToldAccounted
<1> QED BY <1>5, <1>6, <1>7, <1>8 DEF ServiceInv

\* A row that is settled keeps its call and is no longer DISPATCHING.
LEMMA SettledRow ==
  ASSUME TypeOK, NEW c \in Call, NEW state \in Terminal, completeCall(c, state)
  PROVE  /\ c.id \in CallId /\ calls[c.id].state = "DISPATCHING"
         /\ calls'[c.id].state = state /\ calls'[c.id].call = calls[c.id].call
         /\ \A i \in CallId : i # c.id => calls'[i] = calls[i]
<1>1. c.id \in CallId /\ calls[c.id].state = "DISPATCHING"
  BY DEF CallId, completeCall
<1>2. calls[c.id] \in CallRow
  BY <1>1, ExistingCall
<1>3. /\ settledRow(calls[c.id], state).state = state
      /\ settledRow(calls[c.id], state).call = calls[c.id].call
  BY <1>2 DEF settledRow, CallRow
<1>4. calls' = [calls EXCEPT ![c.id] = settledRow(calls[c.id], state)]
  BY DEF completeCall
<1> QED BY <1>1, <1>3, <1>4 DEF TypeOK, CallType

\* What an adapter's answer does, whichever of its three ways it takes.
LEMMA ReturnEffect ==
  ASSUME TypeOK, ServiceInv, NEW h \in Handler, NEW outcome \in Terminal,
         adapterReturns(h, outcome)
  PROVE  LET c == handlers[h].call
         IN /\ c \in Call /\ c.id \in CallId
            /\ handlers[h].pc = "adapter" /\ Supported(h) /\ goIdle(h)
            /\ UNCHANGED <<phys, tasks, dispatches, nonces, lastNonce>>
            /\ ClockKept /\ TasksStay /\ RowsStay
            /\ \A i \in CallId : i # c.id => calls'[i] = calls[i]
            /\ \E s \in Terminal :
                 /\ told' = told \cup {<<c, s>>}
                 /\ \/ /\ calls[c.id].state = "DISPATCHING"
                       /\ calls'[c.id].state = s /\ calls'[c.id].call = c
                    \/ s # "SUCCEEDED" /\ UNCHANGED calls
<1>. DEFINE c == handlers[h].call
<1>1. /\ c \in Call /\ c.id \in CallId
      /\ handlers[h].pc = "adapter" /\ Supported(h) /\ goIdle(h)
      /\ UNCHANGED <<phys, tasks, dispatches, nonces, lastNonce>>
  BY Waiter DEF adapterReturns, ServiceInv, WaitersSupported, credVars
<1>2. calls[c.id].call = c
  BY <1>1 DEF Supported
<1>3. PICK s \in Terminal :
        /\ told' = told \cup {<<c, s>>}
        /\ completeCall(c, s) \/ (s # "SUCCEEDED" /\ UNCHANGED <<calls, lastNow>>)
  BY DEF adapterReturns, Terminal
<1>. HIDE DEF c
<1>4. TasksStay /\ ClockKept
  BY <1>1, <1>3, UnchangedTasksStay, BumpKept DEF completeCall
<1>5. RowsStay
  BY <1>1, <1>3, CompleteKeepsRows, UnchangedRowsStay
<1>6. /\ \A i \in CallId : i # c.id => calls'[i] = calls[i]
      /\ \/ /\ calls[c.id].state = "DISPATCHING"
            /\ calls'[c.id].state = s /\ calls'[c.id].call = c
         \/ s # "SUCCEEDED" /\ UNCHANGED calls
  BY <1>1, <1>2, <1>3, SettledRow
<1> QED BY <1>1, <1>3, <1>4, <1>5, <1>6 DEF c

LEMMA KeyedStays == TypeOK /\ RowsKeyed /\ RowsStay => RowsKeyed'
  BY DEF RowsKeyed, RowsStay

LEMMA ReturnKeeps ==
  ASSUME TypeOK, TypeOK', DispatchInv, ServiceInv, [Next]_vars,
         NEW h \in Handler, NEW outcome \in Terminal, adapterReturns(h, outcome)
  PROVE  ServiceInv'
<1>. DEFINE c == handlers[h].call
<1>1. /\ c \in Call /\ c.id \in CallId
      /\ handlers[h].pc = "adapter" /\ Supported(h) /\ goIdle(h)
      /\ UNCHANGED <<phys, tasks, dispatches, nonces, lastNonce>>
      /\ ClockKept /\ TasksStay /\ RowsStay /\ RowsHaveTasks
      /\ \A i \in CallId : i # c.id => calls'[i] = calls[i]
  BY ReturnEffect DEF DispatchInv
<1>2. PICK s \in Terminal :
        /\ told' = told \cup {<<c, s>>}
        /\ \/ /\ calls[c.id].state = "DISPATCHING"
              /\ calls'[c.id].state = s /\ calls'[c.id].call = c
           \/ s # "SUCCEEDED" /\ UNCHANGED calls
  BY ReturnEffect
<1>3. NoneStarts
  BY <1>1, IdleStarts
<1>4. WaitersSupported'
  <2>. SUFFICES ASSUME NEW g \in Handler, handlers'[g].pc = "adapter"
                PROVE  Supported(g)'
    BY DEF WaitersSupported
  <2>1. g # h
    BY <1>1 DEF goIdle, Idle, TypeOK, ObsType
  <2>2. handlers'[g] = handlers[g] /\ handlers[g].pc = "adapter" /\ Supported(g)
    BY <1>3 DEF NoneStarts, ServiceInv, WaitersSupported
  <2>3. handlers[g].call # c
    BY <1>1, <2>1, <2>2 DEF ServiceInv, WaitersDiffer
  <2>4. handlers[g].call.id # c.id
    BY <1>1, <2>2, <2>3 DEF Supported
  <2>5. calls'[handlers[g].call.id] = calls[handlers[g].call.id]
    BY <1>1, <2>2, <2>4, Waiter
  <2>6. \A a \in told' : a \in told \/ a[1] # handlers[g].call
    BY <1>2, <2>3
  <2> QED BY <1>1, <2>2, <2>5, <2>6, SupportStays
<1>5. ToldAccounted'
  <2>. SUFFICES ASSUME NEW a \in told'
                PROVE  Accounted(a[1])'
    BY DEF ToldAccounted
  <2>1. Accounted(c)
    BY <1>1 DEF Supported, Accounted
  <2>2. a[1] \in Call /\ Accounted(a[1])
    BY <1>1, <1>2, <2>1 DEF ServiceInv, ToldAccounted, TypeOK, ObsType
  <2> QED BY <1>1, <2>2, AccountedStays
<1> QED BY <1>1, <1>3, <1>4, <1>5, StillDiffer, KeyedStays DEF ServiceInv

LEMMA RecoverRows ==
  ASSUME TypeOK, NEW n \in 0 .. MaxTime, recover(n)
  PROVE  \A i \in CallId :
           \/ calls'[i] = calls[i] /\ i \notin staleCalls(n)
           \/ /\ i \in staleCalls(n) /\ calls[i].state = "DISPATCHING"
              /\ calls'[i].state = "UNKNOWN" /\ calls'[i].call = calls[i].call
<1>. SUFFICES ASSUME NEW i \in CallId
              PROVE  \/ calls'[i] = calls[i] /\ i \notin staleCalls(n)
                     \/ /\ i \in staleCalls(n) /\ calls[i].state = "DISPATCHING"
                        /\ calls'[i].state = "UNKNOWN" /\ calls'[i].call = calls[i].call
  OBVIOUS
<1>1. calls' = [k \in CallId |-> IF k \in staleCalls(n)
                  THEN [calls[k] EXCEPT !.state = "UNKNOWN"] ELSE calls[k]]
  BY DEF recover
<1>2. ASSUME i \in staleCalls(n)
      PROVE  calls[i].state = "DISPATCHING" /\ calls[i] \in CallRow
  BY <1>2, ExistingCall DEF staleCalls, inflightCalls
<1> QED BY <1>1, <1>2 DEF CallRow

LEMMA RecoverKeeps ==
  ASSUME TypeOK, TypeOK', DispatchInv, ServiceInv, [Next]_vars,
         NEW n \in {phys, now}, recover(n)
  PROVE  ServiceInv'
<1>1. /\ UNCHANGED <<phys, tasks, dispatches, told, handlers>>
      /\ TasksStay /\ NoneStarts /\ RowsHaveTasks
      /\ n \in 0 .. MaxTime
  BY SameStarts, UnchangedTasksStay, NowType
     DEF recover, credVars, obsVars, DispatchInv, TypeOK, TimeType
<1>2. ClockKept /\ RowsStay
  BY <1>1, PhysType, RecoverKeepsRows DEF recover, bumpNow, ClockKept
<1>3. WaitersSupported'
  <2>. SUFFICES ASSUME NEW h \in Handler, handlers'[h].pc = "adapter"
                PROVE  Supported(h)'
    BY DEF WaitersSupported
  <2>1. handlers'[h] = handlers[h] /\ handlers[h].pc = "adapter" /\ Supported(h)
    BY <1>1 DEF ServiceInv, WaitersSupported
  <2> QED BY <1>1, <1>2, <2>1, Waiter, RecoverRows, SupportStays
<1>4. ToldAccounted'
  <2>. SUFFICES ASSUME NEW a \in told'
                PROVE  Accounted(a[1])'
    BY DEF ToldAccounted
  <2>1. a[1] \in Call /\ Accounted(a[1])
    BY <1>1 DEF ServiceInv, ToldAccounted, TypeOK, ObsType
  <2> QED BY <1>1, <1>2, <2>1, AccountedStays
<1> QED BY <1>1, <1>2, <1>3, <1>4, StillDiffer, KeyedStays DEF ServiceInv

\* Maintenance forgets whole rows and otherwise keeps state and call.
LEMMA MaintainRows ==
  ASSUME TypeOK, NEW n \in 0 .. MaxTime, runMaintenance(n)
  PROVE  \A i \in CallId :
           \/ calls'[i].state = calls[i].state
              /\ (calls[i].state # "NONE" => calls'[i].call = calls[i].call)
           \/ calls[i].state # "NONE" /\ calls'[i].state = "NONE"
              /\ tasks[calls[i].call.task].exp + RESULT_RETENTION <= n
<1>. SUFFICES ASSUME NEW i \in CallId
              PROVE  \/ calls'[i].state = calls[i].state
                        /\ (calls[i].state # "NONE" => calls'[i].call = calls[i].call)
                     \/ calls[i].state # "NONE" /\ calls'[i].state = "NONE"
                        /\ tasks[calls[i].call.task].exp + RESULT_RETENTION <= n
  OBVIOUS
<1>1. PICK taskB \in batch(dueIn(tasks, TaskId, "ACTIVE", n)),
           tokB  \in batch(dueIn(tokens, TokenId, "ACTIVE", n)),
           nonB  \in batch(dueIn(nonces, NonceId, "OPEN", n)),
           keyB  \in batch(drained(n)),
           sealB \in batch(purgeable(n)),
           callB \in batch(forgotten(n)) : runMaintenance(n)!(taskB, tokB, nonB, keyB, sealB, callB)
  BY DEF runMaintenance
<1>2. i \in callB => /\ calls'[i].state = "NONE" /\ calls[i].state # "NONE"
                     /\ tasks[calls[i].call.task].exp + RESULT_RETENTION <= n
  BY <1>1 DEF batch, forgotten, NoRow
<1>3. \/ i \in callB
      \/ calls'[i] = calls[i]
      \/ i \in sealB /\ calls'[i] = [calls[i] EXCEPT !.sealed = FALSE]
  BY <1>1
<1>4. i \in sealB => calls[i].state # "NONE"
  BY DEF batch, purgeable
<1> QED BY <1>2, <1>3, <1>4, ExistingCall DEF CallRow

LEMMA MaintainKeepsService ==
  ASSUME TypeOK, TypeOK', DispatchInv, ServiceInv, [Next]_vars,
         NEW n \in {phys, now}, runMaintenance(n)
  PROVE  ServiceInv'
<1>1. /\ UNCHANGED <<phys, dispatches, told, handlers>> /\ NoneStarts /\ RowsHaveTasks
      /\ n \in 0 .. MaxTime
  BY SameStarts, NowType DEF runMaintenance, obsVars, DispatchInv, TypeOK, TimeType
<1>2. ClockKept /\ RowsStay /\ TasksStay
  <2>1. bumpNow(n)
    BY DEF runMaintenance
  <2>2. ClockKept
    BY <1>1, <2>1, PhysType DEF bumpNow, ClockKept
  <2> QED BY <1>1, <2>2, MaintainKeeps
<1>3. WaitersSupported'
  <2>. SUFFICES ASSUME NEW h \in Handler, handlers'[h].pc = "adapter"
                PROVE  Supported(h)'
    BY DEF WaitersSupported
  <2>. DEFINE w == handlers[h]
  <2>1. handlers'[h] = w /\ w.pc = "adapter" /\ Supported(h)
    BY <1>1 DEF ServiceInv, WaitersSupported
  <2>2. /\ w.call.id \in CallId /\ w.call.task \in TaskId /\ w.deadline \in Nat
        /\ calls[w.call.id].state # "NONE" /\ calls[w.call.id].call = w.call
        /\ now <= w.deadline
        /\ w.deadline < tasks[w.call.task].exp + RESULT_RETENTION
    BY <2>1, Waiter DEF Supported
  <2>3. n <= now /\ now \in Nat
    BY PhysType DEF now
  <2>4. tasks[w.call.task].exp \in Nat
    BY <1>1, <2>2, ExistingTask DEF RowsHaveTasks, TaskRow
  <2>5. ~(tasks[w.call.task].exp + RESULT_RETENTION <= n)
    BY <1>1, <2>2, <2>3, <2>4, NatConstants
  <2>6. calls'[w.call.id].state = calls[w.call.id].state
        /\ calls'[w.call.id].call = calls[w.call.id].call
    BY <1>1, <2>2, <2>5, MaintainRows
  <2>. HIDE DEF w
  <2>7. calls'[handlers[h].call.id].state = calls[handlers[h].call.id].state
        /\ calls'[handlers[h].call.id].call = calls[handlers[h].call.id].call
        /\ handlers'[h] = handlers[h] /\ handlers[h].pc = "adapter"
    BY <2>1, <2>6 DEF w
  <2> QED BY <1>1, <1>2, <2>1, <2>7, SupportStays
<1>4. ToldAccounted'
  <2>. SUFFICES ASSUME NEW a \in told'
                PROVE  Accounted(a[1])'
    BY DEF ToldAccounted
  <2>1. a[1] \in Call /\ Accounted(a[1])
    BY <1>1 DEF ServiceInv, ToldAccounted, TypeOK, ObsType
  <2> QED BY <1>1, <1>2, <2>1, AccountedStays
<1> QED BY <1>1, <1>2, <1>3, <1>4, StillDiffer, KeyedStays DEF ServiceInv

LEMMA ServiceInvHolds == Spec => [](TypeOK /\ DispatchInv /\ ServiceInv)
<1>1. Init => DispatchInv /\ ServiceInv
  BY DEF Init, DispatchInv, DispatchOnce, RowsHaveTasks, NoRow, Idle, ServiceInv,
         WaitersSupported, WaitersDiffer, RowsKeyed, ToldAccounted
<1>2. TypeOK /\ TypeOK' /\ DispatchInv /\ ServiceInv /\ [Next]_vars => ServiceInv'
  <2>. SUFFICES ASSUME TypeOK, TypeOK', DispatchInv, ServiceInv, [Next]_vars
                PROVE  ServiceInv'
    OBVIOUS
  <2>1. CASE Idles
    BY <2>1, QuietKeeps DEF Idles
  <2>2. ASSUME NEW i \in CallId, Reads(i)
        PROVE  ServiceInv'
    BY <2>2, QuietKeeps DEF Reads
  <2>3. ASSUME NEW c \in Call, NEW row \in NonceRow, NEW closed \in SUBSET openNonces,
               Issues(c, row, closed)
        PROVE  ServiceInv'
    BY <2>3, QuietKeeps DEF Issues
  <2>4. CASE Recover
    BY <2>4, RecoverKeeps DEF Recover
  <2>5. CASE Maintain
    BY <2>5, MaintainKeepsService DEF Maintain
  <2> QED BY <2>1, <2>2, <2>3, <2>4, <2>5, EveryStepIsSorted, AdmitsKeeps, ReturnKeeps
          DEF ServiceStep
<1>3. TypeOK /\ DispatchInv /\ [Next]_vars => DispatchInv'
  BY DispatchStep
<1> QED BY <1>1, <1>2, <1>3, TypeCorrect, TypeStep, PTL DEF Spec

-----------------------------------------------------------------------------
\* The refinement, kind by kind

\* A step that leaves the rows' states and calls and the dispatches alone leaves
\* every fate alone.
LEMMA FateSame == UNCHANGED <<calls, dispatches>> => UNCHANGED callFate
  BY DEF callFate

\* Nothing new is told.
LEMMA NothingTold == TypeOK /\ UNCHANGED told => Service!Answers
  BY DEF TypeOK, ObsType, Service!Answers, Terminal, Service!Terminal

LEMMA IdlesRefine == Idles => UNCHANGED Service!serviceVars
<1>. SUFFICES ASSUME Idles
              PROVE  UNCHANGED Service!serviceVars
  OBVIOUS
<1>1. UNCHANGED <<callFate, dispatches, lastNonce, told>>
  BY FateSame DEF Idles, Quiet
<1>2. UNCHANGED openPairs
  BY DEF Idles, openPairs, openNonces
<1> QED BY <1>1, <1>2 DEF Service!serviceVars

LEMMA ReadsRefine ==
  ASSUME TypeOK, TypeOK', ServiceInv, NEW i \in CallId, Reads(i)
  PROVE  Service!Next
<1>. DEFINE c == calls[i].call
<1>1. /\ UNCHANGED <<callFate, dispatches, lastNonce>>
      /\ UNCHANGED openPairs
  BY FateSame DEF Reads, Quiet, openPairs, openNonces
<1>2. /\ c \in Call /\ c.id = i /\ calls[c.id].state # "NONE"
      /\ told' = told \cup storedOutcome(c)
  BY ExistingCall DEF Reads, ServiceInv, RowsKeyed, CallRow
<1>3. callFate[c] = calls[c.id].state
  BY <1>2 DEF callFate
<1>4. \A a \in told' \ told : a[2] = callFate[a[1]]
  BY <1>2, <1>3 DEF storedOutcome
<1>5. Service!Answers
  BY <1>1, <1>2, <1>4
     DEF Service!Answers, TypeOK, ObsType, Terminal, Service!Terminal
<1>6. callFate = [d \in Call |-> callFate[d]]
  BY DEF callFate
<1>7. Service!Settle({}, "UNKNOWN")
  BY <1>1, <1>6 DEF Service!Settle
<1> QED BY <1>5, <1>7 DEF Service!Next, Service!Terminal

LEMMA IssuesRefine ==
  ASSUME TypeOK, TypeOK', NEW c \in Call, NEW row \in NonceRow,
         NEW closed \in SUBSET openNonces, Issues(c, row, closed)
  PROVE  Service!Next
<1>. DEFINE x == lastNonce + 1  gone == openPairs \ openPairs'
<1>1. UNCHANGED <<callFate, dispatches, told>> /\ Service!Answers
  BY FateSame, NothingTold DEF Issues, Quiet
<1>2. lastNonce \in Nat /\ x \in NonceId /\ lastNonce' = x
  BY NatConstants DEF Issues, TypeOK, CallType, NonceId
<1>3. x \notin 1 .. lastNonce /\ 1 .. lastNonce' = (1 .. lastNonce) \cup {x}
  BY <1>2
<1>4. /\ nonces'[x] = row
      /\ \A y \in NonceId : y # x =>
           nonces'[y] = IF y \in closed THEN [nonces[y] EXCEPT !.state = "EXPIRED"]
                        ELSE nonces[y]
  BY <1>2 DEF Issues, insertNonce
<1>5. \A y \in closed : nonces[y] \in NonceRow
  BY DEF openNonces, TypeOK, CallType, NoRow
<1>6. \A y \in NonceId : y # x /\ nonces'[y].state = "OPEN" => nonces'[y] = nonces[y]
  BY <1>4, <1>5 DEF NonceRow
<1>7. row.call = c /\ row.state = "OPEN"
  BY DEF Issues
<1>8. <<x, c>> \in openPairs' /\ openPairs' \subseteq openPairs \cup {<<x, c>>}
  BY <1>2, <1>4, <1>6, <1>7 DEF openPairs, openNonces
<1>9. openPairs' = (openPairs \ gone) \cup {<<x, c>>} /\ gone \in SUBSET openPairs
  BY <1>8
<1>. HIDE DEF x, gone
<1>10. Service!Issue(x, c, gone)
  BY <1>1, <1>3, <1>9 DEF Service!Issue
<1> QED BY <1>1, <1>2, <1>9, <1>10 DEF Service!Next

LEMMA AdmitsRefine ==
  ASSUME TypeOK, TypeOK', DispatchInv, NEW h \in Handler, NEW t \in TokenId,
         NEW p \in Proof, NEW nonce \in {0} \cup NonceId, NEW c \in Call,
         Admits(h, t, p, nonce, c)
  PROVE  Service!Next
<1>1. /\ recheck(t, p, c) /\ admitCall(t, p, nonce, c) /\ UNCHANGED tasks
      /\ dispatches' \in {dispatches, [dispatches EXCEPT ![c] = @ + 1]}
  BY DEF Admits
<1>2. /\ calls[c.id].state = "NONE"
      /\ calls'[c.id].state = "DISPATCHING" /\ calls'[c.id].call = c
      /\ \A i \in CallId : i # c.id => calls'[i] = calls[i]
      /\ ~Accounted(c)
  <2>1. RowAdded(c)
    BY <1>1, AdmitRows
  <2> QED BY <2>1 DEF RowAdded
<1>3. dispatches[c] = 0
  BY <1>2 DEF DispatchInv, TypeOK, ObsType
<1>4. callFate[c] = "NONE"
  BY <1>2, <1>3 DEF callFate
<1>5. callFate' = [callFate EXCEPT ![c] = "DISPATCHING"]
  <2>1. ASSUME NEW d \in Call, d # c
        PROVE  callFate'[d] = callFate[d]
    <3>1. dispatches'[d] = dispatches[d] /\ d.id \in CallId
      BY <1>1, <2>1 DEF TypeOK, ObsType, CallId
    <3> QED BY <1>2, <2>1, <3>1 DEF callFate
  <2>2. callFate'[c] = "DISPATCHING"
    BY <1>2 DEF callFate
  <2> QED BY <2>1, <2>2 DEF callFate
<1>6. UNCHANGED <<lastNonce, told>> /\ Service!Answers
  BY <1>1, NothingTold DEF admitCall
<1>7. Service!Admit(c)
  BY <1>1, <1>3, <1>4, <1>5, <1>6 DEF Service!Admit
<1>8. CASE ~destructive(c)
  <2>1. UNCHANGED openPairs
    BY <1>1, <1>8 DEF admitCall, openPairs, openNonces
  <2> QED BY <1>6, <1>7, <1>8, <2>1 DEF Service!AdmitPlain, Service!Next
<1>9. CASE destructive(c)
  <2>1. /\ nonce \in NonceId /\ nonces[nonce].state = "OPEN" /\ nonces[nonce].call = c
        /\ nonces' = [nonces EXCEPT ![nonce].state = "CONSUMED"]
    BY <1>1, <1>9 DEF admitCall, nonceOpen
  <2>2. nonces[nonce] \in NonceRow
    BY <2>1 DEF TypeOK, CallType, NoRow
  <2>3. /\ nonces'[nonce].state = "CONSUMED"
        /\ \A y \in NonceId : y # nonce => nonces'[y] = nonces[y]
    BY <2>1, <2>2 DEF TypeOK, CallType, NonceRow
  <2>4. <<nonce, c>> \in openPairs
    BY <2>1 DEF openPairs, openNonces
  <2>5. openPairs' = openPairs \ {<<nonce, c>>}
    BY <2>1, <2>3 DEF openPairs, openNonces
  <2> QED BY <1>6, <1>7, <2>1, <2>4, <2>5 DEF Service!AdmitWith, Service!Next
<1> QED BY <1>8, <1>9

LEMMA ReturnRefines ==
  ASSUME TypeOK, TypeOK', ServiceInv, NEW h \in Handler, NEW outcome \in Terminal,
         adapterReturns(h, outcome)
  PROVE  Service!Next
<1>. DEFINE c == handlers[h].call
<1>1. /\ c \in Call /\ c.id \in CallId /\ Supported(h)
      /\ UNCHANGED <<dispatches, nonces, lastNonce>>
      /\ \A i \in CallId : i # c.id => calls'[i] = calls[i]
  BY ReturnEffect
<1>2. PICK s \in Terminal :
        /\ told' = told \cup {<<c, s>>}
        /\ \/ /\ calls[c.id].state = "DISPATCHING"
              /\ calls'[c.id].state = s /\ calls'[c.id].call = c
           \/ s # "SUCCEEDED" /\ UNCHANGED calls
  BY ReturnEffect
<1>3. /\ calls[c.id].call = c /\ dispatches[c] > 0
      /\ calls[c.id].state \in {"DISPATCHING", "UNKNOWN"}
      /\ calls[c.id].state = "DISPATCHING" => \A a \in told : a[1] # c
  BY <1>1 DEF Supported
<1>4. UNCHANGED openPairs
  BY <1>1 DEF openPairs, openNonces
<1>5. told \subseteq told' /\ told' \subseteq Call \X Terminal
  BY <1>2 DEF TypeOK, ObsType
<1>6. callFate[c] = calls[c.id].state
  BY <1>1, <1>3 DEF callFate
<1>. HIDE DEF c
<1>7. CASE /\ calls[c.id].state = "DISPATCHING"
           /\ calls'[c.id].state = s /\ calls'[c.id].call = c
  <2>1. callFate' = [d \in Call |-> IF d \in {c} THEN s ELSE callFate[d]]
    <3>1. ASSUME NEW d \in Call, d # c
          PROVE  callFate'[d] = callFate[d]
      <4>1. d.id \in CallId
        BY DEF CallId
      <4> QED BY <1>1, <1>3, <1>7, <3>1, <4>1 DEF callFate
    <3>2. callFate'[c] = s
      BY <1>1, <1>7 DEF callFate, Terminal
    <3> QED BY <3>1, <3>2 DEF callFate
  <2>2. callFate'[c] = s
    BY <1>1, <2>1
  <2>3. Service!Answers
    BY <1>2, <1>5, <2>2 DEF Service!Answers, Terminal, Service!Terminal
  <2>4. Service!Settle({c}, s)
    BY <1>1, <1>3, <1>4, <1>6, <1>7, <2>1 DEF Service!Settle
  <2> QED BY <1>1, <2>3, <2>4 DEF Service!Next, Terminal, Service!Terminal
<1>8. CASE s # "SUCCEEDED" /\ UNCHANGED calls
  <2>1. UNCHANGED callFate
    BY <1>1, <1>8, FateSame
  <2>2. Service!Answers
    BY <1>1, <1>2, <1>3, <1>5, <1>6, <1>8, <2>1
       DEF Service!Answers, Terminal, Service!Terminal
  <2>3. callFate = [d \in Call |-> callFate[d]]
    BY DEF callFate
  <2>4. Service!Settle({}, "UNKNOWN")
    BY <1>1, <1>4, <2>1, <2>3 DEF Service!Settle
  <2> QED BY <2>2, <2>4 DEF Service!Next, Service!Terminal
<1> QED BY <1>2, <1>7, <1>8

LEMMA RecoverRefines ==
  ASSUME TypeOK, TypeOK', NEW n \in {phys, now}, recover(n)
  PROVE  Service!Next
<1>. DEFINE ended == {c \in Call : c.id \in staleCalls(n) /\ calls[c.id].call = c}
<1>1. n \in 0 .. MaxTime /\ UNCHANGED <<dispatches, told, nonces, lastNonce>>
  BY NowType DEF recover, obsVars, TypeOK, TimeType
<1>2. UNCHANGED openPairs /\ Service!Answers
  BY <1>1, NothingTold DEF openPairs, openNonces
<1>3. ASSUME NEW c \in Call
      PROVE  /\ c \in ended => callFate[c] = "DISPATCHING"
             /\ callFate'[c] = IF c \in ended THEN "UNKNOWN" ELSE callFate[c]
  <2>1. c.id \in CallId
    BY DEF CallId
  <2> QED BY <1>1, <2>1, RecoverRows DEF callFate
<1>4. ended \in SUBSET Call
  OBVIOUS
<1>. HIDE DEF ended
<1>5. callFate' = [c \in Call |-> IF c \in ended THEN "UNKNOWN" ELSE callFate[c]]
  BY <1>3 DEF callFate
<1>6. Service!Settle(ended, "UNKNOWN")
  BY <1>1, <1>2, <1>3, <1>4, <1>5 DEF Service!Settle
<1> QED BY <1>2, <1>4, <1>6 DEF Service!Next, Service!Terminal

\* Maintenance opens no nonce.
LEMMA MaintainNonces ==
  ASSUME TypeOK, NEW n \in 0 .. MaxTime, runMaintenance(n)
  PROVE  openPairs' \subseteq openPairs /\ UNCHANGED lastNonce
<1>1. PICK taskB \in batch(dueIn(tasks, TaskId, "ACTIVE", n)),
           tokB  \in batch(dueIn(tokens, TokenId, "ACTIVE", n)),
           nonB  \in batch(dueIn(nonces, NonceId, "OPEN", n)),
           keyB  \in batch(drained(n)),
           sealB \in batch(purgeable(n)),
           callB \in batch(forgotten(n)) : runMaintenance(n)!(taskB, tokB, nonB, keyB, sealB, callB)
  BY DEF runMaintenance
<1>2. ASSUME NEW x \in NonceId, nonces'[x].state = "OPEN"
      PROVE  nonces'[x] = nonces[x]
  <2>1. nonces'[x] \in {NoRow, nonces[x]}
        \/ (x \in nonB /\ nonces'[x] = [nonces[x] EXCEPT !.state = "EXPIRED"])
    BY <1>1 DEF setState
  <2>2. x \in nonB => nonces[x] \in NonceRow
    BY DEF batch, dueIn, TypeOK, CallType, NoRow
  <2> QED BY <1>2, <2>1, <2>2 DEF NonceRow, NoRow
<1>3. UNCHANGED lastNonce
  BY <1>1
<1> QED BY <1>2, <1>3 DEF openPairs, openNonces

LEMMA MaintainRefines ==
  ASSUME TypeOK, TypeOK', NEW n \in {phys, now}, runMaintenance(n)
  PROVE  Service!Next
<1>. DEFINE lost == {c \in Call : /\ calls[c.id].state # "NONE" /\ calls[c.id].call = c
                                  /\ calls'[c.id].state = "NONE"}
            closed == openPairs \ openPairs'
<1>1. n \in 0 .. MaxTime
  BY NowType DEF TypeOK, TimeType
<1>2. UNCHANGED <<dispatches, told>> /\ openPairs' \subseteq openPairs /\ UNCHANGED lastNonce
  BY <1>1, MaintainNonces DEF runMaintenance, obsVars
<1>3. Service!Answers
  BY <1>2, NothingTold
<1>4. ASSUME NEW c \in Call
      PROVE  callFate'[c] = IF c \notin lost THEN callFate[c]
                            ELSE IF dispatches[c] > 0 THEN "GONE" ELSE "NONE"
  <2>1. c.id \in CallId
    BY DEF CallId
  <2> QED BY <1>1, <1>2, <2>1, MaintainRows DEF callFate
<1>5. lost \in SUBSET Call /\ closed \in SUBSET openPairs /\ openPairs' = openPairs \ closed
  BY <1>2
<1>. HIDE DEF lost, closed
<1>6. callFate' = [c \in Call |-> IF c \notin lost THEN callFate[c]
                                  ELSE IF dispatches[c] > 0 THEN "GONE" ELSE "NONE"]
  BY <1>4 DEF callFate
<1>7. Service!Retire(lost, closed)
  BY <1>2, <1>5, <1>6 DEF Service!Retire
<1> QED BY <1>3, <1>5, <1>7 DEF Service!Next

LEMMA EveryStepIsAServiceStep ==
  TypeOK /\ TypeOK' /\ DispatchInv /\ ServiceInv /\ [Next]_vars
    => [Service!Next]_(Service!serviceVars)
<1>. SUFFICES ASSUME TypeOK, TypeOK', DispatchInv, ServiceInv, [Next]_vars
              PROVE  Service!Next \/ UNCHANGED Service!serviceVars
  OBVIOUS
<1>1. CASE Recover
  BY <1>1, RecoverRefines DEF Recover
<1>2. CASE Maintain
  BY <1>2, MaintainRefines DEF Maintain
<1> QED BY <1>1, <1>2, EveryStepIsSorted, IdlesRefine, ReadsRefine, IssuesRefine,
           AdmitsRefine, ReturnRefines DEF ServiceStep

\* Through its calls and nonces the authority is the service a client relies
\* on: at most one admission, one dispatch with it, one ending, and answers
\* that agree with it, whatever is retried, races, crashes or is purged.
THEOREM AuthorityImplementsCallService == Spec => ImplementsCallService
<1>1. Init => Service!Init
  BY DEF Init, Service!Init, callFate, openPairs, openNonces, NoRow, CallId
<1> QED BY <1>1, EveryStepIsAServiceStep, ServiceInvHolds, TypeCorrect, TypeStep, PTL
        DEF ImplementsCallService, Service!Spec, Spec

-----------------------------------------------------------------------------
\* A success is final: an invariant of the abstract service

Final == {"SUCCEEDED", "GONE"}

\* A success that was told stays a success until it is forgotten, and a call of
\* which anything else was told has not succeeded.
Agrees(a) ==
  IF a[2] = "SUCCEEDED" THEN callFate[a[1]] \in Final /\ dispatches[a[1]] > 0
                        ELSE callFate[a[1]] # "SUCCEEDED"
FinalInv ==
  /\ \A c \in Call : callFate[c] = "SUCCEEDED" => dispatches[c] > 0
  /\ \A a \in told : Agrees(a)
  /\ SuccessIsFinal

\* How the fate of one call moves.
LEMMA FateMoves ==
  ASSUME TypeOK, Service!Next, NEW c \in Call
  PROVE  /\ dispatches[c] > 0 => dispatches'[c] > 0
         /\ callFate'[c] = "SUCCEEDED" =>
              \/ callFate[c] = "SUCCEEDED"
              \/ dispatches'[c] > 0 /\ \A a \in told : a[1] # c
         /\ callFate[c] \in Final /\ dispatches[c] > 0 => callFate'[c] \in Final
<1>1. dispatches \in [Call -> Nat] /\ callFate = [d \in Call |-> callFate[d]]
  BY DEF TypeOK, ObsType, callFate
<1>2. ASSUME NEW d \in Call, Service!Admit(d)
      PROVE  /\ dispatches[c] > 0 => dispatches'[c] > 0
             /\ callFate'[c] = IF c = d THEN "DISPATCHING" ELSE callFate[c]
             /\ c = d => callFate[c] = "NONE"
  BY <1>1, <1>2 DEF Service!Admit
<1>3. ASSUME NEW ended \in SUBSET Call, NEW state \in Terminal,
             Service!Settle(ended, state)
      PROVE  /\ dispatches'[c] = dispatches[c]
             /\ callFate'[c] = IF c \in ended THEN state ELSE callFate[c]
             /\ c \in ended => callFate[c] = "DISPATCHING"
             /\ c \in ended /\ state = "SUCCEEDED" =>
                  dispatches[c] > 0 /\ \A a \in told : a[1] # c
  BY <1>3 DEF Service!Settle
<1>4. ASSUME NEW lost \in SUBSET Call, NEW closed \in SUBSET openPairs,
             Service!Retire(lost, closed)
      PROVE  /\ dispatches'[c] = dispatches[c]
             /\ callFate'[c] \in {callFate[c], "GONE"}
                \/ (callFate'[c] = "NONE" /\ ~(dispatches[c] > 0))
  BY <1>4 DEF Service!Retire
<1>5. ASSUME NEW d \in Call, NEW x \in NonceId, NEW closed \in SUBSET openPairs,
             Service!Issue(x, d, closed)
      PROVE  dispatches'[c] = dispatches[c] /\ callFate'[c] = callFate[c]
  BY <1>5 DEF Service!Issue
<1>6. \/ \E d \in Call : Service!Admit(d)
      \/ \E d \in Call, x \in NonceId, closed \in SUBSET openPairs :
           Service!Issue(x, d, closed)
      \/ \E ended \in SUBSET Call, state \in Terminal : Service!Settle(ended, state)
      \/ \E lost \in SUBSET Call, closed \in SUBSET openPairs : Service!Retire(lost, closed)
  BY DEF Service!Next, Service!AdmitPlain, Service!AdmitWith, Terminal, Service!Terminal
<1>7. CASE \E d \in Call : Service!Admit(d)
  BY <1>2, <1>7 DEF Final
<1>8. CASE \E d \in Call, x \in NonceId, closed \in SUBSET openPairs :
             Service!Issue(x, d, closed)
  BY <1>5, <1>8
<1>9. CASE \E ended \in SUBSET Call, state \in Terminal : Service!Settle(ended, state)
  BY <1>3, <1>9 DEF Final
<1>10. CASE \E lost \in SUBSET Call, closed \in SUBSET openPairs :
              Service!Retire(lost, closed)
  BY <1>4, <1>10 DEF Final
<1> QED BY <1>6, <1>7, <1>8, <1>9, <1>10

LEMMA FinalStep ==
  TypeOK /\ FinalInv /\ [Service!Next]_(Service!serviceVars) => FinalInv'
<1>. SUFFICES ASSUME TypeOK, FinalInv, Service!Next \/ UNCHANGED Service!serviceVars
              PROVE  FinalInv'
  OBVIOUS
<1>1. CASE UNCHANGED Service!serviceVars
  BY <1>1 DEF Service!serviceVars, FinalInv, Agrees, SuccessIsFinal
<1>2. CASE Service!Next
  <2>1. /\ told \subseteq told' /\ told' \subseteq Call \X Terminal
        /\ \A a \in told' \ told :
             \/ a[2] = callFate'[a[1]]
             \/ /\ a[2] # "SUCCEEDED"
                /\ callFate'[a[1]] \in {"DISPATCHING", "UNKNOWN"}
    BY <1>2 DEF Service!Next, Service!Answers, Terminal, Service!Terminal
  <2>2. \A c \in Call : callFate'[c] = "SUCCEEDED" => dispatches'[c] > 0
    BY <1>2, FateMoves DEF FinalInv
  <2>3. ASSUME NEW a \in told'
        PROVE  Agrees(a)'
    <3>1. a[1] \in Call /\ a[2] \in Terminal
      BY <2>1
    <3>2. CASE a \in told
      <4>1. Agrees(a)
        BY <3>2 DEF FinalInv
      <4> QED BY <1>2, <3>1, <3>2, <4>1, FateMoves DEF Agrees
    <3>3. CASE a \notin told
      BY <2>1, <2>2, <3>1, <3>3 DEF Agrees, Final
    <3> QED BY <3>2, <3>3
  <2>4. ASSUME NEW c \in Call, NEW s \in Terminal,
               <<c, "SUCCEEDED">> \in told', <<c, s>> \in told', s # "SUCCEEDED"
        PROVE  FALSE
    <3>1. callFate'[c] = "GONE"
      BY <2>3, <2>4 DEF Agrees, Final
    <3>2. <<c, "SUCCEEDED">> \in told /\ <<c, s>> \in told
      BY <2>1, <2>4, <3>1 DEF Terminal
    <3> QED BY <2>4, <3>2 DEF FinalInv, SuccessIsFinal
  <2> QED BY <2>2, <2>3, <2>4 DEF FinalInv, SuccessIsFinal
<1> QED BY <1>1, <1>2

\* A caller that was told SUCCEEDED is never told another outcome of the call:
\* it follows from the abstract service alone.
THEOREM SuccessStaysFinal == Spec => []SuccessIsFinal
<1>1. Init => FinalInv
  BY DEF Init, FinalInv, SuccessIsFinal, callFate, NoRow, CallId
<1>2. FinalInv => SuccessIsFinal
  BY DEF FinalInv
<1> QED BY <1>1, <1>2, FinalStep, AuthorityImplementsCallService, TypeCorrect, PTL
        DEF Spec, ImplementsCallService, Service!Spec

-----------------------------------------------------------------------------
\* The endings in the audit log

Ended(s, c) == <<eventOf[s], c>> \in audit
UnderWay(c) == calls[c.id].state = "DISPATCHING" /\ calls[c.id].call = c

\* A call whose ending is in the log is over, and stays accounted for, so that
\* it is not admitted a second time.
EndingInv ==
  /\ OneEnding
  /\ \A c \in Call : \A s \in Terminal : Ended(s, c) => Accounted(c) /\ ~UnderWay(c)

OtherKinds == {"deployment.installed", "access.denied", "call.admitted", "result.read",
               "nonce.read", "nonce.issued", "nonce.expired", "control.replayed", "token.minted",
               "revocation.applied", "policy.applied", "key.rotated", "inspect.read",
               "audit.read", "task.expired", "token.expired", "key.retired"}

LEMMA Kinds ==
  \A s \in Terminal : /\ eventOf[s] \notin OtherKinds
                      /\ \A r \in Terminal : eventOf[r] = eventOf[s] => r = s
  BY DEF Terminal, eventOf, OtherKinds

\* The events a step adds are of other kinds.
NoEnding == \A c \in Call : \A s \in Terminal : Ended(s, c)' <=> Ended(s, c)

LEMMA SameLog == UNCHANGED audit => NoEnding
  BY DEF NoEnding, Ended

LEMMA OtherLog ==
  ASSUME NEW events, appendEvent(events), \A e \in events : e[1] \in OtherKinds
  PROVE  NoEnding
<1>1. ASSUME NEW c \in Call, NEW s \in Terminal, <<eventOf[s], c>> \in events
      PROVE  FALSE
  <2>. DEFINE e == <<eventOf[s], c>>
  <2>1. e[1] = eventOf[s]
    OBVIOUS
  <2> QED BY <1>1, <2>1, Kinds
<1> QED BY <1>1 DEF appendEvent, NoEnding, Ended

LEMMA DenyLog ==
  ASSUME NEW p \in Proof, deny(p)
  PROVE  NoEnding
  BY SameLog, OtherLog DEF deny, OtherKinds

LEMMA TellLog ==
  ASSUME NEW c \in Call, tellStored(c)
  PROVE  NoEnding
<1>1. \A e \in {<<"result.read", o[1]>> : o \in storedOutcome(c)} : e[1] \in OtherKinds
  BY DEF OtherKinds
<1> QED BY <1>1, OtherLog DEF tellStored

LEMMA AdmissionLog ==
  ASSUME NEW h \in Handler, NEW t \in TokenId, NEW p \in Proof,
         NEW nonce \in {0} \cup NonceId, NEW c \in Call, admissionTx(h, t, p, nonce, c)
  PROVE  NoEnding
<1>1. CASE admitCall(t, p, nonce, c)
  <2>1. \A e \in {<<"call.admitted", c>>} : e[1] \in OtherKinds
    BY DEF OtherKinds
  <2> QED BY <1>1, <2>1, OtherLog DEF admitCall
<1>2. CASE replayCall(t, p, c)
  BY <1>2, TellLog DEF replayCall
<1> QED BY <1>1, <1>2, DenyLog DEF admissionTx

LEMMA AgentLog ==
  ASSUME AgentRequest
  PROVE  NoEnding
<1>1. PICK t \in TokenId, p \in Proof :
        \/ \E h \in Handler, c \in Call, nonce \in {0} \cup NonceId :
             handleCall(h, t, p, nonce, c)
        \/ \E c \in Call : handleNonce(t, p, c)
        \/ \E i \in CallId : handleResult(t, p, i)
  BY DEF AgentRequest
<1>2. ASSUME NEW h \in Handler, NEW c \in Call, NEW nonce \in {0} \cup NonceId,
             handleCall(h, t, p, nonce, c)
      PROVE  NoEnding
  BY <1>2, SameLog, DenyLog, AdmissionLog DEF handleCall
<1>3. ASSUME NEW c \in Call, handleNonce(t, p, c)
      PROVE  NoEnding
  <2>. DEFINE open == {x \in openNonces : nonces[x].tok = t /\ nonces[x].call = c}
              live == {x \in open : now < nonces[x].exp}
  <2>1. /\ \A e \in {<<"nonce.read", x>> : x \in live} : e[1] \in OtherKinds
        /\ \A e \in {<<"nonce.issued", lastNonce + 1>>}
                       \cup {<<"nonce.expired", x>> : x \in open} : e[1] \in OtherKinds
    BY DEF OtherKinds
  <2>2. \/ deny(p)
        \/ appendEvent({<<"nonce.read", x>> : x \in live})
        \/ appendEvent({<<"nonce.issued", lastNonce + 1>>}
                         \cup {<<"nonce.expired", x>> : x \in open})
    BY <1>3 DEF handleNonce
  <2>. HIDE DEF open, live
  <2> QED BY <2>1, <2>2, DenyLog, OtherLog
<1>4. ASSUME NEW i \in CallId, handleResult(t, p, i)
      PROVE  NoEnding
  <2>1. CASE deny(p)
    BY <2>1, DenyLog
  <2>2. CASE tellStored(calls[i].call)
    <3>1. \A e \in {<<"result.read", o[1]>> : o \in storedOutcome(calls[i].call)} :
            e[1] \in OtherKinds
      BY DEF OtherKinds
    <3> QED BY <2>2, <3>1, OtherLog DEF tellStored
  <2> QED BY <1>4, <2>1, <2>2 DEF handleResult
<1> QED BY <1>1, <1>2, <1>3, <1>4

LEMMA MintLog ==
  ASSUME NEW h \in Handler, NEW kid \in ControlKid, NEW p \in Proof, NEW op \in OpId,
         NEW req \in MintRequest, mintTx(h, kid, p, op, req)
  PROVE  NoEnding
<1>1. /\ \A e \in {<<"control.replayed", op>>} : e[1] \in OtherKinds
      /\ \A e \in {<<"token.minted", lastToken + 1>>} : e[1] \in OtherKinds
  BY DEF OtherKinds
<1>2. \/ deny(p)
      \/ appendEvent({<<"control.replayed", op>>})
      \/ appendEvent({<<"token.minted", lastToken + 1>>})
  BY DEF mintTx, controlDeny, replayOperation, mintMutator
<1> QED BY <1>1, <1>2, DenyLog, OtherLog

LEMMA ControlLog ==
  ASSUME ControlRequest
  PROVE  NoEnding
<1>1. PICK kid \in ControlKid, p \in Proof :
        \/ \E h \in Handler, op \in OpId, req \in MintRequest :
             handleMint(h, kid, p, op, req)
        \/ \E op \in OpId, target \in Target : handleRevoke(kid, p, op, target)
        \/ \E op \in OpId, rev \in 1 .. MaxRevision, body \in Policy :
             handlePolicy(kid, p, op, rev, body)
        \/ \E op \in OpId, old \in Kid, new \in Kid :
             handleRotate(kid, p, op, old, new)
        \/ \E t \in TokenId : handleInspect(kid, p, t)
        \/ handleAudit(kid, p)
  BY DEF ControlRequest
<1>2. ASSUME NEW kind \in OtherKinds, NEW x, appendEvent({<<kind, x>>})
      PROVE  NoEnding
  <2>1. \A e \in {<<kind, x>>} : e[1] \in OtherKinds
    OBVIOUS
  <2> QED BY <1>2, <2>1, OtherLog
<1>3. ASSUME NEW h \in Handler, NEW op \in OpId, NEW req \in MintRequest,
             handleMint(h, kid, p, op, req)
      PROVE  NoEnding
  BY <1>3, SameLog, DenyLog, MintLog DEF handleMint, controlDeny
<1>4. ASSUME NEW op \in OpId, NEW target \in Target, handleRevoke(kid, p, op, target)
      PROVE  NoEnding
  <2>1. \/ deny(p) \/ UNCHANGED audit \/ appendEvent({<<"control.replayed", op>>})
        \/ appendEvent({<<"revocation.applied", <<target[1], target[2]>>>>})
    BY <1>4 DEF handleRevoke, controlOp, controlDeny, replayOperation, revokeMutator
  <2> QED BY <1>2, <2>1, SameLog, DenyLog DEF OtherKinds
<1>5. ASSUME NEW op \in OpId, NEW rev \in 1 .. MaxRevision, NEW body \in Policy,
             handlePolicy(kid, p, op, rev, body)
      PROVE  NoEnding
  <2>1. \/ deny(p) \/ appendEvent({<<"control.replayed", op>>})
        \/ appendEvent({<<"policy.applied", rev + 1>>})
    BY <1>5 DEF handlePolicy, controlOp, controlDeny, replayOperation, policyMutator
  <2> QED BY <1>2, <2>1, DenyLog DEF OtherKinds
<1>6. ASSUME NEW op \in OpId, NEW old \in Kid, NEW new \in Kid,
             handleRotate(kid, p, op, old, new)
      PROVE  NoEnding
  <2>1. \/ deny(p) \/ appendEvent({<<"control.replayed", op>>})
        \/ appendEvent({<<"key.rotated", new>>})
    BY <1>6 DEF handleRotate, controlOp, controlDeny, replayOperation, rotateMutator
  <2> QED BY <1>2, <2>1, DenyLog DEF OtherKinds
<1>7. ASSUME NEW t \in TokenId, handleInspect(kid, p, t)
      PROVE  NoEnding
  <2>1. deny(p) \/ appendEvent({<<"inspect.read", t>>})
    BY <1>7 DEF handleInspect, controlRead
  <2> QED BY <1>2, <2>1, DenyLog DEF OtherKinds
<1>8. ASSUME handleAudit(kid, p)
      PROVE  NoEnding
  <2>1. deny(p) \/ appendEvent({<<"audit.read", kid>>})
    BY <1>8 DEF handleAudit, controlRead
  <2> QED BY <1>2, <2>1, DenyLog DEF OtherKinds
<1> QED BY <1>1, <1>3, <1>4, <1>5, <1>6, <1>7, <1>8

LEMMA MaintainLog ==
  ASSUME NEW n \in 0 .. MaxTime, runMaintenance(n)
  PROVE  NoEnding
<1>1. ASSUME NEW kind \in OtherKinds, NEW rows
      PROVE  \A e \in expired(kind, rows) : e[1] \in OtherKinds
  BY <1>1 DEF expired
<1>2. PICK taskB, tokB, nonB, keyB :
        appendEvent(expired("task.expired", taskB) \cup expired("token.expired", tokB)
                      \cup expired("nonce.expired", nonB) \cup expired("key.retired", keyB))
  BY DEF runMaintenance
<1>3. /\ \A e \in expired("task.expired", taskB) : e[1] \in OtherKinds
      /\ \A e \in expired("token.expired", tokB) : e[1] \in OtherKinds
      /\ \A e \in expired("nonce.expired", nonB) : e[1] \in OtherKinds
      /\ \A e \in expired("key.retired", keyB) : e[1] \in OtherKinds
  BY <1>1 DEF OtherKinds
<1> QED BY <1>2, <1>3, OtherLog

\* Only an adapter's answer and recover() write endings.
LEMMA EveryStepLogs ==
  ASSUME TypeOK, [Next]_vars
  PROVE  \/ NoEnding
         \/ \E h \in Handler, outcome \in Terminal : adapterReturns(h, outcome)
         \/ Recover
<1>1. CASE tick \/ StepBack \/ crash \/ UNCHANGED vars
  BY <1>1, SameLog DEF tick, StepBack, stepBack, crash, vars
<1>2. CASE Maintain
  BY <1>2, MaintainLog, NowType DEF Maintain, TypeOK, TimeType
<1>3. ASSUME NEW h \in Handler, NEW obs \in Observation, callHeraldAnswers(h, obs)
      PROVE  NoEnding
  <2>. DEFINE w == handlers[h]
  <2>1. /\ w.tok \in TokenId /\ w.proof \in Proof /\ w.call \in Call
        /\ w.nonce \in {0} \cup NonceId
    BY <1>3, WaitType, NatConstants DEF callHeraldAnswers, CallWait, NonceId
  <2>2. admissionTx(h, w.tok, w.proof, w.nonce, w.call) \/ deny(w.proof)
    BY <1>3 DEF callHeraldAnswers
  <2>. HIDE DEF w
  <2> QED BY <2>1, <2>2, AdmissionLog, DenyLog
<1>4. ASSUME NEW h \in Handler, NEW obs \in Observation, mintHeraldAnswers(h, obs)
      PROVE  NoEnding
  <2>. DEFINE w == handlers[h]
  <2>1. /\ w.kid \in ControlKid /\ w.proof \in Proof /\ w.op \in OpId
        /\ w.req \in MintRequest
    BY <1>4, WaitType DEF mintHeraldAnswers, MintWait
  <2>2. mintTx(h, w.kid, w.proof, w.op, w.req) \/ deny(w.proof)
    BY <1>4 DEF mintHeraldAnswers, controlDeny
  <2>. HIDE DEF w
  <2> QED BY <2>1, <2>2, MintLog, DenyLog
<1> QED BY <1>1, <1>2, <1>3, <1>4, AgentLog, ControlLog DEF Next, Answer

RowEnds(c, s) == calls[c.id].state = s /\ calls[c.id].call = c

\* The invariant of the next state, from its parts.
LEMMA EndingsRead ==
  ASSUME \A c \in Call : \A s, r \in Terminal : Ended(s, c)' /\ Ended(r, c)' => s = r,
         \A c \in Call : \A s \in Terminal : RowEnds(c, s)' => Ended(s, c)',
         \A c \in Call : \A s \in Terminal : Ended(s, c)' => Accounted(c)' /\ ~UnderWay(c)'
  PROVE  EndingInv'
<1>1. ASSUME NEW c \in Call, calls'[c.id].state \in Terminal, calls'[c.id].call = c
      PROVE  <<eventOf[calls'[c.id].state], c>> \in audit'
  <2>1. PICK s \in Terminal : s = calls'[c.id].state
    BY <1>1
  <2>2. Ended(s, c)'
    BY <1>1, <2>1 DEF RowEnds
  <2> QED BY <2>1, <2>2 DEF Ended
<1>2. ASSUME NEW c \in Call, NEW s \in Terminal, NEW r \in Terminal,
             <<eventOf[s], c>> \in audit', <<eventOf[r], c>> \in audit'
      PROVE  s = r
  BY <1>2 DEF Ended
<1> QED BY <1>1, <1>2 DEF EndingInv, OneEnding

AllAccounted == \A c \in Call : Accounted(c) => Accounted(c)'

\* No ending is written, and rows that are settled were settled before.
LEMMA EndingsStay ==
  ASSUME EndingInv, NoEnding, AllAccounted,
         \A c \in Call : UnderWay(c)' => UnderWay(c) \/ ~Accounted(c),
         \A c \in Call : calls'[c.id].state \in Terminal /\ calls'[c.id].call = c =>
           calls[c.id].state = calls'[c.id].state /\ calls[c.id].call = c
  PROVE  EndingInv'
<1>1. \A c \in Call : \A s \in Terminal : Ended(s, c)' => Accounted(c)' /\ ~UnderWay(c)'
  BY DEF EndingInv, NoEnding, AllAccounted
<1>2. \A c \in Call : \A s, r \in Terminal : Ended(s, c)' /\ Ended(r, c)' => s = r
  BY DEF EndingInv, NoEnding, OneEnding, Ended
<1>3. ASSUME NEW c \in Call, NEW r \in Terminal, RowEnds(c, r)'
      PROVE  Ended(r, c)'
  <2>1. RowEnds(c, r)
    BY <1>3 DEF RowEnds
  <2>2. Ended(r, c)
    BY <2>1 DEF EndingInv, OneEnding, Ended, RowEnds
  <2> QED BY <2>2 DEF NoEnding
<1> QED BY <1>1, <1>2, <1>3, EndingsRead

\* Calls under way end as s, each with its event.
LEMMA EndingsGrow ==
  ASSUME EndingInv, AllAccounted, NEW s \in Terminal, NEW ended \in SUBSET Call,
         \A c \in ended : UnderWay(c) /\ calls'[c.id].state = s /\ calls'[c.id].call = c,
         \A c \in Call \ ended : /\ UnderWay(c)' => UnderWay(c)
                                 /\ calls'[c.id].state \in Terminal /\ calls'[c.id].call = c =>
                                      calls[c.id] = calls'[c.id],
         \A c \in Call : \A r \in Terminal :
           Ended(r, c)' <=> Ended(r, c) \/ (c \in ended /\ r = s)
  PROVE  EndingInv'
<1>1. s # "DISPATCHING"
  BY DEF Terminal
<1>2. ASSUME NEW c \in Call, NEW r \in Terminal, Ended(r, c)'
      PROVE  Accounted(c)' /\ ~UnderWay(c)' /\ (c \in ended => r = s)
  <2>1. CASE c \in ended
    <3>1. Accounted(c)
      BY <2>1 DEF UnderWay, Accounted
    <3>2. ~Ended(r, c)
      BY <2>1 DEF EndingInv
    <3> QED BY <1>1, <1>2, <2>1, <3>1, <3>2 DEF AllAccounted, UnderWay
  <2>2. CASE c \notin ended
    <3>1. Ended(r, c)
      BY <1>2, <2>2
    <3> QED BY <2>2, <3>1 DEF EndingInv, AllAccounted
  <2> QED BY <2>1, <2>2
<1>3. \A c \in Call : \A q, r \in Terminal : Ended(q, c)' /\ Ended(r, c)' => q = r
  <2>. SUFFICES ASSUME NEW c \in Call, NEW q \in Terminal, NEW r \in Terminal,
                       Ended(q, c)', Ended(r, c)'
                PROVE  q = r
    OBVIOUS
  <2>1. CASE c \in ended
    BY <1>2, <2>1
  <2>2. CASE c \notin ended
    <3>1. Ended(q, c) /\ Ended(r, c)
      BY <2>2
    <3> QED BY <3>1 DEF EndingInv, OneEnding, Ended
  <2> QED BY <2>1, <2>2
<1>4. \A c \in Call : \A r \in Terminal : RowEnds(c, r)' => Ended(r, c)'
  <2>. SUFFICES ASSUME NEW c \in Call, NEW r \in Terminal, RowEnds(c, r)'
                PROVE  Ended(r, c)'
    OBVIOUS
  <2>1. CASE c \in ended
    <3>1. Ended(s, c)' /\ calls'[c.id].state = s
      BY <2>1
    <3> QED BY <3>1 DEF RowEnds
  <2>2. CASE c \notin ended
    <3>1. RowEnds(c, r)
      BY <2>2 DEF RowEnds
    <3>2. Ended(r, c)
      BY <3>1 DEF EndingInv, OneEnding, Ended, RowEnds
    <3> QED BY <3>2
  <2> QED BY <2>1, <2>2
<1>5. \A c \in Call : \A r \in Terminal : Ended(r, c)' => Accounted(c)' /\ ~UnderWay(c)'
  BY <1>2
<1> QED BY <1>3, <1>4, <1>5, EndingsRead

\* Rows are keyed by their call's id and belong to tasks that exist.
RowsInv == RowsHaveTasks /\ RowsKeyed

LEMMA RowsStep == TypeOK /\ RowsInv /\ [Next]_vars => RowsInv'
<1>. SUFFICES ASSUME TypeOK, RowsInv, [Next]_vars
              PROVE  RowsInv'
  OBVIOUS
<1>1. ASSUME TasksStay, RowsStay
      PROVE  RowsInv'
  <2>1. RowsHaveTasks'
    BY <1>1, ExistingCall DEF RowsStay, TasksStay, RowsInv, RowsHaveTasks
  <2> QED BY <1>1, <2>1, KeyedStays DEF RowsInv
<1>2. ASSUME NEW h \in Handler, NEW t \in TokenId, NEW p \in Proof,
             NEW nonce \in {0} \cup NonceId, NEW c \in Call, Admits(h, t, p, nonce, c)
      PROVE  RowsInv'
  <2>1. RowAdded(c) /\ UNCHANGED tasks
    BY <1>2, AdmitRows DEF Admits
  <2> QED BY <2>1 DEF RowAdded, RowsInv, RowsHaveTasks, RowsKeyed
<1>3. ASSUME NEW h \in Handler, NEW outcome \in Terminal, adapterReturns(h, outcome)
      PROVE  RowsInv'
  <2>1. handlers[h].call \in Call /\ UNCHANGED tasks
    BY <1>3, Waiter DEF adapterReturns, credVars
  <2>2. (\E s \in Terminal : completeCall(handlers[h].call, s)) \/ UNCHANGED calls
    BY <1>3 DEF adapterReturns, Terminal
  <2> QED BY <1>1, <2>1, <2>2, CompleteKeepsRows, UnchangedRowsStay, UnchangedTasksStay
<1>4. CASE Recover
  <2>1. PICK n \in 0 .. MaxTime : recover(n)
    BY <1>4, NowType DEF Recover, TypeOK, TimeType
  <2> QED BY <1>1, <2>1, RecoverKeepsRows, UnchangedTasksStay DEF recover, credVars
<1>5. CASE Maintain
  <2>1. PICK n \in 0 .. MaxTime : runMaintenance(n)
    BY <1>5, NowType DEF Maintain, TypeOK, TimeType
  <2> QED BY <1>1, <2>1, MaintainKeeps DEF RowsInv
<1>6. ASSUME Idles \/ (\E i \in CallId : Reads(i))
             \/ \E c \in Call, row \in NonceRow, closed \in SUBSET openNonces :
                  Issues(c, row, closed)
      PROVE  RowsInv'
  BY <1>1, <1>6, UnchangedRowsStay DEF Idles, Reads, Issues, Quiet, Framed
<1> QED BY <1>2, <1>3, <1>4, <1>5, <1>6, EveryStepIsSorted DEF ServiceStep

LEMMA EndingStep ==
  ASSUME TypeOK, TypeOK', RowsInv, EndingInv, [Next]_vars
  PROVE  EndingInv'
<1>1. RowsHaveTasks /\ RowsKeyed
  BY DEF RowsInv
<1>2. ASSUME TasksStay, RowsStay
      PROVE  AllAccounted
  BY <1>1, <1>2, AccountedStays DEF AllAccounted
<1>3. ASSUME UNCHANGED calls, TasksStay, NoEnding
      PROVE  EndingInv'
  BY <1>2, <1>3, UnchangedRowsStay, EndingsStay DEF UnderWay
<1>4. ASSUME NEW h \in Handler, NEW t \in TokenId, NEW p \in Proof,
             NEW nonce \in {0} \cup NonceId, NEW c \in Call,
             Admits(h, t, p, nonce, c), NoEnding
      PROVE  EndingInv'
  <2>1. recheck(t, p, c) /\ admitCall(t, p, nonce, c) /\ UNCHANGED tasks
    BY <1>4 DEF Admits
  <2>2. /\ AllAccounted /\ ~Accounted(c) /\ c.id \in CallId
        /\ calls'[c.id].state = "DISPATCHING" /\ calls'[c.id].call = c
        /\ \A i \in CallId : i # c.id => calls'[i] = calls[i]
    <3>1. RowAdded(c)
      BY <2>1, AdmitRows
    <3> QED BY <3>1 DEF RowAdded, AllAccounted
  <2>3. "DISPATCHING" \notin Terminal /\ \A d \in Call : d.id \in CallId
    BY DEF Terminal, CallId
  <2> QED BY <1>4, <2>2, <2>3, EndingsStay DEF UnderWay
<1>5. ASSUME NEW n \in {phys, now}, runMaintenance(n)
      PROVE  EndingInv'
  <2>1. n \in 0 .. MaxTime /\ "NONE" \notin Terminal /\ \A d \in Call : d.id \in CallId
    BY NowType DEF TypeOK, TimeType, Terminal, CallId
  <2>2. AllAccounted /\ NoEnding
    BY <1>1, <1>2, <1>5, <2>1, MaintainKeeps, MaintainLog
  <2> QED BY <1>5, <2>1, <2>2, MaintainRows, EndingsStay DEF UnderWay
<1>6. ASSUME NEW h \in Handler, NEW outcome \in Terminal, adapterReturns(h, outcome)
      PROVE  EndingInv'
  <2>. DEFINE w == handlers[h].call
  <2>1. w \in Call /\ UNCHANGED tasks
    BY <1>6, Waiter DEF adapterReturns, credVars
  <2>2. (\E s \in Terminal : completeCall(w, s)) \/ UNCHANGED <<calls, audit>>
    BY <1>6 DEF adapterReturns, Terminal
  <2>. HIDE DEF w
  <2>3. CASE UNCHANGED <<calls, audit>>
    BY <1>3, <2>1, <2>3, SameLog, UnchangedTasksStay
  <2>4. ASSUME NEW s \in Terminal, completeCall(w, s)
        PROVE  EndingInv'
    <3>1. PICK c : c = calls[w.id].call
      OBVIOUS
    <3>2. /\ w.id \in CallId /\ calls[w.id].state = "DISPATCHING"
          /\ calls'[w.id].state = s /\ calls'[w.id].call = c
          /\ \A i \in CallId : i # w.id => calls'[i] = calls[i]
      BY <2>1, <2>4, <3>1, SettledRow
    <3>3. c \in Call /\ c.id = w.id
      BY <1>1, <3>1, <3>2, ExistingCall DEF RowsKeyed, CallRow
    <3>4. audit' = audit \cup {<<eventOf[s], c>>}
      BY <2>4, <3>1 DEF completeCall, appendEvent
    <3>5. \A d \in Call : \A r \in Terminal :
            Ended(r, d)' <=> Ended(r, d) \/ (d \in {c} /\ r = s)
      BY <3>4, Kinds DEF Ended
    <3>6. UnderWay(c) /\ \A d \in Call : d.id \in CallId
      BY <3>1, <3>2, <3>3 DEF UnderWay, CallId
    <3>7. \A d \in Call \ {c} :
            /\ UnderWay(d)' => UnderWay(d)
            /\ calls'[d.id].state \in Terminal /\ calls'[d.id].call = d =>
                 calls[d.id] = calls'[d.id]
      BY <3>2, <3>3, <3>6 DEF UnderWay
    <3>8. AllAccounted
      BY <1>2, <2>1, <2>4, CompleteKeepsRows, UnchangedTasksStay
    <3> QED BY <3>2, <3>3, <3>5, <3>6, <3>7, <3>8, EndingsGrow
  <2> QED BY <2>2, <2>3, <2>4
<1>7. ASSUME NEW n \in {phys, now}, recover(n)
      PROVE  EndingInv'
  <2>. DEFINE ended == {c \in Call : c.id \in staleCalls(n) /\ calls[c.id].call = c}
  <2>1. /\ n \in 0 .. MaxTime /\ \A d \in Call : d.id \in CallId
        /\ "UNKNOWN" \in Terminal /\ eventOf["UNKNOWN"] = "call.unknown"
    BY NowType DEF TypeOK, TimeType, CallId, Terminal, eventOf
  <2>2. AllAccounted
    BY <1>2, <1>7, <2>1, RecoverKeepsRows, UnchangedTasksStay DEF recover, credVars
  <2>3. audit' = audit \cup {<<"call.unknown", calls[i].call>> : i \in staleCalls(n)}
    BY <1>7 DEF recover, appendEvent
  <2>4. \A i \in staleCalls(n) : calls[i].call \in ended /\ i = calls[i].call.id
    <3>1. \A i \in staleCalls(n) : i \in CallId /\ calls[i].state # "NONE"
      BY DEF staleCalls, inflightCalls
    <3> QED BY <1>1, <3>1, ExistingCall DEF RowsKeyed, CallRow
  <2>5. \A d \in Call : \A r \in Terminal :
          Ended(r, d)' <=> Ended(r, d) \/ (d \in ended /\ r = "UNKNOWN")
    <3>1. \A d \in Call : d \in ended <=> \E i \in staleCalls(n) : calls[i].call = d
      BY <2>4
    <3> QED BY <2>1, <2>3, <3>1, Kinds DEF Ended
  <2>6. \A c \in ended : UnderWay(c) /\ calls'[c.id].state = "UNKNOWN" /\ calls'[c.id].call = c
    BY <1>7, <2>1, RecoverRows DEF UnderWay
  <2>7. \A c \in Call \ ended :
          /\ UnderWay(c)' => UnderWay(c)
          /\ calls'[c.id].state \in Terminal /\ calls'[c.id].call = c =>
               calls[c.id] = calls'[c.id]
    BY <1>7, <2>1, RecoverRows DEF UnderWay
  <2>8. ended \in SUBSET Call
    OBVIOUS
  <2>. HIDE DEF ended
  <2> QED BY <2>1, <2>2, <2>5, <2>6, <2>7, <2>8, EndingsGrow
<1>8. \/ NoEnding
      \/ \E h \in Handler, outcome \in Terminal : adapterReturns(h, outcome)
      \/ Recover
  BY EveryStepLogs
<1>9. ASSUME NoEnding, Idles \/ (\E i \in CallId : Reads(i))
                      \/ \E c \in Call, row \in NonceRow, closed \in SUBSET openNonces :
                           Issues(c, row, closed)
      PROVE  EndingInv'
  BY <1>3, <1>9 DEF Idles, Reads, Issues, Quiet, Framed
<1>10. CASE Recover
  BY <1>7, <1>10 DEF Recover
<1>11. CASE Maintain
  BY <1>5, <1>11 DEF Maintain
<1>12. CASE \E h \in Handler, outcome \in Terminal : adapterReturns(h, outcome)
  BY <1>6, <1>12
<1> QED BY <1>4, <1>8, <1>9, <1>10, <1>11, <1>12, EveryStepIsSorted DEF ServiceStep

LEMMA InitEndings == Init => EndingInv /\ RowsInv
<1>. SUFFICES ASSUME Init
              PROVE  EndingInv /\ RowsInv
  OBVIOUS
<1>1. audit = {<<"deployment.installed", 1>>}
  BY DEF Init
<1>2. \A c \in Call : \A s \in Terminal : ~Ended(s, c)
  BY <1>1, Kinds DEF Ended, OtherKinds
<1>3. \A c \in Call : calls[c.id].state \notin Terminal
  BY DEF Init, NoRow, CallId, Terminal
<1>4. RowsInv
  BY DEF Init, NoRow, RowsInv, RowsHaveTasks, RowsKeyed
<1> QED BY <1>2, <1>3, <1>4 DEF EndingInv, OneEnding, Ended

\* The log never tells two endings of a call, and tells the one its row has:
\* an ending is only written for a call under way, and an ended call, being
\* accounted for, is never admitted again.
THEOREM CallsEndOnce == Spec => []OneEnding
<1>1. EndingInv => OneEnding
  BY DEF EndingInv
<1> QED BY <1>1, InitEndings, EndingStep, RowsStep, TypeCorrect, TypeStep, PTL DEF Spec
=============================================================================
