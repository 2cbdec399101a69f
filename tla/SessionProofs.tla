--------------------------- MODULE SessionProofs ---------------------------
(***************************************************************************)
(* The client in use, for every value of the constants: whatever the       *)
(* network does to its requests, what a caller is told of its call is true *)
(* of that call, and a call is done at most once.                          *)
(***************************************************************************)
EXTENDS Session, FiniteSetTheorems, TLAPS

-----------------------------------------------------------------------------
\* The inductive invariant

Step == Waiting \X (0 .. MAX_RETRIES)
Request == [thread : Thread, step : Step, resource : {"nonces", "calls", "results"},
            call : Call, nonce : {NoNonce} \cup NonceId]
Handler == [thread : Thread, step : Step, call : Call]

TypeInv ==
  /\ thr \in [Thread -> {Idle} \cup Busy \cup Done]
  /\ held \in [Call -> {NoNonce} \cup NonceId]
  /\ corr \in [Thread -> SUBSET Call]
  /\ wire \in SUBSET Request
  /\ serving \in SUBSET Handler
  /\ asked \in SUBSET (Thread \X Call)
  /\ user \in [Thread -> {"mcp", "openai", "program"}]
  /\ fate \in [Call -> {"NONE", "DISPATCHING"} \cup Service!Terminal]
  /\ dispatches \in [Call -> {0, 1}]

\* A destructive call is sent with a nonce and no other call is.
Nonced(c, x) == c \in Destructive <=> x # NoNonce

\* What an answer to a step of the invocation can be.
Fits(pc, a) ==
  /\ IF pc = "nonce" /\ a.status \in {200, 201}
       THEN a.nonce # NoNonce /\ a.outcome \notin Outcome
     ELSE a.outcome \in Outcome
  /\ a.status = 429 \/ a.code = "NOT_FOUND" => a.outcome = "NOT_DISPATCHED"

StepsInv ==
  /\ \A th \in Thread : thr[th].pc \in Waiting =>
       /\ thr[th].answer # NoAnswer => Fits(thr[th].pc, thr[th].answer)
       /\ IF thr[th].pc = "nonce" THEN thr[th].call \in Destructive
          ELSE Nonced(thr[th].call, thr[th].nonce)
  /\ \A r \in wire :
       /\ r.resource = routeOf[r.step[1]]
       /\ r.resource = "calls" => Nonced(r.call, r.nonce)
  /\ \A s \in serving : routeOf[s.step[1]] = "calls"

\* An invocation stays with its call: every request, handler and dispatch that
\* is its own is about that call.
OwnCall ==
  /\ \A r \in wire : started(r.thread) /\ r.call = thr[r.thread].call
  /\ \A s \in serving : started(s.thread) /\ s.call = thr[s.thread].call
  /\ \A a \in asked : started(a[1]) /\ a[2] = thr[a[1]].call
  /\ \A c \in Call : inService(c) => c \in taken(Thread)

\* One handler at most waits for a call, and it is not over in any way but one
\* that its own answer may still correct.
ServingInv ==
  /\ \A s \in serving : fate[s.call] \in {"DISPATCHING", "UNKNOWN"} /\ dispatches[s.call] = 1
  /\ \A s, t \in serving : s.call = t.call => s = t
  /\ \A c \in Call : fate[c] = "FAILED" => dispatches[c] = 1

\* The call cannot succeed any more.
Lost(c) ==
  /\ inService(c) /\ fate[c] # "SUCCEEDED"
  /\ fate[c] = "DISPATCHING" => \A s \in serving : s.call # c

Honest(c, o) ==
  /\ o = "SUCCEEDED" => fate[c] = "SUCCEEDED"
  /\ o \in {"FAILED", "UNKNOWN"} => Lost(c)
  /\ o = "FAILED" => dispatches[c] = 1 /\ fate[c] # "OUTPUT_BLOCKED"
  /\ o = "DISPATCHING" => inService(c)

\* What an invocation was told of its call.
Told(th, c, o) ==
  /\ thr[th].pc \in Waiting \cup {"done"} /\ thr[th].call = c
  /\ o = IF thr[th].pc = "done" THEN thr[th].outcome ELSE thr[th].answer.outcome

HonestInv == \A th \in Thread, c \in Call, o \in Outcome : Told(th, c, o) => Honest(c, o)

\* Nobody else has the call of a tool call of the model.
ShimAlone ==
  \A th \in ShimThread, u \in Thread :
    started(th) /\ started(u) /\ thr[u].call = thr[th].call => u = th

\* Where a tool call is that never lost a request, and what is on its way.
Unlost(th) ==
  started(th) /\ ~thr[th].lost =>
    /\ thr[th].pc \in {"nonce", "calls", "done"}
    /\ \A r \in wire : r.thread = th /\ r.resource = "calls" =>
         /\ thr[th].pc = "calls" /\ thr[th].answer = NoAnswer
         /\ r = request(th, thr[th])
         /\ ~inService(thr[th].call)
    /\ \/ thr[th].pc = "nonce"
       \/ thr[th].pc = "calls" /\ thr[th].answer.outcome = "NOT_DISPATCHED"
       \/ thr[th].pc = "done" /\ thr[th].outcome = "NOT_DISPATCHED"
       => ~inService(thr[th].call)

UnlostInv == \A th \in ShimThread : Unlost(th)

SessionInv ==
  /\ TypeInv /\ StepsInv /\ OwnCall /\ ServingInv /\ HonestInv /\ ShimAlone /\ UnlostInv
-----------------------------------------------------------------------------
\* Invocations and answers

LEMMA BusyFacts ==
  ASSUME TypeInv, NEW th \in Thread
  PROVE  /\ thr[th].pc \in Waiting <=> thr[th] \in Busy
         /\ thr[th].pc = "done" <=> thr[th] \in Done
         /\ thr[th].pc = "idle" <=> thr[th] = Idle
         /\ thr[th].pc \in Waiting \cup {"done", "idle"}
         /\ started(th) => thr[th].call \in Call /\ thr[th].lost \in BOOLEAN
         /\ started(th) <=> thr[th].pc \in Waiting \/ thr[th].pc = "done"
<1>1. thr[th] = Idle \/ thr[th] \in Busy \/ thr[th] \in Done
  BY DEF TypeInv
<1>2. CASE thr[th] = Idle
  BY <1>2 DEF Idle, Waiting, Busy, Done, started
<1>3. CASE thr[th] \in Busy
  BY <1>3 DEF Idle, Waiting, Busy, Done, started
<1>4. CASE thr[th] \in Done
  BY <1>4 DEF Idle, Waiting, Busy, Done, started
<1> QED BY <1>1, <1>2, <1>3, <1>4

LEMMA NoAnswerType == NoAnswer \in AnswerType
  BY DEF NoAnswer, AnswerType

\* An error names its code and how the call stands.
LEMMA ErrorBody ==
  ASSUME NEW code \in DOMAIN STATUS, NEW o \in Outcome
  PROVE  /\ errorBody(code, o) \in AnswerType
         /\ errorBody(code, o) # NoAnswer
         /\ errorBody(code, o).outcome = o
         /\ errorBody(code, o).status = STATUS[code]
         /\ errorBody(code, o).code = code
         /\ STATUS[code] \notin {200, 201, 202}
<1>1. STATUS[code] \in {400, 403, 404, 409, 429, 502, 504}
  BY DEF STATUS
<1> QED BY <1>1 DEF errorBody, AnswerType, NoAnswer

LEMMA Refusal ==
  ASSUME NEW code \in DOMAIN STATUS
  PROVE  /\ refusal(code) \in AnswerType
         /\ refusal(code) # NoAnswer
         /\ refusal(code).outcome = "NOT_DISPATCHED"
         /\ refusal(code).status \notin {200, 201, 202}
  BY ErrorBody DEF refusal, Outcome

LEMMA NonceBody ==
  ASSUME NEW x \in NonceId, NEW n \in {200, 201}
  PROVE  /\ nonceBody(n, x) \in AnswerType
         /\ nonceBody(n, x) # NoAnswer
         /\ nonceBody(n, x).outcome = "NONE"
         /\ nonceBody(n, x).status \in {200, 201}
         /\ nonceBody(n, x).nonce # NoNonce
         /\ nonceBody(n, x).status # 429 /\ nonceBody(n, x).code # "NOT_FOUND"
  BY ClientAssumption DEF nonceBody, AnswerType, NoAnswer

\* The answer that stands for the state of a call tells that state.
StateOutcome ==
  [DISPATCHING |-> "DISPATCHING", SUCCEEDED |-> "SUCCEEDED", FAILED |-> "FAILED",
   OUTPUT_BLOCKED |-> "UNKNOWN", UNKNOWN |-> "UNKNOWN"]

LEMMA StateBody ==
  ASSUME NEW state \in {"DISPATCHING"} \cup Service!Terminal
  PROVE  /\ stateBody[state] \in AnswerType
         /\ stateBody[state] # NoAnswer
         /\ stateBody[state].outcome = StateOutcome[state]
         /\ stateBody[state].outcome \in Outcome \ {"NOT_DISPATCHED"}
         /\ stateBody[state].status \notin {201, 429}
         /\ stateBody[state].code # "NOT_FOUND"
<1>1. CASE state = "DISPATCHING"
  <2>1. stateBody[state] = okBody(202, "DISPATCHING")
    BY <1>1 DEF stateBody
  <2> QED BY <2>1, <1>1 DEF okBody, AnswerType, NoAnswer, StateOutcome, Outcome
<1>2. CASE state = "SUCCEEDED"
  <2>1. stateBody[state] = okBody(200, "SUCCEEDED")
    BY <1>2 DEF stateBody
  <2> QED BY <2>1, <1>2 DEF okBody, AnswerType, NoAnswer, StateOutcome, Outcome
<1>3. CASE state = "FAILED"
  <2>1. stateBody[state] = errorBody("UPSTREAM_REJECTED", "FAILED")
    BY <1>3 DEF stateBody
  <2> QED BY <2>1, <1>3, ErrorBody DEF StateOutcome, Outcome, STATUS
<1>4. CASE state = "OUTPUT_BLOCKED"
  <2>1. stateBody[state] = errorBody("OUTPUT_INVALID", "UNKNOWN")
    BY <1>4 DEF stateBody
  <2> QED BY <2>1, <1>4, ErrorBody DEF StateOutcome, Outcome, STATUS
<1>5. CASE state = "UNKNOWN"
  <2>1. stateBody[state] = errorBody("OUTCOME_UNKNOWN", "UNKNOWN")
    BY <1>5 DEF stateBody
  <2> QED BY <2>1, <1>5, ErrorBody DEF StateOutcome, Outcome, STATUS
<1> QED BY <1>1, <1>2, <1>3, <1>4, <1>5 DEF Service!Terminal

\* A request that passes the gateway is about the call its sender has signed.
LEMMA ArrivesBinds ==
  ASSUME NEW r \in Request, NEW b \in Request, arrives(r, b)
  PROVE  /\ r.resource = b.resource /\ r.call = b.call
         /\ wire' = wire \ {r} /\ UNCHANGED <<held, asked>>
<1> DEFINE req == [signed(b) EXCEPT !.token = signed(r).token, !.proof = signed(r).proof]
<1>1. agentRoute(req, b.resource) /\ wire' = wire \ {r} /\ UNCHANGED <<held, asked>>
  BY DEF arrives
<1>2. /\ req.proof.bht = body(r.resource, r.call)
      /\ req.body = body(b.resource, b.call)
  BY DEF signed, agentSend
<1>3. req.proof.bht = req.body
  BY <1>1 DEF agentRoute, proofBinds
<1>4. body(r.resource, r.call) = body(b.resource, b.call)
  BY <1>2, <1>3
<1>5. schema[r.resource] = schema[b.resource] /\ r.call = b.call
  BY <1>4 DEF body
<1>6. /\ r.resource \in {"nonces", "calls", "results"}
      /\ b.resource \in {"nonces", "calls", "results"}
  BY DEF Request
<1>7. r.resource = b.resource
  BY <1>5, <1>6 DEF schema
<1> QED BY <1>1, <1>5, <1>7

-----------------------------------------------------------------------------
\* What an invocation does next

Sent(th, w) ==
  /\ w \in Busy /\ w.answer = NoAnswer
  /\ thr' = [thr EXCEPT ![th] = w]
  /\ wire' = wire \cup {request(th, w)}
  /\ asked' = asked \cup (IF routeOf[w.pc] = "calls" THEN {<<th, w.call>>} ELSE {})

Goes(th, w) ==
  /\ started(th) /\ w.call = thr[th].call
  /\ thr[th].lost => w.lost
  /\ th \in ShimThread /\ ~w.lost =>
       /\ w.pc = "calls" /\ ~inService(w.call)
       /\ \A r \in wire : r.thread = th => r.resource # "calls"

Begins(th, w) ==
  /\ ~started(th) /\ ~w.lost /\ w.pc \in {"nonce", "calls"}
  /\ \A u \in Thread : started(u) /\ thr[u].call = w.call =>
       th \notin ShimThread /\ u \notin ShimThread

Proper(th, w) ==
  /\ IF w.pc = "nonce" THEN w.call \in Destructive ELSE Nonced(w.call, w.nonce)
  /\ Goes(th, w) \/ Begins(th, w)

Quiet ==
  /\ UNCHANGED <<fate, dispatches, serving, user>>
  /\ held' \in [Call -> {NoNonce} \cup NonceId]
  /\ corr' \in [Thread -> SUBSET Call]

LEMMA RequestFacts ==
  ASSUME NEW th \in Thread, NEW w \in Busy
  PROVE  /\ request(th, w) \in Request
         /\ request(th, w).thread = th /\ request(th, w).call = w.call
         /\ request(th, w).step = <<w.pc, w.attempt>>
         /\ request(th, w).resource = routeOf[w.pc]
         /\ routeOf[w.pc] = "calls" => request(th, w).nonce = w.nonce
         /\ w.pc = "nonce" => routeOf[w.pc] = "nonces"
         /\ w.pc \in {"calls", "resend"} => routeOf[w.pc] = "calls"
  BY DEF request, Request, Step, Busy, routeOf, Waiting

LEMMA SentStep ==
  ASSUME SessionInv, NEW th \in Thread, NEW w, Sent(th, w), Proper(th, w), Quiet
  PROVE  SessionInv'
<1> USE DEF SessionInv
<1>0. /\ w \in Busy /\ w.answer = NoAnswer /\ w.pc \in Waiting /\ w.call \in Call
      /\ w.pc # "idle" /\ w.pc # "done" /\ w.lost \in BOOLEAN
  BY DEF Sent, Busy, Waiting
<1>1. /\ thr'[th] = w
      /\ \A u \in Thread : u # th => thr'[u] = thr[u]
  BY DEF Sent, TypeInv
<1>2. TypeInv'
  <2>1. thr' \in [Thread -> {Idle} \cup Busy \cup Done]
    BY <1>0 DEF Sent, TypeInv
  <2>2. wire' \in SUBSET Request
    BY <1>0, RequestFacts DEF Sent, TypeInv
  <2>3. asked' \in SUBSET (Thread \X Call)
    BY <1>0 DEF Sent, TypeInv
  <2> QED BY <2>1, <2>2, <2>3 DEF Quiet, TypeInv
<1>3. StepsInv'
  <2>1. ASSUME NEW u \in Thread, thr'[u].pc \in Waiting
        PROVE  /\ thr'[u].answer # NoAnswer => Fits(thr'[u].pc, thr'[u].answer)
               /\ IF thr'[u].pc = "nonce" THEN thr'[u].call \in Destructive
                  ELSE Nonced(thr'[u].call, thr'[u].nonce)
    <3>1. CASE u = th
      BY <1>0, <1>1, <3>1 DEF Proper
    <3>2. CASE u # th
      BY <1>1, <2>1, <3>2 DEF StepsInv
    <3> QED BY <3>1, <3>2
  <2>2. ASSUME NEW r \in wire'
        PROVE  /\ r.resource = routeOf[r.step[1]]
               /\ r.resource = "calls" => Nonced(r.call, r.nonce)
    <3>1. CASE r = request(th, w)
      <4>1. w.pc # "nonce" => Nonced(w.call, w.nonce)
        BY DEF Proper
      <4> QED BY <1>0, <3>1, <4>1, RequestFacts
    <3>2. CASE r \in wire
      BY <3>2 DEF StepsInv
    <3> QED BY <3>1, <3>2 DEF Sent
  <2>3. serving' = serving
    BY DEF Quiet
  <2> QED BY <2>1, <2>2, <2>3 DEF StepsInv
<1>4. \A u \in Thread : started(u) => started(u)' /\ thr'[u].call = thr[u].call
  BY <1>0, <1>1 DEF started, Proper, Goes, Begins
<1>5. OwnCall'
  <2>1. started(th)' /\ thr'[th].call = w.call
    BY <1>0, <1>1 DEF started
  <2>2. ASSUME NEW r \in wire'
        PROVE  started(r.thread)' /\ r.call = thr'[r.thread].call
    <3>1. CASE r = request(th, w)
      BY <1>0, <2>1, <3>1, RequestFacts
    <3>2. CASE r \in wire
      BY <1>4, <3>2 DEF OwnCall, TypeInv, Request
    <3> QED BY <3>1, <3>2 DEF Sent
  <2>3. ASSUME NEW s \in serving'
        PROVE  started(s.thread)' /\ s.call = thr'[s.thread].call
    BY <1>4 DEF OwnCall, TypeInv, Handler, Quiet
  <2>4. ASSUME NEW a \in asked'
        PROVE  started(a[1])' /\ a[2] = thr'[a[1]].call
    <3>1. CASE a = <<th, w.call>>
      BY <2>1, <3>1
    <3>2. CASE a \in asked
      BY <1>4, <3>2 DEF OwnCall, TypeInv
    <3> QED BY <3>1, <3>2 DEF Sent
  <2>5. ASSUME NEW c \in Call, inService(c)'
        PROVE  c \in taken(Thread)'
    <3>1. c \in taken(Thread)
      BY <2>5 DEF OwnCall, Quiet, inService
    <3>2. PICK u \in Thread : started(u) /\ thr[u].call = c
      BY <3>1 DEF taken
    <3> QED BY <1>4, <3>2 DEF taken
  <2> QED BY <2>2, <2>3, <2>4, <2>5 DEF OwnCall
<1>6. ServingInv'
  BY DEF ServingInv, Quiet
<1>7. HonestInv'
  <2>1. ASSUME NEW u \in Thread, NEW c \in Call, NEW o \in Outcome, Told(u, c, o)'
        PROVE  Honest(c, o)'
    <3>1. CASE u = th
      BY <1>0, <1>1, <2>1, <3>1 DEF Told, NoAnswer, Outcome
    <3>2. CASE u # th
      <4>1. Told(u, c, o)
        BY <1>1, <2>1, <3>2 DEF Told
      <4> QED BY <4>1 DEF HonestInv, Honest, Lost, inService, Quiet
    <3> QED BY <3>1, <3>2
  <2> QED BY <2>1 DEF HonestInv
<1>8. ShimAlone'
  <2> SUFFICES ASSUME NEW t \in ShimThread, NEW u \in Thread,
                      started(t)', started(u)', thr'[u].call = thr'[t].call
               PROVE  u = t
    BY DEF ShimAlone, ShimThread, Quiet
  <2>1. t \in Thread
    BY DEF ShimThread
  <2>2. CASE Goes(th, w)
    <3>1. /\ started(t) /\ thr'[t].call = thr[t].call
          /\ started(u) /\ thr'[u].call = thr[u].call
      BY <1>1, <1>4, <2>1, <2>2 DEF Goes, started
    <3> QED BY <3>1 DEF ShimAlone
  <2>3. CASE Begins(th, w)
    <3>1. CASE t # th /\ u # th
      BY <1>1, <2>1, <3>1 DEF ShimAlone, started
    <3>2. CASE t = th /\ u # th
      BY <1>1, <2>1, <2>3, <3>2 DEF Begins, started
    <3>3. CASE t # th /\ u = th
      BY <1>1, <2>1, <2>3, <3>3 DEF Begins, started
    <3> QED BY <3>1, <3>2, <3>3
  <2> QED BY <2>2, <2>3 DEF Proper
<1>9. UnlostInv'
  <2> SUFFICES ASSUME NEW t \in ShimThread, started(t)', ~thr'[t].lost
               PROVE  Unlost(t)'
    BY DEF UnlostInv, Unlost, ShimThread, Quiet
  <2>1. t \in Thread /\ fate' = fate
    BY DEF ShimThread, Quiet
  <2>2. CASE t # th
    <3>1. Unlost(t) /\ started(t) /\ ~thr[t].lost
      BY <1>1, <2>1, <2>2 DEF UnlostInv, started
    <3>2. \A r \in wire' : r.thread = t => r \in wire
      BY <1>0, <2>2, RequestFacts DEF Sent
    <3> QED BY <1>1, <2>1, <2>2, <3>1, <3>2 DEF Unlost, inService
  <2>3. CASE t = th
    <3>1. ~inService(w.call) /\ w.pc \in {"nonce", "calls"}
      <4>1. CASE Goes(th, w)
        BY <1>1, <2>3, <4>1 DEF Goes
      <4>2. CASE Begins(th, w)
        <5>1. w.call \notin taken(Thread)
          BY <2>3, <4>2 DEF Begins, taken
        <5> QED BY <1>0, <4>2, <5>1 DEF Begins, OwnCall
      <4> QED BY <4>1, <4>2 DEF Proper
    <3>2. \A r \in wire : r.thread = th => r.resource # "calls"
      BY <1>1, <2>3 DEF Proper, Goes, Begins, OwnCall
    <3>3. \A r \in wire' : r.thread = th /\ r.resource = "calls" => r = request(th, w) /\ w.pc = "calls"
      BY <1>0, <3>1, <3>2, RequestFacts DEF Sent
    <3> QED BY <1>0, <1>1, <2>1, <2>3, <3>1, <3>3 DEF Unlost, inService
  <2> QED BY <2>2, <2>3
<1> QED BY <1>2, <1>3, <1>5, <1>6, <1>7, <1>8, <1>9
Returned(th, o) ==
  /\ o \in Outcome /\ thr[th].pc \in Waiting
  /\ thr' = [thr EXCEPT ![th] = [pc |-> "done", call |-> thr[th].call,
                                lost |-> thr[th].lost, outcome |-> o]]
  /\ wire' \subseteq wire
  /\ asked' = asked

Tells(th, o) ==
  /\ Honest(thr[th].call, o)
  /\ th \in ShimThread /\ ~thr[th].lost =>
       /\ o = "NOT_DISPATCHED" => ~inService(thr[th].call)
       /\ \A r \in wire : r.thread = th => r.resource # "calls"

LEMMA ReturnedStep ==
  ASSUME SessionInv, NEW th \in Thread, NEW o, Returned(th, o), Tells(th, o), Quiet
  PROVE  SessionInv'
<1> USE DEF SessionInv
<1> DEFINE w == [pc |-> "done", call |-> thr[th].call, lost |-> thr[th].lost, outcome |-> o]
<1>0. /\ thr[th] \in Busy /\ started(th) /\ thr[th].call \in Call /\ w \in Done
      /\ w.pc = "done" /\ w.pc \notin Waiting
  BY BusyFacts DEF Returned, started, Done, Waiting
<1>1. /\ thr'[th] = w
      /\ \A u \in Thread : u # th => thr'[u] = thr[u]
  BY DEF Returned, TypeInv
<1>2. TypeInv'
  <2>1. thr' \in [Thread -> {Idle} \cup Busy \cup Done]
    BY <1>0 DEF Returned, TypeInv
  <2> QED BY <2>1 DEF Quiet, TypeInv, Returned
<1>3. StepsInv'
  BY <1>0, <1>1 DEF StepsInv, Quiet, Returned
<1>4. \A u \in Thread : (started(u) <=> started(u)') /\ thr'[u].call = thr[u].call
  BY <1>0, <1>1 DEF started
<1>5. OwnCall'
  <2>1. ASSUME NEW r \in wire'
        PROVE  started(r.thread)' /\ r.call = thr'[r.thread].call
    BY <1>4 DEF OwnCall, TypeInv, Request, Returned
  <2>2. ASSUME NEW s \in serving'
        PROVE  started(s.thread)' /\ s.call = thr'[s.thread].call
    BY <1>4 DEF OwnCall, TypeInv, Handler, Quiet
  <2>3. ASSUME NEW a \in asked'
        PROVE  started(a[1])' /\ a[2] = thr'[a[1]].call
    BY <1>4 DEF OwnCall, TypeInv, Returned
  <2>4. ASSUME NEW c \in Call, inService(c)'
        PROVE  c \in taken(Thread)'
    <3>1. c \in taken(Thread)
      BY <2>4 DEF OwnCall, Quiet, inService
    <3>2. PICK u \in Thread : started(u) /\ thr[u].call = c
      BY <3>1 DEF taken
    <3> QED BY <1>4, <3>2 DEF taken
  <2> QED BY <2>1, <2>2, <2>3, <2>4 DEF OwnCall
<1>6. ServingInv'
  BY DEF ServingInv, Quiet
<1>7. HonestInv'
  <2>1. ASSUME NEW u \in Thread, NEW c \in Call, NEW p \in Outcome, Told(u, c, p)'
        PROVE  Honest(c, p)'
    <3>1. Honest(c, p)
      <4>1. CASE u = th
        <5>1. c = thr[th].call /\ p = o
          BY <1>0, <1>1, <2>1, <4>1 DEF Told
        <5> QED BY <5>1 DEF Tells
      <4>2. CASE u # th
        <5>1. Told(u, c, p)
          BY <1>1, <2>1, <4>2 DEF Told
        <5> QED BY <5>1 DEF HonestInv
      <4> QED BY <4>1, <4>2
    <3> QED BY <3>1 DEF Honest, Lost, inService, Quiet
  <2> QED BY <2>1 DEF HonestInv
<1>8. ShimAlone'
  BY <1>4 DEF ShimAlone, ShimThread, Quiet
<1>9. UnlostInv'
  <2> SUFFICES ASSUME NEW t \in ShimThread, started(t)', ~thr'[t].lost
               PROVE  Unlost(t)'
    BY DEF UnlostInv, Unlost, ShimThread, Quiet
  <2>1. t \in Thread /\ fate' = fate
    BY DEF ShimThread, Quiet
  <2>2. CASE t # th
    <3>1. Unlost(t) /\ started(t) /\ ~thr[t].lost
      BY <1>1, <2>1, <2>2 DEF UnlostInv, started
    <3> QED BY <1>1, <2>1, <2>2, <3>1 DEF Unlost, inService, Returned
  <2>3. CASE t = th
    <3>1. \A r \in wire' : r.thread = th => r.resource # "calls"
      BY <1>1, <2>3 DEF Tells, Returned
    <3> QED BY <1>0, <1>1, <2>1, <2>3, <3>1 DEF Unlost, inService, Tells
  <2> QED BY <2>2, <2>3
<1> QED BY <1>2, <1>3, <1>5, <1>6, <1>7, <1>8, <1>9

\* A step of an invocation sends its next request or ends it.
Moves(th) ==
  /\ held' \in [Call -> {NoNonce} \cup NonceId]
  /\ serving' = serving
  /\ \/ \E w : Sent(th, w) /\ Proper(th, w)
     \/ \E o : Returned(th, o) /\ Tells(th, o)

LEMMA SendMakes ==
  ASSUME NEW th \in Thread, NEW v \in Busy, send(th, v)
  PROVE  Sent(th, [v EXCEPT !.answer = NoAnswer])
<1> DEFINE w == [v EXCEPT !.answer = NoAnswer]
<1>1. /\ w \in Busy /\ w.answer = NoAnswer
      /\ w.pc = v.pc /\ w.call = v.call /\ w.nonce = v.nonce /\ w.attempt = v.attempt
  BY NoAnswerType DEF Busy
<1>2. request(th, w) = request(th, v)
  BY <1>1 DEF request
<1> QED BY <1>1, <1>2 DEF Sent, send

LEMMA CallMoves ==
  ASSUME SessionInv, NEW th \in Thread, NEW c \in Call, call(th, c),
         \A u \in Thread : started(u) /\ thr[u].call = c =>
           th \notin ShimThread /\ u \notin ShimThread
  PROVE  Moves(th)
<1> DEFINE v == [pc |-> IF c \in Destructive /\ held[c] = NoNonce THEN "nonce" ELSE "calls",
                 call |-> c, nonce |-> IF c \in Destructive THEN held[c] ELSE NoNonce,
                 attempt |-> 0, lost |-> FALSE, answer |-> NoAnswer]
           w == [v EXCEPT !.answer = NoAnswer]
<1>1. held \in [Call -> {NoNonce} \cup NonceId]
  BY DEF SessionInv, TypeInv
<1>2. v \in Busy
  BY <1>1, NoAnswerType, ClientAssumption DEF Busy, Waiting
<1>3. send(th, v) /\ thr[th] = Idle /\ UNCHANGED <<held, serving>>
  BY DEF call
<1>4. Sent(th, w)
  BY <1>2, <1>3, SendMakes
<1>5. Begins(th, w)
  BY <1>3 DEF Begins, started, Idle
<1>6. Proper(th, w)
  BY <1>1, <1>5 DEF Proper, Nonced
<1> QED BY <1>1, <1>3, <1>4, <1>6 DEF Moves
LEMMA AnswerFacts ==
  ASSUME SessionInv, NEW th \in Thread, NEW p \in Waiting, answered(th, p)
  PROVE  /\ thr[th] \in Busy /\ thr[th].pc = p /\ started(th)
         /\ thr[th].answer \in AnswerType /\ Fits(p, thr[th].answer)
         /\ thr[th].answer.outcome \in Outcome => Tells(th, thr[th].answer.outcome)
         /\ p = "nonce" => thr[th].call \in Destructive
         /\ p # "nonce" => Nonced(thr[th].call, thr[th].nonce)
         /\ th \in ShimThread /\ ~thr[th].lost =>
              /\ p \in {"nonce", "calls"}
              /\ \A r \in wire : r.thread = th => r.resource # "calls"
<1>1. thr[th] \in Busy /\ thr[th].pc = p /\ thr[th].answer # NoAnswer /\ started(th)
  BY BusyFacts DEF SessionInv, answered, started, Waiting
<1>2. thr[th].answer \in AnswerType /\ thr[th].call \in Call /\ p # "done"
  BY <1>1 DEF Busy, Waiting
<1>3. /\ Fits(p, thr[th].answer)
      /\ p = "nonce" => thr[th].call \in Destructive
      /\ p # "nonce" => Nonced(thr[th].call, thr[th].nonce)
  BY <1>1 DEF SessionInv, StepsInv
<1>4. th \in ShimThread /\ ~thr[th].lost =>
        /\ p \in {"nonce", "calls"}
        /\ \A r \in wire : r.thread = th => r.resource # "calls"
        /\ thr[th].answer.outcome = "NOT_DISPATCHED" => ~inService(thr[th].call)
  BY <1>1, <1>2 DEF SessionInv, UnlostInv, Unlost
<1>5. ASSUME thr[th].answer.outcome \in Outcome
      PROVE  Honest(thr[th].call, thr[th].answer.outcome)
  <2>1. Told(th, thr[th].call, thr[th].answer.outcome)
    BY <1>1, <1>2 DEF Told
  <2> QED BY <1>2, <1>5, <2>1 DEF SessionInv, HonestInv
<1> QED BY <1>1, <1>2, <1>3, <1>4, <1>5 DEF Tells

LEMMA ReturnMakes ==
  ASSUME SessionInv, NEW th \in Thread, NEW p \in Waiting, answered(th, p),
         return(th, thr[th].answer.outcome), thr[th].answer.outcome \in Outcome
  PROVE  \E o : Returned(th, o) /\ Tells(th, o)
<1>1. Returned(th, thr[th].answer.outcome)
  BY AnswerFacts DEF return, Returned
<1> QED BY <1>1, AnswerFacts

LEMMA ForgetType ==
  ASSUME TypeInv, NEW c \in Call, forget(c)
  PROVE  held' \in [Call -> {NoNonce} \cup NonceId]
  BY DEF forget, TypeInv

LEMMA OnNonceMoves ==
  ASSUME SessionInv, NEW th \in Thread, onNonce(th)
  PROVE  Moves(th)
<1> DEFINE a == thr[th].answer
           v == [thr[th] EXCEPT !.pc = "calls", !.nonce = a.nonce]
           w == [v EXCEPT !.answer = NoAnswer]
<1>1. answered(th, "nonce") /\ "nonce" \in Waiting /\ serving' = serving
  BY DEF onNonce, Waiting
<1>2. held \in [Call -> {NoNonce} \cup NonceId]
  BY DEF SessionInv, TypeInv
<1>3. CASE /\ a.status \in {200, 201} /\ send(th, v)
           /\ held' \in {held, [held EXCEPT ![thr[th].call] = a.nonce]}
  <2>1. /\ thr[th] \in Busy /\ thr[th].call \in Destructive /\ started(th)
        /\ a.nonce \in NonceId /\ a.nonce # NoNonce
    BY <1>1, <1>3, AnswerFacts DEF Fits, AnswerType
  <2>2. /\ v \in Busy /\ v.call = thr[th].call /\ v.nonce = a.nonce /\ v.pc = "calls"
        /\ v.lost = thr[th].lost
    BY <2>1 DEF Busy, Waiting
  <2>3. Sent(th, w)
    BY <1>3, <2>2, SendMakes
  <2>4. w.call = v.call /\ w.nonce = v.nonce /\ w.pc = v.pc /\ w.lost = v.lost
    BY <2>2 DEF Busy
  <2>5. th \in ShimThread /\ ~thr[th].lost => ~inService(thr[th].call)
    BY <1>1, <2>1 DEF SessionInv, UnlostInv, Unlost, answered
  <2>6. Goes(th, w)
    BY <1>1, <2>1, <2>2, <2>4, <2>5, AnswerFacts DEF Goes
  <2>7. Proper(th, w)
    BY <2>1, <2>2, <2>4, <2>6 DEF Proper, Nonced
  <2>8. held' \in [Call -> {NoNonce} \cup NonceId]
    BY <1>2, <1>3, <2>1
  <2> QED BY <1>1, <2>3, <2>7, <2>8 DEF Moves
<1>4. CASE a.status \notin {200, 201} /\ throwBody(th, a) /\ UNCHANGED held
  <2>1. a.outcome \in Outcome
    BY <1>1, <1>4, AnswerFacts DEF Fits
  <2> QED BY <1>1, <1>2, <1>4, <2>1, ReturnMakes DEF Moves, throwBody
<1> QED BY <1>3, <1>4 DEF onNonce

LEMMA OnCallsMoves ==
  ASSUME SessionInv, NEW th \in Thread, onCalls(th)
  PROVE  Moves(th)
<1> DEFINE a == thr[th].answer
           v == [thr[th] EXCEPT !.attempt = @ + 1]
           w == [v EXCEPT !.answer = NoAnswer]
<1>1. answered(th, "calls") /\ "calls" \in Waiting /\ serving' = serving
  BY DEF onCalls, Waiting
<1>2. /\ held \in [Call -> {NoNonce} \cup NonceId] /\ TypeInv
      /\ thr[th].call \in Call
  BY <1>1, AnswerFacts DEF SessionInv, TypeInv, Busy
<1>3. a.outcome \in Outcome
  BY <1>1, AnswerFacts DEF Fits
<1>4. CASE return(th, a.outcome) /\ forget(thr[th].call)
  BY <1>1, <1>2, <1>3, <1>4, ReturnMakes, ForgetType DEF Moves
<1>5. CASE /\ a.status \in {429, 503} /\ thr[th].attempt < MAX_RETRIES
           /\ send(th, v) /\ UNCHANGED held
  <2>1. /\ thr[th] \in Busy /\ thr[th].pc = "calls" /\ started(th)
        /\ Nonced(thr[th].call, thr[th].nonce)
        /\ a.outcome = "NOT_DISPATCHED"
    BY <1>1, <1>5, AnswerFacts DEF Fits, AnswerType
  <2>2. thr[th].attempt \in 0 .. MAX_RETRIES /\ thr[th].attempt + 1 \in 0 .. MAX_RETRIES
    BY <1>5, <2>1, ClientAssumption DEF Busy
  <2>3. /\ v \in Busy /\ v.call = thr[th].call /\ v.nonce = thr[th].nonce
        /\ v.pc = "calls" /\ v.lost = thr[th].lost
    BY <2>1, <2>2 DEF Busy
  <2>4. Sent(th, w)
    BY <1>5, <2>3, SendMakes
  <2>5. w.call = v.call /\ w.nonce = v.nonce /\ w.pc = v.pc /\ w.lost = v.lost
    BY <2>3 DEF Busy
  <2>6. Goes(th, w)
    BY <1>1, <1>3, <2>1, <2>3, <2>5, AnswerFacts DEF Goes, Tells
  <2>7. Proper(th, w)
    BY <2>1, <2>3, <2>5, <2>6 DEF Proper
  <2> QED BY <1>1, <1>2, <1>5, <2>4, <2>7 DEF Moves
<1>6. CASE throwBody(th, a) /\ UNCHANGED held
  BY <1>1, <1>2, <1>3, <1>6, ReturnMakes DEF Moves, throwBody
<1> QED BY <1>4, <1>5, <1>6 DEF onCalls

LEMMA OnResultsMoves ==
  ASSUME SessionInv, NEW th \in Thread, onResults(th)
  PROVE  Moves(th)
<1> DEFINE a == thr[th].answer
           v == [thr[th] EXCEPT !.pc = "resend"]
           w == [v EXCEPT !.answer = NoAnswer]
<1>1. /\ answered(th, "results") /\ "results" \in Waiting
      /\ serving' = serving /\ held' = held
  BY DEF onResults, Waiting
<1>2. held \in [Call -> {NoNonce} \cup NonceId]
  BY DEF SessionInv, TypeInv
<1>3. a.outcome \in Outcome
  BY <1>1, AnswerFacts DEF Fits
<1>4. CASE return(th, a.outcome)
  BY <1>1, <1>2, <1>3, <1>4, ReturnMakes DEF Moves
<1>5. CASE send(th, v)
  <2>1. thr[th] \in Busy /\ started(th) /\ Nonced(thr[th].call, thr[th].nonce)
    BY <1>1, AnswerFacts
  <2>2. /\ v \in Busy /\ v.call = thr[th].call /\ v.nonce = thr[th].nonce
        /\ v.pc = "resend" /\ v.lost = thr[th].lost
    BY <2>1 DEF Busy, Waiting
  <2>3. Sent(th, w)
    BY <1>5, <2>2, SendMakes
  <2>4. w.call = v.call /\ w.nonce = v.nonce /\ w.pc = v.pc /\ w.lost = v.lost
    BY <2>2 DEF Busy
  <2>5. Goes(th, w)
    BY <1>1, <2>1, <2>2, <2>4, AnswerFacts DEF Goes
  <2>6. Proper(th, w)
    BY <2>1, <2>2, <2>4, <2>5 DEF Proper
  <2> QED BY <1>1, <1>2, <2>3, <2>6 DEF Moves
<1>6. CASE throwBody(th, a)
  BY <1>1, <1>2, <1>3, <1>6, ReturnMakes DEF Moves, throwBody
<1> QED BY <1>4, <1>5, <1>6 DEF onResults

LEMMA OnResendMoves ==
  ASSUME SessionInv, NEW th \in Thread, onResend(th)
  PROVE  Moves(th)
<1> DEFINE a == thr[th].answer
<1>1. answered(th, "resend") /\ "resend" \in Waiting /\ serving' = serving
  BY DEF onResend, Waiting
<1>2. /\ held \in [Call -> {NoNonce} \cup NonceId] /\ TypeInv
      /\ thr[th].call \in Call
  BY <1>1, AnswerFacts DEF SessionInv, TypeInv, Busy
<1>3. a.outcome \in Outcome
  BY <1>1, AnswerFacts DEF Fits
<1>4. CASE return(th, a.outcome) /\ forget(thr[th].call)
  BY <1>1, <1>2, <1>3, <1>4, ReturnMakes, ForgetType DEF Moves
<1>5. CASE throwBody(th, a) /\ UNCHANGED held
  BY <1>1, <1>2, <1>3, <1>5, ReturnMakes DEF Moves, throwBody
<1> QED BY <1>4, <1>5 DEF onResend

\* The failure of a lookup is thrown as NOT_DISPATCHED only to a caller whose
\* request was lost.
LEMMA OnTransportErrorMoves ==
  ASSUME SessionInv, NEW th \in Thread, onTransportError(th)
  PROVE  Moves(th)
<1> DEFINE v == [thr[th] EXCEPT !.pc = "results", !.lost = TRUE, !.attempt = 0]
           w == [v EXCEPT !.answer = NoAnswer]
<1>1. /\ thr[th].pc \in Waiting /\ serving' = serving /\ held' = held
  BY DEF onTransportError, waits
<1>2. held \in [Call -> {NoNonce} \cup NonceId] /\ thr[th] \in Busy /\ started(th)
  BY <1>1, BusyFacts DEF SessionInv, TypeInv
<1>3. CASE thr[th].pc = "calls" /\ send(th, v)
  <2>1. Nonced(thr[th].call, thr[th].nonce)
    BY <1>1, <1>3 DEF SessionInv, StepsInv
  <2>6. 0 \in 0 .. MAX_RETRIES
    BY ClientAssumption
  <2>2. /\ v \in Busy /\ v.call = thr[th].call /\ v.nonce = thr[th].nonce
        /\ v.pc = "results" /\ v.lost = TRUE
    BY <1>2, <2>6 DEF Busy, Waiting
  <2>3. Sent(th, w)
    BY <1>3, <2>2, SendMakes
  <2>4. w.call = v.call /\ w.nonce = v.nonce /\ w.pc = v.pc /\ w.lost = v.lost
    BY <2>2 DEF Busy
  <2>5. Proper(th, w)
    BY <1>2, <2>1, <2>2, <2>4 DEF Proper, Goes
  <2> QED BY <1>1, <1>2, <2>3, <2>5 DEF Moves
<1>4. CASE thr[th].pc # "calls" /\ throwTransport(th)
  <2>1. Returned(th, "NOT_DISPATCHED")
    BY <1>1, <1>4 DEF Returned, throwTransport, return, Outcome
  <2>2. Tells(th, "NOT_DISPATCHED")
    BY <1>1, <1>2, <1>4 DEF Tells, Honest, SessionInv, UnlostInv, Unlost, Waiting
  <2> QED BY <1>1, <1>2, <2>1, <2>2 DEF Moves
<1> QED BY <1>3, <1>4 DEF onTransportError
LEMMA ClientStep ==
  ASSUME SessionInv, NEW th \in Thread, Moves(th),
         UNCHANGED <<serviceVars, user>>, corr' \in [Thread -> SUBSET Call]
  PROVE  SessionInv'
<1>1. Quiet
  BY DEF Moves, Quiet, serviceVars
<1>2. ASSUME NEW w, Sent(th, w), Proper(th, w)
      PROVE  SessionInv'
  BY <1>1, <1>2, SentStep
<1>3. ASSUME NEW o, Returned(th, o), Tells(th, o)
      PROVE  SessionInv'
  BY <1>1, <1>3, ReturnedStep
<1> QED BY <1>2, <1>3 DEF Moves

-----------------------------------------------------------------------------
\* What the gateway does

\* A call that comes into service was asked for, and a tool call that has it
\* waits for the answer with nothing else on its way.
Admitted(c) ==
  /\ c \in taken(Thread)
  /\ \A th \in ShimThread : started(th) /\ thr[th].call = c /\ ~thr[th].lost =>
       /\ thr[th].pc = "calls" /\ thr[th].answer = NoAnswer
       /\ \A r \in wire' : r.thread = th => r.resource # "calls"

ServiceMoves ==
  /\ fate' \in [Call -> {"NONE", "DISPATCHING"} \cup Service!Terminal]
  /\ dispatches' \in [Call -> {0, 1}]
  /\ serving' \in SUBSET Handler
  /\ \A s \in serving' :
       /\ started(s.thread) /\ s.call = thr[s.thread].call /\ routeOf[s.step[1]] = "calls"
       /\ fate'[s.call] \in {"DISPATCHING", "UNKNOWN"} /\ dispatches'[s.call] = 1
  /\ \A s, t \in serving' : s.call = t.call => s = t
  /\ \A c \in Call : fate'[c] = "FAILED" => dispatches'[c] = 1
  /\ \A c \in Call, o \in Outcome : Honest(c, o) => Honest(c, o)'
  /\ \A c \in Call : inService(c)' => inService(c) \/ Admitted(c)

\* An answer u takes.
Takes(u, a) ==
  /\ waits(u) /\ thr' = [thr EXCEPT ![u].answer = a]
  /\ a \in AnswerType /\ a # NoAnswer /\ Fits(thr[u].pc, a)
  /\ \A c \in Call : c = thr[u].call /\ a.outcome \in Outcome => Honest(c, a.outcome)'
  /\ u \in ShimThread /\ ~thr[u].lost =>
       /\ \A r \in wire' : r.thread = u => r.resource # "calls"
       /\ a.outcome = "NOT_DISPATCHED" => fate'[thr[u].call] = "NONE"

AnswerMoves == thr' = thr \/ \E u \in Thread : \E a : Takes(u, a)

LEMMA GatewayMoves ==
  ASSUME SessionInv, ServiceMoves, AnswerMoves, wire' \subseteq wire,
         UNCHANGED <<asked, held, shimVars>>
  PROVE  SessionInv'
<1> USE DEF SessionInv
<1>0. \A th \in Thread :
        /\ thr'[th] = thr[th] \/ \E a : Takes(th, a) /\ thr'[th] = [thr[th] EXCEPT !.answer = a]
        /\ thr'[th] # thr[th] => thr[th] \in Busy /\ thr'[th] \in Busy
        /\ thr'[th] \in {Idle} \cup Busy \cup Done
  <2> SUFFICES ASSUME NEW th \in Thread
               PROVE  /\ thr'[th] = thr[th]
                           \/ \E a : Takes(th, a) /\ thr'[th] = [thr[th] EXCEPT !.answer = a]
                      /\ thr'[th] # thr[th] => thr[th] \in Busy /\ thr'[th] \in Busy
                      /\ thr'[th] \in {Idle} \cup Busy \cup Done
    OBVIOUS
  <2>1. ASSUME NEW u \in Thread, NEW a, Takes(u, a), u = th
        PROVE  /\ thr'[th] = [thr[th] EXCEPT !.answer = a]
               /\ thr[th] \in Busy /\ thr'[th] \in Busy
    <3>1. thr[th] \in Busy
      BY <2>1, BusyFacts DEF Takes, waits
    <3>2. thr'[th] = [thr[th] EXCEPT !.answer = a]
      BY <2>1 DEF Takes, TypeInv
    <3> QED BY <2>1, <3>1, <3>2 DEF Takes, Busy
  <2>2. ASSUME NEW u \in Thread, NEW a, Takes(u, a), u # th
        PROVE  thr'[th] = thr[th]
    BY <2>2 DEF Takes, TypeInv
  <2> QED BY <2>1, <2>2 DEF AnswerMoves, TypeInv
<1>1. \A th \in Thread :
        /\ thr'[th].pc = thr[th].pc /\ (started(th) <=> started(th)')
        /\ started(th) => thr'[th].call = thr[th].call /\ thr'[th].lost = thr[th].lost
        /\ thr'[th].pc = "done" => thr'[th] = thr[th]
        /\ request(th, thr'[th]) = request(th, thr[th])
  <2> SUFFICES ASSUME NEW th \in Thread, thr'[th] # thr[th]
               PROVE  /\ thr'[th].pc = thr[th].pc /\ (started(th) <=> started(th)')
                      /\ thr'[th].call = thr[th].call /\ thr'[th].lost = thr[th].lost
                      /\ thr'[th].pc # "done"
                      /\ request(th, thr'[th]) = request(th, thr[th])
    BY DEF started
  <2>1. PICK a : thr'[th] = [thr[th] EXCEPT !.answer = a]
    BY <1>0
  <2>2. thr[th] \in Busy
    BY <1>0
  <2> QED BY <2>1, <2>2 DEF Busy, Waiting, started, request
<1>2. TypeInv'
  <2>1. thr' \in [Thread -> {Idle} \cup Busy \cup Done]
    <3>1. thr' = [th \in Thread |-> thr'[th]]
      BY DEF AnswerMoves, Takes, TypeInv
    <3> QED BY <1>0, <3>1
  <2> QED BY <2>1 DEF ServiceMoves, TypeInv, shimVars
<1>3. StepsInv'
  <2>1. ASSUME NEW th \in Thread, thr'[th].pc \in Waiting
        PROVE  /\ thr'[th].answer # NoAnswer => Fits(thr'[th].pc, thr'[th].answer)
               /\ IF thr'[th].pc = "nonce" THEN thr'[th].call \in Destructive
                  ELSE Nonced(thr'[th].call, thr'[th].nonce)
    <3>1. CASE thr'[th] = thr[th]
      BY <2>1, <3>1 DEF StepsInv
    <3>2. CASE thr'[th] # thr[th]
      <4>1. PICK a : Takes(th, a) /\ thr'[th] = [thr[th] EXCEPT !.answer = a]
        BY <1>0, <3>2
      <4>2. thr[th] \in Busy /\ thr[th].pc \in Waiting
        BY <1>0, <3>2 DEF Busy
      <4>3. /\ thr'[th].answer = a /\ thr'[th].call = thr[th].call
            /\ thr'[th].nonce = thr[th].nonce /\ thr'[th].pc = thr[th].pc
        BY <4>1, <4>2 DEF Busy
      <4> QED BY <4>1, <4>2, <4>3 DEF Takes, StepsInv
    <3> QED BY <3>1, <3>2
  <2> QED BY <2>1 DEF StepsInv, ServiceMoves
<1>4. OwnCall'
  <2>1. ASSUME NEW r \in wire'
        PROVE  started(r.thread)' /\ r.call = thr'[r.thread].call
    BY <1>1 DEF OwnCall, TypeInv, Request
  <2>2. ASSUME NEW s \in serving'
        PROVE  started(s.thread)' /\ s.call = thr'[s.thread].call
    BY <1>1 DEF ServiceMoves, Handler
  <2>3. ASSUME NEW a \in asked'
        PROVE  started(a[1])' /\ a[2] = thr'[a[1]].call
    BY <1>1 DEF OwnCall, TypeInv
  <2>4. ASSUME NEW c \in Call, inService(c)'
        PROVE  c \in taken(Thread)'
    <3>1. c \in taken(Thread)
      BY <2>4 DEF OwnCall, ServiceMoves, Admitted
    <3>2. PICK u \in Thread : started(u) /\ thr[u].call = c
      BY <3>1 DEF taken
    <3> QED BY <1>1, <3>2 DEF taken
  <2> QED BY <2>1, <2>2, <2>3, <2>4 DEF OwnCall
<1>5. ServingInv'
  BY DEF ServingInv, ServiceMoves
<1>6. HonestInv'
  <2>1. ASSUME NEW th \in Thread, NEW c \in Call, NEW o \in Outcome, Told(th, c, o)'
        PROVE  Honest(c, o)'
    <3>1. CASE thr'[th] = thr[th]
      <4>1. Told(th, c, o)
        BY <2>1, <3>1 DEF Told
      <4> QED BY <4>1 DEF HonestInv, ServiceMoves
    <3>2. CASE thr'[th] # thr[th]
      <4>1. PICK a : Takes(th, a) /\ thr'[th] = [thr[th] EXCEPT !.answer = a]
        BY <1>0, <3>2
      <4>2. thr[th] \in Busy
        BY <1>0, <3>2
      <4>3. thr[th].call = c /\ a.outcome = o
        BY <2>1, <4>1, <4>2 DEF Told, Busy, Waiting
      <4> QED BY <4>1, <4>3 DEF Takes
    <3> QED BY <3>1, <3>2
  <2> QED BY <2>1 DEF HonestInv
<1>7. ShimAlone'
  BY <1>1 DEF ShimAlone, ShimThread, shimVars
<1>8. UnlostInv'
  <2> SUFFICES ASSUME NEW th \in ShimThread, started(th)', ~thr'[th].lost
               PROVE  Unlost(th)'
    BY DEF UnlostInv, Unlost, ShimThread, shimVars
  <2>1. th \in Thread
    BY DEF ShimThread
  <2>2. Unlost(th) /\ started(th) /\ ~thr[th].lost /\ thr[th].call \in Call
    BY <1>1, <2>1, BusyFacts DEF UnlostInv
  <2>3. thr'[th].pc \in {"nonce", "calls", "done"}
    BY <1>1, <2>1, <2>2 DEF Unlost
  <2>4. ASSUME fate'[thr[th].call] # "NONE", fate[thr[th].call] = "NONE"
        PROVE  /\ thr[th].pc = "calls" /\ thr[th].answer = NoAnswer
               /\ \A r \in wire' : r.thread = th => r.resource # "calls"
    BY <2>1, <2>2, <2>4 DEF ServiceMoves, Admitted, inService
  <2>5. ASSUME NEW r \in wire', r.thread = th, r.resource = "calls"
        PROVE  /\ thr'[th].pc = "calls" /\ thr'[th].answer = NoAnswer
               /\ r = request(th, thr'[th])
               /\ fate'[thr[th].call] = "NONE"
    <3>1. thr'[th] = thr[th]
      BY <1>0, <2>1, <2>2, <2>5 DEF Takes
    <3> QED BY <2>1, <2>2, <2>4, <2>5, <3>1 DEF Unlost, inService
  <2>6. ASSUME \/ thr'[th].pc = "nonce"
               \/ thr'[th].pc = "calls" /\ thr'[th].answer.outcome = "NOT_DISPATCHED"
               \/ thr'[th].pc = "done" /\ thr'[th].outcome = "NOT_DISPATCHED"
        PROVE  fate'[thr[th].call] = "NONE"
    <3>1. CASE thr'[th] = thr[th]
      BY <2>2, <2>4, <2>6, <3>1 DEF Unlost, inService, NoAnswer
    <3>2. CASE thr'[th] # thr[th]
      <4>1. PICK a : Takes(th, a) /\ thr'[th] = [thr[th] EXCEPT !.answer = a]
        BY <1>0, <2>1, <3>2
      <4>2. thr[th] \in Busy
        BY <1>0, <2>1, <3>2
      <4>3. thr'[th].pc = thr[th].pc /\ thr'[th].answer = a /\ thr[th].pc # "done"
        BY <4>1, <4>2 DEF Busy, Waiting
      <4>4. CASE thr[th].pc = "nonce"
        BY <2>2, <2>4, <4>4 DEF Unlost, inService
      <4>5. CASE thr[th].pc = "calls"
        BY <2>2, <2>6, <4>1, <4>3, <4>5 DEF Takes
      <4> QED BY <2>6, <4>3, <4>4, <4>5
    <3> QED BY <3>1, <3>2
  <2>7. thr'[th].call = thr[th].call
    BY <1>1, <2>1, <2>2
  <2> QED BY <2>3, <2>5, <2>6, <2>7 DEF Unlost, inService
<1> QED BY <1>2, <1>3, <1>4, <1>5, <1>6, <1>7, <1>8
\* An answer reaches the step that asked, and no request of its own is left.
LEMMA RespondToRequest ==
  ASSUME SessionInv, NEW r \in wire, wire' = wire \ {r}, NEW a, respond(r, a),
         a \in AnswerType, a # NoAnswer,
         IF r.resource = "nonces" THEN Fits("nonce", a) ELSE Fits("calls", a),
         a.outcome \in Outcome => Honest(r.call, a.outcome)',
         UNCHANGED fate
  PROVE  AnswerMoves
<1> DEFINE u == r.thread
<1> SUFFICES ASSUME waits(u), r.step = <<thr[u].pc, thr[u].attempt>>
             PROVE  Takes(u, a)
  BY DEF respond, AnswerMoves, SessionInv, TypeInv, Request
<1>1. u \in Thread /\ thr[u] \in Busy /\ r.call = thr[u].call /\ thr[u].call \in Call
  BY BusyFacts DEF SessionInv, TypeInv, Request, waits, OwnCall, Busy
<1>2. r.resource = routeOf[thr[u].pc]
  BY DEF SessionInv, StepsInv
<1>3. thr[u].pc = "nonce" <=> r.resource = "nonces"
  BY <1>1, <1>2 DEF Busy, Waiting, routeOf
<1>4. Fits(thr[u].pc, a)
  BY <1>3 DEF Fits
<1>5. ASSUME u \in ShimThread, ~thr[u].lost
      PROVE  /\ \A q \in wire' : q.thread = u => q.resource # "calls"
             /\ fate[thr[u].call] = "NONE"
  <2>1. Unlost(u) /\ started(u) /\ thr[u].pc \in {"nonce", "calls"}
    BY <1>1, <1>5, BusyFacts DEF SessionInv, UnlostInv, Unlost, Busy, Waiting, started
  <2>2. CASE thr[u].pc = "nonce"
    BY <1>5, <2>1, <2>2 DEF Unlost, inService
  <2>3. CASE thr[u].pc = "calls"
    <3>1. r.resource = "calls"
      BY <1>2, <2>3 DEF routeOf
    <3>2. r = request(u, thr[u]) /\ fate[thr[u].call] = "NONE"
      BY <1>5, <2>1, <3>1 DEF Unlost, inService
    <3>3. \A q \in wire : q.thread = u /\ q.resource = "calls" => q = r
      BY <1>5, <2>1, <3>2 DEF Unlost
    <3> QED BY <3>2, <3>3
  <2> QED BY <2>1, <2>2, <2>3
<1>6. thr' = [thr EXCEPT ![u].answer = a]
  BY DEF respond
<1> QED BY <1>1, <1>4, <1>5, <1>6 DEF Takes

\* The answer of the adapter, which is never a refusal.
LEMMA RespondToHandler ==
  ASSUME SessionInv, NEW s \in serving, UNCHANGED wire, NEW a, respond(s, a),
         a \in AnswerType, a # NoAnswer, Fits("calls", a),
         a.outcome # "NOT_DISPATCHED", Honest(s.call, a.outcome)'
  PROVE  AnswerMoves
<1> DEFINE u == s.thread
<1> SUFFICES ASSUME waits(u), s.step = <<thr[u].pc, thr[u].attempt>>
             PROVE  Takes(u, a)
  BY DEF respond, AnswerMoves, SessionInv, TypeInv, Handler
<1>1. u \in Thread /\ thr[u] \in Busy /\ s.call = thr[u].call /\ thr[u].call \in Call
  BY BusyFacts DEF SessionInv, TypeInv, Handler, waits, OwnCall, Busy
<1>2. routeOf[thr[u].pc] = "calls"
  BY DEF SessionInv, StepsInv
<1>3. thr[u].pc # "nonce"
  BY <1>2 DEF routeOf
<1>4. Fits(thr[u].pc, a)
  BY <1>3 DEF Fits
<1>5. inService(thr[u].call)
  BY <1>1 DEF SessionInv, ServingInv, inService
<1>6. ASSUME u \in ShimThread, ~thr[u].lost
      PROVE  \A q \in wire' : q.thread = u => q.resource # "calls"
  <2>1. Unlost(u) /\ started(u)
    BY <1>1, <1>6, BusyFacts DEF SessionInv, UnlostInv, Busy, started
  <2> QED BY <1>5, <1>6, <2>1 DEF Unlost
<1>7. thr' = [thr EXCEPT ![u].answer = a]
  BY DEF respond
<1> QED BY <1>1, <1>4, <1>6, <1>7 DEF Takes

\* Handlers may end where the calls stay as they are.
LEMMA ServiceStays ==
  ASSUME SessionInv, UNCHANGED <<fate, dispatches>>, serving' \subseteq serving
  PROVE  ServiceMoves
<1>1. /\ fate' \in [Call -> {"NONE", "DISPATCHING"} \cup Service!Terminal]
      /\ dispatches' \in [Call -> {0, 1}] /\ serving' \in SUBSET Handler
  BY DEF SessionInv, TypeInv
<1>2. ASSUME NEW s \in serving'
      PROVE  /\ started(s.thread) /\ s.call = thr[s.thread].call
             /\ routeOf[s.step[1]] = "calls"
             /\ fate'[s.call] \in {"DISPATCHING", "UNKNOWN"} /\ dispatches'[s.call] = 1
  BY DEF SessionInv, OwnCall, StepsInv, ServingInv
<1>3. /\ \A s, t \in serving' : s.call = t.call => s = t
      /\ \A c \in Call : fate'[c] = "FAILED" => dispatches'[c] = 1
  BY DEF SessionInv, ServingInv
<1>4. ASSUME NEW c \in Call, NEW o \in Outcome, Honest(c, o)
      PROVE  Honest(c, o)'
  BY <1>4 DEF Honest, Lost, inService
<1>5. \A c \in Call : inService(c)' => inService(c)
  BY DEF inService
<1> QED BY <1>1, <1>2, <1>3, <1>4, <1>5 DEF ServiceMoves

\* A call under way ends.
LEMMA SettleMoves ==
  ASSUME SessionInv, NEW c \in Call, NEW state \in Service!Terminal,
         Service!Settle({c}, state), serving' \subseteq serving,
         state # "UNKNOWN" => \E s \in serving : s.call = c,
         state # "UNKNOWN" => \A s \in serving' : s.call # c
  PROVE  /\ ServiceMoves /\ fate' = [fate EXCEPT ![c] = state]
         /\ dispatches' = dispatches /\ fate[c] = "DISPATCHING"
         /\ state # "UNKNOWN" => dispatches[c] = 1
<1>1. /\ fate \in [Call -> {"NONE", "DISPATCHING"} \cup Service!Terminal]
      /\ dispatches \in [Call -> {0, 1}] /\ serving' \in SUBSET Handler
  BY DEF SessionInv, TypeInv
<1>2. /\ fate' = [d \in Call |-> IF d \in {c} THEN state ELSE fate[d]]
      /\ dispatches' = dispatches /\ fate[c] = "DISPATCHING"
      /\ state # "UNKNOWN" => dispatches[c] > 0
  BY DEF Service!Settle
<1>3. fate' = [fate EXCEPT ![c] = state]
  BY <1>1, <1>2
<1>4. fate' \in [Call -> {"NONE", "DISPATCHING"} \cup Service!Terminal]
  BY <1>1, <1>3
<1>5. ASSUME NEW s \in serving'
      PROVE  /\ started(s.thread) /\ s.call = thr[s.thread].call
             /\ routeOf[s.step[1]] = "calls"
             /\ fate'[s.call] \in {"DISPATCHING", "UNKNOWN"} /\ dispatches'[s.call] = 1
  <2>1. s \in serving /\ s.call \in Call
    BY <1>1, <1>5 DEF Handler
  <2> QED BY <1>1, <1>2, <1>3, <2>1 DEF SessionInv, OwnCall, StepsInv, ServingInv
<1>6. \A s, t \in serving' : s.call = t.call => s = t
  BY DEF SessionInv, ServingInv
<1>7. ASSUME NEW d \in Call, NEW o \in Outcome, Honest(d, o)
      PROVE  Honest(d, o)'
  <2>1. CASE d # c
    <3>1. fate'[d] = fate[d]
      BY <1>1, <1>3, <2>1
    <3> QED BY <1>2, <1>7, <3>1 DEF Honest, Lost, inService
  <2>2. CASE d = c
    <3>1. fate'[d] = state /\ fate[d] = "DISPATCHING"
      BY <1>1, <1>2, <1>3, <2>2
    <3>2. inService(d)' /\ fate'[d] # "DISPATCHING"
      BY <3>1 DEF inService, Service!Terminal
    <3>3. Lost(d) => Lost(d)' /\ state = "UNKNOWN"
      BY <2>2, <3>1, <3>2 DEF Lost
    <3>4. d = c /\ dispatches'[d] = dispatches[d]
      BY <1>2, <2>2
    <3> QED BY <1>7, <3>1, <3>2, <3>3, <3>4 DEF Honest
  <2> QED BY <2>1, <2>2
<1>8. \A d \in Call : inService(d)' => inService(d)
  BY <1>1, <1>2, <1>3 DEF inService
<1>9. dispatches' \in [Call -> {0, 1}]
  BY <1>1, <1>2
<1>10. state # "UNKNOWN" => dispatches[c] = 1
  BY <1>1, <1>2
<1>11. \A d \in Call : fate'[d] = "FAILED" => dispatches'[d] = 1
  BY <1>1, <1>2, <1>3, <1>10 DEF SessionInv, ServingInv
<1>12. ServiceMoves
  BY <1>1, <1>4, <1>5, <1>6, <1>7, <1>8, <1>9, <1>11 DEF ServiceMoves
<1> QED BY <1>2, <1>3, <1>10, <1>12

\* What is answered for the state of a call is true of it.
LEMMA StateHonest ==
  ASSUME SessionInv, NEW c \in Call, inService(c)
  PROVE  /\ fate[c] \in {"DISPATCHING"} \cup Service!Terminal
         /\ Honest(c, stateBody[fate[c]].outcome)
<1>1. fate[c] \in {"DISPATCHING"} \cup Service!Terminal
  BY DEF SessionInv, TypeInv, inService
<1>2. stateBody[fate[c]].outcome = StateOutcome[fate[c]]
  BY <1>1, StateBody
<1>3. fate[c] = "FAILED" => dispatches[c] = 1
  BY DEF SessionInv, ServingInv
<1>4. Honest(c, StateOutcome[fate[c]])
  BY <1>1, <1>3 DEF Honest, Lost, StateOutcome, Service!Terminal, inService
<1> QED BY <1>1, <1>2, <1>4

LEMMA RefusalFits ==
  ASSUME NEW code \in DOMAIN STATUS
  PROVE  Fits("nonce", refusal(code)) /\ Fits("calls", refusal(code))
  BY Refusal DEF Fits, Outcome

LEMMA RefusalHonest == \A c \in Call : Honest(c, "NOT_DISPATCHED")'
  BY DEF Honest

LEMMA StateFits ==
  ASSUME NEW state \in {"DISPATCHING"} \cup Service!Terminal
  PROVE  Fits("calls", stateBody[state])
  BY StateBody DEF Fits

\* A request is answered and no call changes.
LEMMA AnsweredStep ==
  ASSUME SessionInv, NEW r \in wire, wire' = wire \ {r}, NEW a, respond(r, a),
         a \in AnswerType, a # NoAnswer,
         IF r.resource = "nonces" THEN Fits("nonce", a) ELSE Fits("calls", a),
         a.outcome \in Outcome => Honest(r.call, a.outcome),
         UNCHANGED <<fate, dispatches, serving, asked, held, shimVars>>
  PROVE  SessionInv'
<1>1. a.outcome \in Outcome => Honest(r.call, a.outcome)'
  BY DEF Honest, Lost, inService
<1>2. AnswerMoves
  BY <1>1, RespondToRequest
<1>3. ServiceMoves
  BY ServiceStays
<1> QED BY <1>2, <1>3, GatewayMoves

LEMMA RefusedStep ==
  ASSUME SessionInv, NEW r \in wire, wire' = wire \ {r}, NEW code \in DOMAIN STATUS,
         respond(r, refusal(code)),
         UNCHANGED <<fate, dispatches, serving, asked, held, shimVars>>
  PROVE  SessionInv'
<1>1. Honest(r.call, refusal(code).outcome)
  BY Refusal DEF Honest
<1> QED BY <1>1, Refusal, RefusalFits, AnsweredStep

LEMMA RefuseStep ==
  ASSUME SessionInv, NEW r \in wire, refuse(r), UNCHANGED shimVars
  PROVE  SessionInv'
<1>1. PICK code \in {"RATE_LIMITED", "TASK_REVOKED"} : respond(r, refusal(code))
  BY DEF refuse
<1>2. code \in DOMAIN STATUS
  BY DEF STATUS
<1> QED BY <1>1, <1>2, RefusedStep DEF refuse, serviceQuiet

\* A stored call is answered as it stands, to /calls and to /results.
LEMMA ReplayStep ==
  ASSUME SessionInv, NEW r \in wire, wire' = wire \ {r}, replay(r, r.call),
         r.resource # "nonces", UNCHANGED <<asked, held, shimVars>>
  PROVE  SessionInv'
<1>1. r.call \in Call /\ inService(r.call)
  BY DEF SessionInv, TypeInv, Request, replay
<1>2. /\ fate[r.call] \in {"DISPATCHING"} \cup Service!Terminal
      /\ Honest(r.call, stateBody[fate[r.call]].outcome)
  BY <1>1, StateHonest
<1> DEFINE a == stateBody[fate[r.call]]
<1>3. a \in AnswerType /\ a # NoAnswer /\ Fits("calls", a)
  BY <1>2, StateBody, StateFits
<1>4. respond(r, a) /\ UNCHANGED <<fate, dispatches, serving>>
  BY DEF replay, serviceQuiet
<1> HIDE DEF a
<1> QED BY <1>2, <1>3, <1>4, AnsweredStep DEF a

LEMMA AdmitStep ==
  ASSUME SessionInv, NEW r \in wire, wire' = wire \ {r}, admit(r, r.call),
         r.resource = "calls", UNCHANGED <<asked, held, shimVars>>
  PROVE  SessionInv'
<1> DEFINE c == r.call
           s0 == [thread |-> r.thread, step |-> r.step, call |-> c]
<1>1. /\ r \in Request /\ c \in Call /\ s0 \in Handler
      /\ started(r.thread) /\ c = thr[r.thread].call /\ r.thread \in Thread
      /\ routeOf[r.step[1]] = "calls"
  BY DEF SessionInv, TypeInv, Request, Handler, OwnCall, StepsInv
<1>2. /\ fate[c] = "NONE" /\ dispatches[c] = 0
      /\ fate' = [fate EXCEPT ![c] = "DISPATCHING"]
      /\ dispatches' \in {dispatches, [dispatches EXCEPT ![c] = @ + 1]}
      /\ serving' = IF dispatches' = dispatches THEN {} ELSE serving \cup {s0}
      /\ thr' = thr
  BY DEF admit, Service!AdmitPlain, Service!AdmitWith, Service!Admit
<1>3. /\ fate \in [Call -> {"NONE", "DISPATCHING"} \cup Service!Terminal]
      /\ dispatches \in [Call -> {0, 1}] /\ serving \in SUBSET Handler
  BY DEF SessionInv, TypeInv
<1>4. /\ fate' \in [Call -> {"NONE", "DISPATCHING"} \cup Service!Terminal]
      /\ fate'[c] = "DISPATCHING" /\ \A d \in Call : d # c => fate'[d] = fate[d]
  BY <1>1, <1>2, <1>3
<1>5. /\ dispatches' \in [Call -> {0, 1}]
      /\ dispatches' # dispatches => dispatches'[c] = 1
      /\ \A d \in Call : d # c => dispatches'[d] = dispatches[d]
  BY <1>1, <1>2, <1>3
<1>6. \A s \in serving' : (s = s0 /\ dispatches'[c] = 1) \/ s \in serving
  BY <1>2, <1>5
<1>7. \A s \in serving : s.call \in Call /\ s.call # c
  BY <1>2, <1>3 DEF Handler, SessionInv, ServingInv
<1>8. ASSUME NEW s \in serving'
      PROVE  /\ started(s.thread) /\ s.call = thr[s.thread].call
             /\ routeOf[s.step[1]] = "calls"
             /\ fate'[s.call] \in {"DISPATCHING", "UNKNOWN"} /\ dispatches'[s.call] = 1
             /\ s \in Handler
  <2>1. CASE s = s0 /\ dispatches'[c] = 1
    BY <1>1, <1>4, <2>1
  <2>2. CASE s \in serving
    BY <1>3, <1>4, <1>5, <1>7, <2>2 DEF SessionInv, OwnCall, StepsInv, ServingInv
  <2> QED BY <1>6, <2>1, <2>2
<1>9. \A s, t \in serving' : s.call = t.call => s = t
  BY <1>6, <1>7 DEF SessionInv, ServingInv
<1>10. \A d \in Call : fate'[d] = "FAILED" => dispatches'[d] = 1
  BY <1>4, <1>5 DEF SessionInv, ServingInv
<1>11. ASSUME NEW d \in Call, NEW o \in Outcome, Honest(d, o)
       PROVE  Honest(d, o)'
  <2>1. CASE d = c
    BY <1>2, <1>11, <2>1 DEF Honest, Lost, inService, Outcome
  <2>2. CASE d # c
    <3>1. fate'[d] = fate[d] /\ dispatches'[d] = dispatches[d]
      BY <1>4, <1>5, <2>2
    <3>2. \A s \in serving' : s.call = d => s \in serving
      BY <1>6, <2>2
    <3> QED BY <1>11, <3>1, <3>2 DEF Honest, Lost, inService
  <2> QED BY <2>1, <2>2
<1>12. Admitted(c)
  <2>1. c \in taken(Thread)
    BY <1>1 DEF taken
  <2>2. ASSUME NEW th \in ShimThread, started(th), thr[th].call = c, ~thr[th].lost
        PROVE  /\ thr[th].pc = "calls" /\ thr[th].answer = NoAnswer
               /\ \A q \in wire' : q.thread = th => q.resource # "calls"
    <3>1. th = r.thread
      BY <1>1, <2>2 DEF SessionInv, ShimAlone
    <3>2. Unlost(th)
      BY DEF SessionInv, UnlostInv
    <3>3. r = request(th, thr[th]) /\ thr[th].pc = "calls" /\ thr[th].answer = NoAnswer
      BY <2>2, <3>1, <3>2 DEF Unlost
    <3>4. \A q \in wire : q.thread = th /\ q.resource = "calls" => q = r
      BY <2>2, <3>2, <3>3 DEF Unlost
    <3> QED BY <3>3, <3>4
  <2> QED BY <2>1, <2>2 DEF Admitted
<1>13. \A d \in Call : inService(d)' => inService(d) \/ Admitted(d)
  BY <1>4, <1>12 DEF inService
<1>14. ServiceMoves
  BY <1>4, <1>5, <1>8, <1>9, <1>10, <1>11, <1>13 DEF ServiceMoves
<1> QED BY <1>2, <1>14, GatewayMoves DEF AnswerMoves
LEMMA CallRequestFacts ==
  ASSUME SessionInv, NEW r \in wire, NEW b \in wire, arrives(r, b)
  PROVE  /\ r.resource = b.resource /\ r.call = b.call /\ r.call \in Call
         /\ wire' = wire \ {r} /\ UNCHANGED <<held, asked>>
<1>1. r \in Request /\ b \in Request
  BY DEF SessionInv, TypeInv
<1> QED BY <1>1, ArrivesBinds DEF Request

LEMMA HandleCallStep ==
  ASSUME SessionInv, NEW r \in wire, NEW b \in wire, handleCall(r, b),
         UNCHANGED shimVars
  PROVE  SessionInv'
<1>1. b.resource = "calls" /\ arrives(r, b)
  BY DEF handleCall
<1>2. /\ r.resource = "calls" /\ r.call = b.call
      /\ wire' = wire \ {r} /\ UNCHANGED <<held, asked>>
  BY <1>1, CallRequestFacts
<1>3. CASE replay(r, b.call)
  BY <1>2, <1>3, ReplayStep
<1>4. CASE admit(r, b.call)
  BY <1>2, <1>4, AdmitStep
<1>5. CASE respond(r, refusal("NONCE_REQUIRED")) /\ serviceQuiet /\ UNCHANGED serving
  <2>1. "NONCE_REQUIRED" \in DOMAIN STATUS
    BY DEF STATUS
  <2> QED BY <1>2, <1>5, <2>1, RefusedStep DEF serviceQuiet
<1> QED BY <1>3, <1>4, <1>5 DEF handleCall

LEMMA HandleNonceStep ==
  ASSUME SessionInv, NEW r \in wire, NEW b \in wire, handleNonce(r, b),
         UNCHANGED shimVars
  PROVE  SessionInv'
<1>1. b.resource = "nonces" /\ arrives(r, b) /\ UNCHANGED serving
  BY DEF handleNonce
<1>2. r.resource = "nonces" /\ wire' = wire \ {r} /\ UNCHANGED <<held, asked>>
  BY <1>1, CallRequestFacts
<1>3. CASE respond(r, refusal("CALL_EXISTS")) /\ serviceQuiet
  <2>1. "CALL_EXISTS" \in DOMAIN STATUS
    BY DEF STATUS
  <2> QED BY <1>1, <1>2, <1>3, <2>1, RefusedStep DEF serviceQuiet
<1>4. ASSUME NEW n \in {200, 201}, NEW x \in NonceId, respond(r, nonceBody(n, x)),
             UNCHANGED <<fate, dispatches>>
      PROVE  SessionInv'
  <2>1. Fits("nonce", nonceBody(n, x)) /\ nonceBody(n, x).outcome \notin Outcome
    BY NonceBody DEF Fits, Outcome
  <2> QED BY <1>1, <1>2, <1>4, <2>1, NonceBody, AnsweredStep
<1>5. CASE \E x \in NonceId : respond(r, nonceBody(200, x)) /\ serviceQuiet
  BY <1>4, <1>5 DEF serviceQuiet
<1>6. CASE \E x \in NonceId : Service!Issue(x, b.call, {}) /\ respond(r, nonceBody(201, x))
  BY <1>4, <1>6 DEF Service!Issue
<1> QED BY <1>3, <1>5, <1>6 DEF handleNonce

LEMMA HandleResultStep ==
  ASSUME SessionInv, NEW r \in wire, NEW b \in wire, handleResult(r, b),
         UNCHANGED shimVars
  PROVE  SessionInv'
<1>1. b.resource = "results" /\ arrives(r, b)
  BY DEF handleResult
<1>2. /\ r.resource = "results" /\ r.call = b.call
      /\ wire' = wire \ {r} /\ UNCHANGED <<held, asked>>
  BY <1>1, CallRequestFacts
<1>3. CASE replay(r, b.call)
  BY <1>2, <1>3, ReplayStep
<1>4. CASE respond(r, refusal("NOT_FOUND")) /\ serviceQuiet /\ UNCHANGED serving
  <2>1. "NOT_FOUND" \in DOMAIN STATUS
    BY DEF STATUS
  <2> QED BY <1>2, <1>4, <2>1, RefusedStep DEF serviceQuiet
<1> QED BY <1>3, <1>4 DEF handleResult

\* The handler of a call is the only one that can still correct its ending, and
\* it answers as it leaves.
LEMMA AdapterReturnsStep ==
  ASSUME SessionInv, NEW s \in serving, NEW state \in Ending, adapterReturns(s, state),
         UNCHANGED shimVars
  PROVE  SessionInv'
<1> DEFINE c == s.call
<1>1. /\ c \in Call /\ dispatches[c] = 1 /\ fate[c] \in {"DISPATCHING", "UNKNOWN"}
      /\ \A t \in serving : t.call = c => t = s
  BY DEF SessionInv, TypeInv, Handler, ServingInv
<1>2. /\ serving' = serving \ {s} /\ UNCHANGED <<held, wire, asked>>
      /\ \A t \in serving' : t.call # c
  BY <1>1 DEF adapterReturns
<1>3. state \in Service!Terminal /\ "UNKNOWN" \in Service!Terminal
  BY ClientAssumption DEF Service!Terminal
<1>4. ASSUME NEW e \in Service!Terminal, respond(s, stateBody[e]),
             Honest(c, stateBody[e].outcome)', ServiceMoves
      PROVE  SessionInv'
  <2>2. /\ stateBody[e] \in AnswerType /\ stateBody[e] # NoAnswer
        /\ Fits("calls", stateBody[e]) /\ stateBody[e].outcome # "NOT_DISPATCHED"
    BY StateBody, StateFits
  <2>1. AnswerMoves
    BY <1>2, <1>4, <2>2, RespondToHandler
  <2> QED BY <1>2, <1>4, <2>1, GatewayMoves
<1>5. ASSUME NEW e \in Service!Terminal, Service!Settle({c}, e), respond(s, stateBody[e])
      PROVE  SessionInv'
  <2>1. ServiceMoves /\ fate' = [fate EXCEPT ![c] = e] /\ dispatches' = dispatches
    BY <1>1, <1>2, <1>5, SettleMoves
  <2>2. fate'[c] = e
    BY <1>1, <2>1 DEF SessionInv, TypeInv
  <2>3. stateBody[e].outcome = StateOutcome[e]
    BY StateBody
  <2>4. Honest(c, StateOutcome[e])'
    BY <1>1, <1>2, <2>1, <2>2 DEF Honest, Lost, StateOutcome, Service!Terminal, inService
  <2> QED BY <1>4, <1>5, <2>1, <2>3, <2>4
<1>6. ASSUME NEW e \in Service!Terminal \ {"SUCCEEDED"}, respond(s, stateBody[e]), serviceQuiet
      PROVE  SessionInv'
  <2>1. ServiceMoves
    BY <1>2, <1>6, ServiceStays DEF serviceQuiet
  <2>2. stateBody[e].outcome = StateOutcome[e]
    BY StateBody
  <2>3. Honest(c, StateOutcome[e])'
    BY <1>1, <1>2, <1>6 DEF Honest, Lost, StateOutcome, Service!Terminal, inService, serviceQuiet
  <2> QED BY <1>4, <1>6, <2>1, <2>2, <2>3
<1>7. CASE Service!Settle({c}, state) /\ respond(s, stateBody[state])
  BY <1>3, <1>5, <1>7
<1>8. CASE Service!Settle({c}, "UNKNOWN") /\ respond(s, stateBody["UNKNOWN"])
  BY <1>3, <1>5, <1>8
<1>9. CASE /\ respond(s, stateBody[IF state = "SUCCEEDED" THEN "UNKNOWN" ELSE state])
           /\ serviceQuiet
  <2>1. (IF state = "SUCCEEDED" THEN "UNKNOWN" ELSE state) \in Service!Terminal \ {"SUCCEEDED"}
    BY <1>3
  <2> QED BY <1>6, <1>9, <2>1
<1> QED BY <1>7, <1>8, <1>9 DEF adapterReturns

LEMMA RecoverStep ==
  ASSUME SessionInv, recover, UNCHANGED shimVars
  PROVE  SessionInv'
<1>1. PICK c \in Call : Service!Settle({c}, "UNKNOWN")
  BY DEF recover
<1>2. UNCHANGED <<thr, held, wire, serving, asked>> /\ "UNKNOWN" \in Service!Terminal
  BY DEF recover, clientVars, Service!Terminal
<1>3. ServiceMoves
  BY <1>1, <1>2, SettleMoves
<1> QED BY <1>2, <1>3, GatewayMoves DEF AnswerMoves

LEMMA ExpireStep ==
  ASSUME SessionInv, expire, UNCHANGED shimVars
  PROVE  SessionInv'
<1>1. UNCHANGED <<thr, held, wire, serving, asked>>
  BY DEF expire, clientVars
<1>2. PICK pair \in open : Service!Retire({}, {pair})
  BY DEF expire
<1>3. fate' = fate /\ dispatches' = dispatches
  <2>1. fate' = [c \in Call |-> fate[c]] /\ dispatches' = dispatches
    BY <1>2 DEF Service!Retire
  <2> QED BY <2>1 DEF SessionInv, TypeInv
<1>4. ServiceMoves
  BY <1>1, <1>3, ServiceStays
<1> QED BY <1>1, <1>4, GatewayMoves DEF AnswerMoves

LEMMA CrashStep ==
  ASSUME SessionInv, crash, UNCHANGED shimVars
  PROVE  SessionInv'
<1>1. ServiceMoves
  BY ServiceStays DEF crash, serviceQuiet
<1> QED BY <1>1, GatewayMoves DEF AnswerMoves, crash

LEMMA GatewayInv ==
  ASSUME SessionInv, GatewayStep, UNCHANGED shimVars
  PROVE  SessionInv'
<1>1. CASE \E r \in wire : refuse(r)
  BY <1>1, RefuseStep
<1>2. CASE \E r, b \in wire : handleCall(r, b)
  BY <1>2, HandleCallStep
<1>3. CASE \E r, b \in wire : handleNonce(r, b)
  BY <1>3, HandleNonceStep
<1>4. CASE \E r, b \in wire : handleResult(r, b)
  BY <1>4, HandleResultStep
<1>5. CASE \E s \in serving, state \in Ending : adapterReturns(s, state)
  BY <1>5, AdapterReturnsStep
<1> QED BY <1>1, <1>2, <1>3, <1>4, <1>5, RecoverStep, ExpireStep, CrashStep DEF GatewayStep
-----------------------------------------------------------------------------
\* The invariant

LEMMA InitInv == Init => SessionInv
<1> SUFFICES ASSUME Init
             PROVE  SessionInv
  OBVIOUS
<1>1. /\ fate = [c \in Call |-> "NONE"] /\ dispatches = [c \in Call |-> 0]
      /\ wire = {} /\ serving = {} /\ asked = {} /\ user \in Users
      /\ thr = [th \in Thread |-> Idle] /\ held = [c \in Call |-> NoNonce]
      /\ corr = [th \in Thread |-> {}]
  BY DEF Init, Service!Init
<1>2. TypeInv
  BY <1>1, UsersAssumption DEF TypeInv
<1>3. \A th \in Thread : thr[th].pc = "idle"
  BY <1>1 DEF Idle
<1>4. StepsInv /\ HonestInv
  BY <1>1, <1>3 DEF StepsInv, HonestInv, Told, Waiting
<1>5. OwnCall /\ ServingInv
  BY <1>1 DEF OwnCall, ServingInv, inService
<1>6. ShimAlone /\ UnlostInv
  BY <1>1, <1>3 DEF ShimAlone, UnlostInv, Unlost, ShimThread, started
<1> QED BY <1>2, <1>4, <1>5, <1>6 DEF SessionInv

LEMMA StutterInv ==
  ASSUME SessionInv, UNCHANGED <<fate, dispatches, clientVars, user, corr>>
  PROVE  SessionInv'
  BY DEF SessionInv, clientVars, TypeInv, StepsInv, OwnCall, ServingInv, HonestInv, Honest,
         Lost, Told, ShimAlone, UnlostInv, Unlost, ShimThread, started, inService, taken

\* A tool call has a call id of its own; a program keeps off theirs.
LEMMA BeginStep ==
  ASSUME SessionInv, NEW th \in Thread, toolsCall(th) \/ runToolCall(th) \/ callDirectly(th)
  PROVE  SessionInv'
<1>1. UNCHANGED <<serviceVars, user, corr>>
  BY DEF toolsCall, runToolCall, callDirectly, shimVars
<1>2. corr' \in [Thread -> SUBSET Call]
  BY <1>1 DEF SessionInv, TypeInv
<1>6. ASSUME NEW u \in {"mcp", "openai", "program"}
      PROVE  CallsOf[u] \subseteq Call
  BY UsersAssumption
<1>3. ASSUME NEW c \in Call, freshId(c), call(th, c)
      PROVE  Moves(th)
  <2>1. \A u \in Thread : started(u) => thr[u].call # c
    BY <1>3 DEF freshId, taken
  <2> QED BY <1>3, <2>1, CallMoves
<1>4. ASSUME NEW c \in CallsOf["program"], user[th] = "program", c \notin taken(ShimThread), call(th, c)
      PROVE  Moves(th)
  <2>1. \A u \in ShimThread : started(u) => thr[u].call # c
    BY <1>4 DEF taken
  <2>2. th \notin ShimThread /\ c \in Call
    BY <1>4, <1>6 DEF ShimThread
  <2> QED BY <1>4, <2>1, <2>2, CallMoves
<1>5. Moves(th)
  BY <1>6, <1>3, <1>4 DEF toolsCall, runToolCall, callDirectly
<1> QED BY <1>1, <1>2, <1>5, ClientStep

LEMMA ProceedStep ==
  ASSUME SessionInv, NEW th \in Thread, proceed(th)
  PROVE  SessionInv'
<1>1. Moves(th)
  BY OnNonceMoves, OnCallsMoves, OnResultsMoves, OnResendMoves, OnTransportErrorMoves
     DEF proceed, advance
<1>2. thr[th].call \in Call
  <2>1. started(th)
    BY DEF proceed, advance, onNonce, onCalls, onResults, onResend, onTransportError,
           answered, waits, started, Waiting
  <2> QED BY <2>1, BusyFacts DEF SessionInv
<1>3. corr' \in [Thread -> SUBSET Call]
  BY <1>2 DEF proceed, enterCorr, SessionInv, TypeInv
<1> QED BY <1>1, <1>3, ClientStep DEF proceed

LEMMA NextInv == SessionInv /\ [Next]_sessionVars => SessionInv'
<1> SUFFICES ASSUME SessionInv, [Next]_sessionVars
             PROVE  SessionInv'
  OBVIOUS
<1>1. CASE initialize
  BY <1>1, StutterInv DEF initialize, serviceVars
<1>2. CASE \E th \in Thread : toolsCall(th) \/ runToolCall(th) \/ callDirectly(th)
  BY <1>2, BeginStep
<1>3. CASE \E th \in Thread : proceed(th)
  BY <1>3, ProceedStep
<1>4. CASE GatewayStep /\ UNCHANGED shimVars
  BY <1>4, GatewayInv
<1>5. CASE UNCHANGED sessionVars
  BY <1>5, StutterInv DEF sessionVars, serviceVars, shimVars
<1> QED BY <1>1, <1>2, <1>3, <1>4, <1>5 DEF Next

LEMMA InvariantHolds == Spec => []SessionInv
  BY InitInv, NextInv, PTL DEF Spec

-----------------------------------------------------------------------------
\* What it gives

\* Every invocation is where call() can wait or has ended with an outcome of
\* the API, and a destructive call is on the wire only with a nonce (sdk.ts,
\* call() and agentSend).
THEOREM SessionTypes == Spec => []SessionTypeOK
<1>1. SessionInv => SessionTypeOK
  BY DEF SessionInv, TypeInv, StepsInv, Nonced, SessionTypeOK
<1> QED BY <1>1, InvariantHolds, PTL

\* What call() returns or throws is true of the call it was made for, whatever
\* was lost, delayed or mixed up on the way and however often the gateway's
\* process died (sdk.ts, call(); gateway.ts, agentRoute and the completion).
THEOREM OutcomesAreHonest == Spec => []OutcomeHonest
<1>1. ASSUME SessionInv
      PROVE  OutcomeHonest
  <2> SUFFICES ASSUME NEW th \in Thread, thr[th].pc = "done"
               PROVE  LET c == thr[th].call
                          o == thr[th].outcome
                      IN /\ o = "SUCCEEDED" => fate[c] = "SUCCEEDED"
                         /\ o \in {"FAILED", "UNKNOWN"} => inService(c) /\ fate[c] # "SUCCEEDED"
                         /\ o = "FAILED" => dispatches[c] > 0
                         /\ o = "DISPATCHING" => inService(c)
    BY DEF OutcomeHonest
  <2>1. thr[th].call \in Call /\ thr[th].outcome \in Outcome
    BY <1>1, BusyFacts DEF SessionInv, Done
  <2>2. Told(th, thr[th].call, thr[th].outcome)
    BY DEF Told
  <2>3. Honest(thr[th].call, thr[th].outcome)
    BY <1>1, <2>1, <2>2 DEF SessionInv, HonestInv
  <2> QED BY <2>3 DEF Honest, Lost
<1> QED BY <1>1, InvariantHolds, PTL

\* What one tool call asks for is done at most once, although its request may
\* be sent again after a refusal and after a lost answer (sdk.ts, call()).
THEOREM EffectsHappenOnce == Spec => []OneEffect
<1>1. ASSUME SessionInv
      PROVE  OneEffect
  <2>1. \A c \in Call : dispatches[c] <= 1
    BY <1>1 DEF SessionInv, TypeInv
  <2>2. ASSUME NEW th \in ShimThread
        PROVE  Cardinality({a \in asked : a[1] = th /\ dispatches[a[2]] > 0}) <= 1
    <3> DEFINE mine == {a \in asked : a[1] = th /\ dispatches[a[2]] > 0}
               only == <<th, thr[th].call>>
    <3>1. mine \subseteq {only}
      BY <1>1 DEF SessionInv, OwnCall, TypeInv
    <3>2. IsFiniteSet({only}) /\ Cardinality({only}) = 1
      BY FS_Singleton
    <3>3. Cardinality(mine) <= Cardinality({only})
      BY <3>1, <3>2, FS_Subset
    <3> QED BY <3>2, <3>3
  <2> QED BY <2>1, <2>2 DEF OneEffect
<1> QED BY <1>1, InvariantHolds, PTL

\* A tool call that was refused, with no request lost, is not known to the
\* authority and never will be: nothing is on its way (sdk.ts, call() and its
\* retries; mcp.ts and openai.ts, which give every tool call an id of its own).
THEOREM RefusalsAreTrue == Spec => []RefusalIsTrue
<1>1. ASSUME SessionInv
      PROVE  RefusalIsTrue
  <2> SUFFICES ASSUME NEW th \in ShimThread, thr[th].pc = "done",
                      thr[th].outcome = "NOT_DISPATCHED", ~thr[th].lost
               PROVE  /\ ~inService(thr[th].call)
                      /\ \A r \in wire : r.resource = "calls" => r.call # thr[th].call
    BY DEF RefusalIsTrue
  <2>1. Unlost(th) /\ started(th)
    BY <1>1 DEF SessionInv, UnlostInv, started
  <2>2. ASSUME NEW r \in wire, r.resource = "calls", r.call = thr[th].call
        PROVE  FALSE
    <3>1. r.thread \in Thread /\ started(r.thread) /\ thr[r.thread].call = thr[th].call
      BY <1>1, <2>2 DEF SessionInv, OwnCall, TypeInv, Request
    <3>2. r.thread = th
      BY <1>1, <2>1, <3>1 DEF SessionInv, ShimAlone
    <3> QED BY <2>1, <2>2, <3>2 DEF Unlost
  <2> QED BY <2>1, <2>2 DEF Unlost
<1> QED BY <1>1, InvariantHolds, PTL

-----------------------------------------------------------------------------
\* Every step of an invocation is one it does not take again

\* A step of th that leaves it less to do.
Descends(th) == \E v : thr' = [thr EXCEPT ![th] = v] /\ remaining(v) < remaining(thr[th])

\* What is left is a number, and nothing is left of an invocation that ended.
LEMMA RemainingFacts ==
  /\ remaining(Idle) = MAX_RETRIES + 5
  /\ \A w \in Busy : remaining(w) \in 1 .. MAX_RETRIES + 4
  /\ \A w : w.pc = "done" => remaining(w) = 0
<1>1. remaining(Idle) = MAX_RETRIES + 5
  BY DEF remaining, Idle
<1>2. ASSUME NEW w \in Busy
      PROVE  remaining(w) \in 1 .. MAX_RETRIES + 4
  <2>1. /\ w.attempt \in 0 .. MAX_RETRIES /\ MAX_RETRIES \in Nat
        /\ w.pc \in {"nonce", "calls", "results", "resend"}
    BY ClientAssumption DEF Busy, Waiting
  <2> QED BY <2>1 DEF remaining
<1>3. \A w : w.pc = "done" => remaining(w) = 0
  BY DEF remaining
<1> QED BY <1>1, <1>2, <1>3

LEMMA ReturnDescends ==
  ASSUME SessionInv, NEW th \in Thread, thr[th].pc \in Waiting,
         NEW outcome, return(th, outcome)
  PROVE  Descends(th)
<1> DEFINE v == [pc |-> "done", call |-> thr[th].call, lost |-> thr[th].lost,
                 outcome |-> outcome]
<1>1. thr' = [thr EXCEPT ![th] = v]
  BY DEF return, SessionInv, TypeInv
<1>2. thr[th] \in Busy
  BY BusyFacts DEF SessionInv
<1>3. remaining(v) = 0 /\ remaining(thr[th]) \in 1 .. MAX_RETRIES + 4
  BY <1>2, RemainingFacts
<1>4. remaining(v) < remaining(thr[th])
  BY <1>3, ClientAssumption
<1> HIDE DEF v
<1> QED BY <1>1, <1>4 DEF Descends

LEMMA SendDescends ==
  ASSUME NEW th \in Thread, NEW w \in Busy, send(th, w),
         remaining(w) < remaining(thr[th])
  PROVE  Descends(th)
<1> DEFINE v == [w EXCEPT !.answer = NoAnswer]
<1>1. thr' = [thr EXCEPT ![th] = v]
  BY DEF send
<1>2. v.pc = w.pc /\ v.attempt = w.attempt
  BY DEF Busy
<1>3. remaining(v) = remaining(w)
  BY <1>2 DEF remaining
<1> HIDE DEF v
<1> QED BY <1>1, <1>3 DEF Descends

LEMMA CallDescends ==
  ASSUME SessionInv, NEW th \in Thread, NEW c \in Call, call(th, c)
  PROVE  Descends(th)
<1> DEFINE w == [pc |-> IF c \in Destructive /\ held[c] = NoNonce THEN "nonce" ELSE "calls",
                 call |-> c, nonce |-> IF c \in Destructive THEN held[c] ELSE NoNonce,
                 attempt |-> 0, lost |-> FALSE, answer |-> NoAnswer]
<1>1. send(th, w) /\ thr[th] = Idle
  BY DEF call
<1>2. w \in Busy
  BY NoAnswerType, ClientAssumption DEF Busy, Waiting, SessionInv, TypeInv
<1>3. remaining(w) \in 1 .. MAX_RETRIES + 4 /\ remaining(thr[th]) = MAX_RETRIES + 5
  BY <1>1, <1>2, RemainingFacts
<1>4. remaining(w) < remaining(thr[th])
  BY <1>3, ClientAssumption
<1> HIDE DEF w
<1> QED BY <1>1, <1>2, <1>4, SendDescends

LEMMA OnNonceDescends ==
  ASSUME SessionInv, NEW th \in Thread, onNonce(th)
  PROVE  Descends(th)
<1> DEFINE a == thr[th].answer
           w == [thr[th] EXCEPT !.pc = "calls", !.nonce = a.nonce]
<1>1. answered(th, "nonce") /\ "nonce" \in Waiting
  BY DEF onNonce, Waiting
<1>2. thr[th] \in Busy /\ thr[th].pc = "nonce"
  BY <1>1, AnswerFacts
<1>3. CASE a.status \in {200, 201} /\ send(th, w)
  <2>1. a.nonce \in NonceId
    BY <1>1, <1>3, AnswerFacts DEF Fits, AnswerType
  <2>2. /\ w \in Busy /\ w.pc = "calls" /\ w.attempt = thr[th].attempt
        /\ thr[th].attempt \in 0 .. MAX_RETRIES
    BY <1>2, <2>1 DEF Busy, Waiting
  <2>3. remaining(w) < remaining(thr[th])
    BY <1>2, <2>2, ClientAssumption DEF remaining
  <2> HIDE DEF w
  <2> QED BY <1>3, <2>2, <2>3, SendDescends
<1>4. CASE throwBody(th, a)
  BY <1>1, <1>2, <1>4, ReturnDescends DEF throwBody
<1> QED BY <1>3, <1>4 DEF onNonce

LEMMA OnCallsDescends ==
  ASSUME SessionInv, NEW th \in Thread, onCalls(th)
  PROVE  Descends(th)
<1> DEFINE a == thr[th].answer
           w == [thr[th] EXCEPT !.attempt = @ + 1]
<1>1. answered(th, "calls") /\ "calls" \in Waiting
  BY DEF onCalls, Waiting
<1>2. thr[th] \in Busy /\ thr[th].pc = "calls"
  BY <1>1, AnswerFacts
<1>3. CASE thr[th].attempt < MAX_RETRIES /\ send(th, w)
  <2>1. thr[th].attempt \in 0 .. MAX_RETRIES /\ thr[th].attempt + 1 \in 0 .. MAX_RETRIES
    BY <1>2, <1>3, ClientAssumption DEF Busy
  <2>2. w \in Busy /\ w.pc = "calls" /\ w.attempt = thr[th].attempt + 1
    BY <1>2, <2>1 DEF Busy
  <2>3. remaining(w) < remaining(thr[th])
    BY <1>2, <2>1, <2>2, ClientAssumption DEF remaining
  <2> HIDE DEF w
  <2> QED BY <1>3, <2>2, <2>3, SendDescends
<1>4. CASE \E outcome : return(th, outcome)
  BY <1>1, <1>2, <1>4, ReturnDescends
<1> QED BY <1>3, <1>4 DEF onCalls, throwBody

LEMMA OnResultsDescends ==
  ASSUME SessionInv, NEW th \in Thread, onResults(th)
  PROVE  Descends(th)
<1> DEFINE w == [thr[th] EXCEPT !.pc = "resend"]
<1>1. answered(th, "results") /\ "results" \in Waiting
  BY DEF onResults, Waiting
<1>2. thr[th] \in Busy /\ thr[th].pc = "results"
  BY <1>1, AnswerFacts
<1>3. CASE send(th, w)
  <2>1. w \in Busy /\ w.pc = "resend"
    BY <1>2 DEF Busy, Waiting
  <2>2. remaining(w) < remaining(thr[th])
    BY <1>2, <2>1 DEF remaining
  <2> HIDE DEF w
  <2> QED BY <1>3, <2>1, <2>2, SendDescends
<1>4. CASE \E outcome : return(th, outcome)
  BY <1>1, <1>2, <1>4, ReturnDescends
<1> QED BY <1>3, <1>4 DEF onResults, throwBody

LEMMA OnTransportErrorDescends ==
  ASSUME SessionInv, NEW th \in Thread, onTransportError(th)
  PROVE  Descends(th)
<1> DEFINE w == [thr[th] EXCEPT !.pc = "results", !.lost = TRUE, !.attempt = 0]
<1>1. thr[th].pc \in Waiting /\ thr[th] \in Busy
  BY BusyFacts DEF onTransportError, waits, SessionInv
<1>2. CASE thr[th].pc = "calls" /\ send(th, w)
  <2>3. 0 \in 0 .. MAX_RETRIES
    BY ClientAssumption
  <2>1. w \in Busy /\ w.pc = "results" /\ thr[th].attempt \in 0 .. MAX_RETRIES
    BY <1>1, <2>3 DEF Busy, Waiting
  <2>2. remaining(w) < remaining(thr[th])
    BY <1>2, <2>1, ClientAssumption DEF remaining
  <2> HIDE DEF w
  <2> QED BY <1>2, <2>1, <2>2, SendDescends
<1>3. CASE throwTransport(th)
  BY <1>1, <1>3, ReturnDescends DEF throwTransport
<1> QED BY <1>2, <1>3 DEF onTransportError

LEMMA ProceedDescends ==
  ASSUME SessionInv, NEW th \in Thread, proceed(th)
  PROVE  Descends(th)
<1>1. CASE onResend(th)
  <2>1. answered(th, "resend") /\ "resend" \in Waiting
    BY <1>1 DEF onResend, Waiting
  <2>2. \E outcome : return(th, outcome)
    BY <1>1 DEF onResend, throwBody
  <2> QED BY <2>1, <2>2, ReturnDescends DEF answered
<1> QED BY <1>1, OnNonceDescends, OnCallsDescends, OnResultsDescends,
           OnTransportErrorDescends DEF proceed, advance

\* The gateway only hands answers to invocations that wait for one.
Hands == thr' = thr \/ \E u, a : waits(u) /\ thr' = [thr EXCEPT ![u].answer = a]

LEMMA GatewayHands ==
  ASSUME GatewayStep
  PROVE  Hands
<1>1. ASSUME NEW r, NEW a, respond(r, a)
      PROVE  Hands
  BY <1>1 DEF respond, Hands
<1>2. ASSUME thr' = thr
      PROVE  Hands
  BY <1>2 DEF Hands
<1>3. ASSUME NEW r, refuse(r)
      PROVE  Hands
  BY <1>1, <1>3 DEF refuse
<1>4. ASSUME NEW r, NEW b, handleCall(r, b)
      PROVE  Hands
  BY <1>1, <1>2, <1>4 DEF handleCall, replay, admit
<1>5. ASSUME NEW r, NEW b, handleNonce(r, b)
      PROVE  Hands
  BY <1>1, <1>5 DEF handleNonce
<1>6. ASSUME NEW r, NEW b, handleResult(r, b)
      PROVE  Hands
  BY <1>1, <1>6 DEF handleResult, replay
<1>7. ASSUME NEW s, NEW state, adapterReturns(s, state)
      PROVE  Hands
  BY <1>1, <1>7 DEF adapterReturns
<1>8. CASE recover \/ expire \/ crash
  BY <1>2, <1>8 DEF recover, expire, crash, clientVars
<1> QED BY <1>3, <1>4, <1>5, <1>6, <1>7, <1>8 DEF GatewayStep

\* Every step of an invocation leaves it less to do, through retries, lookups
\* and resends, and an answer never replaces another one: call() makes at most
\* MAX_RETRIES + 4 requests (sdk.ts, call(), its loop and its lookup).
THEOREM CallsProgress == Spec => CallProgresses
<1> DEFINE Forward(th) ==
             \/ remaining(thr'[th]) < remaining(thr[th])
             \/ waits(th) /\ thr'[th] = [thr[th] EXCEPT !.answer = thr'[th].answer]
<1>1. ASSUME SessionInv, [Next]_sessionVars, NEW th \in Thread, thr'[th] # thr[th]
      PROVE  Forward(th)
  <2>1. ASSUME NEW u \in Thread, Descends(u)
        PROVE  Forward(th)
    <3>1. PICK v : thr' = [thr EXCEPT ![u] = v] /\ remaining(v) < remaining(thr[u])
      BY <2>1 DEF Descends
    <3>2. u = th /\ thr'[th] = v
      BY <1>1, <3>1 DEF SessionInv, TypeInv
    <3> QED BY <3>1, <3>2
  <2>2. ASSUME Hands
        PROVE  Forward(th)
    <3>1. PICK u, a : waits(u) /\ thr' = [thr EXCEPT ![u].answer = a]
      BY <1>1, <2>2 DEF Hands
    <3>2. u = th /\ thr'[th] = [thr[th] EXCEPT !.answer = a]
      BY <1>1, <3>1 DEF SessionInv, TypeInv
    <3>3. thr[th] \in Busy
      BY <1>1, <3>1, <3>2, BusyFacts DEF SessionInv, waits
    <3>4. thr'[th].answer = a
      BY <3>2, <3>3 DEF Busy
    <3> QED BY <3>1, <3>2, <3>4
  <2>3. CASE \E u \in Thread : toolsCall(u) \/ runToolCall(u) \/ callDirectly(u)
    <3>1. PICK u \in Thread : toolsCall(u) \/ runToolCall(u) \/ callDirectly(u)
      BY <2>3
    <3>2. \E c \in Call : call(u, c)
      BY <3>1, UsersAssumption DEF toolsCall, runToolCall, callDirectly
    <3> QED BY <1>1, <2>1, <3>2, CallDescends
  <2>4. CASE \E u \in Thread : proceed(u)
    BY <1>1, <2>1, <2>4, ProceedDescends
  <2>5. CASE GatewayStep
    BY <2>2, <2>5, GatewayHands
  <2>6. thr' # thr
    BY <1>1
  <2> QED BY <1>1, <2>3, <2>4, <2>5, <2>6
          DEF Next, initialize, sessionVars, clientVars
<1>2. SessionInv /\ [Next]_sessionVars =>
        [\A th \in Thread : thr'[th] # thr[th] => Forward(th)]_sessionVars
  BY <1>1
<1> QED BY <1>2, InvariantHolds, PTL DEF Spec, CallProgresses
-----------------------------------------------------------------------------
\* The service as callers see it

\* Every open nonce was issued for a call.
OpenInv == open \in SUBSET (NonceId \X Call)

\* What a caller was told of its call is true of it.
SeenHonest ==
  \A th \in Thread : endingTold(th) =>
    /\ thr[th].call \in Call /\ outcomeAt(th) \in {"SUCCEEDED", "FAILED"}
    /\ Honest(thr[th].call, outcomeAt(th))

LEMMA TellingsAreHonest == SessionInv => SeenHonest
<1> SUFFICES ASSUME SessionInv, NEW th \in Thread, endingTold(th)
             PROVE  /\ thr[th].call \in Call /\ outcomeAt(th) \in {"SUCCEEDED", "FAILED"}
                    /\ Honest(thr[th].call, outcomeAt(th))
  BY DEF SeenHonest
<1>1. /\ thr[th].pc \in Waiting \cup {"done"} /\ thr[th].call \in Call
      /\ outcomeAt(th) \in {"SUCCEEDED", "FAILED"}
  BY BusyFacts DEF endingTold, SessionInv
<1>2. Told(th, thr[th].call, outcomeAt(th)) /\ outcomeAt(th) \in Outcome
  BY <1>1 DEF Told, outcomeAt, Outcome
<1> QED BY <1>1, <1>2 DEF SessionInv, HonestInv

\* An invocation that has its ending keeps it.
Keeps(th) ==
  endingTold(th) => endingTold(th)' /\ thr'[th].call = thr[th].call
                      /\ outcomeAt(th)' = outcomeAt(th)

LEMMA ReturnKeeps ==
  ASSUME SessionInv, NEW th \in Thread, NEW p \in Waiting, answered(th, p),
         return(th, thr[th].answer.outcome)
  PROVE  Keeps(th)
<1>1. thr[th].pc # "done" /\ thr \in [Thread -> {Idle} \cup Busy \cup Done]
  BY DEF answered, Waiting, SessionInv, TypeInv
<1>2. thr'[th] = [pc |-> "done", call |-> thr[th].call, lost |-> thr[th].lost,
                  outcome |-> thr[th].answer.outcome]
  BY <1>1 DEF return
<1> QED BY <1>1, <1>2 DEF Keeps, endingTold, outcomeAt, started

LEMMA ProceedKeeps ==
  ASSUME SessionInv, NEW th \in Thread, proceed(th)
  PROVE  Keeps(th)
<1> DEFINE a == thr[th].answer
<1>1. ASSUME NEW p \in Waiting, answered(th, p), a.outcome \notin {"SUCCEEDED", "FAILED"}
      PROVE  Keeps(th)
  BY <1>1 DEF answered, Waiting, Keeps, endingTold, outcomeAt
<1>2. CASE onNonce(th)
  <2>1. answered(th, "nonce") /\ "nonce" \in Waiting
    BY <1>2 DEF onNonce, Waiting
  <2>2. a.status \in {200, 201} => a.outcome \notin {"SUCCEEDED", "FAILED"}
    BY <2>1, AnswerFacts DEF Fits, Outcome
  <2> QED BY <1>1, <1>2, <2>1, <2>2, ReturnKeeps DEF onNonce, throwBody
<1>3. CASE onCalls(th)
  <2>1. answered(th, "calls") /\ "calls" \in Waiting
    BY <1>3 DEF onCalls, Waiting
  <2>2. a.status \in {429, 503} => a.outcome = "NOT_DISPATCHED"
    BY <2>1, AnswerFacts DEF Fits, AnswerType
  <2> QED BY <1>1, <1>3, <2>1, <2>2, ReturnKeeps DEF onCalls, throwBody
<1>4. CASE onResults(th)
  <2>1. answered(th, "results") /\ "results" \in Waiting
    BY <1>4 DEF onResults, Waiting
  <2>2. a.code = "NOT_FOUND" => a.outcome = "NOT_DISPATCHED"
    BY <2>1, AnswerFacts DEF Fits
  <2> QED BY <1>1, <1>4, <2>1, <2>2, ReturnKeeps DEF onResults, throwBody
<1>5. CASE onResend(th)
  <2>1. answered(th, "resend") /\ "resend" \in Waiting
    BY <1>5 DEF onResend, Waiting
  <2> QED BY <1>5, <2>1, ReturnKeeps DEF onResend, throwBody
<1>6. CASE onTransportError(th)
  BY <1>6 DEF onTransportError, waits, Waiting, NoAnswer, Keeps, endingTold, outcomeAt
<1> QED BY <1>2, <1>3, <1>4, <1>5, <1>6 DEF proceed, advance

\* No step takes back what a caller was told: an invocation that begins or waits
\* has been told nothing.
LEMMA TellingsStay ==
  ASSUME SessionInv, [Next]_sessionVars
  PROVE  \A th \in Thread : Keeps(th)
<1> SUFFICES ASSUME NEW th \in Thread
             PROVE  Keeps(th)
  OBVIOUS
<1>1. thr \in [Thread -> {Idle} \cup Busy \cup Done]
  BY DEF SessionInv, TypeInv
<1>2. ASSUME thr'[th] = thr[th]
      PROVE  Keeps(th)
  BY <1>2 DEF Keeps, endingTold, outcomeAt, started
<1>3. ASSUME NEW u \in Thread, proceed(u)
      PROVE  Keeps(th)
  <2>1. u # th => thr'[th] = thr[th]
    BY <1>1, <1>3, ProceedDescends DEF Descends
  <2> QED BY <1>2, <1>3, <2>1, ProceedKeeps
<1>4. ASSUME NEW u \in Thread, toolsCall(u) \/ runToolCall(u) \/ callDirectly(u)
      PROVE  Keeps(th)
  <2>1. PICK c : call(u, c)
    BY <1>4 DEF toolsCall, runToolCall, callDirectly
  <2>2. u # th => thr'[th] = thr[th]
    BY <1>1, <2>1 DEF call, send
  <2>3. u = th => ~endingTold(th)
    BY <2>1 DEF call, Idle, endingTold, started
  <2> QED BY <1>2, <2>2, <2>3 DEF Keeps
<1>5. CASE GatewayStep
  <2>1. CASE thr' = thr
    BY <1>2, <2>1
  <2>2. CASE \E u, a : waits(u) /\ thr' = [thr EXCEPT ![u].answer = a]
    <3>1. PICK u, a : waits(u) /\ thr' = [thr EXCEPT ![u].answer = a]
      BY <2>2
    <3>2. u = th => ~endingTold(th)
      BY <3>1 DEF waits, Waiting, NoAnswer, endingTold, outcomeAt
    <3>3. u # th => thr'[th] = thr[th]
      BY <1>1, <3>1
    <3> QED BY <1>2, <3>2, <3>3 DEF Keeps
  <2> QED BY <1>5, <2>1, <2>2, GatewayHands DEF Hands
<1>6. CASE initialize \/ UNCHANGED sessionVars
  BY <1>2, <1>6 DEF initialize, sessionVars, clientVars
<1> QED BY <1>3, <1>4, <1>5, <1>6 DEF Next

\* What callers were told in one state they were told in the next, and what is
\* new to them is how the call stands.
LEMMA AnswersAreServed ==
  ASSUME SessionInv, SessionInv', SeenHonest', [Next]_sessionVars
  PROVE  SeenService!Answers
<1>1. ASSUME NEW pair \in seen
      PROVE  pair \in seen'
  <2>1. PICK th \in Thread : endingTold(th) /\ pair = <<thr[th].call, outcomeAt(th)>>
    BY <1>1 DEF seen
  <2>2. endingTold(th)' /\ pair = <<thr'[th].call, outcomeAt(th)'>>
    BY <2>1, TellingsStay DEF Keeps
  <2> QED BY <2>2 DEF seen
<1>2. ASSUME NEW pair \in seen'
      PROVE  /\ pair \in Call \X {"SUCCEEDED", "FAILED"}
             /\ \/ pair[2] = fate'[pair[1]]
                \/ /\ pair[2] # "SUCCEEDED" /\ dispatches'[pair[1]] > 0
                   /\ fate'[pair[1]] \in {"DISPATCHING", "UNKNOWN"}
  <2>1. PICK th \in Thread : endingTold(th)' /\ pair = <<thr'[th].call, outcomeAt(th)'>>
    BY <1>2 DEF seen
  <2>2. PICK c, o : c = thr'[th].call /\ o = outcomeAt(th)'
    OBVIOUS
  <2>3. c \in Call /\ o \in {"SUCCEEDED", "FAILED"} /\ Honest(c, o)'
    BY <2>1, <2>2 DEF SeenHonest
  <2>4. fate'[c] \in {"NONE", "DISPATCHING"} \cup Service!Terminal
    BY <2>3 DEF SessionInv, TypeInv
  <2>5. \/ o = "SUCCEEDED" /\ fate'[c] = "SUCCEEDED"
        \/ o = "FAILED" /\ dispatches'[c] = 1 /\ fate'[c] \in {"DISPATCHING", "FAILED", "UNKNOWN"}
    BY <2>3, <2>4 DEF Honest, Lost, inService, Service!Terminal
  <2> QED BY <2>1, <2>2, <2>3, <2>5
<1> QED BY <1>1, <1>2 DEF SeenService!Answers, SeenService!Terminal

\* What a step does to the calls and nonces, whatever is answered with it.
Serves ==
  \/ \E c \in Call :
       \/ SeenService!AdmitPlain(c)
       \/ \E x \in NonceId : SeenService!AdmitWith(c, x)
       \/ \E x \in NonceId, closed \in SUBSET open : SeenService!Issue(x, c, closed)
  \/ \E ended \in SUBSET Call, state \in SeenService!Terminal :
       SeenService!Settle(ended, state)
  \/ \E forgotten \in SUBSET Call, closed \in SUBSET open :
       SeenService!Retire(forgotten, closed)

\* Most steps leave the service alone.
LEMMA QuietServes ==
  ASSUME SessionInv, serviceQuiet
  PROVE  Serves
<1>1. fate' = [c \in Call |-> fate[c]] /\ open' = open \ {} /\ UNCHANGED <<dispatches, issued>>
  BY DEF serviceQuiet, SessionInv, TypeInv
<1>2. SeenService!Retire({}, {})
  BY <1>1 DEF SeenService!Retire
<1> QED BY <1>2 DEF Serves

\* A success ends a call of which no caller was told an ending: the handler that
\* brings it is still there, and a call that was told to have failed has none.
LEMMA SettleServes ==
  ASSUME SessionInv, SeenHonest, NEW c \in Call, NEW state \in Service!Terminal,
         Service!Settle({c}, state),
         state = "SUCCEEDED" => \E s \in serving : s.call = c
  PROVE  Serves
<1>1. ASSUME state = "SUCCEEDED", NEW pair \in seen, pair[1] = c
      PROVE  FALSE
  <2>1. PICK th \in Thread : endingTold(th) /\ pair = <<thr[th].call, outcomeAt(th)>>
    BY <1>1 DEF seen
  <2>2. Honest(c, outcomeAt(th)) /\ outcomeAt(th) \in {"SUCCEEDED", "FAILED"}
    BY <1>1, <2>1 DEF SeenHonest
  <2>3. fate[c] = "DISPATCHING"
    BY DEF Service!Settle
  <2> QED BY <1>1, <2>2, <2>3 DEF Honest, Lost
<1>2. SeenService!Settle({c}, state)
  BY <1>1 DEF Service!Settle, SeenService!Settle
<1> QED BY <1>2 DEF Serves, Service!Terminal, SeenService!Terminal

LEMMA GatewayServes ==
  ASSUME SessionInv, SeenHonest, OpenInv, GatewayStep
  PROVE  Serves
<1>1. CASE \E r \in wire : refuse(r)
  BY <1>1, QuietServes DEF refuse
<1>2. ASSUME NEW r \in wire, NEW b \in wire, handleCall(r, b)
      PROVE  Serves
  <2>1. b.call \in Call /\ b.resource = "calls" /\ r.resource = "calls" /\ r.call = b.call
    BY <1>2, CallRequestFacts DEF handleCall
  <2>2. CASE admit(r, b.call)
    <3>1. SeenService!AdmitPlain(b.call) \/ SeenService!AdmitWith(b.call, r.nonce)
      BY <2>2 DEF admit, Service!AdmitPlain, SeenService!AdmitPlain, Service!AdmitWith,
                  SeenService!AdmitWith, Service!Admit, SeenService!Admit
    <3>2. SeenService!AdmitWith(b.call, r.nonce) => r.nonce \in NonceId
      BY DEF SeenService!AdmitWith, OpenInv
    <3> QED BY <2>1, <3>1, <3>2 DEF Serves
  <2>3. CASE serviceQuiet
    BY <2>3, QuietServes
  <2> QED BY <1>2, <2>2, <2>3 DEF handleCall, replay
<1>3. ASSUME NEW r \in wire, NEW b \in wire, handleNonce(r, b)
      PROVE  Serves
  <2>1. b.call \in Call
    BY <1>3, CallRequestFacts DEF handleNonce
  <2>2. ASSUME NEW x \in NonceId, Service!Issue(x, b.call, {})
        PROVE  Serves
    <3>1. SeenService!Issue(x, b.call, {})
      BY <2>2 DEF Service!Issue, SeenService!Issue
    <3> QED BY <2>1, <3>1 DEF Serves
  <2>3. CASE serviceQuiet
    BY <2>3, QuietServes
  <2> QED BY <1>3, <2>2, <2>3 DEF handleNonce
<1>4. CASE \E r, b \in wire : handleResult(r, b)
  BY <1>4, QuietServes DEF handleResult, replay
<1>5. ASSUME NEW s \in serving, NEW state \in Ending, adapterReturns(s, state)
      PROVE  Serves
  <2>1. s.call \in Call /\ state \in Service!Terminal /\ "UNKNOWN" \in Service!Terminal
    BY ClientAssumption DEF SessionInv, TypeInv, Handler, Service!Terminal
  <2>2. CASE Service!Settle({s.call}, state) \/ Service!Settle({s.call}, "UNKNOWN")
    BY <2>1, <2>2, SettleServes
  <2>3. CASE serviceQuiet
    BY <2>3, QuietServes
  <2> QED BY <1>5, <2>2, <2>3 DEF adapterReturns
<1>6. CASE recover
  BY <1>6, SettleServes DEF recover, Service!Terminal
<1>7. CASE expire
  <2>1. PICK pair \in open : Service!Retire({}, {pair})
    BY <1>7 DEF expire
  <2>2. SeenService!Retire({}, {pair})
    BY <2>1 DEF Service!Retire, SeenService!Retire
  <2> QED BY <2>2 DEF Serves
<1>8. CASE crash
  BY <1>8, QuietServes DEF crash
<1> QED BY <1>1, <1>2, <1>3, <1>4, <1>5, <1>6, <1>7, <1>8 DEF GatewayStep

LEMMA EveryStepServes ==
  ASSUME SessionInv, SeenHonest, OpenInv, [Next]_sessionVars
  PROVE  Serves
<1>1. CASE serviceQuiet
  BY <1>1, QuietServes
<1>2. CASE GatewayStep
  BY <1>2, GatewayServes
<1> QED BY <1>1, <1>2 DEF Next, initialize, toolsCall, runToolCall, callDirectly, proceed,
                          serviceVars, sessionVars, serviceQuiet

LEMMA OpenStep ==
  ASSUME OpenInv, Serves
  PROVE  OpenInv'
<1>1. ASSUME NEW c \in Call, NEW x \in NonceId, NEW closed \in SUBSET open,
             SeenService!Issue(x, c, closed)
      PROVE  OpenInv'
  BY <1>1 DEF SeenService!Issue, OpenInv
<1>2. CASE open' \subseteq open
  BY <1>2 DEF OpenInv
<1> QED BY <1>1, <1>2 DEF Serves, SeenService!AdmitPlain, SeenService!AdmitWith,
                          SeenService!Settle, SeenService!Retire

\* In front of the gateway stands the abstract call service: what programs see
\* through the SDK is what the authority is shown to implement (sdk.ts, call();
\* engine/gateway.ts; AuthorityImplementsCallService for the authority).
THEOREM SessionShowsCallService == Spec => ShowsCallService
<1>1. Init => OpenInv /\ SeenService!Init
  <2> SUFFICES ASSUME Init
               PROVE  OpenInv /\ SeenService!Init
    OBVIOUS
  <2>1. /\ fate = [c \in Call |-> "NONE"] /\ dispatches = [c \in Call |-> 0]
        /\ open = {} /\ issued = {} /\ \A th \in Thread : thr[th].pc = "idle"
    BY DEF Init, Service!Init, Idle
  <2>2. seen = {}
    BY <2>1 DEF seen, endingTold, started
  <2> QED BY <2>1, <2>2 DEF OpenInv, SeenService!Init
<1>2. SessionInv /\ SessionInv' /\ SeenHonest /\ SeenHonest' /\ OpenInv /\ [Next]_sessionVars
        => OpenInv' /\ SeenService!Next
  <2> SUFFICES ASSUME SessionInv, SessionInv', SeenHonest, SeenHonest', OpenInv,
                      [Next]_sessionVars
               PROVE  OpenInv' /\ SeenService!Next
    OBVIOUS
  <2>1. Serves /\ OpenInv'
    BY EveryStepServes, OpenStep
  <2>2. SeenService!Answers
    BY AnswersAreServed
  <2> QED BY <2>1, <2>2 DEF Serves, SeenService!Next
<1> QED BY <1>1, <1>2, InvariantHolds, TellingsAreHonest, PTL
        DEF Spec, ShowsCallService, SeenService!Spec
=============================================================================
