------------------------------ MODULE Session ------------------------------
(***************************************************************************)
(* One token handle in use: the MCP server (mcp.ts), the OpenAI shim       *)
(* (openai.ts) and programs that call the SDK directly, at the same time.  *)
(* The shims give every tool call of the model a call id of its own; a     *)
(* program may call() one call again.  Messages the shims answer without   *)
(* the SDK (ping, tools/list, malformed ones) change no state and are left *)
(* out.                                                                    *)
(***************************************************************************)
EXTENDS Client, FiniteSets

CONSTANTS
  Users,  \* who the threads may be: assignments of "mcp", "openai", "program"
  CallsOf \* the calls each of the three makes

VARIABLES
  user,        \* who makes each invocation
  initialized, \* McpServer.initialized
  corr         \* OpenAIShim.corr: tool call -> call id, a set of at most one

serviceVars == <<fate, dispatches, open, issued>>
shimVars == <<user, initialized, corr>>
sessionVars == <<serviceVars, clientVars, shimVars>>

ASSUME UsersAssumption ==
  /\ Users \subseteq [Thread -> {"mcp", "openai", "program"}]
  /\ CallsOf \in [{"mcp", "openai", "program"} -> SUBSET Call]

\* The invocations made for a tool call of the model.
ShimThread == {th \in Thread : user[th] # "program"}

Init ==
  /\ Service!Init
  /\ thr = [th \in Thread |-> Idle]
  /\ held = [c \in Call |-> NoNonce]
  /\ wire = {} /\ serving = {} /\ asked = {}
  /\ initialized = FALSE
  /\ corr = [th \in Thread |-> {}]
  /\ user \in Users

taken(threads) == {thr[th].call : th \in {x \in threads : started(x)}}

\* idgen("lcl", 21)
freshId(c) == c \notin taken(Thread)

-----------------------------------------------------------------------------
\* mcp.ts: handleLine is not awaited line by line, so calls run side by side.
\* The JSON-RPC reply carries the outcome and names no call.

initialize ==
  /\ ~initialized /\ initialized' = TRUE
  /\ UNCHANGED <<serviceVars, clientVars, user, corr>>

toolsCall(th) ==
  /\ user[th] = "mcp" /\ initialized
  /\ \E c \in CallsOf["mcp"] : freshId(c) /\ call(th, c)
  /\ UNCHANGED <<serviceVars, shimVars>>

-----------------------------------------------------------------------------
\* openai.ts

runToolCall(th) ==
  /\ user[th] = "openai"
  /\ \E c \in CallsOf["openai"] : freshId(c) /\ call(th, c)
  /\ UNCHANGED <<serviceVars, shimVars>>

\* Only a call() that returned is entered in corr, in the turn it returns.
enterCorr(th) ==
  corr' = IF user[th] = "openai" /\ thr'[th].pc = "done"
               /\ thr'[th].outcome \in {"SUCCEEDED", "DISPATCHING"}
            THEN [corr EXCEPT ![th] = {thr[th].call}] ELSE corr

-----------------------------------------------------------------------------
\* A program of its own may call() a call again.
callDirectly(th) ==
  /\ user[th] = "program"
  /\ \E c \in CallsOf["program"] : c \notin taken(ShimThread) /\ call(th, c)
  /\ UNCHANGED <<serviceVars, shimVars>>

proceed(th) ==
  /\ advance(th) /\ enterCorr(th)
  /\ UNCHANGED <<serviceVars, user, initialized>>

Next ==
  \/ initialize
  \/ \E th \in Thread : toolsCall(th) \/ runToolCall(th) \/ callDirectly(th) \/ proceed(th)
  \/ GatewayStep /\ UNCHANGED shimVars

\* The event loop goes on: timers fire and settled promises are picked up.
\* Nothing is assumed of the network, of the gateway or of the adapters.
Fairness == WF_sessionVars(\E th \in Thread : proceed(th))

Spec == Init /\ [][Next]_sessionVars /\ Fairness

-----------------------------------------------------------------------------
\* The endings that callers were told, while an invocation waits for its turn to
\* pick one up as well as after.  UNKNOWN is not one a caller may build on.
outcomeAt(th) == IF thr[th].pc = "done" THEN thr[th].outcome ELSE thr[th].answer.outcome
endingTold(th) == started(th) /\ outcomeAt(th) \in {"SUCCEEDED", "FAILED"}
seen == {<<thr[th].call, outcomeAt(th)>> : th \in {x \in Thread : endingTold(x)}}

SeenService == INSTANCE CallService WITH told <- seen

\* The service that callers see through the SDK, a network that loses, delays and
\* mixes up their requests, and a gateway that dies, is the service the authority
\* implements: admissions use up their nonce, calls end once, and an ending that a
\* caller was told is the call's, stays told, and rules out a later success.
ShowsCallService == SeenService!Spec

AnswerType ==
  [status : {0, 200, 201, 202, 400, 403, 404, 409, 429, 502, 504},
   code : {"NONE", "OK"} \cup DOMAIN STATUS, outcome : {"NONE"} \cup Outcome,
   nonce : {NoNonce} \cup NonceId]
Busy == [pc : Waiting, call : Call, nonce : {NoNonce} \cup NonceId,
         attempt : 0 .. MAX_RETRIES, lost : BOOLEAN, answer : AnswerType]
Done == [pc : {"done"}, call : Call, lost : BOOLEAN, outcome : Outcome]

\* Every invocation is where call() can wait or has ended with an outcome of the
\* API; a destructive call is on the wire only with a nonce.
SessionTypeOK ==
  /\ thr \in [Thread -> {Idle} \cup Busy \cup Done]
  /\ held \in [Call -> {NoNonce} \cup NonceId]
  /\ corr \in [Thread -> SUBSET Call]
  /\ \A r \in wire : r.resource = "calls" =>
       (r.call \in Destructive <=> r.nonce # NoNonce)

\* What a caller is told of its call is true of that call: a success or a
\* failure is an ending the adapter gave, a call that is said to be under way
\* is known to the authority, and a success is never told of a call that ended
\* otherwise, through replays, lookups, lost answers and requests mixed up on
\* the way.
OutcomeHonest ==
  \A th \in Thread : thr[th].pc = "done" =>
    LET c == thr[th].call
        o == thr[th].outcome
    IN /\ o = "SUCCEEDED" => fate[c] = "SUCCEEDED"
       /\ o \in {"FAILED", "UNKNOWN"} => inService(c) /\ fate[c] # "SUCCEEDED"
       /\ o = "FAILED" => dispatches[c] > 0
       /\ o = "DISPATCHING" => inService(c)

\* sdk.ts:204: "NOT_FOUND permits resending that same ID, never a new one".
\* Through retries, lookups and resends, however late a request arrives that
\* was given up, what one tool call of the model asks for is done at most once.
OneEffect ==
  /\ \A c \in Call : dispatches[c] <= 1
  /\ \A th \in ShimThread :
       Cardinality({a \in asked : a[1] = th /\ dispatches[a[2]] > 0}) <= 1

\* A refusal of a tool call is final: when no request was lost and the caller
\* is told NOT_DISPATCHED, the call is not known to the authority, and nothing
\* is on its way that could still dispatch it.
RefusalIsTrue ==
  \A th \in ShimThread :
    thr[th].pc = "done" /\ thr[th].outcome = "NOT_DISPATCHED" /\ ~thr[th].lost =>
      /\ ~inService(thr[th].call)
      /\ \A r \in wire : r.resource = "calls" => r.call # thr[th].call

\* Taken at its word, NOT_DISPATCHED says that the call was not dispatched.
\* After a transport failure the SDK takes a failed or refused lookup for it.
NotDispatchedIsTrue ==
  \A th \in ShimThread :
    thr[th].pc = "done" /\ thr[th].outcome = "NOT_DISPATCHED" =>
      dispatches[thr[th].call] = 0

\* How many steps an invocation has left, whatever it is answered: a nonce, the
\* request with its retries, a lookup and one more request.
remaining(w) ==
  IF w.pc = "calls" THEN 3 + (MAX_RETRIES - w.attempt)
  ELSE [idle |-> MAX_RETRIES + 5, nonce |-> MAX_RETRIES + 4,
        results |-> 2, resend |-> 1, done |-> 0][w.pc]

\* Through retries, lookups and resends no step of an invocation leads back to
\* where it was, so that one call() makes at most MAX_RETRIES + 4 requests; in
\* between it only takes an answer, and no answer replaces one it has not yet
\* acted on.
CallProgresses ==
  [][\A th \in Thread : thr'[th] # thr[th] =>
       \/ remaining(thr'[th]) < remaining(thr[th])
       \/ waits(th) /\ thr'[th] = [thr[th] EXCEPT !.answer = thr'[th].answer]
     ]_sessionVars

\* Every tool call and every call() comes to an answer, although neither the
\* network nor the gateway is assumed to do anything.
CallReturns ==
  (\E th \in Thread : thr[th].pc \in Waiting) ~> (\A th \in Thread : thr[th].pc \notin Waiting)
=============================================================================
