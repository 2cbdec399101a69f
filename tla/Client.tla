------------------------------- MODULE Client -------------------------------
(***************************************************************************)
(* The client SDK (sdk.ts) over a network, in front of the service that    *)
(* CallService promises.  A thread is one invocation of client.call() on   *)
(* one token handle; the handle's nonces are shared by all of them.        *)
(*                                                                         *)
(* The network delays requests without bound, loses them and their         *)
(* answers, and may mix up two requests on the way.  A timeout of the      *)
(* transport and a lost answer look the same to the client.  A session is  *)
(* shorter than RESULT_RETENTION, so no call is forgotten within it.       *)
(***************************************************************************)
EXTENDS Ingress

CONSTANTS
  Call, NonceId,
  Thread,
  Ending,       \* what the adapters make of a call
  Opts, Token,  \* the client's [origin, tenant_id, key] and its handle's token
  MAX_RETRIES

VARIABLES
  fate, dispatches, open, issued, \* the service
  thr,      \* the invocations
  held,     \* TokenHandle.openNonces
  wire,     \* requests that may still reach the gateway
  serving,  \* requests whose handler waits for the adapter
  asked     \* observation: the calls each invocation has sent

\* What was told of a call is what the invocations were told here.
Service == INSTANCE CallService WITH told <- {}

clientVars == <<thr, held, wire, serving, asked>>

ASSUME ClientAssumption ==
  MAX_RETRIES \in Nat /\ Ending \subseteq Service!Terminal /\ NoNonce \notin NonceId

-----------------------------------------------------------------------------
\* Answers

\* core/errors.ts, the codes the client tells apart.  TASK_REVOKED stands for
\* every refusal that is final, RATE_LIMITED for every one that is not.
STATUS == [RATE_LIMITED |-> 429, TASK_REVOKED |-> 403, CALL_EXISTS |-> 409,
           NONCE_REQUIRED |-> 400, NOT_FOUND |-> 404, UPSTREAM_REJECTED |-> 502,
           OUTPUT_INVALID |-> 502, OUTCOME_UNKNOWN |-> 504]

NoAnswer == [status |-> 0, code |-> "NONE", outcome |-> "NONE", nonce |-> NoNonce]
okBody(status, outcome) ==
  [status |-> status, code |-> "OK", outcome |-> outcome, nonce |-> NoNonce]
nonceBody(status, x) ==
  [status |-> status, code |-> "OK", outcome |-> "NONE", nonce |-> x]
errorBody(code, outcome) ==
  [status |-> STATUS[code], code |-> code, outcome |-> outcome, nonce |-> NoNonce]

\* What the authority answers for a call in some state.
stateBody ==
  [DISPATCHING    |-> okBody(202, "DISPATCHING"),
   SUCCEEDED      |-> okBody(200, "SUCCEEDED"),
   FAILED         |-> errorBody("UPSTREAM_REJECTED", "FAILED"),
   OUTPUT_BLOCKED |-> errorBody("OUTPUT_INVALID", "UNKNOWN"),
   UNKNOWN        |-> errorBody("OUTCOME_UNKNOWN", "UNKNOWN")]

refusal(code) == errorBody(code, "NOT_DISPATCHED")
Outcome == {"NOT_DISPATCHED", "DISPATCHING", "SUCCEEDED", "FAILED", "UNKNOWN"}

-----------------------------------------------------------------------------
\* The SDK

Idle == [pc |-> "idle"]

\* Where an invocation waits, and for which answer.
Waiting == {"nonce", "calls", "results", "resend"}
started(th) == thr[th].pc # "idle"
waits(th) == thr[th].pc \in Waiting /\ thr[th].answer = NoAnswer
answered(th, pc) == thr[th].pc = pc /\ thr[th].answer # NoAnswer

body(resource, c) == [kind |-> schema[resource], call |-> c]
routeOf == [nonce |-> "nonces", calls |-> "calls", results |-> "results",
            resend |-> "calls"]

\* The request an invocation waits for, known by the step that sent it.
request(th, w) ==
  LET resource == routeOf[w.pc]
  IN [thread |-> th, step |-> <<w.pc, w.attempt>>, resource |-> resource,
      call |-> w.call, nonce |-> IF resource = "calls" THEN w.nonce ELSE NoNonce]

\* agentSend, sendRaw: w is the invocation as it waits.
send(th, w) ==
  /\ thr' = [thr EXCEPT ![th] = [w EXCEPT !.answer = NoAnswer]]
  /\ wire' = wire \cup {request(th, w)}
  /\ asked' = asked \cup (IF routeOf[w.pc] = "calls" THEN {<<th, w.call>>} ELSE {})

signed(r) == agentSend(Opts, Token, r.resource, body(r.resource, r.call), r.nonce)

\* call() returns or throws.  A lookup that was given up has no effect left.
return(th, outcome) ==
  /\ wire' = {r \in wire : r.thread # th \/ r.resource # "results"}
  /\ thr' = [thr EXCEPT ![th] = [pc |-> "done", call |-> @.call, lost |-> @.lost,
                                 outcome |-> outcome]]
  /\ UNCHANGED asked

\* Faulty form (RefusalIsTrue): the outcome of the body is not taken over.
throwBody_Default(th, a) == return(th, refusal(a.code).outcome)

\* The error carries the outcome the body names.
throwBody(th, a) == return(th, a.outcome)

\* A transport failure (TransportError) of any other request than /calls.
throwTransport(th) == return(th, "NOT_DISPATCHED")

forget(c) == held' = [held EXCEPT ![c] = NoNonce]

\* call(), up to its first request: a destructive call takes the nonce the
\* handle holds for it, or asks for one.
call(th, c) ==
  /\ thr[th] = Idle
  /\ LET w == [pc |-> IF c \in Destructive /\ held[c] = NoNonce THEN "nonce" ELSE "calls",
               call |-> c, nonce |-> IF c \in Destructive THEN held[c] ELSE NoNonce,
               attempt |-> 0, lost |-> FALSE, answer |-> NoAnswer]
     IN send(th, w)
  /\ UNCHANGED <<held, serving>>

\* Faulty form (SessionTypeOK): the nonce is kept and not used.
onNonce_Kept(th) ==
  /\ answered(th, "nonce")
  /\ LET w == thr[th]
         a == w.answer
     IN \/ /\ a.status \in {200, 201}
           /\ send(th, [w EXCEPT !.pc = "calls"])
           /\ held' = [held EXCEPT ![w.call] = a.nonce]
        \/ a.status \notin {200, 201} /\ throwBody(th, a) /\ UNCHANGED held
  /\ UNCHANGED serving

\* nonce(): the handle keeps it unless the client's clock has it expired; the
\* invocation uses it in any case.
onNonce(th) ==
  /\ answered(th, "nonce")
  /\ LET w == thr[th]
         a == w.answer
     IN \/ /\ a.status \in {200, 201}
           /\ send(th, [w EXCEPT !.pc = "calls", !.nonce = a.nonce])
           /\ held' \in {held, [held EXCEPT ![w.call] = a.nonce]}
        \/ a.status \notin {200, 201} /\ throwBody(th, a) /\ UNCHANGED held
  /\ UNCHANGED serving

\* Faulty form (CallReturns): the retries are not counted.
onCalls_NotCounted(th) ==
  /\ answered(th, "calls")
  /\ LET w == thr[th]
         a == w.answer
     IN \/ a.status \in {200, 202} /\ return(th, a.outcome) /\ forget(w.call)
        \/ a.status \in {429, 503} /\ send(th, w) /\ UNCHANGED held
        \/ a.status \notin {200, 202, 429, 503} /\ throwBody(th, a) /\ UNCHANGED held
  /\ UNCHANGED serving

\* The answer of /calls.  Only 429 and 503 are retried, MAX_RETRIES times; the
\* pause before the retry is part of its delay on the wire.
onCalls(th) ==
  /\ answered(th, "calls")
  /\ LET w == thr[th]
         a == w.answer
         retried == a.status \in {429, 503} /\ w.attempt < MAX_RETRIES
                      /\ a.code # "OUTCOME_UNKNOWN"
     IN \/ a.status \in {200, 202} /\ return(th, a.outcome) /\ forget(w.call)
        \/ retried /\ send(th, [w EXCEPT !.attempt = @ + 1]) /\ UNCHANGED held
        \/ /\ a.status \notin {200, 202} /\ ~retried
           /\ throwBody(th, a) /\ UNCHANGED held
  /\ UNCHANGED serving

\* Faulty form (OneEffect): the request is sent again under a new call id.
onResults_NewId(th) ==
  /\ answered(th, "results")
  /\ LET w == thr[th]
         a == w.answer
     IN \/ a.status \in {200, 202} /\ return(th, a.outcome)
        \/ /\ a.code = "NOT_FOUND"
           /\ \E c \in Call \ Destructive :
                send(th, [w EXCEPT !.pc = "resend", !.call = c, !.nonce = NoNonce])
        \/ a.status \notin {200, 202} /\ a.code # "NOT_FOUND" /\ throwBody(th, a)
  /\ UNCHANGED <<held, serving>>

\* Faulty form (CallProgresses): the resend starts the retries of /calls again.
onResults_Again(th) ==
  /\ answered(th, "results")
  /\ LET w == thr[th]
         a == w.answer
     IN \/ a.status \in {200, 202} /\ return(th, a.outcome)
        \/ a.code = "NOT_FOUND" /\ send(th, [w EXCEPT !.pc = "calls"])
        \/ a.status \notin {200, 202} /\ a.code # "NOT_FOUND" /\ throwBody(th, a)
  /\ UNCHANGED <<held, serving>>

\* The status lookup after a transport failure.  Only NOT_FOUND lets the same
\* call be sent again; the nonce stays with the handle.
onResults(th) ==
  /\ answered(th, "results")
  /\ LET w == thr[th]
         a == w.answer
     IN \/ a.status \in {200, 202} /\ return(th, a.outcome)
        \/ a.code = "NOT_FOUND" /\ send(th, [w EXCEPT !.pc = "resend"])
        \/ a.status \notin {200, 202} /\ a.code # "NOT_FOUND" /\ throwBody(th, a)
  /\ UNCHANGED <<held, serving>>

onResend(th) ==
  /\ answered(th, "resend")
  /\ LET a == thr[th].answer
     IN \/ a.status \in {200, 202} /\ return(th, a.outcome) /\ forget(thr[th].call)
        \/ a.status \notin {200, 202} /\ throwBody(th, a) /\ UNCHANGED held
  /\ UNCHANGED serving

\* The transport fails or times out.  For /calls the status is looked up, for
\* anything else the failure is thrown.  The count of the retries ends here.
onTransportError(th) ==
  /\ waits(th)
  /\ \/ /\ thr[th].pc = "calls"
        /\ send(th, [thr[th] EXCEPT !.pc = "results", !.lost = TRUE, !.attempt = 0])
     \/ thr[th].pc # "calls" /\ throwTransport(th)
  /\ UNCHANGED <<held, serving>>

\* What an invocation does next, without any other part of the system.
advance(th) == onNonce(th) \/ onCalls(th) \/ onResults(th) \/ onResend(th)
                 \/ onTransportError(th)

-----------------------------------------------------------------------------
\* The gateway

\* The answer goes to the step that sent the request, if it still waits.
respond(r, a) ==
  thr' = IF waits(r.thread) /\ r.step = <<thr[r.thread].pc, thr[r.thread].attempt>>
           THEN [thr EXCEPT ![r.thread].answer = a] ELSE thr

\* A request reaches the gateway with the credentials of r and the path and
\* body of b, which differ when requests were mixed up, and passes.  The proof
\* of r is used up.
arrives(r, b) ==
  /\ agentRoute([signed(b) EXCEPT !.token = signed(r).token, !.proof = signed(r).proof],
                b.resource)
  /\ wire' = wire \ {r}
  /\ UNCHANGED <<held, asked>>

serviceQuiet == UNCHANGED <<fate, dispatches, open, issued>>
inService(c) == fate[c] # "NONE"

\* The authority refuses; a mixed-up request is refused by the gateway.
refuse(r) ==
  /\ wire' = wire \ {r}
  /\ \E code \in {"RATE_LIMITED", "TASK_REVOKED"} : respond(r, refusal(code))
  /\ serviceQuiet
  /\ UNCHANGED <<held, asked, serving>>

\* A stored call is answered as it stands.
replay(r, c) ==
  /\ inService(c)
  /\ respond(r, stateBody[fate[c]])
  /\ serviceQuiet /\ UNCHANGED serving

\* Faulty form (ShowsCallService): the nonce stays open.
admit_NonceKept(r, c) ==
  /\ Service!Admit(c) /\ UNCHANGED open
  /\ c \in Destructive => <<r.nonce, c>> \in open
  /\ serving' = IF dispatches' = dispatches THEN {}
                ELSE serving \cup {[thread |-> r.thread, step |-> r.step, call |-> c]}
  /\ UNCHANGED thr

\* The call is admitted and dispatched, or the process dies in between.
admit(r, c) ==
  /\ Service!AdmitPlain(c) \/ Service!AdmitWith(c, r.nonce)
  /\ serving' = IF dispatches' = dispatches THEN {}
                ELSE serving \cup {[thread |-> r.thread, step |-> r.step, call |-> c]}
  /\ UNCHANGED thr

handleCall(r, b) ==
  /\ b.resource = "calls" /\ arrives(r, b)
  /\ \/ replay(r, b.call)
     \/ admit(r, b.call)
     \/ /\ b.call \in Destructive /\ ~inService(b.call) /\ <<r.nonce, b.call>> \notin open
        /\ respond(r, refusal("NONCE_REQUIRED"))
        /\ serviceQuiet /\ UNCHANGED serving

\* The open nonce of the call, or a new one.
handleNonce(r, b) ==
  /\ b.resource = "nonces" /\ arrives(r, b)
  /\ LET c == b.call
         mine == {x \in NonceId : <<x, c>> \in open}
     IN \/ /\ inService(c)
           /\ respond(r, refusal("CALL_EXISTS")) /\ serviceQuiet
        \/ /\ ~inService(c)
           /\ \E x \in mine : respond(r, nonceBody(200, x)) /\ serviceQuiet
        \/ /\ ~inService(c) /\ mine = {}
           /\ \E x \in NonceId \ issued :
                /\ \A y \in NonceId \ issued : x <= y
                /\ Service!Issue(x, c, {})
                /\ respond(r, nonceBody(201, x))
  /\ UNCHANGED serving

handleResult(r, b) ==
  /\ b.resource = "results" /\ arrives(r, b)
  /\ \/ replay(r, b.call)
     \/ /\ ~inService(b.call)
        /\ respond(r, refusal("NOT_FOUND"))
        /\ serviceQuiet /\ UNCHANGED serving

\* The adapter answers, throws or runs into its deadline.  A completion may
\* fail or come after recover(); only a success is then told as UNKNOWN.
adapterReturns(s, state) ==
  /\ LET c == s.call
     IN \/ Service!Settle({c}, state) /\ respond(s, stateBody[state])
        \/ /\ state = "SUCCEEDED"
           /\ Service!Settle({c}, "UNKNOWN") /\ respond(s, stateBody["UNKNOWN"])
        \/ /\ respond(s, stateBody[IF state = "SUCCEEDED" THEN "UNKNOWN" ELSE state])
           /\ serviceQuiet
  /\ serving' = serving \ {s}
  /\ UNCHANGED <<held, wire, asked>>

\* recover() settles reservations that are past the adapter deadline.
recover ==
  /\ \E c \in Call : Service!Settle({c}, "UNKNOWN")
  /\ UNCHANGED clientVars

\* A nonce expires.
expire ==
  /\ \E pair \in open : Service!Retire({}, {pair})
  /\ UNCHANGED clientVars

\* The gateway's process dies with its handlers.
crash ==
  /\ serving # {}
  /\ serving' = {}
  /\ serviceQuiet /\ UNCHANGED <<thr, held, wire, asked>>

GatewayStep ==
  \/ \E r \in wire :
       \/ refuse(r)
       \/ \E b \in wire : handleCall(r, b) \/ handleNonce(r, b) \/ handleResult(r, b)
  \/ \E s \in serving, state \in Ending : adapterReturns(s, state)
  \/ recover \/ expire \/ crash
=============================================================================
