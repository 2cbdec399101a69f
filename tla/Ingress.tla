------------------------------ MODULE Ingress ------------------------------
(***************************************************************************)
(* What the client SDK signs (sdk.ts) and what the gateway asks of a       *)
(* request before the authority sees it (engine/gateway.ts).               *)
(*                                                                         *)
(* A signature names the key that made it and a hash is the value it       *)
(* hashes.  Sizes, encodings and header counts are left out: a request is  *)
(* its path, its credentials and its parsed body [kind, ...], where kind   *)
(* is the schema the body satisfies.  The iat window and the replay of a   *)
(* proof id are the authority's (AgentPlane, ControlPlane).                *)
(***************************************************************************)
EXTENDS Integers

CONSTANTS
  Cfg,         \* the gateway's: [origin, tenant_id, gateway_id, controls]
  SigningKey,  \* the kids of table signing_keys
  Destructive  \* the destructive tool calls

NoNonce == 0

NoQuery == 0

\* The path below an origin, and the absolute URL a proof names.
path(tenant, resource) == <<tenant, resource>>
url(origin, p, query) == <<origin, p, query>>

\* The schema of each agent route's body.
schema == [calls |-> "tool_call", nonces |-> "nonce_request",
           results |-> "result_request"]

\* The call a request is about; a result request names a call by its id only.
callIn(resource, body) == IF resource = "results" THEN {} ELSE {body.call}

-----------------------------------------------------------------------------
\* sdk.ts: o is the client's [origin, tenant_id, key]

agentSend(o, token, resource, body, nonce) ==
  [path  |-> path(o.tenant_id, resource),
   token |-> token,
   proof |-> [jwk |-> o.key, by |-> o.key,
              htu |-> url(o.origin, path(o.tenant_id, resource), NoQuery),
              ath |-> token, bht |-> body, call_hash |-> callIn(resource, body),
              nonce |-> nonce],
   body  |-> body]

\* op is the body's op_id; a GET has no body and no operation.
controlSend(o, method, resource, query, body, op) ==
  [method |-> method, path |-> path(o.tenant_id, resource), query |-> query,
   proof |-> [kid |-> o.kid, by |-> o.key, tenant_id |-> o.tenant_id,
              htm |-> method,
              htu |-> url(o.origin, path(o.tenant_id, resource), query),
              bht |-> body, op_id |-> op],
   body |-> body, op_id |-> op]

-----------------------------------------------------------------------------
\* engine/gateway.ts

\* The token was signed by a key of this authority, for this gateway, with a
\* lifetime the authority gives.
tokenVerifies(token) ==
  /\ token.kid \in SigningKey /\ token.by = token.kid
  /\ token.iss = Cfg.gateway_id
  /\ token.aud = <<Cfg.origin, Cfg.tenant_id>>
  /\ token.iat = token.nbf
  /\ token.exp - token.iat \in 30 .. 300

\* Faulty form (OutcomeHonest): the proof is not held against the body.
proofBinds_NotBody(proof, token, resource, body) ==
  /\ proof.by = proof.jwk /\ proof.jwk = token.jkt
  /\ proof.ath = token
  /\ proof.htu = url(Cfg.origin, path(Cfg.tenant_id, resource), NoQuery)
  /\ body.kind = schema[resource]

\* The key the token is bound to signed this token, URL, body and call.
proofBinds(proof, token, resource, body) ==
  /\ proof.by = proof.jwk /\ proof.jwk = token.jkt
  /\ proof.ath = token
  /\ proof.bht = body
  /\ proof.htu = url(Cfg.origin, path(Cfg.tenant_id, resource), NoQuery)
  /\ proof.call_hash = callIn(resource, body)

\* route and agentRoute, up to the call of the authority's handler.
agentRoute(req, resource) ==
  /\ req.path = path(Cfg.tenant_id, resource)
  /\ req.body.kind = schema[resource]
  /\ tokenVerifies(req.token)
  /\ proofBinds(req.proof, req.token, resource, req.body)
  /\ req.proof.nonce # NoNonce => resource = "calls" /\ req.body.call \in Destructive

\* Only /audit has a query, and it is part of the URL that was signed.
controlRoute(req, resource) ==
  /\ req.path = path(Cfg.tenant_id, resource)
  /\ req.method = IF resource = "audit" THEN "GET" ELSE "POST"
  /\ resource # "audit" => req.query = NoQuery
  /\ \E c \in Cfg.controls : c.kid = req.proof.kid /\ c.key = req.proof.by
  /\ req.proof.tenant_id = Cfg.tenant_id
  /\ req.proof.htm = req.method
  /\ req.proof.htu = url(Cfg.origin, req.path, req.query)
  /\ req.proof.bht = req.body
  /\ req.proof.op_id = req.op_id
=============================================================================
