---------------------------- MODULE ControlPlane ----------------------------
(***************************************************************************)
(* The control routes of the TenantAuthority: POST /mint, /revoke,         *)
(* /inspect, /policy, /rotate and GET /audit.  A request is a proof p of   *)
(* the enrolled control key kid, an operation id and a body.  As on the    *)
(* agent routes the rate bucket may refuse any request, so the denial      *)
(* disjunct has no guard.                                                  *)
(***************************************************************************)
EXTENDS AuthorityStore

hasRole(kid, roles) == Controls[kid].roles \cap roles # {}

signedBy(kid, p) == p.kind = "control" /\ p.signer = kid

\* The head of controlOp: clock, proof window, proof claim, role.
controlGate(kid, p, roles) ==
  /\ checkClockSafe
  /\ inWindow(p)
  /\ ~proofSeen(p)
  /\ hasRole(kid, roles)

savedOperation(kid, op) == operations[<<kid, op>>]

\* The same body under the same operation id gets the saved response.
replayOperation(kid, p, op, body) ==
  /\ savedOperation(kid, op).state = "SAVED"
  /\ savedOperation(kid, op).digest = body
  /\ execute(p) /\ bumpNow(now)
  /\ appendEvent({<<"control.replayed", op>>})
  /\ UNCHANGED <<credVars, operations>>

\* Faulty form (MintJournalled): the row of an earlier request is overwritten.
saveOperation_Overwrite(kid, p, op, body, tok) ==
  /\ execute(p) /\ bumpNow(now)
  /\ operations' = [operations EXCEPT ![<<kid, op>>] =
       [state |-> "SAVED", digest |-> body, tok |-> tok,
        exp |-> now + OPERATION_RETENTION]]

\* The tail of controlOp after a mutator that ran: the response is journalled
\* with the mutation it answers.
saveOperation(kid, p, op, body, tok) ==
  /\ savedOperation(kid, op).state = "NONE"
  /\ execute(p) /\ bumpNow(now)
  /\ operations' = [operations EXCEPT ![<<kid, op>>] =
       [state |-> "SAVED", digest |-> body, tok |-> tok,
        exp |-> now + OPERATION_RETENTION]]

\* Everything a control request leaves alone.
controlFrame == UNCHANGED <<phys, callVars, obsVars>>
controlDeny(p) == deny(p) /\ UNCHANGED <<credVars, operations, executed>>

-----------------------------------------------------------------------------
\* POST /mint

\* Faulty form (RequiredIsBound): the Herald mode is not looked at.
mintAllowed_AnyBinding(kid, req) ==
  hasRole(kid, {"minter"}) /\ req.who.sub \in Controls[kid].subjects

\* The checks of handleMint ahead of the Herald await.  They are not repeated
\* in the transaction.
mintAllowed(kid, req) ==
  LET sub == req.who.sub
  IN /\ hasRole(kid, {"minter"})
     /\ sub \in Controls[kid].subjects
     /\ sub \in policy.body.principals =>
          req.who.herald = (policy.body.herald[sub] = "required")

\* checkMintScopes: every requested scope lies within the principal's grant
\* and no requested tool is denied outright.
checkMintScopes(req) ==
  /\ \A c \in req.scopes : c.tool \notin policy.body.hard_deny
  /\ req.scopes \subseteq policy.body.granted[req.who.sub]

liveTasks == {i \in TaskId : tasks[i].state = "ACTIVE"}

\* Faulty form (InspectAgrees): a token may outlive its task.
taskAccepts_AnyTtl(req) ==
  LET task == tasks[req.task]
  IN task.state # "NONE" =>
       now < task.exp /\ task.state = "ACTIVE" /\ task.who = req.who

taskAccepts(req) ==
  LET task == tasks[req.task]
  IN IF task.state = "NONE"
       THEN Cardinality(liveTasks) < MAX_LIVE_TASKS
       ELSE /\ now < task.exp
            /\ task.state = "ACTIVE"
            /\ task.who = req.who
            /\ now + req.ttl <= task.exp

\* Faulty form (MintLive): tombstones are not looked up.
notRevoked_Ignored(req) == req \in MintRequest

notRevoked(req) == /\ ~revocation("task", req.task)
                   /\ ~revocation("subject", req.who.sub)

mintMutator(req) ==
  /\ notRevoked(req)
  /\ req.who.sub \in policy.body.principals
  /\ checkMintScopes(req)
  /\ req.ttl \in TOKEN_TTL_MIN .. TOKEN_TTL_MAX
  /\ req.ttl <= policy.body.max_ttl[req.who.sub]
  /\ taskAccepts(req)
  /\ keys[activeKid].state = "ACTIVE"
  /\ lastToken < MaxToken
  /\ tasks' = IF tasks[req.task].state = "NONE"
                THEN [tasks EXCEPT ![req.task] =
                        [who |-> req.who, exp |-> now + TASK_TTL,
                         state |-> "ACTIVE"]]
                ELSE tasks
  /\ lastToken' = lastToken + 1
  /\ tokens' = [tokens EXCEPT ![lastToken + 1] =
       [task |-> req.task, who |-> req.who, kid |-> activeKid,
        scopes |-> req.scopes, policy |-> policy, iat |-> now,
        exp |-> now + req.ttl, state |-> "ACTIVE"]]
  /\ keys' = [keys EXCEPT ![activeKid].last_exp =
       IF now + req.ttl > @ THEN now + req.ttl ELSE @]
  /\ appendEvent({<<"token.minted", lastToken + 1>>})
  /\ UNCHANGED <<policy, activeKid, revocations>>

\* A replayed mint whose token has expired is MINT_RESULT_EXPIRED.
savedTokenLive(kid, op) ==
  LET tok == savedOperation(kid, op).tok
  IN /\ tok # 0
     /\ tokens[tok].state # "NONE"
     /\ now < tokens[tok].exp

mintTx(h, kid, p, op, req) ==
  /\ controlFrame
  /\ goIdle(h)
  /\ LET body == <<"mint", req>>
     IN \/ controlDeny(p)
        \/ /\ controlGate(kid, p, {"minter"})
           /\ \/ replayOperation(kid, p, op, body) /\ savedTokenLive(kid, op)
              \/ /\ mintMutator(req)
                 /\ saveOperation(kid, p, op, body, lastToken + 1)

handleMint(h, kid, p, op, req) ==
  /\ handlers[h] = Idle
  /\ signedBy(kid, p)
  /\ LET replayPath == savedOperation(kid, op).state = "SAVED"
     IN \/ /\ ~replayPath /\ ~mintAllowed(kid, req) /\ unseen(p)
           /\ controlFrame /\ controlDeny(p) /\ UNCHANGED handlers
        \/ /\ ~replayPath /\ mintAllowed(kid, req) /\ req.who.herald
           /\ suspend(h, [pc |-> "mint_herald", kid |-> kid, proof |-> p,
                          op |-> op, req |-> req, at |-> now])
           /\ UNCHANGED <<lastNow, credVars, proofs, operations, audit, executed>>
           /\ controlFrame
        \/ /\ replayPath \/ (mintAllowed(kid, req) /\ ~req.who.herald)
           /\ mintTx(h, kid, p, op, req)

mintHeraldAnswers(h, obs) ==
  /\ handlers[h].pc = "mint_herald"
  /\ LET w == handlers[h]
     IN IF validateObservation(obs, w.at, FRESH_WINDOW)
          THEN mintTx(h, w.kid, w.proof, w.op, w.req)
          ELSE controlFrame /\ controlDeny(w.proof) /\ goIdle(h)

-----------------------------------------------------------------------------
\* The synchronous control routes

controlOp(kid, p, roles, op, body, mutator) ==
  /\ signedBy(kid, p) /\ unseen(p)
  /\ controlFrame /\ UNCHANGED handlers
  /\ \/ controlDeny(p)
     \/ /\ controlGate(kid, p, roles)
        /\ \/ replayOperation(kid, p, op, body)
           \/ mutator /\ saveOperation(kid, p, op, body, 0)

knownTarget(kind, id) ==
  \/ kind = "token" /\ tokens[id].state # "NONE"
  \/ kind = "task" /\ tasks[id].state # "NONE"
  \/ kind = "signing_key" /\ keys[id].state # "NONE"
  \/ /\ kind = "subject"
     /\ \/ id \in policy.body.principals
        \/ \E i \in TaskId : tasks[i].state # "NONE" /\ tasks[i].who.sub = id
        \/ \E t \in TokenId : tokens[t].state # "NONE" /\ tokens[t].who.sub = id

revokeRow(row, hit) == IF hit /\ row.state = "ACTIVE"
                         THEN [row EXCEPT !.state = "REVOKED"] ELSE row

\* A second revocation of a target is answered from its tombstone.
revokeMutator(kind, id) ==
  /\ knownTarget(kind, id)
  /\ UNCHANGED <<policy, activeKid, lastToken>>
  /\ \/ /\ revocation(kind, id)
        /\ UNCHANGED <<tasks, tokens, keys, revocations, audit>>
     \/ /\ ~revocation(kind, id)
        /\ revocations' = revocations \cup {<<kind, id>>}
        /\ tokens' = [t \in TokenId |->
             revokeRow(tokens[t], kind = "token" /\ t = id)]
        /\ tasks' = [i \in TaskId |->
             revokeRow(tasks[i], \/ kind = "task" /\ i = id
                                 \/ kind = "subject" /\ tasks[i].state # "NONE"
                                      /\ tasks[i].who.sub = id)]
        /\ keys' = [k \in Kid |->
             IF /\ kind = "signing_key" /\ k = id
                /\ keys[k].state \in {"ACTIVE", "VERIFY_ONLY"}
               THEN [keys[k] EXCEPT !.state = "COMPROMISED"] ELSE keys[k]]
        /\ appendEvent({<<"revocation.applied", <<kind, id>>>>})

handleRevoke(kid, p, op, target) ==
  controlOp(kid, p, {"operator"}, op, <<"revoke", target>>,
            revokeMutator(target[1], target[2]))

\* Compare and swap on the revision.
policyMutator(expected, body) ==
  /\ expected = policy.revision
  /\ policy.revision < MaxRevision
  /\ policy' = [revision |-> expected + 1, body |-> body]
  /\ appendEvent({<<"policy.applied", expected + 1>>})
  /\ UNCHANGED <<tasks, tokens, keys, activeKid, revocations, lastToken>>

handlePolicy(kid, p, op, expected, body) ==
  controlOp(kid, p, {"operator"}, op, <<"policy", expected, body>>,
            policyMutator(expected, body))

\* A COMPROMISED key stays COMPROMISED.
demoted(row) == IF row.state = "ACTIVE"
                  THEN [row EXCEPT !.state = "VERIFY_ONLY"] ELSE row

rotateMutator(expected, new) ==
  /\ expected = activeKid
  /\ keys[new].state = "NONE"
  /\ keys' = [keys EXCEPT
       ![activeKid] = demoted(keys[activeKid]),
       ![new] = [state |-> "ACTIVE", last_exp |-> 0]]
  /\ activeKid' = new
  /\ appendEvent({<<"key.rotated", new>>})
  /\ UNCHANGED <<policy, tasks, tokens, revocations, lastToken>>

handleRotate(kid, p, op, expected, new) ==
  controlOp(kid, p, {"operator"}, op, <<"rotate", expected, new>>,
            rotateMutator(expected, new))

\* What POST /inspect reports of a token.
derivedTokenState(t) ==
  IF \/ tokens[t].state = "REVOKED"
     \/ revocation("token", t)
     \/ revocation("task", tokens[t].task)
     \/ revocation("subject", tokens[t].who.sub)
     \/ revocation("signing_key", tokens[t].kid)
     \/ keys[tokens[t].kid].state = "COMPROMISED"
    THEN "REVOKED"
    ELSE IF now >= tokens[t].exp THEN "EXPIRED"
    ELSE IF tokens[t].policy # policy THEN "POLICY_STALE" ELSE "ACTIVE"

\* The reads change no authority state beyond their proof, the clock and a
\* read event, and keep no operation.
controlRead(kid, p, roles, found, event) ==
  /\ signedBy(kid, p) /\ unseen(p)
  /\ controlFrame /\ UNCHANGED <<handlers, credVars, operations>>
  /\ \/ deny(p) /\ UNCHANGED executed
     \/ /\ controlGate(kid, p, roles)
        /\ found
        /\ execute(p) /\ bumpNow(now) /\ appendEvent({event})

handleInspect(kid, p, t) ==
  controlRead(kid, p, {"minter", "auditor"},
              /\ tokens[t].state # "NONE"
              /\ \/ "auditor" \in Controls[kid].roles
                 \/ tokens[t].who.sub \in Controls[kid].subjects,
              <<"inspect.read", t>>)

handleAudit(kid, p) ==
  controlRead(kid, p, {"auditor"}, TRUE, <<"audit.read", kid>>)
=============================================================================
