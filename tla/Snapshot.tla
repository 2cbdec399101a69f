------------------------------ MODULE Snapshot ------------------------------
(***************************************************************************)
(* Maintenance mode, exportSnapshot() and restoreSnapshot(), composed with *)
(* the TenantAuthority.  Maintenance mode is a flag in memory that only    *)
(* the gateway's ingress looks at, so a handler that is suspended at an    *)
(* await carries on through a restore.                                     *)
(*                                                                         *)
(* The model keeps the latest snapshot.  It holds every table, the audit   *)
(* log and the tombstones included.  A restore also forgets proofs, so a   *)
(* request that is delivered again commits again: MaxCommits bounds how    *)
(* often, and 1 stands for a request that is not delivered twice.          *)
(***************************************************************************)
EXTENDS TenantAuthority

CONSTANT MaxCommits \* times the request of each proof may commit

VARIABLES
  maintenanceMode,
  snapshot,     \* the sealed dump, or NoSnapshot
  cutover,      \* observation: tokens handed out before the last restore
  acknowledged, \* observation: every target a revocation was ever written for
  lost          \* observation: the commits per proof and the dispatches per
                \* call that restores have taken out of the tables

snapVars == <<maintenanceMode, snapshot, cutover, acknowledged, lost>>
allVars == <<vars, snapVars>>

NoSnapshot == [tables |-> FALSE]

SInit ==
  /\ Init
  /\ maintenanceMode = FALSE
  /\ snapshot = NoSnapshot
  /\ cutover = 0
  /\ acknowledged = {}
  /\ lost = [executed |-> [p \in Proof |-> 0], dispatches |-> [c \in Call |-> 0]]

\* What the tables have a history of.
kept == [executed |-> [p \in Proof |-> executed[p] - lost.executed[p]],
         dispatches |-> [c \in Call |-> dispatches[c] - lost.dispatches[c]]]

-----------------------------------------------------------------------------
\* Requests, as the ingress lets them through

\* /results, /revoke, /inspect and /audit pass during maintenance.
ReadOrRevoke ==
  \E p \in Proof :
    \/ \E t \in TokenId, i \in CallId : handleResult(t, p, i)
    \/ \E kid \in ControlKid :
         \/ \E op \in OpId, target \in Target : handleRevoke(kid, p, op, target)
         \/ \E t \in TokenId : handleInspect(kid, p, t)
         \/ handleAudit(kid, p)

Ingress == IF maintenanceMode THEN ReadOrRevoke
                              ELSE AgentRequest \/ ControlRequest

\* A step of the authority, with the observations that go with it.
AuthorityStep ==
  /\ \/ phys <= LastRequest /\ Ingress
     \/ Answer
     \/ tick \/ StepBack
     \/ Recover \/ Maintain
  /\ \A p \in Proof : executed'[p] <= MaxCommits[p]
  /\ acknowledged' = acknowledged \cup revocations'
  /\ UNCHANGED <<maintenanceMode, snapshot, cutover, lost>>

\* A restart clears the flag along with the handlers.
restart ==
  /\ maintenanceMode \/ \E h \in Handler : handlers[h] # Idle
  /\ handlers' = [h \in Handler |-> Idle]
  /\ maintenanceMode' = FALSE
  /\ UNCHANGED <<phys, lastNow, credVars, callVars, proofs, operations, audit,
                 obsVars, executed, snapshot, cutover, acknowledged, lost>>

-----------------------------------------------------------------------------
\* The operator's methods

setMaintenance(on) ==
  /\ maintenanceMode # on
  /\ maintenanceMode' = on
  /\ UNCHANGED <<vars, snapshot, cutover, acknowledged, lost>>

enterMaintenance == setMaintenance(TRUE)
exitMaintenance  == setMaintenance(FALSE)

exportSnapshot ==
  /\ snapshot' = [tables |-> TRUE, lastNow |-> lastNow, policy |-> policy,
                  tasks |-> tasks, tokens |-> tokens, keys |-> keys,
                  activeKid |-> activeKid, revocations |-> revocations,
                  proofs |-> proofs, operations |-> operations,
                  nonces |-> nonces, calls |-> calls, audit |-> audit,
                  kept |-> kept]
  /\ UNCHANGED <<vars, maintenanceMode, cutover, acknowledged, lost>>

liveInSnapshot == {i \in TaskId : snapshot.tasks[i].state = "ACTIVE"}

\* Faulty forms: live tasks keep their state (OldTokensDead); last_now goes
\* back to that of the snapshot (ClockForward).
cutTasks_Kept == /\ tasks' = snapshot.tasks
                 /\ revocations' = snapshot.revocations
cutClock_Rewound(n) == n \in Nat /\ lastNow' = snapshot.lastNow

\* Faulty form (SnapshotTypeOK): the columns kind and reason are swapped.
cutTasks_Swapped ==
  /\ tasks' = [i \in TaskId |->
       IF i \in liveInSnapshot
         THEN [snapshot.tasks[i] EXCEPT !.state = "REVOKED"]
         ELSE snapshot.tasks[i]]
  /\ revocations' = snapshot.revocations
                       \cup ({"operator_request"} \X liveInSnapshot)

\* Faulty form (InspectAgrees): live tasks are revoked without a tombstone.
cutTasks_NoTombstone ==
  /\ tasks' = [i \in TaskId |->
       IF i \in liveInSnapshot
         THEN [snapshot.tasks[i] EXCEPT !.state = "REVOKED"]
         ELSE snapshot.tasks[i]]
  /\ revocations' = snapshot.revocations

\* Every task that was live in the snapshot is revoked and gets a tombstone.
cutTasks ==
  /\ tasks' = [i \in TaskId |->
       IF i \in liveInSnapshot
         THEN [snapshot.tasks[i] EXCEPT !.state = "REVOKED"]
         ELSE snapshot.tasks[i]]
  /\ revocations' = snapshot.revocations \cup ({"task"} \X liveInSnapshot)

\* now() is read before the tables are replaced and written back after.
cutClock(n) == lastNow' = IF n > snapshot.lastNow THEN n ELSE snapshot.lastNow

\* Faulty forms: table operations stays empty (MintJournalled); the log is not
\* among the tables that are replaced (OneEnding).
restoreRows_NoJournal(new) ==
  /\ policy' = snapshot.policy /\ tokens' = snapshot.tokens
  /\ proofs' = snapshot.proofs
  /\ operations' = [o \in DOMAIN operations |-> NoRow]
  /\ nonces' = snapshot.nonces /\ calls' = snapshot.calls
  /\ audit' = snapshot.audit \cup {<<"storage.migrated", new>>}
restoreRows_OldLog(new) ==
  /\ policy' = snapshot.policy /\ tokens' = snapshot.tokens
  /\ proofs' = snapshot.proofs /\ operations' = snapshot.operations
  /\ nonces' = snapshot.nonces /\ calls' = snapshot.calls
  /\ audit' = audit \cup {<<"storage.migrated", new>>}

\* Faulty form (RemembersOnce): table proofs stays empty.
restoreRows_NoProofs(new) ==
  /\ policy' = snapshot.policy /\ tokens' = snapshot.tokens
  /\ proofs' = [p \in Proof |-> 0] /\ operations' = snapshot.operations
  /\ nonces' = snapshot.nonces /\ calls' = snapshot.calls
  /\ audit' = snapshot.audit \cup {<<"storage.migrated", new>>}

\* The rows of every other table are deleted and those of the snapshot
\* inserted; the cutover is an event of the restored log.
restoreRows(new) ==
  /\ policy' = snapshot.policy /\ tokens' = snapshot.tokens
  /\ proofs' = snapshot.proofs /\ operations' = snapshot.operations
  /\ nonces' = snapshot.nonces /\ calls' = snapshot.calls
  /\ audit' = snapshot.audit \cup {<<"storage.migrated", new>>}

\* The tables become those of the snapshot, except for the tasks and for the
\* signing keys: the active key is drained and a new one takes its place.
restoreSnapshot(new) ==
  /\ maintenanceMode
  /\ snapshot # NoSnapshot
  /\ snapshot.keys[new].state = "NONE"
  /\ cutTasks
  /\ cutClock(now)
  /\ keys' = [snapshot.keys EXCEPT
       ![snapshot.activeKid] = demoted(snapshot.keys[snapshot.activeKid]),
       ![new] = [state |-> "ACTIVE", last_exp |-> 0]]
  /\ activeKid' = new
  /\ restoreRows(new)
  /\ cutover' = lastToken
  /\ lost' = [executed |-> [p \in Proof |-> executed[p] - snapshot.kept.executed[p]],
              dispatches |-> [c \in Call |-> dispatches[c] - snapshot.kept.dispatches[c]]]
  /\ UNCHANGED <<phys, lastToken, lastNonce, handlers, obsVars, executed,
                 maintenanceMode, snapshot, acknowledged>>

Restore == \E new \in Kid : restoreSnapshot(new)

SNext ==
  \/ AuthorityStep
  \/ restart
  \/ enterMaintenance \/ exitMaintenance
  \/ exportSnapshot
  \/ Restore

SSpec == SInit /\ [][SNext]_allVars

-----------------------------------------------------------------------------
\* Properties

History == [executed : [Proof -> Int], dispatches : [Call -> Int]]

DumpType ==
  /\ snapshot.lastNow \in 0 .. MaxTime
  /\ snapshot.policy \in PolicyRow
  /\ snapshot.tasks \in [TaskId -> TaskRow \cup {NoRow}]
  /\ snapshot.tokens \in [TokenId -> TokenRow \cup {NoRow}]
  /\ snapshot.keys \in [Kid -> KeyRow \cup {NoRow}]
  /\ snapshot.activeKid \in Kid
  /\ snapshot.revocations \in SUBSET Target
  /\ snapshot.proofs \in [Proof -> Nat]
  /\ snapshot.operations \in [ControlKid \X OpId -> OperationRow \cup {NoRow}]
  /\ snapshot.nonces \in [NonceId -> NonceRow \cup {NoRow}]
  /\ snapshot.calls \in [CallId -> CallRow \cup {NoRow}]
  /\ snapshot.kept \in History

\* The authority's tables keep their types through restores, and a snapshot
\* has the types of the tables it dumps.
SnapshotTypeOK ==
  /\ TypeOK
  /\ maintenanceMode \in BOOLEAN
  /\ cutover \in 0 .. MaxToken
  /\ acknowledged \in SUBSET Target
  /\ lost \in History
  /\ snapshot # NoSnapshot => DumpType

\* "restore does not resurrect authority" (tests/vectors.test.ts, TV-L-61): a
\* token minted before the cutover is never live again, whichever snapshot
\* was restored, whatever was suspended at an await meanwhile, and however
\* often tasks are minted afterwards.
OldTokensDead == \A t \in TokenId : t <= cutover => ~credentialLive(t)

\* The authority's clock never runs back, not even when the snapshot is older:
\* what has been expired or purged by it stays so.
ClockForward == [][lastNow' >= lastNow]_allVars

\* Replay protection and one-shot dispatch through restores, with proofs in
\* flight, handlers suspended and calls under way: a restore may let happen
\* again what was done after the snapshot was taken, and nothing else.  What
\* the tables have a history of happened once, and they still stop it: the
\* proof is seen or past its window, the call has its row or a task that is over.
RemembersOnce ==
  /\ \A p \in Proof :
       /\ kept.executed[p] <= 1
       /\ kept.executed[p] = 1 => proofSeen(p) \/ ~inWindow(p)
  /\ \A c \in Call :
       /\ kept.dispatches[c] <= 1
       /\ kept.dispatches[c] = 1 =>
            \/ calls[c.id].state # "NONE" /\ calls[c.id].call = c
            \/ tasks[c.task].state # "NONE" /\ tasks[c.task].exp <= now

\* README: "Durable tombstones for token, subject, task, and key revocation",
\* and the comment on restoreSnapshot: "tombstones retained".  Taken at their
\* word, no token is live that an acknowledged revocation covers.  The restore
\* replaces table revocations by the one in the snapshot, so a revocation
\* written after the snapshot was taken is gone.
RevocationIsDurable ==
  \A t \in TokenId : credentialLive(t) =>
    {<<"token", t>>, <<"task", tokens[t].task>>, <<"subject", tokens[t].who.sub>>,
     <<"signing_key", tokens[t].kid>>} \cap acknowledged = {}
=============================================================================
