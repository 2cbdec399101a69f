-------------------------- MODULE MCTenantAuthority --------------------------
(***************************************************************************)
(* Instances of the TenantAuthority for TLC.  Times are scaled down; the   *)
(* order between the constants of core/clock.ts is kept where a run        *)
(* depends on it.                                                          *)
(***************************************************************************)
EXTENDS TenantAuthority, TLC

CONSTANTS CallerJti, ControlJti \* proof ids of the agent and of the operator

\* Requests differ only in their identity, so ids may be permuted.
Symmetry == Permutations(Handler) \cup Permutations(OpId)
              \cup Permutations(CallerJti) \cup Permutations(ControlJti)

SubU == "u"
Bound   == [sub |-> SubU, jkt |-> "k", herald |-> TRUE]
Unbound == [sub |-> SubU, jkt |-> "k", herald |-> FALSE]

ProofsAt(kind, signer, jtis, iat) ==
  {[kind |-> kind, signer |-> signer, jti |-> j, iat |-> iat] : j \in jtis}
MCProof == ProofsAt("caller", "k", CallerJti, 0)
             \cup ProofsAt("control", "op", ControlJti, 0)

Delete == [id |-> "c1", task |-> "t1", tool |-> "records.delete", args |-> 1]
Read   == [id |-> "c2", task |-> "t1", tool |-> "documents.read", args |-> 1]

Everyone == "op" :> [roles |-> {"minter", "operator", "auditor"},
                     subjects |-> {SubU}]
NoAuditor == "op" :> [roles |-> {"minter", "operator"}, subjects |-> {SubU}]
PolicyOf(mode, granted, denied) ==
  [principals |-> {SubU}, granted |-> SubU :> granted, max_ttl |-> SubU :> 9,
   herald |-> SubU :> mode, hard_deny |-> denied]

MintOf(task, who, ttl, scopes) ==
  [task |-> task, who |-> who, ttl |-> ttl, scopes |-> scopes]

\* Calls: one Herald-bound token, one destructive call.
CallsCall == {Delete}
CallsPolicy == {PolicyOf("required", {Delete}, {})}
CallsInit == PolicyOf("required", {Delete}, {})
CallsMint == {MintOf("t1", Bound, 3, {Delete})}
FreshAt0 == {[status |-> "active", checked_at |-> 0, valid_until |-> 3],
             [status |-> "revoked", checked_at |-> 0, valid_until |-> 3]}

BriefAt0 == {[status |-> "active", checked_at |-> 0, valid_until |-> 1]}

\* Clock: an unbound token and two reads that claim one call id, proofs signed at different seconds, a
\* clock that steps back and a maintenance that purges.
ClockProof == UNION {ProofsAt("caller", "k", {i}, i) : i \in {1, 2}}
                \cup ProofsAt("control", "op", ControlJti, 0)
Read2 == [Read EXCEPT !.args = 2]
ClockCall == {Read, Read2}
ClockPolicy == {PolicyOf("disabled", {Read, Read2}, {})}
ClockInit == PolicyOf("disabled", {Read, Read2}, {})
ClockMint == {MintOf("t1", Unbound, 2, {Read, Read2})}

\* Liveness: one unbound token, a read and two destructive calls.
Delete2 == [Delete EXCEPT !.id = "c3", !.args = 2]
LiveCall == {Read, Delete, Delete2}
LivePolicy == {PolicyOf("disabled", LiveCall, {})}
LiveInit == PolicyOf("disabled", LiveCall, {})
LiveMint == {MintOf("t1", Unbound, 2, LiveCall)}

\* Credentials: one read.
ReadCall == {Read}

\* Credentials: mints with and without a card under policies that require it
\* or not and grant more or less, a second signing key, revocations of every
\* kind, and maintenance.
CredProof == ProofsAt("control", "op", ControlJti, PROOF_LEEWAY)
CredPolicy == {PolicyOf("required", {Read}, {}), PolicyOf("disabled", {Read}, {})}
CredInit == PolicyOf("disabled", {Read}, {})
CredMint == {MintOf("t1", Unbound, 1, {Read}), MintOf("t1", Unbound, 2, {Read}),
             MintOf("t1", Bound, 2, {Read})}
CardAt0 == {[status |-> "active", checked_at |-> 0, valid_until |-> 2]}
=============================================================================
