----------------------------- MODULE MCSnapshot -----------------------------
(***************************************************************************)
(* Instances of the authority with snapshots and restores.                 *)
(***************************************************************************)
EXTENDS Snapshot, TLC

CONSTANTS CallerJti, ControlJti \* proof ids of the agent and of the operator

SnapSymmetry == Permutations(OpId) \cup Permutations(CallerJti)
                  \cup Permutations(ControlJti)

SnapProof ==
  {[kind |-> "caller", signer |-> "k", jti |-> j, iat |-> 0] : j \in CallerJti}
    \cup {[kind |-> "control", signer |-> "op", jti |-> j, iat |-> 0] :
            j \in ControlJti}

\* The agent's request may reach the authority again after a restore.
SnapCommits == [p \in SnapProof |-> IF p.kind = "caller" THEN 2 ELSE 1]
SnapCommitsOnce == [p \in SnapProof |-> 1]

SnapRead == [id |-> "c1", task |-> "t1", tool |-> "documents.read", args |-> 1]
SnapOperator == "op" :> [roles |-> {"minter", "operator"}, subjects |-> {"u"}]
SnapPolicyOf(mode) ==
  [principals |-> {"u"}, granted |-> "u" :> {SnapRead}, max_ttl |-> "u" :> 9,
   herald |-> "u" :> mode, hard_deny |-> {}]
SnapMintOf(bound) ==
  [task |-> "t1", who |-> [sub |-> "u", jkt |-> "k", herald |-> bound],
   ttl |-> 2, scopes |-> {SnapRead}]

SnapCall == {SnapRead}
SnapBound == SnapPolicyOf("required")
SnapUnbound == SnapPolicyOf("disabled")
SnapBoundPolicy == {SnapBound}
SnapUnboundPolicy == {SnapUnbound}
SnapBoundMint == {SnapMintOf(TRUE)}
SnapUnboundMint == {SnapMintOf(FALSE)}
SnapCard == {[status |-> "active", checked_at |-> 0, valid_until |-> 2]}
=============================================================================
