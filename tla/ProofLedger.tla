---------------------------- MODULE ProofLedger ----------------------------
(***************************************************************************)
(* What the authority promises about signed proofs, with everything else   *)
(* taken away: a ledger of the proofs seen and one logical clock that      *)
(* never runs backwards.  A proof is refused or committed only while the   *)
(* ledger does not hold it, committed only within PROOF_LEEWAY of its iat, *)
(* and forgotten only when the clock has reached the end of its retention. *)
(***************************************************************************)
EXTENDS Integers

CONSTANTS Proof, PROOF_LEEWAY, PROOF_RETENTION,
          Time \* the seconds the clock can show

VARIABLES lastNow, proofs, executed

ledgerVars == <<lastNow, proofs, executed>>

Init ==
  /\ lastNow = 0
  /\ proofs = [p \in Proof |-> 0]
  /\ executed = [p \in Proof |-> 0]

\* The proof p is entered at second n, for PROOF_RETENTION from then on.
Enter(p, n) ==
  /\ n >= lastNow
  /\ proofs[p] = 0
  /\ proofs' = [proofs EXCEPT ![p] = n + PROOF_RETENTION]

Refuse(p, n) ==
  /\ Enter(p, n)
  /\ lastNow' = n
  /\ UNCHANGED executed

\* The request commits; a replayed reply does not move the clock.
Commit(p, n) ==
  /\ Enter(p, n)
  /\ n - p.iat <= PROOF_LEEWAY /\ p.iat - n <= PROOF_LEEWAY
  /\ executed' = [executed EXCEPT ![p] = @ + 1]
  /\ lastNow' \in {lastNow, n}

Forget(n) ==
  /\ proofs' = [p \in Proof |-> IF proofs[p] <= n THEN 0 ELSE proofs[p]]
  /\ lastNow' = IF n > lastNow THEN n ELSE lastNow
  /\ UNCHANGED executed

Advance(n) ==
  /\ n >= lastNow
  /\ lastNow' = n
  /\ UNCHANGED <<proofs, executed>>

Next ==
  \E n \in Time :
    \/ \E p \in Proof : Refuse(p, n) \/ Commit(p, n)
    \/ Forget(n)
    \/ Advance(n)

Spec == Init /\ [][Next]_ledgerVars
=============================================================================
