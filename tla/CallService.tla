---------------------------- MODULE CallService ----------------------------
(***************************************************************************)
(* What the authority promises about tool calls, with credentials, time    *)
(* and storage taken away: what a client of /calls, /nonces and /results   *)
(* may rely on.  A call is admitted at most once until its task is over, a *)
(* destructive call only by using up an open nonce issued for it; an       *)
(* admitted call is dispatched then or never; it ends once; and a call of  *)
(* which a success is answered has succeeded and is never said to have     *)
(* ended otherwise.                                                        *)
(***************************************************************************)
EXTENDS Naturals

CONSTANTS Call, Destructive, NonceId

VARIABLES
  fate,       \* what is known of a call; GONE: dispatched and forgotten
  dispatches, \* how often a call was handed to an adapter
  open,       \* open nonces, each with the call it was issued for
  issued,     \* the nonces ever issued
  told        \* the endings ever answered to a caller

serviceVars == <<fate, dispatches, open, issued, told>>

Terminal == {"SUCCEEDED", "FAILED", "UNKNOWN", "OUTPUT_BLOCKED"}
Fate == {"NONE", "DISPATCHING", "GONE"} \cup Terminal

Init ==
  /\ fate = [c \in Call |-> "NONE"]
  /\ dispatches = [c \in Call |-> 0]
  /\ open = {} /\ issued = {} /\ told = {}

\* The adapter is invoked with the admission, or the process dies in between.
Admit(c) ==
  /\ fate[c] = "NONE" /\ dispatches[c] = 0
  /\ fate' = [fate EXCEPT ![c] = "DISPATCHING"]
  /\ dispatches' \in {dispatches, [dispatches EXCEPT ![c] = @ + 1]}
  /\ UNCHANGED issued

AdmitPlain(c) == c \notin Destructive /\ Admit(c) /\ UNCHANGED open
AdmitWith(c, x) == <<x, c>> \in open /\ Admit(c) /\ open' = open \ {<<x, c>>}

\* Some calls under way end, all alike.  Only a dispatched call ends otherwise
\* than UNKNOWN, and none succeeds of which an ending was answered.
Settle(ended, state) ==
  /\ \A c \in ended : fate[c] = "DISPATCHING"
  /\ state # "UNKNOWN" => \A c \in ended : dispatches[c] > 0
  /\ state = "SUCCEEDED" => \A a \in told : a[1] \notin ended
  /\ fate' = [c \in Call |-> IF c \in ended THEN state ELSE fate[c]]
  /\ UNCHANGED <<dispatches, open, issued>>

\* A new nonce; expired ones may be closed with it.
Issue(x, c, closed) ==
  /\ x \notin issued
  /\ issued' = issued \cup {x}
  /\ open' = (open \ closed) \cup {<<x, c>>}
  /\ UNCHANGED <<fate, dispatches>>

\* Retention: calls are forgotten and nonces closed.
Retire(forgotten, closed) ==
  /\ fate' = [c \in Call |-> IF c \notin forgotten THEN fate[c]
                             ELSE IF dispatches[c] > 0 THEN "GONE" ELSE "NONE"]
  /\ open' = open \ closed
  /\ UNCHANGED <<dispatches, issued>>

\* Endings are answered as they are.  The end of a dispatched call may also be
\* answered and not recorded, or recorded as UNKNOWN, but never a success.
Answers ==
  /\ told \subseteq told' /\ told' \subseteq Call \X Terminal
  /\ \A a \in told' \ told :
       \/ a[2] = fate'[a[1]]
       \/ /\ a[2] # "SUCCEEDED" /\ dispatches'[a[1]] > 0
          /\ fate'[a[1]] \in {"DISPATCHING", "UNKNOWN"}

Next ==
  /\ \/ \E c \in Call :
          \/ AdmitPlain(c)
          \/ \E x \in NonceId : AdmitWith(c, x)
          \/ \E x \in NonceId, closed \in SUBSET open : Issue(x, c, closed)
     \/ \E ended \in SUBSET Call, state \in Terminal : Settle(ended, state)
     \/ \E forgotten \in SUBSET Call, closed \in SUBSET open : Retire(forgotten, closed)
  /\ Answers

Spec == Init /\ [][Next]_serviceVars
=============================================================================
