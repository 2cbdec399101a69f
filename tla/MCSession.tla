----------------------------- MODULE MCSession -----------------------------
(***************************************************************************)
(* Two invocations at a time and two calls, one of them destructive.       *)
(***************************************************************************)
EXTENDS Session

\* Both shims on one handle, or two invocations of one program.
SessionUsers == {[a |-> "mcp", b |-> "openai"], [a |-> "program", b |-> "program"]}

\* The two tool calls differ in kind, and a program makes one call twice.
SessionCallsOf == [mcp |-> {"delete"}, openai |-> {"read"}, program |-> {"delete"}]

SessionCfg == [origin |-> "o", tenant_id |-> "t", gateway_id |-> "g", controls |-> {}]
SessionOpts == [origin |-> "o", tenant_id |-> "t", key |-> "k"]
SessionToken == [kid |-> "s", by |-> "s", iss |-> "g", aud |-> <<"o", "t">>,
                 iat |-> 0, nbf |-> 0, exp |-> 60, jkt |-> "k"]
=============================================================================
