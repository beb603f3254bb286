----------------------------- MODULE MCApiProxy -----------------------------
EXTENDS ApiProxy

CONSTANTS h1, h2

Rm == [name |-> "Bash", input |-> "rm"]
Ls == [name |-> "Bash", input |-> "token=x"]
Use(c) == [type |-> "tool_use", call |-> c]

MCText   == {"bad", "token=x"}
MCSecret == {"token=x", "bad"}
MCSecretAtEnd == {"token=x"}
MCReply  == {<<TextBlock("done")>>,
             <<[type |-> "thinking", text |-> "hm"], Use(Ls), Use(Rm)>>}
Control  == [enabled |-> TRUE, block |-> {"bad"}, gate |-> TRUE, tools |-> {Rm}]
MCPolicy == {Control, [Control EXCEPT !.enabled = FALSE]}
Threads  == Permutations(Handler)
=============================================================================
