--------------------------- MODULE MCOsExecAudit ----------------------------
(* A Claude process and what it starts: a tool with a helper, a second        *)
(* Claude, and a denied console host, below which nothing counts.             *)
EXTENDS OsExecAudit, TLC
CONSTANTS claude, tool, helper, inner, console, pager

Parents == (claude :> NoProc) @@ (tool :> claude) @@ (helper :> tool)
           @@ (inner :> claude) @@ (console :> tool) @@ (pager :> console)
Sessions == (claude :> claude) @@ (tool :> claude) @@ (helper :> claude)
            @@ (inner :> inner) @@ (console :> NoProc) @@ (pager :> NoProc)
MCParent == [p \in Proc |-> Parents[p]]
MCSession == [p \in Proc |-> Sessions[p]]

\* "The cursor does not move: the next poll tries again (idempotent)": a failed write
\* costs nothing, whatever ended in its batch.
RetryIsIdempotent == \A c \in {cursor, disk.cursor} : MissedBy(c, forgotten) = {}
=============================================================================
