-------------------------- MODULE CollectorClaims ---------------------------
(* What the documentation and the comments say of the collector, where the   *)
(* code does something else.                                                 *)
EXTENDS MCCollector

VARIABLES
    late,       \* history: lines begun while the collector was holding
    flooded     \* history: lines first sent after they had been passed over

HInit == Init /\ late = {} /\ flooded = {}

HNext ==
    /\ Next
    /\ late' = late \cup
         {<<f, fs[f].gen, fs[f].size \div 2 + 1>> :
            f \in {g \in File : /\ pc = "hold"
                                /\ fs'[g].size = fs[g].size + 1
                                /\ fs[g].size % 2 = 0}}
    /\ flooded' = flooded \cup ((stored' \ stored) \cap skipped)

HSpec == HInit /\ [][HNext]_<<vars, late, flooded>>

\* "Existing files start at their end (no flood of the past); the past is fetched by
\* a backfill request": what the first run passes over is not sent unless somebody
\* asks for it, whenever the process is restarted.
PastStaysUnsent == cmds = 0 => flooded = {}

\* "The transcript stays on disk and the offset does not move, so that after the
\* key is ready it resumes without loss": nothing written during the hold is
\* passed over when the hold ends.
HoldLosesNothing == late \cap skipped = {}

\* "The deletion command is queued and carried out when that PC is online": a
\* deletion that is neither pending on the server nor in the collector's hands
\* has been carried out.  (For MaxGen = 1, where a path has one content only.)
InHand == gotDel \cup (IF pc \in {"read", "emit"} THEN job.del ELSE {})
DeletionCarriedOut ==
    \A s \in asked \ (delReq \cup InHand) : FilesOf(s) \cap Discovered = {}
=============================================================================
