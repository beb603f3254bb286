---------------------------- MODULE MCCollector -----------------------------
(* Model-checking instances of Collector.                                    *)
EXTENDS Collector, TLC
CONSTANTS f1, f2, s1

OneSession == [f \in File |-> s1]
\* The second line of the first content of a file is one the database refuses.
SecondLineBad == {<<f1, 1, 2>>}
NoPoison == {}

\* Bound: a crash or a command, not both in one behaviour.
OneInterruption == crashes + cmds <= 1
=============================================================================
