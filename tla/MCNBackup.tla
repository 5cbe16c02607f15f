---------------------------- MODULE MCNBackup ----------------------------
\* Two processes with one thread each, as the Classic server has them, or one
\* process with two threads, as the SuperServer.
EXTENDS NBackup

CONSTANTS p1, p2, t1, t2

TwoHomes == [t \in {t1, t2} |-> IF t = t1 THEN p1 ELSE p2]
OneHome == [t \in {t1, t2} |-> p1]

\* All steps in which the AST of a master has nothing to lose.
QuietSpec == Init /\ [][Next /\ MastersQuiet]_vars
=============================================================================
