------------------------------ MODULE MCChatTurn -----------------------------
\* Small instances of ChatTurn for TLC.
EXTENDS ChatTurn, TLC

\* The executions of finishStream are interchangeable.
Symmetry == Permutations(Finishers)
==============================================================================
