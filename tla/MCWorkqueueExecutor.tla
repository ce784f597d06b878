------------------------ MODULE MCWorkqueueExecutor ------------------------
\* Two tasks, the first spawned from outside and the second by a poll of the
\* first, as the HTTP server's accept loop spawns its connections.
EXTENDS WorkqueueExecutor

CONSTANTS accept, conn

MCTasks == {accept, conn}
MCParent == [t \in MCTasks |-> IF t = conn THEN accept ELSE NoParent]
=============================================================================
