--------------------------- MODULE MCCoordination ---------------------------
EXTENDS Coordination

\* One project with two tickets, one of which may wait for the other, and
\* one or two rows of everything else.
Bounds == [projects |-> 1, tickets |-> 2, actors |-> 1, works |-> 2,
           leases |-> 2, attempts |-> 2, revisions |-> 1, reviews |-> 1,
           challenges |-> 1, episodes |-> 1, postmortems |-> 1, outcomes |-> 1]
=============================================================================
