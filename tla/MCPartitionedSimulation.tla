----------------------- MODULE MCPartitionedSimulation -----------------------
EXTENDS PartitionedSimulation

\* Fast enough to cross an edge, and standing still.
MCSpeeds == {-128, 0, 128}

=============================================================================
