----------------------------- MODULE MCValidation -----------------------------
EXTENDS Validation, Queries

\* Both ways along the line, and standing still.
MCSpeeds == {-384, 0, 128}

\* default_policies(), one of them twice.
MCComparison == <<"scripted", "goal_directed", "scripted", "local_avoidance">>

\* The world, with a right edge that float32 rounds outwards; a part of it, with
\* a left edge that it does, up to the wall; and a line beside a position.
MCViewports == {<<0, 2303>>, <<385, 2304>>, <<769, 769>>}

=============================================================================
