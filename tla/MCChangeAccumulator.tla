------------------------ MODULE MCChangeAccumulator ------------------------
(* TLC instance of ChangeAccumulator.                                      *)
EXTENDS ChangeAccumulator, TLC

CONSTANTS a, b, c, d, e

\* With MaxFiles = 3: batches of a part of the map, a full map, and one path more
\* than it accepts.
MCPaths == {a, b, c, d, e}
=============================================================================
