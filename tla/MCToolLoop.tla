----------------------------- MODULE MCToolLoop -----------------------------
EXTENDS ToolLoop

CONSTANTS r1, a1, a2, a3    \* model values

MCLimit == [t \in Tools |-> 2]
=============================================================================
