--------------------------- MODULE MCAstRegister ----------------------------
EXTENDS AstRegister

CONSTANTS a1, a2, k1, k2, short, other, long

MCPairs == {<<a1, k1>>, <<a2, k2>>}

\* The long uuid is cut to the short one.
MCReadBack == [u \in Uuids |-> IF u = long THEN short ELSE u]
=============================================================================
