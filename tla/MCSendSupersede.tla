--------------------------- MODULE MCSendSupersede ---------------------------
EXTENDS SendSupersede

CONSTANTS a, b

Two == {a, b}
=============================================================================
