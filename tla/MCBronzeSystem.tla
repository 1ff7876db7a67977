--------------------------- MODULE MCBronzeSystem ---------------------------
EXTENDS BronzeSystem
CONSTANTS v1, i1
MCValid == {v1}
MCInvalid == {i1}
=============================================================================
