--------------------------- MODULE MC_Ohci ----------------------------------
EXTENDS Ohci
=============================================================================
