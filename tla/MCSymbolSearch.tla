--------------------------- MODULE MCSymbolSearch ---------------------------
EXTENDS SymbolSearch
=============================================================================
