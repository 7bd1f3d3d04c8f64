-------------------------- MODULE MCServerAccounts --------------------------
EXTENDS ServerAccounts
=============================================================================
