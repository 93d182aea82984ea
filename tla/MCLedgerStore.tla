--------------------------- MODULE MCLedgerStore ---------------------------
EXTENDS LedgerStore
=============================================================================
