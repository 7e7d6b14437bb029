----------------------------- MODULE MCBulkhead -----------------------------
EXTENDS ProviderBulkhead
=============================================================================
