---------------------------- MODULE MCMameBridge ----------------------------
EXTENDS MameBridge

=============================================================================
