------------------------ MODULE MCFederatedPresence -------------------------
EXTENDS FederatedPresence
=============================================================================
