------------------------ MODULE MCClientConnection ------------------------
EXTENDS ClientConnection, TLC
=============================================================================
