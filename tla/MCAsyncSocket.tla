--------------------------- MODULE MCAsyncSocket ---------------------------
EXTENDS AsyncSocket
=============================================================================
