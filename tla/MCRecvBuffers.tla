----------------------------- MODULE MCRecvBuffers -----------------------------
EXTENDS RecvBuffers
=============================================================================
