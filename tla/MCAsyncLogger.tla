----------------------------- MODULE MCAsyncLogger -----------------------------
EXTENDS AsyncLogger, TLC

MCItems == Producers \X (1 .. MaxLogs)
MCConsumers == {Worker}
=============================================================================
