-------------------------- MODULE MCHttpConnection --------------------------
EXTENDS HttpConnectionProofs, TLC

MCChunks == {<<"h">>, <<"k">>, <<"c">>, <<"b">>, <<"k", "h">>}

\* For liveness: a request that is not complete, and one that is; the handler may
\* close after it, as the other symbols would.
MCLiveChunks == {<<"h">>, <<"k">>}

Slots == Permutations(Conns) \cup Permutations(Recvs) \cup Permutations(Timers) \cup Permutations(Writes)
         \cup Permutations(Fds)
=============================================================================
