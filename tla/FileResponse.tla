----------------------------- MODULE FileResponse -----------------------------
(***************************************************************************)
(* What a connection relies on when it answers a request with a file: one  *)
(* outcome, reported once.  The response is complete only when the client  *)
(* has been given an error reply, or a head and all the bytes that its     *)
(* Content-Length promises; otherwise it fails, and the connection closes. *)
(***************************************************************************)
EXTENDS Naturals

CONSTANT NoHead    \* no head of a file has been written

VARIABLES
    promised,      \* the Content-Length of the head that was written, or NoHead
    delivered,     \* bytes of the body given to the client
    outcome        \* "pending", "complete" or "failed"

vars == <<promised, delivered, outcome>>

Init == promised = NoHead /\ delivered = 0 /\ outcome = "pending"

Head ==
    /\ outcome = "pending" /\ promised = NoHead
    /\ promised' \in Nat
    /\ outcome' \in {"pending", "failed"} \cup IF promised' = 0 THEN {"complete"} ELSE {}
    /\ UNCHANGED delivered

ErrorReply ==
    /\ outcome = "pending" /\ promised = NoHead
    /\ outcome' = "complete"
    /\ UNCHANGED <<promised, delivered>>

Body ==
    /\ outcome = "pending" /\ promised # NoHead
    /\ delivered' \in Nat
    /\ delivered < delivered' /\ delivered' <= promised
    /\ UNCHANGED <<promised, outcome>>

Complete ==
    /\ outcome = "pending" /\ promised # NoHead /\ delivered = promised
    /\ outcome' = "complete"
    /\ UNCHANGED <<promised, delivered>>

Fail ==
    /\ outcome = "pending"
    /\ outcome' = "failed"
    /\ UNCHANGED <<promised, delivered>>

Next == Head \/ ErrorReply \/ Body \/ Complete \/ Fail

Spec == Init /\ [][Next]_vars

=============================================================================
