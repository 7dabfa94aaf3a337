------------------------------ MODULE ByteStream ------------------------------
(***************************************************************************)
(* What a protocol handler of the hub may expect of a connection: the      *)
(* bytes the client wrote, in order, none missing and none twice, an end   *)
(* of stream only after the last of them, and to be the handler that the   *)
(* very first byte calls for.  Module Listener implements this.            *)
(***************************************************************************)
EXTENDS Naturals, Sequences

CONSTANTS Bytes, HandshakeByte, BraceByte   \* 0x16 begins a TLS record, '{' a
                                            \* ClientMessage in JSON
VARIABLES
    raw,        \* the port has a handler for raw TCP
    sent,       \* what the client wrote
    closed,     \* the client will write no more
    handler,    \* who serves the connection
    got,        \* what the handler has read
    ended       \* the handler has met the end of the stream

vars == <<raw, sent, closed, handler, got, ended>>

Handlers == {"tls", "raw", "http"}

HandlerOf(b) ==
    IF b = HandshakeByte THEN "tls"
    ELSE IF b = BraceByte /\ raw THEN "raw" ELSE "http"

Init ==
    /\ raw \in BOOLEAN
    /\ sent = << >> /\ got = << >>
    /\ closed = FALSE /\ ended = FALSE
    /\ handler = "none"

Write(b) ==
    /\ ~closed
    /\ sent' = Append(sent, b)
    /\ UNCHANGED <<raw, closed, handler, got, ended>>

Close ==
    /\ ~closed
    /\ closed' = TRUE
    /\ UNCHANGED <<raw, sent, handler, got, ended>>

Dispatch ==
    /\ handler = "none" /\ sent # << >>
    /\ handler' = HandlerOf(sent[1])
    /\ UNCHANGED <<raw, sent, closed, got, ended>>

(* A connection may be given up, but not once a handler has it.             *)
Drop ==
    /\ handler = "none"
    /\ handler' = "dropped"
    /\ UNCHANGED <<raw, sent, closed, got, ended>>

Read(n) ==
    /\ handler \in Handlers /\ ~ended
    /\ Len(got) < n /\ n <= Len(sent)
    /\ got' = SubSeq(sent, 1, n)
    /\ UNCHANGED <<raw, sent, closed, handler, ended>>

End ==
    /\ handler \in Handlers
    /\ closed /\ got = sent
    /\ ended' = TRUE
    /\ UNCHANGED <<raw, sent, closed, handler, got>>

Next ==
    \/ \E b \in Bytes : Write(b)
    \/ \E n \in 1 .. Len(sent) : Read(n)
    \/ Close \/ Dispatch \/ Drop \/ End

Spec == Init /\ [][Next]_vars
=============================================================================
