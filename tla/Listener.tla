------------------------------- MODULE Listener -------------------------------
(***************************************************************************)
(* One connection to a port of the hub: serve_one takes the first byte     *)
(* from the socket to tell TLS, raw TCP and HTTP apart, and hands the      *)
(* socket on as a PrefixedStream, which returns that byte first.           *)
(*                                                                         *)
(* The kernel's receive buffer is `inbox`.  Handlers are external: they    *)
(* read with buffers of any size and may stop reading.  The write half is  *)
(* passed through and left out, as is what TLS makes of the bytes.         *)
(***************************************************************************)
EXTENDS Naturals, Sequences

CONSTANTS Bytes, HandshakeByte, BraceByte,
          MaxBytes      \* bound: bytes the client writes

ASSUME BytesAssumption == HandshakeByte \in Bytes /\ BraceByte \in Bytes
ASSUME MaxAssumption   == MaxBytes \in Nat

VARIABLES
    raw,            \* serve_auto_tls_with_raw was given a handler for raw TCP
    inbox, closed,  \* the socket: received bytes, and the client's FIN
    pc,             \* of serve_one
    prefix, pos,    \* PrefixedStream.prefix, a Cursor
    handler, got, ended,
    sent            \* history: everything the client wrote

socket   == <<inbox, closed>>
stream   == <<prefix, pos>>
observed == <<handler, got, ended>>
vars     == <<raw, socket, pc, stream, observed, sent>>

-----------------------------------------------------------------------------
Handlers == {"tls", "raw", "http"}

ListenerTypeOK ==
    /\ raw \in BOOLEAN
    /\ inbox \in Seq(Bytes)
    /\ closed \in BOOLEAN
    /\ pc \in {"readable", "try_read", "serving", "returned"}
    /\ prefix \in Seq(Bytes)
    /\ pos \in 0 .. Len(prefix)
    /\ handler \in Handlers \cup {"none", "dropped"}
    /\ got \in Seq(Bytes)
    /\ ended \in BOOLEAN
    /\ sent \in Seq(Bytes)

Init ==
    /\ raw \in BOOLEAN
    /\ inbox = << >> /\ closed = FALSE
    /\ pc = "readable"
    /\ prefix = << >> /\ pos = 0
    /\ handler = "none" /\ got = << >> /\ ended = FALSE
    /\ sent = << >>

-----------------------------------------------------------------------------
(* The client.                                                              *)

ClientWrites(b) ==
    /\ ~closed
    /\ Len(sent) < MaxBytes
    /\ inbox' = Append(inbox, b)
    /\ sent' = Append(sent, b)
    /\ UNCHANGED <<raw, closed, pc, stream, observed>>

ClientCloses ==
    /\ ~closed
    /\ closed' = TRUE
    /\ UNCHANGED <<raw, inbox, pc, stream, observed, sent>>

-----------------------------------------------------------------------------
(* serve_one.                                                               *)

(* stream.readable().await: something came in, or the stream ended, or the  *)
(* readiness is spurious, which tokio allows.                               *)
Readable ==
    /\ pc = "readable"
    /\ pc' = "try_read"
    /\ UNCHANGED <<raw, socket, stream, observed, sent>>

HandlerOf(b) ==
    IF b = HandshakeByte THEN "tls"
    ELSE IF b = BraceByte /\ raw THEN "raw" ELSE "http"

(* try_read into a buffer of one byte.                                      *)
TryRead ==
    /\ pc = "try_read"
    /\ inbox # << >>
    /\ inbox' = Tail(inbox)
    /\ prefix' = <<Head(inbox)>> /\ pos' = 0
    /\ handler' = HandlerOf(Head(inbox))
    /\ pc' = "serving"
    /\ UNCHANGED <<raw, closed, got, ended, sent>>

(* Mutant of TryReadNothing: it is tried again, also at the end.            *)
TryReadNothingAgain ==
    /\ pc = "try_read"
    /\ inbox = << >>
    /\ pc' = "readable"
    /\ UNCHANGED <<raw, socket, stream, observed, sent>>

(* Zero bytes: the client closed.  Or WouldBlock, which is not tried again: *)
(* either way the connection is closed.                                     *)
TryReadNothing ==
    /\ pc = "try_read"
    /\ inbox = << >>
    /\ handler' = "dropped"
    /\ pc' = "returned"
    /\ UNCHANGED <<raw, socket, stream, got, ended, sent>>

-----------------------------------------------------------------------------
(* PrefixedStream::poll_read, with room for `size` bytes.                   *)

SmallerOf(m, n) == IF m < n THEN m ELSE n

(* Mutants of ReadPrefix: the position of the cursor is not set; or set by  *)
(* the size of the buffer.                                                  *)
ReadPrefixAgain(size) ==
    /\ pc = "serving"
    /\ pos < Len(prefix)
    /\ LET len == SmallerOf(size, Len(prefix) - pos) IN
       got' = got \o SubSeq(prefix, pos + 1, pos + len)
    /\ UNCHANGED <<raw, socket, pc, stream, handler, ended, sent>>

ReadPrefixOverruns(size) ==
    /\ pc = "serving"
    /\ pos < Len(prefix)
    /\ LET len == SmallerOf(size, Len(prefix) - pos) IN
       got' = got \o SubSeq(prefix, pos + 1, pos + len)
    /\ pos' = pos + size
    /\ UNCHANGED <<raw, socket, pc, prefix, handler, ended, sent>>

ReadPrefix(size) ==
    /\ pc = "serving"
    /\ pos < Len(prefix)
    /\ LET len == SmallerOf(size, Len(prefix) - pos) IN
       /\ got' = got \o SubSeq(prefix, pos + 1, pos + len)
       /\ pos' = pos + len
    /\ UNCHANGED <<raw, socket, pc, prefix, handler, ended, sent>>

ReadInner(size) ==
    /\ pc = "serving"
    /\ pos >= Len(prefix)
    /\ inbox # << >>
    /\ LET len == SmallerOf(size, Len(inbox)) IN
       /\ got' = got \o SubSeq(inbox, 1, len)
       /\ inbox' = SubSeq(inbox, len + 1, Len(inbox))
    /\ UNCHANGED <<raw, closed, pc, stream, handler, ended, sent>>

(* Mutant of ReadEnd: an empty socket passes for a closed one.              *)
ReadEndEarly ==
    /\ pc = "serving"
    /\ pos >= Len(prefix)
    /\ inbox = << >>
    /\ ended' = TRUE
    /\ pc' = "returned"
    /\ UNCHANGED <<raw, socket, stream, handler, got, sent>>

ReadEnd ==
    /\ pc = "serving"
    /\ pos >= Len(prefix)
    /\ inbox = << >> /\ closed
    /\ ended' = TRUE
    /\ pc' = "returned"
    /\ UNCHANGED <<raw, socket, stream, handler, got, sent>>

(* The handler is through before the end: an error, or a protocol's own end.*)
HandlerReturns ==
    /\ pc = "serving"
    /\ pc' = "returned"
    /\ UNCHANGED <<raw, socket, stream, observed, sent>>

-----------------------------------------------------------------------------
ServeStep ==
    \/ Readable \/ TryRead \/ TryReadNothing
    \/ \E size \in 1 .. MaxBytes : ReadPrefix(size) \/ ReadInner(size)
    \/ ReadEnd

Next ==
    \/ \E b \in Bytes : ClientWrites(b)
    \/ ClientCloses
    \/ ServeStep
    \/ HandlerReturns

Spec == Init /\ [][Next]_vars

(* The task is polled, and a handler that has not returned keeps reading.   *)
FairSpec == Spec /\ WF_vars(ServeStep)

-----------------------------------------------------------------------------
(* Properties.                                                              *)

(* Between the socket and the handler nothing is lost, repeated or          *)
(* reordered: what was read, what the PrefixedStream still holds and what   *)
(* the socket holds make up what the client wrote.                          *)
NothingLost ==
    got \o SubSeq(prefix, pos + 1, Len(prefix)) \o inbox = sent

(* Until the first byte is taken nobody has the connection, and whoever has *)
(* it reads on until serve_one returns.  Part of the inductive invariant.   *)
InHands ==
    /\ pc \in {"readable", "try_read"} =>
         handler = "none" /\ prefix = << >> /\ pos = 0 /\ got = << >> /\ ~ended
    /\ pc = "serving" => handler \in Handlers /\ ~ended

ListenerInv == ListenerTypeOK /\ NothingLost /\ InHands

(* The handlers see the connection as module ByteStream promises: the       *)
(* detection of the protocol does not show, whatever sizes they read with.  *)
Promise == INSTANCE ByteStream
             WITH raw <- raw, sent <- sent, closed <- closed,
                  handler <- handler, got <- got, ended <- ended
PromiseSpec == Promise!Spec

(* A client that has closed its side has, in the end, been read to the last *)
(* byte, unless the handler returned before or there was nothing to detect. *)
ReadOut == closed ~> (pc = "returned" /\ (ended => got = sent))
=============================================================================
