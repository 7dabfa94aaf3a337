---------------------------- MODULE ListenerProofs ----------------------------
(***************************************************************************)
(* Proofs about module Listener, for any bytes the client may write and    *)
(* any sizes the handlers read with: ListenerInv is inductive, and the     *)
(* listener implements the byte stream that module ByteStream describes.   *)
(***************************************************************************)
EXTENDS Listener, SequenceTheorems, TLAPS

(* A read takes no more than there is, and at least one byte of it.         *)
LEMMA SmallerOfRange ==
    ASSUME NEW size \in Nat \ {0}, NEW n \in Nat \ {0}
    PROVE  SmallerOf(size, n) \in 1 .. n
BY DEF SmallerOf

(* The elements m .. q of a sequence, which a read takes, and what it leaves *)
(* make up the sequence from m on.                                          *)
LEMMA ReadSplits ==
    ASSUME NEW s \in Seq(Bytes), NEW m \in Nat \ {0}, NEW q \in Nat,
           m <= q, q <= Len(s)
    PROVE  /\ SubSeq(s, m, q) \in Seq(Bytes)
           /\ Len(SubSeq(s, m, q)) = q - m + 1
           /\ SubSeq(s, q + 1, Len(s)) \in Seq(Bytes)
           /\ SubSeq(s, m, q) \o SubSeq(s, q + 1, Len(s)) = SubSeq(s, m, Len(s))
<1>1. Len(s) \in Nat /\ \A i \in 1 .. Len(s) : s[i] \in Bytes
  BY LenProperties, ElementOfSeq
<1>2. SubSeq(s, m, q) \in Seq(Bytes) /\ Len(SubSeq(s, m, q)) = q - m + 1
  <2>1. \A i \in m .. q : s[i] \in Bytes
    BY <1>1
  <2> QED BY <2>1, SubSeqProperties
<1>3. SubSeq(s, q + 1, Len(s)) \in Seq(Bytes)
  <2>1. \A i \in q + 1 .. Len(s) : s[i] \in Bytes
    BY <1>1
  <2>2. q + 1 \in Int /\ Len(s) \in Int
    BY <1>1
  <2> QED BY <2>1, <2>2, SubSeqProperties
<1>4. SubSeq(s, m, q) \o SubSeq(s, q + 1, Len(s)) = SubSeq(s, m, Len(s))
  <2>1. m \in 1 .. Len(s) + 1 /\ q \in m - 1 .. Len(s) /\ Len(s) \in q .. Len(s)
    BY <1>1
  <2> QED BY <2>1, ConcatAdjacentSubSeq
<1> QED BY <1>2, <1>3, <1>4

(* The first part of a sequence is a prefix of it.                          *)
LEMMA PrefixOfConcat ==
    ASSUME NEW s \in Seq(Bytes), NEW t \in Seq(Bytes)
    PROVE  Len(s) <= Len(s \o t) /\ SubSeq(s \o t, 1, Len(s)) = s
<1>1. Len(s) \in Nat /\ Len(t) \in Nat /\ Len(s \o t) = Len(s) + Len(t)
  BY LenProperties, ConcatProperties
<1>2. CASE s = << >>
  <2>1. Len(s) = 0
    BY <1>2, EmptySeq
  <2>2. SubSeq(s \o t, 1, Len(s)) = << >>
    BY <2>1, SubSeqEmpty
  <2> QED BY <1>1, <1>2, <2>1, <2>2
<1>3. CASE s # << >>
  <2>1. Len(s) \in Nat \ {0}
    BY <1>3, EmptySeq
  <2>2. SubSeq(s \o t, 1, Len(s)) = SubSeq(s, 1, Len(s))
    BY <2>1, SubSeqOfConcat1
  <2>3. SubSeq(s, 1, Len(s)) = s
    BY SubSeqFull
  <2> QED BY <1>1, <2>2, <2>3
<1> QED BY <1>2, <1>3

(* What is left of the prefix.                                              *)
Rest == SubSeq(prefix, pos + 1, Len(prefix))

(* What is left of a sequence after a position is a sequence of bytes.      *)
LEMMA RestOfSeq ==
    ASSUME NEW s \in Seq(Bytes), NEW p \in 0 .. Len(s)
    PROVE  SubSeq(s, p + 1, Len(s)) \in Seq(Bytes)
<1>1. Len(s) \in Nat /\ \A i \in 1 .. Len(s) : s[i] \in Bytes
  BY LenProperties, ElementOfSeq
<1>2. \A i \in p + 1 .. Len(s) : s[i] \in Bytes
  BY <1>1
<1>3. p + 1 \in Int /\ Len(s) \in Int
  BY <1>1
<1> QED BY <1>2, <1>3, SubSeqProperties

(* The bytes of the prefix not yet replayed are a sequence of bytes.        *)
LEMMA RestIsSeq == ASSUME ListenerTypeOK PROVE Rest \in Seq(Bytes)
BY RestOfSeq DEF ListenerTypeOK, Rest

(* A read that returns `new` and leaves `rest` of what was ahead.           *)
LEMMA ReadKeeps ==
    ASSUME NEW a \in Seq(Bytes), NEW new \in Seq(Bytes), NEW rest \in Seq(Bytes)
    PROVE  (a \o new) \o rest = a \o (new \o rest)
BY ConcatAssociative, ConcatProperties

(* The initial states satisfy the inductive invariant.                      *)
LEMMA InitInv == Init => ListenerInv
<1> SUFFICES ASSUME Init PROVE ListenerInv
  OBVIOUS
<1>1. << >> \in Seq(Bytes) /\ Len(<< >>) = 0
  BY EmptySeq
<1>2. /\ inbox = << >> /\ prefix = << >> /\ got = << >> /\ sent = << >>
      /\ pos = 0 /\ pos \in 0 .. 0
  BY DEF Init
<1>3. ListenerTypeOK
  BY <1>1, <1>2 DEF Init, ListenerTypeOK
<1>4. InHands
  BY DEF Init, InHands
<1>5. NothingLost
  <2>1. SubSeq(prefix, pos + 1, Len(prefix)) = << >>
    BY <1>1, <1>2, SubSeqEmpty
  <2>2. << >> \o << >> = << >>
    BY <1>1, ConcatEmptySeq
  <2> QED BY <1>2, <2>1, <2>2 DEF NothingLost
<1> QED BY <1>3, <1>4, <1>5 DEF ListenerInv

-----------------------------------------------------------------------------
(* One lemma per action that moves bytes.                                   *)

(* Bytes that arrive keep it.                                               *)
LEMMA WriteStep ==
    ASSUME ListenerInv, NEW b \in Bytes, ClientWrites(b) PROVE ListenerInv'
<1> USE DEF ListenerInv
<1>1. inbox' \in Seq(Bytes) /\ sent' \in Seq(Bytes)
  BY AppendProperties DEF ListenerTypeOK, ClientWrites
<1>2. ListenerTypeOK'
  BY <1>1 DEF ListenerTypeOK, ClientWrites, stream, observed
<1>3. NothingLost'
  <2>0. Rest \in Seq(Bytes) /\ got \in Seq(Bytes) /\ inbox \in Seq(Bytes)
        /\ sent \in Seq(Bytes) /\ <<b>> \in Seq(Bytes)
    BY RestIsSeq DEF ListenerTypeOK
  <2>1. inbox' = inbox \o <<b>> /\ sent' = sent \o <<b>>
    BY <2>0, AppendIsConcat DEF ClientWrites
  <2>2. (got \o Rest) \o (inbox \o <<b>>) = ((got \o Rest) \o inbox) \o <<b>>
    BY <2>0, ConcatAssociative, ConcatProperties
  <2>3. (got \o Rest) \o inbox = sent
    BY DEF NothingLost, Rest
  <2>4. got' = got /\ Rest' = Rest
    BY DEF ClientWrites, stream, observed, Rest
  <2>5. NothingLost' <=> (got' \o Rest') \o inbox' = sent'
    BY DEF NothingLost, Rest
  <2> QED BY <2>1, <2>2, <2>3, <2>4, <2>5
<1>4. InHands'
  BY DEF InHands, ClientWrites, stream, observed
<1> QED BY <1>2, <1>3, <1>4

(* The read that detects the protocol keeps it.                             *)
LEMMA TryReadStep ==
    ASSUME ListenerInv, TryRead
    PROVE  ListenerInv' /\ sent # << >> /\ Head(inbox) = sent[1]
<1> USE DEF ListenerInv
<1> DEFINE b == Head(inbox)
<1>1. inbox \in Seq(Bytes) /\ inbox # << >> /\ prefix = << >> /\ pos = 0 /\ got = << >>
  BY DEF TryRead, ListenerTypeOK, InHands
<1>2. b \in Bytes /\ Tail(inbox) \in Seq(Bytes) /\ <<b>> \in Seq(Bytes)
  BY <1>1, HeadTailProperties
<1>3. inbox = sent
  <2>1. Len(prefix) = 0
    BY <1>1, EmptySeq
  <2>2. SubSeq(prefix, pos + 1, Len(prefix)) = << >>
    BY <1>1, <2>1, SubSeqEmpty
  <2> QED BY <1>1, <2>2, ConcatEmptySeq, EmptySeq DEF NothingLost
<1>4. Len(inbox) \in Nat \ {0} /\ Head(inbox) = inbox[1]
  BY <1>1, EmptySeq
<1>5. inbox = <<b>> \o Tail(inbox)
  <2>1. 1 \in 1 .. Len(inbox) /\ Len(inbox) \in 1 .. Len(inbox)
    BY <1>4
  <2>2. SubSeq(inbox, 1, Len(inbox)) = <<inbox[1]>> \o SubSeq(inbox, 1 + 1, Len(inbox))
    BY <1>1, <2>1, SubSeqRecursiveFirst
  <2>3. Tail(inbox) = SubSeq(inbox, 2, Len(inbox))
    BY <1>1, TailIsSubSeq
  <2>4. SubSeq(inbox, 1, Len(inbox)) = inbox
    BY <1>1, SubSeqFull
  <2> QED BY <2>2, <2>3, <2>4, <1>4
<1>6. prefix' = <<b>> /\ pos' = 0 /\ inbox' = Tail(inbox) /\ got' = got /\ sent' = sent
  BY DEF TryRead
<1>7. Len(<<b>>) = 1
  OBVIOUS
<1>8. ListenerTypeOK'
  BY <1>2, <1>6, <1>7 DEF ListenerTypeOK, TryRead, HandlerOf, Handlers
<1>9. NothingLost'
  <2>1. SubSeq(prefix', pos' + 1, Len(prefix')) = prefix'
    <3>1. SubSeq(<<b>>, 1, Len(<<b>>)) = <<b>>
      BY <1>2, SubSeqFull
    <3> QED BY <3>1, <1>6
  <2>2. << >> \o <<b>> = <<b>>
    BY <1>2, ConcatEmptySeq
  <2>3. (got' \o SubSeq(prefix', pos' + 1, Len(prefix'))) \o inbox'
          = <<b>> \o Tail(inbox)
    BY <1>1, <1>6, <2>1, <2>2
  <2> QED BY <1>3, <1>5, <1>6, <2>3 DEF NothingLost
<1>10. InHands'
  BY DEF InHands, TryRead, HandlerOf, Handlers
<1> QED BY <1>1, <1>3, <1>4, <1>8, <1>9, <1>10

(* A read from the prefix keeps it.                                         *)
LEMMA ReadPrefixStep ==
    ASSUME ListenerInv, NEW size \in Nat \ {0}, ReadPrefix(size)
    PROVE  ListenerInv' /\ Len(got') > Len(got)
<1> USE DEF ListenerInv
<1> DEFINE len  == SmallerOf(size, Len(prefix) - pos)
           new  == SubSeq(prefix, pos + 1, pos + len)
           rest == SubSeq(prefix, pos + len + 1, Len(prefix))
<1>0. /\ prefix \in Seq(Bytes) /\ pos \in 0 .. Len(prefix) /\ pos < Len(prefix)
      /\ got \in Seq(Bytes) /\ inbox \in Seq(Bytes) /\ Len(prefix) \in Nat
  BY LenProperties DEF ListenerTypeOK, ReadPrefix
<1>1. /\ len \in 1 .. Len(prefix) - pos
      /\ new \in Seq(Bytes) /\ Len(new) = len
      /\ rest \in Seq(Bytes)
      /\ new \o rest = SubSeq(prefix, pos + 1, Len(prefix))
  <2>1. len \in 1 .. Len(prefix) - pos
    <3>1. Len(prefix) - pos \in Nat \ {0}
      BY <1>0
    <3> QED BY <3>1, SmallerOfRange
  <2> HIDE DEF len
  <2>2. /\ pos + 1 \in Nat \ {0} /\ pos + len \in Nat
        /\ pos + 1 <= pos + len /\ pos + len <= Len(prefix)
        /\ (pos + len) - (pos + 1) + 1 = len
    BY <1>0, <2>1
  <2> QED BY <1>0, <2>1, <2>2, ReadSplits
<1>2. /\ got' = got \o new /\ pos' = pos + len
      /\ prefix' = prefix /\ inbox' = inbox /\ sent' = sent
  BY DEF ReadPrefix, socket
<1> HIDE DEF new, len, rest
<1>3. got' \in Seq(Bytes) /\ Len(got') = Len(got) + len /\ Len(got) \in Nat
  BY <1>0, <1>1, <1>2, ConcatProperties, LenProperties
<1>4. pos' \in 0 .. Len(prefix')
  BY <1>0, <1>1, <1>2
<1>5. ListenerTypeOK'
  BY <1>2, <1>3, <1>4 DEF ListenerTypeOK, ReadPrefix, socket
<1>6. NothingLost'
  <2>1. SubSeq(prefix', pos' + 1, Len(prefix')) = rest
    BY <1>2 DEF rest
  <2>2. (got \o new) \o rest = got \o (new \o rest)
    BY <1>0, <1>1, ReadKeeps
  <2>3. (got' \o SubSeq(prefix', pos' + 1, Len(prefix'))) \o inbox'
          = (got \o SubSeq(prefix, pos + 1, Len(prefix))) \o inbox
    BY <1>1, <1>2, <2>1, <2>2
  <2> QED BY <1>2, <2>3 DEF NothingLost
<1>7. InHands'
  BY DEF InHands, ReadPrefix
<1>8. Len(got') > Len(got)
  BY <1>1, <1>3
<1> QED BY <1>5, <1>6, <1>7, <1>8

(* A read from the connection keeps it.                                     *)
LEMMA ReadInnerStep ==
    ASSUME ListenerInv, NEW size \in Nat \ {0}, ReadInner(size)
    PROVE  ListenerInv' /\ Len(got') > Len(got)
<1> USE DEF ListenerInv
<1> DEFINE len  == SmallerOf(size, Len(inbox))
           new  == SubSeq(inbox, 1, len)
           rest == SubSeq(inbox, len + 1, Len(inbox))
<1>0. /\ inbox \in Seq(Bytes) /\ inbox # << >> /\ got \in Seq(Bytes)
      /\ Len(inbox) \in Nat \ {0}
  BY EmptySeq DEF ListenerTypeOK, ReadInner
<1>1. /\ len \in 1 .. Len(inbox)
      /\ new \in Seq(Bytes) /\ Len(new) = len
      /\ rest \in Seq(Bytes)
      /\ new \o rest = SubSeq(inbox, 1, Len(inbox))
  <2>1. len \in 1 .. Len(inbox)
    BY <1>0, SmallerOfRange
  <2> HIDE DEF len
  <2>2. len \in Nat /\ 1 <= len /\ len <= Len(inbox) /\ len - 1 + 1 = len
    BY <1>0, <2>1
  <2> QED BY <1>0, <2>1, <2>2, ReadSplits
<1>3. /\ got' = got \o new /\ inbox' = rest
      /\ prefix' = prefix /\ pos' = pos /\ sent' = sent
  BY DEF ReadInner, stream
<1> HIDE DEF new, len, rest
<1>4. got' \in Seq(Bytes) /\ Len(got') = Len(got) + len /\ Len(got) \in Nat
  BY <1>0, <1>1, <1>3, ConcatProperties, LenProperties
<1>5. ListenerTypeOK'
  BY <1>1, <1>3, <1>4 DEF ListenerTypeOK, ReadInner, stream
<1>6. NothingLost'
  <2>0. pos >= Len(prefix) /\ pos \in Nat /\ Len(prefix) \in Nat
    BY LenProperties DEF ReadInner, ListenerTypeOK
  <2>1. SubSeq(prefix, pos + 1, Len(prefix)) = << >>
    BY <2>0, SubSeqEmpty
  <2>2. inbox = new \o rest
    BY <1>0, <1>1, SubSeqFull
  <2>3. got \o << >> = got /\ (got \o new) \o << >> = got \o new
    BY <1>0, <1>3, <1>4, ConcatEmptySeq
  <2>4. (got \o new) \o rest = got \o (new \o rest)
    BY <1>0, <1>1, ReadKeeps
  <2>5. (got' \o SubSeq(prefix', pos' + 1, Len(prefix'))) \o inbox'
          = (got \o SubSeq(prefix, pos + 1, Len(prefix))) \o inbox
    BY <1>3, <2>1, <2>2, <2>3, <2>4
  <2> QED BY <1>3, <2>5 DEF NothingLost
<1>7. InHands'
  BY DEF InHands, ReadInner
<1>8. Len(got') > Len(got)
  BY <1>1, <1>4
<1> QED BY <1>5, <1>6, <1>7, <1>8

(* The steps that move no byte.                                             *)
LEMMA QuietStep ==
    ASSUME ListenerInv,
           \/ ClientCloses \/ Readable \/ TryReadNothing \/ ReadEnd
           \/ HandlerReturns \/ UNCHANGED vars
    PROVE  ListenerInv'
<1> USE DEF ListenerInv, ClientCloses, Readable, TryReadNothing, ReadEnd,
            HandlerReturns, vars, socket, stream, observed
<1>1. ListenerTypeOK'
  BY DEF ListenerTypeOK
<1>2. NothingLost'
  BY DEF NothingLost
<1>3. InHands'
  BY DEF InHands, ListenerTypeOK
<1> QED BY <1>1, <1>2, <1>3

(* Every step keeps the inductive invariant.                                *)
LEMMA InvStep == ListenerInv /\ [Next]_vars => ListenerInv'
<1> SUFFICES ASSUME ListenerInv, [Next]_vars PROVE ListenerInv'
  OBVIOUS
<1>1. \A size \in 1 .. MaxBytes : size \in Nat \ {0}
  BY MaxAssumption
<1> QED
  BY <1>1, WriteStep, TryReadStep, ReadPrefixStep, ReadInnerStep, QuietStep
  DEF Next, ServeStep

(* Nothing is lost, repeated or reordered between the socket and the        *)
(* handler, and every variable keeps its type.                              *)
THEOREM ListenerInvariance == Spec => []ListenerInv
BY InitInv, InvStep, PTL DEF Spec

(* Every variable of a connection keeps its type.                           *)
THEOREM ListenerTypes == Spec => []ListenerTypeOK
<1>1. ListenerInv => ListenerTypeOK
  BY DEF ListenerInv
<1> QED BY <1>1, ListenerInvariance, PTL

(* What was read, what the PrefixedStream still holds and what the socket   *)
(* holds make up what the client wrote.                                     *)
THEOREM NoByteLost == Spec => []NothingLost
<1>1. ListenerInv => NothingLost
  BY DEF ListenerInv
<1> QED BY <1>1, ListenerInvariance, PTL

-----------------------------------------------------------------------------
(* The first of three parts of a sequence is a prefix of it.                *)
LEMMA FirstOfThree ==
    ASSUME NEW a \in Seq(Bytes), NEW b \in Seq(Bytes), NEW c \in Seq(Bytes)
    PROVE  LET s == (a \o b) \o c IN Len(a) <= Len(s) /\ SubSeq(s, 1, Len(a)) = a
<1>1. (a \o b) \o c = a \o (b \o c)
  BY ConcatAssociative, ConcatProperties
<1>2. b \o c \in Seq(Bytes)
  BY ConcatProperties
<1> QED BY <1>1, <1>2, PrefixOfConcat

(* A read that returned something is a Read of the byte stream.             *)
LEMMA ReadIsRead ==
    ASSUME ListenerInv, ListenerInv', pc = "serving",
           UNCHANGED <<raw, sent, closed, handler, ended>>, Len(got') > Len(got)
    PROVE  Promise!Next
<1>1. /\ got' \in Seq(Bytes) /\ inbox' \in Seq(Bytes) /\ sent' \in Seq(Bytes)
      /\ got \in Seq(Bytes)
  BY DEF ListenerInv, ListenerTypeOK
<1>2. Rest' \in Seq(Bytes)
  <2>1. ListenerTypeOK'
    BY DEF ListenerInv
  <2>2. prefix' \in Seq(Bytes) /\ pos' \in 0 .. Len(prefix')
    BY <2>1 DEF ListenerTypeOK
  <2>3. SubSeq(prefix', pos' + 1, Len(prefix')) \in Seq(Bytes)
    BY <2>2, RestOfSeq
  <2> QED BY <2>3 DEF Rest
<1>3. sent' = (got' \o Rest') \o inbox'
  BY DEF ListenerInv, NothingLost, Rest
<1>4. Len(got') <= Len(sent') /\ got' = SubSeq(sent', 1, Len(got'))
  BY <1>1, <1>2, <1>3, FirstOfThree
<1>5. Len(got) \in Nat /\ Len(got') \in Nat /\ Len(sent) \in Nat
  BY <1>1, LenProperties
<1>6. Len(got') \in 1 .. Len(sent) /\ Len(got) < Len(got') /\ sent' = sent
  BY <1>4, <1>5
<1>7. handler \in Promise!Handlers /\ ~ended
  BY DEF ListenerInv, InHands, Handlers, Promise!Handlers
<1>8. Promise!Read(Len(got'))
  BY <1>4, <1>6, <1>7 DEF Promise!Read
<1> QED BY <1>6, <1>8 DEF Promise!Next

(* The initial states are initial states of ByteStream.                     *)
LEMMA PromiseInit == Init => Promise!Init
BY DEF Init, Promise!Init

(* Every step of the listener is a step of the byte stream or none.         *)
LEMMA PromiseStep ==
    ASSUME ListenerInv, [Next]_vars PROVE [Promise!Next]_(Promise!vars)
<1> USE DEF Promise!vars
<1>0. ListenerInv'
  BY InvStep
<1>1. ASSUME NEW b \in Bytes, ClientWrites(b) PROVE Promise!Next
  BY <1>1 DEF ClientWrites, observed, Promise!Next, Promise!Write
<1>2. CASE ClientCloses
  BY <1>2 DEF ClientCloses, observed, Promise!Next, Promise!Close
<1>3. CASE Readable
  BY <1>3 DEF Readable, observed, socket
<1>4. CASE TryRead
  <2>1. sent # << >> /\ Head(inbox) = sent[1]
    BY <1>4, TryReadStep
  <2>2. handler' = Promise!HandlerOf(sent[1])
    BY <1>4, <2>1 DEF TryRead, HandlerOf, Promise!HandlerOf
  <2>3. handler = "none"
    BY <1>4 DEF TryRead, ListenerInv, InHands
  <2> QED BY <1>4, <2>1, <2>2, <2>3 DEF TryRead, Promise!Next, Promise!Dispatch
<1>5. CASE TryReadNothing
  BY <1>5 DEF TryReadNothing, ListenerInv, InHands, socket, Promise!Next, Promise!Drop
<1>6. ASSUME NEW size \in 1 .. MaxBytes, ReadPrefix(size) PROVE Promise!Next
  <2>1. size \in Nat \ {0}
    BY MaxAssumption
  <2>2. Len(got') > Len(got)
    BY <1>6, <2>1, ReadPrefixStep
  <2> QED BY <1>0, <1>6, <2>2, ReadIsRead DEF ReadPrefix, socket
<1>7. ASSUME NEW size \in 1 .. MaxBytes, ReadInner(size) PROVE Promise!Next
  <2>1. size \in Nat \ {0}
    BY MaxAssumption
  <2>2. Len(got') > Len(got)
    BY <1>7, <2>1, ReadInnerStep
  <2> QED BY <1>0, <1>7, <2>2, ReadIsRead DEF ReadInner
<1>8. CASE ReadEnd
  <2>1. /\ got \in Seq(Bytes) /\ inbox = << >> /\ pos \in Nat
        /\ prefix \in Seq(Bytes) /\ pos >= Len(prefix)
    BY <1>8 DEF ReadEnd, ListenerInv, ListenerTypeOK
  <2>2. Len(prefix) \in Nat
    BY <2>1, LenProperties
  <2>3. SubSeq(prefix, pos + 1, Len(prefix)) = << >>
    BY <2>1, <2>2, SubSeqEmpty
  <2>4. got = sent
    BY <2>1, <2>3, ConcatEmptySeq DEF ListenerInv, NothingLost
  <2>5. handler \in Promise!Handlers
    BY <1>8 DEF ReadEnd, ListenerInv, InHands, Handlers, Promise!Handlers
  <2> QED
    BY <1>8, <2>4, <2>5 DEF ReadEnd, socket, Promise!Next, Promise!End
<1>9. CASE HandlerReturns
  BY <1>9 DEF HandlerReturns, observed, socket
<1>10. CASE UNCHANGED vars
  BY <1>10 DEF vars, observed, socket
<1> QED
  BY <1>1, <1>2, <1>3, <1>4, <1>5, <1>6, <1>7, <1>8, <1>9, <1>10
  DEF Next, ServeStep

(* The listener implements the byte stream: the detection of the protocol   *)
(* does not show, whatever sizes the handler reads with.                    *)
THEOREM ListenerRefines == Spec => PromiseSpec
<1>1. Init => Promise!Init
  BY PromiseInit
<1>2. ListenerInv /\ [Next]_vars => [Promise!Next]_(Promise!vars)
  BY PromiseStep
<1> QED BY <1>1, <1>2, ListenerInvariance, PTL DEF Spec, PromiseSpec, Promise!Spec

=============================================================================
