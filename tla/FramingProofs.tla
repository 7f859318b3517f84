---------------------------- MODULE FramingProofs ----------------------------
(***************************************************************************)
(* Proofs about Framing, for all limits, all requests and all answers.     *)
(***************************************************************************)
EXTENDS Framing, SequenceTheorems, TLAPS

-----------------------------------------------------------------------------
(* Messages and their pieces.                                              *)

\* A slice of a sequence: its length and its elements.
LEMMA Slice ==
    ASSUME NEW s \in Seq(Bytes), NEW m \in 0..Len(s), NEW n \in m..Len(s)
    PROVE  /\ SubSeq(s, m + 1, n) \in Seq(Bytes)
           /\ Len(SubSeq(s, m + 1, n)) = n - m
           /\ \A i \in 1..(n - m) : SubSeq(s, m + 1, n)[i] = s[m + i]
<1>1. Len(s) \in Nat /\ m \in Nat /\ n \in Nat /\ m <= n
  BY LenProperties
<1>2. \A i \in (m + 1)..n : s[i] \in Bytes
  BY <1>1, ElementOfSeq
<1> DEFINE t == SubSeq(s, m + 1, n)
<1>3. /\ t \in Seq(Bytes)
      /\ Len(t) = IF m + 1 <= n THEN n - (m + 1) + 1 ELSE 0
      /\ \A i \in 1..(n - (m + 1) + 1) : t[i] = s[m + 1 + i - 1]
  BY <1>1, <1>2, SubSeqProperties
<1> HIDE DEF t
<1>4. Len(t) = n - m
  BY <1>1, <1>3
<1>5. ASSUME NEW i \in 1..(n - m)
      PROVE  t[i] = s[m + i]
  <2>1. i \in 1..(n - (m + 1) + 1) /\ m + 1 + i - 1 = m + i
    BY <1>1
  <2> QED
    BY <1>3, <2>1
<1>6. t \in Seq(Bytes) /\ Len(t) = n - m /\ \A i \in 1..(n - m) : t[i] = s[m + i]
  BY <1>3, <1>4, <1>5
<1> QED
  BY <1>6 DEF t

LEMMA Prefix ==
    ASSUME NEW s \in Seq(Bytes), NEW n \in 0..Len(s)
    PROVE  /\ SubSeq(s, 1, n) \in Seq(Bytes)
           /\ Len(SubSeq(s, 1, n)) = n
           /\ \A i \in 1..n : SubSeq(s, 1, n)[i] = s[i]
<1>1. Len(s) \in Nat /\ n \in Nat /\ 0 \in 0..Len(s) /\ n \in 0..Len(s) /\ 0 + 1 = 1 /\ n - 0 = n
  BY LenProperties
<1>2. /\ SubSeq(s, 0 + 1, n) \in Seq(Bytes) /\ Len(SubSeq(s, 0 + 1, n)) = n - 0
      /\ \A i \in 1..(n - 0) : SubSeq(s, 0 + 1, n)[i] = s[0 + i]
  BY <1>1, Slice
<1>3. \A i \in 1..n : 0 + i = i
  BY <1>1
<1> QED
  BY <1>1, <1>2, <1>3

\* The bytes of a message: the head, two newlines, the body.
LEMMA MessageBytes ==
    ASSUME NEW head \in Seq(Bytes), NEW body \in Seq(Bytes)
    PROVE  /\ Message(head, body) \in Seq(Bytes)
           /\ Len(Message(head, body)) = Len(head) + 2 + Len(body)
           /\ \A i \in 1..Len(Message(head, body)) :
                Message(head, body)[i] = IF i <= Len(head) THEN head[i]
                                         ELSE IF i <= Len(head) + 2 THEN "nl"
                                         ELSE body[i - (Len(head) + 2)]
<1>1. HeaderEnd \in Seq(Bytes) /\ Len(HeaderEnd) = 2 /\ HeaderEnd[1] = "nl" /\ HeaderEnd[2] = "nl"
  BY DEF HeaderEnd, Bytes
<1> DEFINE front == head \o HeaderEnd
<1>2. /\ front \in Seq(Bytes) /\ Len(front) = Len(head) + 2
      /\ \A i \in 1..(Len(head) + 2) : front[i] = IF i <= Len(head) THEN head[i] ELSE "nl"
  <2>1. /\ front \in Seq(Bytes) /\ Len(front) = Len(head) + Len(HeaderEnd)
        /\ \A i \in 1..(Len(head) + Len(HeaderEnd)) :
              front[i] = IF i <= Len(head) THEN head[i] ELSE HeaderEnd[i - Len(head)]
    BY <1>1, ConcatProperties
  <2>2. Len(head) \in Nat
    BY LenProperties
  <2>3. \A i \in 1..(Len(head) + 2) : ~(i <= Len(head)) => i - Len(head) \in {1, 2}
    BY <2>2
  <2> QED
    BY <1>1, <2>1, <2>2, <2>3
<1> HIDE DEF front
<1>3. /\ front \o body \in Seq(Bytes) /\ Len(front \o body) = Len(front) + Len(body)
      /\ \A i \in 1..(Len(front) + Len(body)) :
            (front \o body)[i] = IF i <= Len(front) THEN front[i] ELSE body[i - Len(front)]
  BY <1>2, ConcatProperties
<1>4. Message(head, body) = front \o body
  BY DEF Message, front
<1>5. Len(head) \in Nat /\ Len(body) \in Nat
  BY LenProperties
<1> QED
  BY <1>2, <1>3, <1>4, <1>5

\* b is the first n bytes of a message.
IsPiece(head, body, n, b) ==
    /\ IsHead(head) /\ body \in Seq(Bytes) /\ n \in 0..Len(Message(head, body))
    /\ b = SubSeq(Message(head, body), 1, n)

\* The end of the head is found as soon as both newlines are there, and it splits
\* the bytes into the head and the part of the body that is there.
SplitsAt(head, body, n, b) ==
    /\ b \in Seq(Bytes) /\ Len(b) = n
    /\ Complete(b) <=> Len(head) + 2 <= n
    /\ Len(head) + 2 <= n => /\ Before(b) = head
                             /\ After(b) = SubSeq(body, 1, n - (Len(head) + 2))

\* A message that has come in only in part is split in the right place.
LEMMA PieceOfMessage ==
    ASSUME NEW head, NEW body, NEW n, NEW b, IsPiece(head, body, n, b)
    PROVE  SplitsAt(head, body, n, b)
<1> USE DEF IsPiece
<1> DEFINE M == Message(head, body)
           h == Len(head)
<1>1. head \in Seq(Bytes) /\ h \in Nat \ {0} /\ Len(body) \in Nat /\ head[h] = "x"
  BY LenProperties, EmptySeq DEF IsHead
<1>2. /\ M \in Seq(Bytes) /\ Len(M) = h + 2 + Len(body)
      /\ \A i \in 1..Len(M) : M[i] = IF i <= h THEN head[i] ELSE IF i <= h + 2 THEN "nl"
                                     ELSE body[i - (h + 2)]
  BY <1>1, MessageBytes
<1> HIDE DEF M
<1>3. /\ b \in Seq(Bytes) /\ Len(b) = n
      /\ \A i \in 1..n : b[i] = M[i]
  <2>1. n \in 0..Len(M) /\ b = SubSeq(M, 1, n)
    BY DEF M
  <2> QED
    BY <1>2, <2>1, Prefix
<1>4. \A i \in EndsAt(b) : h + 1 <= i
  <2> SUFFICES ASSUME NEW i \in 1..(n - 1), b[i] = "nl", b[i + 1] = "nl", i <= h
               PROVE  FALSE
    BY <1>1, <1>3 DEF EndsAt
  <2>1. b[i] = head[i]
    BY <1>2, <1>3 DEF M
  <2>2. i < h /\ b[i + 1] = head[i + 1]
    BY <1>1, <1>2, <1>3, <2>1 DEF M
  <2> QED
    BY <1>1, <2>1, <2>2 DEF IsHead
<1>5. h + 2 <= n => h + 1 \in EndsAt(b)
  BY <1>1, <1>2, <1>3 DEF EndsAt, M
<1>6. Complete(b) <=> h + 2 <= n
  <2>1. ASSUME NEW i \in EndsAt(b)
        PROVE  h + 2 <= n
    BY <1>1, <1>3, <1>4, <2>1 DEF EndsAt
  <2> QED
    BY <1>5, <2>1 DEF Complete
<1>7. ASSUME h + 2 <= n
      PROVE  Before(b) = head /\ After(b) = SubSeq(body, 1, n - (h + 2))
  <2>1. FirstEnd(b) = h + 1
    <3>1. \A i \in EndsAt(b) : i \in Nat
      BY <1>3 DEF EndsAt
    <3>2. \A i \in EndsAt(b) : (\A j \in EndsAt(b) : i <= j) => i = h + 1
      BY <1>1, <1>4, <1>5, <1>7, <3>1
    <3>3. h + 1 \in EndsAt(b) /\ \A j \in EndsAt(b) : h + 1 <= j
      BY <1>4, <1>5, <1>7
    <3> QED
      BY <3>2, <3>3 DEF FirstEnd
  <2>2. Before(b) = SubSeq(b, 1, h) /\ After(b) = SubSeq(b, (h + 2) + 1, n)
    <3>1. FirstEnd(b) - 1 = h /\ FirstEnd(b) + 2 = (h + 2) + 1
      BY <1>1, <2>1
    <3> QED
      BY <1>3, <3>1 DEF Before, After
  <2>3. SubSeq(b, 1, h) = head
    <3>1. /\ SubSeq(b, 1, h) \in Seq(Bytes) /\ Len(SubSeq(b, 1, h)) = h
          /\ \A i \in 1..h : SubSeq(b, 1, h)[i] = b[i]
      <4>1. h \in 0..Len(b)
        BY <1>1, <1>3, <1>7
      <4> QED
        BY <1>3, <4>1, Prefix
    <3>2. \A i \in 1..h : b[i] = head[i]
      BY <1>1, <1>2, <1>3, <1>7 DEF M
    <3> QED
      BY <1>1, <3>1, <3>2, SeqEqual
  <2>4. SubSeq(b, (h + 2) + 1, n) = SubSeq(body, 1, n - (h + 2))
    <3> DEFINE l == n - (h + 2)
               s == SubSeq(b, (h + 2) + 1, n)
               t == SubSeq(body, 1, l)
    <3>1. l \in 0..Len(body) /\ n \in Nat /\ h + 2 \in 0..Len(b) /\ n \in (h + 2)..Len(b)
      BY <1>1, <1>2, <1>3, <1>7 DEF M
    <3>2. s \in Seq(Bytes) /\ Len(s) = l /\ \A i \in 1..l : s[i] = b[h + 2 + i]
      BY <1>3, <3>1, Slice
    <3>3. t \in Seq(Bytes) /\ Len(t) = l /\ \A i \in 1..l : t[i] = body[i]
      BY <3>1, Prefix
    <3>4. \A i \in 1..l : b[h + 2 + i] = body[i]
      <4> TAKE i \in 1..l
      <4>1. h + 2 + i \in 1..n /\ ~(h + 2 + i <= h + 2) /\ h + 2 + i - (h + 2) = i
        BY <1>1, <3>1
      <4>2. n \in 0..Len(M)
        BY DEF M
      <4> QED
        BY <1>1, <1>2, <1>3, <4>1, <4>2
    <3> HIDE DEF s, t, l
    <3>5. s = t
      BY <3>1, <3>2, <3>3, <3>4, SeqEqual
    <3> QED
      BY <3>5 DEF s, t, l
  <2> QED
    BY <2>2, <2>3, <2>4
<1> QED
  BY <1>3, <1>6, <1>7 DEF SplitsAt

\* from and to are the places in a message of the places m and n of its body.
InBody(head, body, m, n, from, to) ==
    /\ head \in Seq(Bytes) /\ body \in Seq(Bytes) /\ m \in 0..Len(body) /\ n \in m..Len(body)
    /\ from = Len(head) + 2 + m /\ to = Len(head) + 2 + n

SameBytes(head, body, m, n, from, to) ==
    SubSeq(Message(head, body), from + 1, to) = SubSeq(body, m + 1, n)

\* Behind its head a message is its body.
LEMMA BodySlice ==
    ASSUME NEW head, NEW body, NEW m, NEW n, NEW from, NEW to, InBody(head, body, m, n, from, to)
    PROVE  SameBytes(head, body, m, n, from, to)
<1> USE DEF InBody, SameBytes
<1> DEFINE s == SubSeq(Message(head, body), from + 1, to)
           t == SubSeq(body, m + 1, n)
<1>1. /\ Len(head) \in Nat /\ Len(body) \in Nat /\ m \in Nat /\ n \in Nat
      /\ from \in 0..Len(Message(head, body)) /\ to \in from..Len(Message(head, body))
      /\ to - from = n - m
  BY LenProperties, MessageBytes
<1>2. s \in Seq(Bytes) /\ Len(s) = n - m /\ \A i \in 1..(n - m) : s[i] = Message(head, body)[from + i]
  BY <1>1, MessageBytes, Slice
<1>3. t \in Seq(Bytes) /\ Len(t) = n - m /\ \A i \in 1..(n - m) : t[i] = body[m + i]
  BY Slice
<1>4. ASSUME NEW i \in 1..(n - m)
      PROVE  Message(head, body)[from + i] = body[m + i]
  <2>1. /\ from + i \in 1..Len(Message(head, body)) /\ ~(from + i <= Len(head))
        /\ ~(from + i <= Len(head) + 2) /\ from + i - (Len(head) + 2) = m + i
    BY <1>1
  <2> QED
    BY <2>1, MessageBytes
<1> HIDE DEF s, t
<1>5. s = t
  BY <1>2, <1>3, <1>4, SeqEqual
<1> QED
  BY <1>5 DEF s, t

-----------------------------------------------------------------------------
(* The server's side.                                                      *)


ReqHead == request.head
ReqBody == request.body

\* What the server holds is the part of the stream it took; what it dispatched
\* is the request; and it has no answer before it is through with the request.
ServerInv ==
    /\ request \in Requests
    /\ cut \in 0..Len(Stream) /\ got \in 0..cut
    /\ spc \in {"head", "body", "reply", "closed"}
    /\ buf \in Seq(Bytes)
    /\ spc = "head" => buf = SubSeq(Stream, 1, got) /\ got <= MaxHeader + 2
    /\ spc = "body" =>
        /\ Len(ReqHead) + 2 <= got /\ Len(ReqHead) <= MaxHeader
        /\ request.length \in Nat /\ got - (Len(ReqHead) + 2) <= request.length
        /\ buf = SubSeq(ReqBody, 1, got - (Len(ReqHead) + 2))
    /\ HandledIsSent
    /\ handled # NotHandled => Len(ReqHead) <= MaxHeader
    /\ answer \in Answers \cup {NoAnswer, BadRequest}
    /\ spc \in {"head", "body"} => answer = NoAnswer
    /\ spc = "reply" => answer # NoAnswer
    /\ applied \in BOOLEAN
    /\ answer = NoAnswer => ~applied

LEMMA RequestFacts ==
    ASSUME request \in Requests
    PROVE  /\ IsHead(ReqHead) /\ ReqHead \in Seq(Bytes) /\ ReqBody \in Seq(Bytes)
           /\ Len(ReqHead) \in Nat /\ Len(ReqBody) \in Nat
           /\ request.length \in Nat \cup {NoLength}
           /\ Stream = Message(ReqHead, ReqBody) /\ Stream \in Seq(Bytes)
           /\ Len(Stream) = Len(ReqHead) + 2 + Len(ReqBody)
<1>1. IsHead(ReqHead) /\ ReqHead \in Seq(Bytes) /\ ReqBody \in Seq(Bytes)
      /\ request.length \in Nat \cup {NoLength}
  BY RequestsAssumption DEF IsHead, ReqHead, ReqBody
<1>2. Stream = Message(ReqHead, ReqBody)
  BY DEF Stream, ReqHead, ReqBody
<1> QED
  BY <1>1, <1>2, MessageBytes, LenProperties

\* What the server has of the head, and where the head ends in it.
LEMMA HeadBuffer ==
    ASSUME ServerInv, spc = "head"
    PROVE  /\ Len(buf) = got
           /\ Complete(buf) <=> Len(ReqHead) + 2 <= got
           /\ Complete(buf) => /\ Before(buf) = ReqHead
                               /\ Rest = SubSeq(ReqBody, 1, got - (Len(ReqHead) + 2))
                               /\ Len(Rest) = got - (Len(ReqHead) + 2)
                               /\ Rest \in Seq(Bytes)
<1>1. got \in 0..Len(Stream) /\ buf = SubSeq(Stream, 1, got)
  BY RequestFacts DEF ServerInv
<1>2. /\ Len(buf) = got
      /\ Complete(buf) <=> Len(ReqHead) + 2 <= got
      /\ Len(ReqHead) + 2 <= got => /\ Before(buf) = ReqHead
                               /\ After(buf) = SubSeq(ReqBody, 1, got - (Len(ReqHead) + 2))
  <2>1. /\ IsHead(ReqHead) /\ ReqBody \in Seq(Bytes)
        /\ got \in 0..Len(Message(ReqHead, ReqBody))
        /\ buf = SubSeq(Message(ReqHead, ReqBody), 1, got)
    BY <1>1, RequestFacts DEF ServerInv
  <2>2. PICK head, body : head = ReqHead /\ body = ReqBody
    OBVIOUS
  <2>3. PICK n, b : n = got /\ b = buf
    OBVIOUS
  <2>4. IsPiece(head, body, n, b)
    BY <2>1, <2>2, <2>3 DEF IsPiece
  <2>5. SplitsAt(head, body, n, b)
    BY <2>4, PieceOfMessage
  <2> QED
    BY <2>2, <2>3, <2>5 DEF SplitsAt
<1>3. ASSUME Len(ReqHead) + 2 <= got
      PROVE  got - (Len(ReqHead) + 2) \in 0..Len(ReqBody)
  BY <1>1, <1>3, RequestFacts DEF ServerInv
<1>4. ASSUME Len(ReqHead) + 2 <= got
      PROVE  LET t == SubSeq(ReqBody, 1, got - (Len(ReqHead) + 2))
             IN  Len(t) = got - (Len(ReqHead) + 2) /\ t \in Seq(Bytes)
  BY <1>3, <1>4, Prefix, RequestFacts DEF ServerInv
<1> QED
  BY <1>2, <1>4 DEF Rest

LEMMA BodyBuffer ==
    ASSUME ServerInv, spc = "body"
    PROVE  Len(buf) = got - (Len(ReqHead) + 2) /\ got - (Len(ReqHead) + 2) \in 0..Len(ReqBody)
<1>1. got - (Len(ReqHead) + 2) \in 0..Len(ReqBody)
  BY RequestFacts DEF ServerInv
<1> QED
  BY <1>1, Prefix, RequestFacts DEF ServerInv

\* A recv of the head, or of the body, appends the next piece of the stream.
LEMMA RecvAppends ==
    ASSUME ServerInv, NEW n \in Int, Recv(n), spc \in {"head", "body"}
    PROVE  /\ got' \in 0..cut /\ got < got' /\ got' - got <= n
           /\ spc = "head" => buf' = SubSeq(Stream, 1, got')
           /\ spc = "body" => buf' = SubSeq(ReqBody, 1, got' - (Len(ReqHead) + 2))
           /\ buf' \in Seq(Bytes)
<1>1. PICK k \in 1..Least(n, cut - got) :
            /\ buf' = buf \o SubSeq(Stream, got + 1, got + k)
            /\ got' = got + k
  BY DEF Recv
<1>2. /\ got \in 0..Len(Stream) /\ got + k \in got..Len(Stream) /\ got \in Nat /\ k \in Nat
      /\ got' = got + k /\ got' \in 0..cut /\ got < got' /\ got' - got <= n
  BY <1>1, RequestFacts DEF ServerInv, Least
<1> DEFINE piece == SubSeq(Stream, got + 1, got + k)
<1>3. /\ piece \in Seq(Bytes) /\ Len(piece) = k
      /\ \A i \in 1..k : piece[i] = Stream[got + i]
  <2>1. /\ piece \in Seq(Bytes) /\ Len(piece) = (got + k) - got
        /\ \A i \in 1..((got + k) - got) : piece[i] = Stream[got + i]
    BY <1>2, RequestFacts, Slice DEF ServerInv
  <2>2. (got + k) - got = k
    BY <1>2
  <2> QED
    BY <2>1, <2>2
<1>4. ASSUME spc = "head"
      PROVE  buf' = SubSeq(Stream, 1, got')
  <2>1. 1 \in 1..(Len(Stream) + 1) /\ got \in (1 - 1)..Len(Stream)
    BY <1>2, RequestFacts DEF ServerInv
  <2>2. SubSeq(Stream, 1, got) \o SubSeq(Stream, got + 1, got + k) = SubSeq(Stream, 1, got + k)
    BY <1>2, <2>1, RequestFacts, ConcatAdjacentSubSeq DEF ServerInv
  <2> QED
    BY <1>1, <1>4, <2>2 DEF ServerInv
<1>5. ASSUME spc = "body"
      PROVE  buf' = SubSeq(ReqBody, 1, got' - (Len(ReqHead) + 2))
  <2>1. PICK m \in 0..Len(ReqBody) : m = got - (Len(ReqHead) + 2)
    BY <1>5, BodyBuffer
  <2>2. /\ Len(ReqHead) \in Nat /\ m \in Nat /\ Len(ReqBody) \in Nat
        /\ got = Len(ReqHead) + 2 + m /\ Len(Stream) = Len(ReqHead) + 2 + Len(ReqBody)
    BY <1>2, <2>1, RequestFacts DEF ServerInv
  <2>3. m + k \in m..Len(ReqBody) /\ got + k = Len(ReqHead) + 2 + (m + k)
    <3>1. got \in Nat /\ k \in Nat /\ got + k <= Len(Stream) /\ Len(Stream) \in Nat
      BY <1>2, <2>2
    <3>2. m + k <= Len(ReqBody)
      BY <2>2, <3>1
    <3> QED
      BY <2>2, <3>1, <3>2
  <2>4. piece = SubSeq(ReqBody, m + 1, m + k)
    <3>1. ReqHead \in Seq(Bytes) /\ ReqBody \in Seq(Bytes) /\ Stream = Message(ReqHead, ReqBody)
      BY RequestFacts DEF ServerInv
    <3>2. PICK head, body : head = ReqHead /\ body = ReqBody
      OBVIOUS
    <3>3. PICK upto, from, to : upto = m + k /\ from = got /\ to = got + k
      OBVIOUS
    <3>4. InBody(head, body, m, upto, from, to)
      BY <2>1, <2>2, <2>3, <3>1, <3>2, <3>3 DEF InBody
    <3>5. SameBytes(head, body, m, upto, from, to)
      BY <3>4, BodySlice
    <3> QED
      BY <3>1, <3>2, <3>3, <3>5 DEF SameBytes
  <2>5. 1 \in 1..(Len(ReqBody) + 1) /\ m \in (1 - 1)..Len(ReqBody)
    BY <2>2, <2>1
  <2>6. SubSeq(ReqBody, 1, m) \o SubSeq(ReqBody, m + 1, m + k)
            = SubSeq(ReqBody, 1, m + k)
    BY <2>1, <2>3, <2>5, RequestFacts, ConcatAdjacentSubSeq DEF ServerInv
  <2>7. got' - (Len(ReqHead) + 2) = m + k /\ buf = SubSeq(ReqBody, 1, m)
    BY <1>2, <1>5, <2>1, <2>2 DEF ServerInv
  <2> QED
    BY <1>1, <2>4, <2>6, <2>7
<1>6. buf' \in Seq(Bytes)
  BY <1>1, <1>3, ConcatProperties DEF ServerInv
<1> QED
  BY <1>2, <1>4, <1>5, <1>6

LEMMA Numbers ==
    ASSUME ServerInv
    PROVE  Len(Stream) \in Nat /\ cut \in Nat /\ got \in Nat /\ got <= cut /\ cut <= Len(Stream)
  BY RequestFacts DEF ServerInv

LEMMA ServerInvInit == Init => ServerInv
<1> SUFFICES ASSUME Init PROVE ServerInv
  OBVIOUS
<1>1. request \in Requests /\ Len(Stream) \in Nat
  BY RequestFacts, LenProperties DEF Init
<1>2. SubSeq(Stream, 1, 0) = <<>> /\ <<>> \in Seq(Bytes)
  <2>1. 0 \in 0..Len(Stream) /\ Stream \in Seq(Bytes)
    BY <1>1, RequestFacts
  <2>2. SubSeq(Stream, 1, 0) \in Seq(Bytes) /\ Len(SubSeq(Stream, 1, 0)) = 0
    BY <2>1, Prefix
  <2> QED
    BY <2>2, EmptySeq
<1>3. 0 \in 0..cut /\ cut \in 0..Len(Stream) /\ 0 <= MaxHeader + 2
  BY <1>1, LimitsAssumption DEF Init
<1>4. /\ spc = "head" /\ buf = SubSeq(Stream, 1, got) /\ got <= MaxHeader + 2
      /\ got = 0 /\ answer = NoAnswer /\ handled = NotHandled /\ applied = FALSE /\ buf = <<>>
  BY <1>2, <1>3 DEF Init
<1> QED
  BY <1>1, <1>2, <1>3, <1>4 DEF ServerInv, HandledIsSent

\* A step that leaves the server and the request alone.
LEMMA ServerInvIdle ==
    ASSUME ServerInv, UNCHANGED <<request, server>>, cut' \in got..cut
    PROVE  ServerInv'
<1>1. cut' \in 0..Len(Stream) /\ got \in 0..cut'
  BY RequestFacts DEF ServerInv
<1>2. Stream' = Stream /\ ReqHead' = ReqHead /\ ReqBody' = ReqBody
  BY DEF Stream, ReqHead, ReqBody, server
<1> QED
  BY <1>1, <1>2 DEF ServerInv, HandledIsSent, server

LEMMA RecvHeadStep ==
    ASSUME ServerInv, RecvHead PROVE ServerInv'
<1> USE DEF RecvHead, client
<1>1. HeadRoom \in Int /\ HeadRoom <= MaxHeader - got + 2
  BY HeadBuffer, LimitsAssumption DEF HeadRoom, Least, HeaderEnd, ServerInv
<1>2. got' \in 0..cut /\ got' - got <= HeadRoom /\ buf' = SubSeq(Stream, 1, got') /\ buf' \in Seq(Bytes)
  BY <1>1, RecvAppends
<1>3. got' <= MaxHeader + 2
  BY <1>1, <1>2, Numbers, LimitsAssumption
<1>4. Stream' = Stream /\ ReqHead' = ReqHead /\ ReqBody' = ReqBody
  BY DEF Stream, ReqHead, ReqBody
<1> QED
  BY <1>2, <1>3, <1>4 DEF ServerInv, HandledIsSent

LEMMA HeadDoneStep ==
    ASSUME ServerInv, HeadDone PROVE ServerInv'
<1> USE DEF HeadDone, client
<1>1. /\ Len(ReqHead) + 2 <= got /\ Before(buf) = ReqHead
      /\ Rest = SubSeq(ReqBody, 1, got - (Len(ReqHead) + 2))
      /\ Len(Rest) = got - (Len(ReqHead) + 2) /\ Rest \in Seq(Bytes)
  BY HeadBuffer
<1>2. request.length \in Nat /\ Len(Rest) <= request.length
  BY RequestFacts DEF ServerInv, Length
<1>3. Len(ReqHead) <= MaxHeader
  BY <1>1, RequestFacts, LimitsAssumption DEF ServerInv
<1>4. Stream' = Stream /\ ReqHead' = ReqHead /\ ReqBody' = ReqBody
  BY DEF Stream, ReqHead, ReqBody
<1> QED
  BY <1>1, <1>2, <1>3, <1>4 DEF ServerInv, HandledIsSent

LEMMA RecvBodyStep ==
    ASSUME ServerInv, RecvBody PROVE ServerInv'
<1> USE DEF RecvBody, BodyComplete, client
<1>1. BodyRoom \in Int /\ BodyRoom <= request.length - (got - (Len(ReqHead) + 2))
  BY BodyBuffer, LimitsAssumption DEF BodyRoom, Least, ServerInv
<1>2. /\ got' \in 0..cut /\ got < got' /\ got' - got <= BodyRoom
      /\ buf' = SubSeq(ReqBody, 1, got' - (Len(ReqHead) + 2)) /\ buf' \in Seq(Bytes)
  BY <1>1, RecvAppends
<1>3. Len(ReqHead) + 2 <= got' /\ got' - (Len(ReqHead) + 2) <= request.length
  <2>1. Len(ReqHead) \in Nat
    BY RequestFacts DEF ServerInv
  <2>2. request.length \in Nat /\ Len(ReqHead) + 2 <= got
    BY DEF ServerInv
  <2>3. got \in Nat /\ got' \in Int
    BY <1>2, Numbers
  <2>4. PICK h \in Nat, l \in Nat, room \in Int, g \in Nat, g1 \in Int :
            h = Len(ReqHead) /\ l = request.length /\ room = BodyRoom /\ g = got /\ g1 = got'
    BY <1>1, <2>1, <2>2, <2>3
  <2>5. h + 2 <= g /\ g < g1 /\ g1 - g <= room /\ room <= l - (g - (h + 2))
    BY <1>1, <1>2, <2>2, <2>4
  <2>6. h + 2 <= g1 /\ g1 - (h + 2) <= l
    BY <2>5
  <2> QED
    BY <2>4, <2>6
<1>4. Stream' = Stream /\ ReqHead' = ReqHead /\ ReqBody' = ReqBody
  BY DEF Stream, ReqHead, ReqBody
<1> QED
  BY <1>2, <1>3, <1>4 DEF ServerInv, HandledIsSent

LEMMA DispatchStep ==
    ASSUME ServerInv, Dispatch PROVE ServerInv'
<1> USE DEF Dispatch, BodyComplete, client
<1>1. Len(buf) = request.length /\ request.length \in 0..Len(ReqBody)
  BY BodyBuffer DEF ServerInv
<1>2. buf = SubSeq(ReqBody, 1, request.length)
  BY <1>1, BodyBuffer DEF ServerInv
<1>3. HandledIsSent'
  BY <1>1, <1>2, RequestFacts DEF HandledIsSent, ReqBody, ServerInv
<1>4. Stream' = Stream /\ ReqHead' = ReqHead /\ ReqBody' = ReqBody
  BY DEF Stream, ReqHead, ReqBody
<1>5. answer' # NoAnswer
  BY AnswersAssumption DEF NoAnswer
<1>6. applied' \in BOOLEAN
  OBVIOUS
<1> QED
  BY <1>3, <1>4, <1>5, <1>6 DEF ServerInv

\* The rest of the server's steps leave what it has of the request alone.
LEMMA OtherServerStep ==
    ASSUME ServerInv, Refuse \/ Drop \/ Send \/ Crash PROVE ServerInv'
<1>1. /\ UNCHANGED <<request, cut, got, buf, handled, applied>>
      /\ spc' \in {"reply", "closed"}
      /\ \/ spc' = "closed" /\ answer' = answer
         \/ spc' = "reply" /\ answer' = BadRequest
  BY DEF Refuse, Drop, Send, Crash, client
<1>2. Stream' = Stream /\ ReqHead' = ReqHead /\ ReqBody' = ReqBody
  BY <1>1 DEF Stream, ReqHead, ReqBody
<1>3. BadRequest # NoAnswer
  BY DEF BadRequest, NoAnswer
<1> QED
  BY <1>1, <1>2, <1>3 DEF ServerInv, HandledIsSent

LEMMA ServerInvStep == ServerInv /\ [Next]_vars => ServerInv'
<1> SUFFICES ASSUME ServerInv, [Next]_vars PROVE ServerInv'
  OBVIOUS
<1>1. CASE ServerStep
  BY <1>1, RecvHeadStep, HeadDoneStep, RecvBodyStep, DispatchStep, OtherServerStep DEF ServerStep
<1>2. CASE Crash
  BY <1>2, OtherServerStep
<1>3. CASE ClientStep \/ GiveUp \/ UNCHANGED vars
  <2>1. UNCHANGED <<request, server>> /\ cut' \in got..cut
    BY <1>3, Numbers DEF ClientStep, RecvReply, Return, Raise, GiveUp, vars, client
  <2> QED
    BY <2>1, ServerInvIdle
<1> QED
  BY <1>1, <1>2, <1>3 DEF Next

-----------------------------------------------------------------------------
(* The client's side.                                                      *)

LEMMA AnswerFacts ==
    ASSUME answer \in Answers \cup {BadRequest}
    PROVE  /\ answer.body \in Seq(Bytes) /\ answer # NoAnswer
           /\ answer = [status |-> answer.status, body |-> answer.body]
           /\ answer.status \in {"OK", "NOT_FOUND", "SCHEMA_ERROR", "BAD_REQUEST", "SERVER_ERROR"}
           /\ IsHead(ReplyHead) /\ Len(ReplyHead) = 3 /\ Reply \in Seq(Bytes) /\ Len(Reply) \in Nat
<1>1. /\ BadRequest.body \in Seq(Bytes) /\ BadRequest.status = "BAD_REQUEST"
      /\ BadRequest = [status |-> BadRequest.status, body |-> BadRequest.body]
  BY DEF BadRequest, Bytes
<1>2. /\ answer = [status |-> answer.status, body |-> answer.body]
      /\ answer.status \in {"OK", "NOT_FOUND", "SCHEMA_ERROR", "BAD_REQUEST", "SERVER_ERROR"}
      /\ answer.body \in Seq(Bytes)
  <2>1. CASE answer \in Answers
    BY <2>1, AnswersAssumption
  <2>2. CASE answer = BadRequest
    BY <1>1, <2>2
  <2> QED
    BY <2>1, <2>2
<1>3. answer.body \in Seq(Bytes) /\ answer # NoAnswer
  <2>1. NoAnswer.status = "none"
    BY DEF NoAnswer
  <2> QED
    BY <1>2, <2>1
<1>4. IsHead(ReplyHead) /\ ReplyHead \in Seq(Bytes) /\ Len(ReplyHead) = 3
  BY DEF IsHead, ReplyHead, Bytes
<1>5. Reply \in Seq(Bytes) /\ Len(Reply) \in Nat
  BY <1>3, <1>4, MessageBytes, LenProperties DEF Reply
<1> QED
  BY <1>2, <1>3, <1>4, <1>5

\* What the client holds is the part of the response it took; nothing of a
\* response arrives before the server is done with it.
ClientInv ==
    /\ sent \in Nat /\ rbuf \in Seq(Bytes) /\ Len(rbuf) <= sent
    /\ sent # 0 => spc = "closed" /\ answer # NoAnswer
    /\ answer # NoAnswer => sent <= Len(Reply) /\ rbuf = SubSeq(Reply, 1, Len(rbuf))
    /\ \/ result \in {Pending, Raised}
       \/ result.status \in {"OK", "NOT_FOUND", "SCHEMA_ERROR", "BAD_REQUEST"}

LEMMA ClientInvInit == Init => ClientInv
<1> SUFFICES ASSUME Init PROVE ClientInv
  OBVIOUS
<1>1. rbuf \in Seq(Bytes) /\ Len(rbuf) = 0
  BY EmptySeq DEF Init
<1> QED
  BY <1>1 DEF Init, ClientInv

\* Without an answer there is nothing to read.
LEMMA NothingToRead ==
    ASSUME ClientInv, answer = NoAnswer PROVE sent = 0 /\ Len(rbuf) = 0 /\ ~Complete(rbuf)
<1>1. sent = 0 /\ Len(rbuf) = 0
  BY LenProperties DEF ClientInv
<1> QED
  BY <1>1 DEF Complete, EndsAt

\* An empty buffer is a prefix of any response.
LEMMA EmptyPrefix ==
    ASSUME rbuf \in Seq(Bytes), Len(rbuf) = 0, NEW s \in Seq(Bytes)
    PROVE  rbuf = SubSeq(s, 1, Len(rbuf))
<1>1. 0 \in 0..Len(s)
  BY LenProperties
<1>2. SubSeq(s, 1, 0) \in Seq(Bytes) /\ Len(SubSeq(s, 1, 0)) = 0
  BY <1>1, Prefix
<1> QED
  BY <1>2, EmptySeq

\* What the client has is split where the response's head ends, and once all of
\* the body is there it is the body.
LEMMA ReplyBuffer ==
    ASSUME ClientInv, answer \in Answers \cup {BadRequest}
    PROVE  /\ Complete(rbuf) => Len(After(rbuf)) \in Nat /\ Len(answer.body) \in Nat
           /\ Whole => After(rbuf) = answer.body
<1>1. PICK head, body, n, b : head = ReplyHead /\ body = answer.body /\ n = Len(rbuf) /\ b = rbuf
  OBVIOUS
<1>2. IsHead(head) /\ body \in Seq(Bytes) /\ Message(head, body) = Reply /\ Len(head) = 3 /\ answer # NoAnswer
  BY <1>1, AnswerFacts DEF Reply
<1>3. n \in 0..Len(Message(head, body)) /\ b = SubSeq(Message(head, body), 1, n)
  BY <1>1, <1>2, AnswerFacts, LenProperties DEF ClientInv
<1>4. SplitsAt(head, body, n, b)
  BY <1>2, <1>3, PieceOfMessage DEF IsPiece
<1>5. head \in Seq(Bytes) /\ Len(body) \in Nat /\ Len(Message(head, body)) = 3 + 2 + Len(body)
  <2>1. head \in Seq(Bytes)
    BY <1>2 DEF IsHead
  <2> QED
    BY <1>2, <2>1, MessageBytes, LenProperties
<1>6. ASSUME Complete(b)
      PROVE  n - 5 \in 0..Len(body) /\ After(b) = SubSeq(body, 1, n - 5)
  BY <1>2, <1>3, <1>4, <1>5, <1>6 DEF SplitsAt
<1>7. ASSUME Complete(b)
      PROVE  /\ After(b) \in Seq(Bytes) /\ Len(After(b)) = n - 5
             /\ \A i \in 1..(n - 5) : After(b)[i] = body[i]
  BY <1>2, <1>6, <1>7, Prefix
<1>8. ASSUME Complete(b), Len(After(b)) >= Len(body)
      PROVE  After(b) = body
  <2>1. n - 5 = Len(body)
    BY <1>5, <1>6, <1>7, <1>8
  <2> QED
    BY <1>2, <1>7, <1>8, <2>1, SeqEqual
<1> QED
  BY <1>1, <1>5, <1>6, <1>7, <1>8 DEF Whole

LEMMA RecvReplyStep ==
    ASSUME ServerInv, ClientInv, RecvReply PROVE ClientInv' /\ Len(rbuf) < Len(rbuf')
<1> USE DEF RecvReply, server
<1>1. Len(rbuf) \in Nat /\ sent \in Nat
  BY LenProperties DEF ClientInv
<1>2. PICK k \in 1..Least(ReplyRoom, sent - Len(rbuf)) :
            rbuf' = rbuf \o SubSeq(Reply, Len(rbuf) + 1, Len(rbuf) + k)
  OBVIOUS
<1>3. k \in Nat /\ k <= sent - Len(rbuf) /\ 1 <= k
  <2>1. PICK room, left : room = ReplyRoom /\ left = sent - Len(rbuf)
    OBVIOUS
  <2>2. k \in 1..Least(room, left)
    BY <1>2, <2>1
  <2>3. left \in Int
    BY <1>1, <2>1
  <2>4. room \in Int
    <3>1. answer \in Answers \cup {BadRequest, NoAnswer} /\ RecvMax \in Int
      BY LimitsAssumption DEF ServerInv
    <3>2. ASSUME Complete(rbuf)
          PROVE  Len(answer.body) \in Int /\ Len(After(rbuf)) \in Int
      BY <3>1, <3>2, NothingToRead, ReplyBuffer
    <3> QED
      BY <2>1, <3>1, <3>2 DEF ReplyRoom, Least
  <2> QED
    BY <2>1, <2>2, <2>3, <2>4 DEF Least
<1>4. answer \in Answers \cup {BadRequest} /\ answer # NoAnswer
  <2>1. answer # NoAnswer
    BY <1>1, <1>3, NothingToRead
  <2> QED
    BY <2>1 DEF ServerInv
<1>5. Reply \in Seq(Bytes) /\ Len(Reply) \in Nat /\ sent <= Len(Reply) /\ rbuf = SubSeq(Reply, 1, Len(rbuf))
  BY <1>4, AnswerFacts DEF ClientInv
<1>6. PICK m, n : m = Len(rbuf) /\ n = Len(rbuf) + k
  OBVIOUS
<1>7. m \in Nat /\ n = m + k /\ n <= sent /\ m \in (1 - 1)..Len(Reply) /\ n \in m..Len(Reply)
      /\ 1 \in 1..(Len(Reply) + 1)
  BY <1>1, <1>3, <1>5, <1>6
<1>8. SubSeq(Reply, 1, m) \o SubSeq(Reply, m + 1, n) = SubSeq(Reply, 1, n)
  BY <1>5, <1>7, ConcatAdjacentSubSeq
<1>9. rbuf' = SubSeq(Reply, 1, n)
  BY <1>2, <1>5, <1>6, <1>8
<1>10. rbuf' \in Seq(Bytes) /\ Len(rbuf') = n
  <2>1. n \in 0..Len(Reply)
    BY <1>5, <1>7
  <2> QED
    BY <1>5, <1>9, <2>1, Prefix
<1>11. Reply' = Reply
  BY DEF Reply
<1>12. Len(rbuf) < Len(rbuf')
  BY <1>1, <1>3, <1>6, <1>10
<1> QED
  BY <1>1, <1>4, <1>5, <1>7, <1>9, <1>10, <1>11, <1>12 DEF ClientInv

\* The answer is decided while nothing of it is sent.
LEMMA AnswerStep ==
    ASSUME ServerInv, ClientInv, answer' \in Answers \cup {BadRequest},
           UNCHANGED <<sent, rbuf, result>>, spc \in {"head", "body"}
    PROVE  ClientInv'
<1>1. sent = 0 /\ Len(rbuf) = 0 /\ rbuf \in Seq(Bytes)
  BY LenProperties DEF ClientInv
<1>2. Reply' \in Seq(Bytes) /\ Len(Reply') \in Nat
  <2>1. answer'.body \in Seq(Bytes)
    <3>1. BadRequest.body \in Seq(Bytes)
      BY DEF BadRequest, Bytes
    <3>2. PICK a \in Answers \cup {BadRequest} : a = answer'
      OBVIOUS
    <3>3. a.body \in Seq(Bytes)
      BY <3>1, AnswersAssumption
    <3> QED
      BY <3>2, <3>3
  <2>2. ReplyHead \in Seq(Bytes)
    BY DEF ReplyHead, Bytes
  <2>3. Message(ReplyHead, answer'.body) \in Seq(Bytes)
    BY <2>1, <2>2, MessageBytes
  <2> QED
    BY <2>3, LenProperties DEF Reply
<1>3. rbuf = SubSeq(Reply', 1, Len(rbuf))
  BY <1>1, <1>2, EmptyPrefix
<1> QED
  BY <1>1, <1>2, <1>3 DEF ClientInv

\* The server is done: some of its answer, or nothing, is sent.
LEMMA CloseStep ==
    ASSUME ServerInv, ClientInv, Send \/ Crash \/ Drop PROVE ClientInv'
<1>1. UNCHANGED <<answer, rbuf, result>> /\ spc' = "closed"
  BY DEF Send, Crash, Drop, client
<1>2. Reply' = Reply
  BY <1>1 DEF Reply
<1>3. ASSUME sent' # 0
      PROVE  answer \in Answers \cup {BadRequest} /\ sent' \in 0..Len(Reply)
  <2>1. CASE Drop
    BY <1>3, <2>1 DEF Drop, ClientInv
  <2>2. CASE spc = "reply" /\ (Send \/ Crash)
    <3>1. answer \in Answers \cup {BadRequest}
      BY <2>2 DEF ServerInv
    <3> QED
      BY <2>2, <3>1, AnswerFacts DEF Send, Crash
  <2> QED
    BY <1>3, <2>1, <2>2 DEF Send, Crash
<1>4. CASE sent' = 0
  <2>1. sent = 0 \/ spc = "closed"
    BY DEF ClientInv
  <2>2. sent = 0
    BY <2>1 DEF Send, Crash, Drop
  <2> QED
    BY <1>1, <1>2, <1>4, <2>2 DEF ClientInv
<1>5. CASE sent' # 0
  <2>1. sent' \in Nat /\ sent' <= Len(Reply) /\ answer # NoAnswer /\ sent = 0
    BY <1>3, <1>5, AnswerFacts DEF ClientInv, Send, Crash, Drop
  <2> QED
    BY <1>1, <1>2, <2>1 DEF ClientInv
<1> QED
  BY <1>4, <1>5

LEMMA ReturnStep ==
    ASSUME ServerInv, ClientInv, Return
    PROVE  /\ answer \in Answers \cup {BadRequest} /\ answer # NoAnswer
           /\ result' = IF answer.status = "SERVER_ERROR" THEN Raised ELSE answer
<1>1. answer \in Answers \cup {BadRequest} /\ answer # NoAnswer
  <2>1. answer # NoAnswer
    BY NothingToRead DEF Return, Whole
  <2> QED
    BY <2>1 DEF ServerInv
<1>2. After(rbuf) = answer.body /\ answer = [status |-> answer.status, body |-> answer.body]
  BY <1>1, ReplyBuffer, AnswerFacts DEF Return
<1> QED
  BY <1>1, <1>2 DEF Return, Outcome

LEMMA ClientInvStep == ServerInv /\ ClientInv /\ [Next]_vars => ClientInv'
<1> SUFFICES ASSUME ServerInv, ClientInv, [Next]_vars PROVE ClientInv'
  OBVIOUS
<1>1. CASE RecvHead \/ HeadDone \/ RecvBody \/ UNCHANGED vars
  <2>1. UNCHANGED <<answer, sent, rbuf, result>> /\ Reply' = Reply /\ (spc' = spc \/ spc # "closed")
    BY <1>1 DEF RecvHead, HeadDone, RecvBody, vars, server, client, Reply
  <2>2. sent # 0 => spc' = "closed"
    BY <1>1 DEF ClientInv, RecvHead, HeadDone, RecvBody, vars, server
  <2> QED
    BY <2>1, <2>2 DEF ClientInv
<1>2. CASE Refuse \/ Dispatch
  BY <1>2, AnswerStep DEF Refuse, Dispatch, client
<1>3. CASE Send \/ Crash \/ Drop
  BY <1>3, CloseStep
<1>4. CASE RecvReply
  BY <1>4, RecvReplyStep
<1>5. CASE Return \/ Raise \/ GiveUp
  <2>1. UNCHANGED <<spc, answer, sent, rbuf>> /\ Reply' = Reply
    BY <1>5 DEF Return, Raise, GiveUp, server, Reply
  <2>2. result' = Raised \/ result'.status \in {"OK", "NOT_FOUND", "SCHEMA_ERROR", "BAD_REQUEST"}
    <3>1. CASE Return
      BY <3>1, ReturnStep, AnswerFacts
    <3>2. CASE Raise \/ GiveUp
      BY <3>2 DEF Raise, GiveUp
    <3> QED
      BY <1>5, <3>1, <3>2
  <2> QED
    BY <2>1, <2>2 DEF ClientInv
<1> QED
  BY <1>1, <1>2, <1>3, <1>4, <1>5 DEF Next, ServerStep, ClientStep

-----------------------------------------------------------------------------
(* What holds in every reachable state, and what the bytes implement.      *)

LEMMA Invariance == Spec => [](ServerInv /\ ClientInv)
<1>1. Init => ServerInv /\ ClientInv
  BY ServerInvInit, ClientInvInit
<1>2. (ServerInv /\ ClientInv) /\ [Next]_vars => (ServerInv /\ ClientInv)'
  BY ServerInvStep, ClientInvStep
<1> QED
  BY <1>1, <1>2, PTL DEF Spec

\* Neither end ever holds more than its limits let it, and every variable has its
\* type: recv_until and recv_exact ask for no more than there is room for.
THEOREM Typing == Spec => []TypeOK
<1>1. ServerInv /\ ClientInv => TypeOK
  <2> SUFFICES ASSUME ServerInv, ClientInv PROVE TypeOK
    OBVIOUS
  <2>1. spc = "head" => Len(buf) <= MaxHeader + Len(HeaderEnd)
    <3>1. Len(HeaderEnd) = 2
      BY DEF HeaderEnd
    <3> QED
      BY <3>1, HeadBuffer, LimitsAssumption, Numbers DEF ServerInv
  <2> QED
    BY <2>1 DEF ServerInv, ClientInv, TypeOK
<1> QED
  BY <1>1, Invariance, PTL

\* However the stream is cut into pieces, the server dispatches the head and the
\* body that the client sent (recv_until's leftover and recv_exact).
THEOREM HandledAsSent == Spec => []HandledIsSent
<1>1. ServerInv => HandledIsSent
  BY DEF ServerInv
<1> QED
  BY <1>1, Invariance, PTL

\* recv_until never refuses a head that fits its limit, and never lets a longer
\* one through.
THEOREM HeadersLimited == Spec => []HeaderLimit
<1>1. ServerInv => HeaderLimit
  <2> SUFFICES ASSUME ServerInv PROVE HeaderLimit
    OBVIOUS
  <2>1. ReqHead = request.head /\ Len(HeaderEnd) = 2 /\ Len(ReqHead) \in Nat
    BY RequestFacts DEF ReqHead, HeaderEnd, ServerInv
  <2>2. ASSUME spc = "head", TooLong
        PROVE  Len(ReqHead) + 2 > MaxHeader
    <3>1. Len(buf) = got /\ ~(Len(ReqHead) + 2 <= got) /\ Len(buf) >= MaxHeader
      BY <2>2, HeadBuffer DEF TooLong
    <3> QED
      BY <2>1, <3>1, Numbers, LimitsAssumption
  <2>3. spc = "body" \/ handled # NotHandled => Len(ReqHead) <= MaxHeader
    BY DEF ServerInv
  <2> QED
    BY <2>1, <2>2, <2>3 DEF HeaderLimit
<1> QED
  BY <1>1, Invariance, PTL

\* The two ends and the bytes between them carry out the call StoreClient
\* promises: at most one effect, and no answer but the one the store gave.
THEOREM BytesImplementCall == Spec => ImplementsStoreCall
<1>1. Init => Call!Init
  BY DEF Init, Call!Init
<1>2. ServerInv /\ ClientInv /\ [Next]_vars => [Call!Next]_(Call!vars)
  <2> SUFFICES ASSUME ServerInv, ClientInv, [Next]_vars
               PROVE  Call!Next \/ UNCHANGED <<applied, answer, result>>
    BY DEF Call!vars
  <2>1. CASE \/ RecvHead \/ HeadDone \/ RecvBody \/ Drop \/ Send \/ Crash
             \/ RecvReply \/ UNCHANGED vars
    BY <2>1 DEF RecvHead, HeadDone, RecvBody, Drop, Send, Crash, RecvReply,
                vars, server, client
  <2>2. CASE Dispatch
    <3>1. answer = NoAnswer /\ answer' \in Answers /\ UNCHANGED result
      BY <2>2 DEF Dispatch, ServerInv, client
    <3>2. Call!Decide(answer')
      BY <2>2, <3>1 DEF Dispatch, Call!Decide
    <3> QED
      BY <3>1, <3>2 DEF Call!Next
  <2>3. CASE Refuse
    <3>1. answer = NoAnswer /\ answer' = BadRequest /\ applied' = FALSE /\ UNCHANGED result
      BY <2>3 DEF Refuse, ServerInv, client
    <3>2. BadRequest.status = "BAD_REQUEST"
      BY DEF BadRequest
    <3>3. Call!Decide(BadRequest)
      BY <3>1, <3>2 DEF Call!Decide
    <3> QED
      BY <3>3 DEF Call!Next
  <2>4. CASE Return
    <3>1. UNCHANGED <<applied, answer>> /\ result = Pending
      BY <2>4 DEF Return, server, Waiting
    <3>2. answer # NoAnswer /\ result' = IF answer.status = "SERVER_ERROR" THEN Raised ELSE answer
      BY <2>4, ReturnStep
    <3>3. CASE answer.status = "SERVER_ERROR"
      BY <3>1, <3>2, <3>3 DEF Call!Next, Call!Raise
    <3>4. CASE answer.status # "SERVER_ERROR"
      BY <3>1, <3>2, <3>4 DEF Call!Next, Call!Return
    <3> QED
      BY <3>3, <3>4
  <2>5. CASE Raise \/ GiveUp
    BY <2>5 DEF Raise, GiveUp, Waiting, server, Call!Next, Call!Raise
  <2> QED
    BY <2>1, <2>2, <2>3, <2>4, <2>5 DEF Next, ServerStep, ClientStep
<1> QED
  BY <1>1, <1>2, Invariance, PTL DEF Spec, ImplementsStoreCall, Call!Spec

-----------------------------------------------------------------------------
(* The invariants of the call StoreClient promises hold of the bytes.       *)

\* A caller of the abstract call is told what happened, whatever the answers.
LEMMA CallsAreTrue == Call!Spec => []Call!AnswersAreTrue
<1> DEFINE A == Answers \cup {BadRequest}
           Inv == /\ answer \in A \cup {NoAnswer}
                  /\ answer \in A /\ answer.status # "SERVER_ERROR" =>
                        (applied <=> answer.status = "OK")
                  /\ result \notin {Pending, Raised} =>
                        answer = result /\ answer \in A /\ answer.status # "SERVER_ERROR"
<1>1. NoAnswer \notin A
  <2>1. \A a \in A : a.status \in {"OK", "NOT_FOUND", "SCHEMA_ERROR", "BAD_REQUEST", "SERVER_ERROR"}
    BY AnswersAssumption DEF BadRequest
  <2>2. NoAnswer.status = "none"
    BY DEF NoAnswer
  <2> QED
    BY <2>1, <2>2
<1>2. Call!Init => Inv
  BY <1>1 DEF Call!Init
<1>3. Inv /\ [Call!Next]_(Call!vars) => Inv'
  <2> SUFFICES ASSUME Inv, [Call!Next]_(Call!vars) PROVE Inv'
    OBVIOUS
  <2>1. ASSUME NEW a \in A, Call!Decide(a) PROVE Inv'
    <3>1. answer = NoAnswer /\ answer' = a /\ UNCHANGED result
      BY <2>1 DEF Call!Decide
    <3>2. a.status = "OK" => applied'
      BY <2>1 DEF Call!Decide
    <3>3. a.status \notin {"OK", "SERVER_ERROR"} => ~applied'
      BY <2>1 DEF Call!Decide
    <3>4. result \in {Pending, Raised}
      BY <1>1, <3>1
    <3> QED
      BY <2>1, <3>1, <3>2, <3>3, <3>4
  <2>2. CASE Call!Return
    <3>1. answer # NoAnswer /\ answer.status # "SERVER_ERROR" /\ result' = answer
          /\ UNCHANGED <<applied, answer>>
      BY <2>2 DEF Call!Return
    <3> QED
      BY <3>1
  <2>3. CASE Call!Raise
    BY <2>3 DEF Call!Raise
  <2>4. CASE UNCHANGED Call!vars
    BY <2>4 DEF Call!vars
  <2> QED
    BY <2>1, <2>2, <2>3, <2>4 DEF Call!Next
<1>4. Inv => Call!AnswersAreTrue
  BY DEF Call!AnswersAreTrue
<1> HIDE DEF Inv
<1> QED
  BY <1>2, <1>3, <1>4, PTL DEF Call!Spec

\* What a client is told is what happened in the vault: the bytes carry out the
\* call, so what holds of the call holds of them (_raise_for_status, dispatch).
THEOREM ClientsAreToldTheTruth == Spec => []Call!AnswersAreTrue
<1> QED
  BY BytesImplementCall, CallsAreTrue, PTL DEF ImplementsStoreCall

-----------------------------------------------------------------------------
(* Why a call ends: nobody waits for what does not come, and every step is  *)
(* one of a bounded number.                                                 *)

\* While the client waits nothing of its request is lost, and a well-formed
\* request is dispatched when all of it has been read.
DeliveryInv ==
    /\ Waiting => cut = Len(Stream)
    /\ handled # NotHandled => spc \in {"reply", "closed"}
    /\ handled # NotHandled /\ WellFormed => got = Len(Stream)

LEMMA ResultIsFinal ==
    ASSUME ServerInv, ClientInv, Return \/ Raise \/ GiveUp PROVE result' # Pending
<1>1. Raised # Pending
  BY DEF Raised, Pending
<1>2. CASE Return
  <2>1. answer \in Answers \cup {BadRequest}
        /\ result' = IF answer.status = "SERVER_ERROR" THEN Raised ELSE answer
    BY <1>2, ReturnStep
  <2>2. answer.status # "pending"
    BY <2>1, AnswerFacts
  <2>3. answer # Pending
    BY <2>2 DEF Pending
  <2> QED
    BY <1>1, <2>1, <2>3
<1> QED
  BY <1>1, <1>2 DEF Raise, GiveUp

LEMMA DeliveryStep ==
    ServerInv /\ ClientInv /\ DeliveryInv /\ [Next]_vars => DeliveryInv'
<1> SUFFICES ASSUME ServerInv, ClientInv, DeliveryInv, [Next]_vars PROVE DeliveryInv'
  OBVIOUS
<1> USE DEF DeliveryInv, Waiting, WellFormed, server, client
<1>1. request' = request /\ Stream' = Stream
  BY DEF Next, ServerStep, ClientStep, RecvHead, HeadDone, Refuse, RecvBody, Dispatch, Drop, Send,
         Crash, RecvReply, Return, Raise, GiveUp, vars, Stream
<1>2. CASE Dispatch
  <2>1. UNCHANGED <<cut, result, got>> /\ spc' = "reply"
    BY <1>2 DEF Dispatch
  <2>2. ASSUME WellFormed PROVE got = Len(Stream)
    <3>1. Len(buf) = got - (Len(ReqHead) + 2) /\ Len(buf) \in 0..Len(ReqBody)
      BY <1>2, BodyBuffer DEF Dispatch
    <3>2. Len(buf) >= Len(ReqBody)
      BY <1>2, <2>2 DEF Dispatch, BodyComplete, ReqBody
    <3>3. Len(Stream) = Len(ReqHead) + 2 + Len(ReqBody) /\ Len(ReqHead) \in Nat /\ Len(ReqBody) \in Nat
          /\ got \in Nat
      BY RequestFacts, Numbers DEF ServerInv
    <3> QED
      BY <3>1, <3>2, <3>3
  <2> QED
    BY <1>1, <2>1, <2>2
<1>3. CASE RecvHead \/ HeadDone \/ RecvBody
  BY <1>1, <1>3 DEF RecvHead, HeadDone, RecvBody
<1>4. CASE Refuse \/ Drop \/ Send \/ Crash
  BY <1>1, <1>4 DEF Refuse, Drop, Send, Crash
<1>5. CASE RecvReply \/ UNCHANGED vars
  BY <1>1, <1>5 DEF RecvReply, vars
<1>6. CASE Return \/ Raise \/ GiveUp
  <2>1. result' # Pending
    BY <1>6, ResultIsFinal
  <2> QED
    BY <1>1, <1>6, <2>1 DEF Return, Raise, GiveUp
<1> QED
  BY <1>2, <1>3, <1>4, <1>5, <1>6 DEF Next, ServerStep, ClientStep

LEMMA Delivery == Spec => []DeliveryInv
<1>1. Init => DeliveryInv
  BY DEF Init, DeliveryInv
<1> QED
  BY <1>1, DeliveryStep, Invariance, PTL DEF Spec

\* recv_until and recv_exact ask for no byte that a well-formed request does not
\* have, and leave none unread: the leftover behind the head counts as body, and
\* no more is asked for than is missing.
THEOREM RequestsAreReadExactly == Spec => []ReadsExactly
<1>1. ServerInv /\ DeliveryInv => ReadsExactly
  <2> SUFFICES ASSUME ServerInv, DeliveryInv, WellFormed
               PROVE  /\ Waiting /\ spc = "head" /\ ~Complete(buf) => got < cut
                      /\ Waiting /\ spc = "body" /\ ~BodyComplete => got < cut
                      /\ handled # NotHandled => got = cut
    BY DEF ReadsExactly
  <2>1. (Waiting => cut = Len(Stream)) /\ Len(Stream) = Len(ReqHead) + 2 + Len(ReqBody)
        /\ Len(ReqHead) \in Nat /\ Len(ReqBody) \in Nat /\ got \in Nat
    BY RequestFacts, Numbers DEF ServerInv, DeliveryInv
  <2>2. Waiting /\ spc = "head" /\ ~Complete(buf) => got < cut
    BY <2>1, HeadBuffer
  <2>3. ASSUME Waiting, spc = "body", ~BodyComplete PROVE got < cut
    <3>1. Len(buf) = got - (Len(ReqHead) + 2) /\ ~(Len(buf) >= Len(ReqBody))
      BY <2>3, BodyBuffer DEF BodyComplete, WellFormed, ReqBody
    <3> QED
      BY <2>1, <2>3, <3>1
  <2>4. handled # NotHandled => got = cut
    BY Numbers DEF DeliveryInv
  <2> QED
    BY <2>2, <2>3, <2>4
<1> QED
  BY <1>1, Invariance, Delivery, PTL

\* The answer to a well-formed request that was dispatched is sent in full: with
\* nothing unread, the close of handle_connection is no reset that destroys it.
THEOREM NoAnswerIsReset ==
    Spec => [][Send /\ WellFormed /\ handled # NotHandled => sent' = Len(Reply)]_vars
<1>1. ServerInv /\ ReadsExactly /\ [Next]_vars =>
          [Send /\ WellFormed /\ handled # NotHandled => sent' = Len(Reply)]_vars
  <2> SUFFICES ASSUME ServerInv, ReadsExactly, Send, WellFormed, handled # NotHandled
               PROVE  sent' = Len(Reply)
    OBVIOUS
  <2>1. ~(got < cut)
    BY Numbers DEF ReadsExactly
  <2> QED
    BY <2>1 DEF Send
<1> QED
  BY <1>1, Invariance, RequestsAreReadExactly, PTL DEF Spec

\* How far the server has still to go with the connection, and the client with
\* the response.
ServerLeft ==
    (Len(Stream) - got) + CASE spc = "head" -> 3 [] spc = "body" -> 2
                            [] spc = "reply" -> 1 [] OTHER -> 0
ClientLeft == (sent - Len(rbuf)) + (IF Waiting THEN 1 ELSE 0)

\* No end goes round in circles: however the bytes are cut into pieces, a step of
\* the server brings its end nearer and no step of anybody puts it off, and a
\* client has something to do only behind it (the loops of recv_until, recv_exact
\* and _read_response).
THEOREM CallsRunOut ==
    Spec => /\ [](ServerLeft \in Nat /\ ClientLeft \in Nat)
            /\ [][/\ (ServerStep \/ Crash) => ServerLeft' < ServerLeft
                 /\ (ClientStep \/ GiveUp) =>
                      ServerLeft' = ServerLeft /\ ClientLeft' < ClientLeft]_vars
<1>1. ServerInv /\ ClientInv => ServerLeft \in Nat /\ ClientLeft \in Nat
  <2> SUFFICES ASSUME ServerInv, ClientInv PROVE ServerLeft \in Nat /\ ClientLeft \in Nat
    OBVIOUS
  <2>1. ServerLeft \in Nat
    BY Numbers DEF ServerLeft, ServerInv
  <2>2. ClientLeft \in Nat
    BY LenProperties DEF ClientLeft, ClientInv
  <2> QED
    BY <2>1, <2>2
<1>2. ASSUME ServerInv, ClientInv, ServerStep \/ Crash PROVE ServerLeft' < ServerLeft
  <2>1. Len(Stream) \in Nat /\ got \in Nat /\ Stream' = Stream
    BY <1>2, Numbers DEF ServerStep, RecvHead, HeadDone, Refuse, RecvBody, Dispatch, Drop, Send, Crash,
                         client, Stream
  <2>2. CASE RecvHead \/ RecvBody
    <3>1. got' \in 0..cut /\ got < got' /\ spc' = spc
      <4>1. CASE RecvHead
        <5>1. HeadRoom \in Int
          BY <1>2, <4>1, HeadBuffer, LimitsAssumption DEF HeadRoom, Least, HeaderEnd, ServerInv, RecvHead
        <5> QED
          BY <1>2, <4>1, <5>1, RecvAppends DEF RecvHead
      <4>2. CASE RecvBody
        <5>1. BodyRoom \in Int
          BY <1>2, <4>2, BodyBuffer, LimitsAssumption DEF BodyRoom, Least, ServerInv, RecvBody
        <5> QED
          BY <1>2, <4>2, <5>1, RecvAppends DEF RecvBody
      <4> QED
        BY <2>2, <4>1, <4>2
    <3>2. cut \in Nat
      BY <1>2, Numbers
    <3> QED
      BY <2>1, <2>2, <3>1, <3>2 DEF ServerLeft, RecvHead, RecvBody
  <2>3. CASE HeadDone \/ Refuse \/ Dispatch
    <3>1. got' = got
      BY <2>3 DEF HeadDone, Refuse, Dispatch
    <3> QED
      BY <2>1, <2>3, <3>1 DEF ServerLeft, HeadDone, Refuse, Dispatch
  <2>4. CASE Drop \/ Send \/ Crash
    <3>1. got' = got /\ spc' = "closed" /\ spc \in {"head", "body", "reply"}
      BY <1>2, <2>4 DEF Drop, Send, Crash, ServerInv
    <3> QED
      BY <2>1, <3>1 DEF ServerLeft
  <2> QED
    BY <1>2, <2>2, <2>3, <2>4 DEF ServerStep
<1>3. ASSUME ServerInv, ClientInv, ClientStep \/ GiveUp
      PROVE  ServerLeft' = ServerLeft /\ ClientLeft' < ClientLeft
  <2>1. UNCHANGED <<request, got, spc, sent>> /\ Stream' = Stream /\ Waiting
    BY <1>3 DEF ClientStep, RecvReply, Return, Raise, GiveUp, server, Stream
  <2>2. ServerLeft' = ServerLeft
    BY <2>1 DEF ServerLeft
  <2>3. Len(rbuf) \in Nat /\ sent \in Nat
    BY <1>3, LenProperties DEF ClientInv
  <2>4. CASE RecvReply
    <3>1. Len(rbuf') > Len(rbuf) /\ Len(rbuf') \in Nat
      BY <1>3, <2>3, <2>4, RecvReplyStep, LenProperties DEF ClientInv
    <3>2. result' = result
      BY <2>4 DEF RecvReply
    <3> QED
      BY <2>1, <2>2, <2>3, <3>1, <3>2 DEF ClientLeft, Waiting
  <2>5. CASE Return \/ Raise \/ GiveUp
    <3>1. result' # Pending /\ rbuf' = rbuf
      BY <1>3, <2>5, ResultIsFinal DEF Return, Raise, GiveUp
    <3> QED
      BY <2>1, <2>2, <2>3, <3>1 DEF ClientLeft, Waiting
  <2> QED
    BY <1>3, <2>4, <2>5 DEF ClientStep
<1>4. ServerInv /\ ClientInv /\ [Next]_vars =>
        [/\ (ServerStep \/ Crash) => ServerLeft' < ServerLeft
         /\ (ClientStep \/ GiveUp) => ServerLeft' = ServerLeft /\ ClientLeft' < ClientLeft]_vars
  BY <1>2, <1>3
<1> QED
  BY <1>1, <1>4, Invariance, PTL DEF Spec
==============================================================================
