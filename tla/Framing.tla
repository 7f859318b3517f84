------------------------------- MODULE Framing -------------------------------
(***************************************************************************)
(* One round trip of StoreClient over its own TCP connection: the bytes of *)
(* the request and of the response, and what the two ends make of them.    *)
(*                                                                         *)
(* A byte is "nl", a newline, or "x", any other one.  A message is a head, *)
(* two newlines and a body; the head tells how many bytes the body has.    *)
(* TCP delivers the bytes in order and in pieces of any size, so a recv    *)
(* returns any number of bytes up to the one it asks for.  A connection    *)
(* that is closed with bytes unread is reset, and what was on its way to   *)
(* the other end may be lost.                                              *)
(***************************************************************************)
EXTENDS Integers, Sequences

CONSTANTS
    MaxHeader,  \* MAX_HEADER_BYTES
    MaxBody,    \* MAX_BODY_BYTES
    RecvMax,    \* the most bytes a recv asks for (4096)
    Requests,   \* the requests: head, the length it tells, the body sent
    Answers     \* what dispatch may answer: status and body

Bytes == {"x", "nl"}
NoLength == -1    \* of a head that does not parse
HeaderEnd == <<"nl", "nl">>

\* The blank line first comes up right behind the head.
IsHead(h) ==
    /\ h \in Seq(Bytes) /\ h # <<>> /\ h[Len(h)] = "x"
    /\ \A i \in 1..(Len(h) - 1) : ~(h[i] = "nl" /\ h[i + 1] = "nl")

ASSUME LimitsAssumption == MaxHeader \in Nat /\ MaxBody \in Nat \ {0} /\ RecvMax \in Nat \ {0}
ASSUME RequestsAssumption ==
    \A r \in Requests :
        /\ r = [head |-> r.head, length |-> r.length, body |-> r.body]
        /\ IsHead(r.head) /\ r.length \in Nat \cup {NoLength} /\ r.body \in Seq(Bytes)
ASSUME AnswersAssumption ==
    \A a \in Answers :
        /\ a = [status |-> a.status, body |-> a.body]
        /\ a.status \in {"OK", "NOT_FOUND", "SCHEMA_ERROR", "BAD_REQUEST", "SERVER_ERROR"}
        /\ a.body \in Seq(Bytes)

NoAnswer == [status |-> "none"]
Pending == [status |-> "pending"]
Raised == [status |-> "raised"]
NotHandled == [head |-> <<>>]

VARIABLES
    request,  \* the request of this call
    cut,      \* how many of its bytes ever arrive at the server
    got,      \* how many the server has taken from the socket
    buf,      \* what it keeps of them: of the head, then of the body
    spc,      \* what the server does
    handled,  \* the request it dispatched, or NotHandled
    applied,  \* dispatch has carried the request out
    answer,   \* the response it is to send, or NoAnswer
    sent,     \* how many bytes of the response ever arrive at the client
    rbuf,     \* what the client has read of the response
    result    \* what the call came to: Pending, Raised or an answer

server == <<got, buf, spc, handled, applied, answer, sent>>
client == <<cut, rbuf, result>>
vars == <<request, server, client>>

Least(a, b) == IF a < b THEN a ELSE b

-----------------------------------------------------------------------------
(* Messages.                                                               *)

\* format_request, format_response
Message(head, body) == head \o HeaderEnd \o body

\* Where HeaderEnd begins in b.
EndsAt(b) == {i \in 1..(Len(b) - 1) : b[i] = "nl" /\ b[i + 1] = "nl"}
Complete(b) == EndsAt(b) # {}
FirstEnd(b) == CHOOSE i \in EndsAt(b) : \A j \in EndsAt(b) : i <= j
Before(b) == SubSeq(b, 1, FirstEnd(b) - 1)
After(b) == SubSeq(b, FirstEnd(b) + 2, Len(b))

Stream == Message(request.head, request.body)

\* parse_request_headers: the length the head tells; a head that is not the one
\* sent does not parse, and neither does one that tells too much.
Length(head) ==
    IF head = request.head /\ request.length <= MaxBody THEN request.length ELSE NoLength

\* Every response has a head of the same shape.
ReplyHead == <<"x", "nl", "x">>
Reply == Message(ReplyHead, answer.body)

BadRequest == [status |-> "BAD_REQUEST", body |-> <<"x">>]

Init ==
    /\ request \in Requests
    /\ cut = Len(Stream)
    /\ got = 0 /\ buf = <<>> /\ spc = "head" /\ handled = NotHandled
    /\ applied = FALSE /\ answer = NoAnswer /\ sent = 0
    /\ rbuf = <<>> /\ result = Pending

-----------------------------------------------------------------------------
(* The server: handle_connection with recv_until and recv_exact.           *)

\* recv(n): any piece of what is there.
Recv(n) ==
    \E k \in 1..Least(n, cut - got) :
        /\ buf' = buf \o SubSeq(Stream, got + 1, got + k)
        /\ got' = got + k

\* recv returns nothing: the client has closed its end.
Eof == got = cut /\ result # Pending

HeadRoom_Unbounded == RecvMax
HeadRoom == Least(RecvMax, MaxHeader - Len(buf) + Len(HeaderEnd))

TooLong_AnyBuffer == Len(buf) >= MaxHeader
TooLong == ~Complete(buf) /\ Len(buf) >= MaxHeader

RecvHead ==
    /\ spc = "head" /\ ~Complete(buf) /\ ~TooLong
    /\ Recv(HeadRoom)
    /\ UNCHANGED <<request, spc, handled, applied, answer, sent, client>>

Rest_Dropped == <<>>
\* The bytes behind the head belong to the body.
Rest == After(buf)

\* The head is there and parses, and no more of the body came with it than the
\* head announces.
HeadDone ==
    /\ spc = "head" /\ Complete(buf)
    /\ Length(Before(buf)) # NoLength /\ Len(Rest) <= Length(Before(buf))
    /\ spc' = "body"
    /\ buf' = Rest
    /\ UNCHANGED <<request, got, handled, applied, answer, sent, client>>

\* ProtocolError: no end of the head, a head that does not parse, or a surplus.
Refuse ==
    /\ spc = "head"
    /\ \/ TooLong
       \/ /\ Complete(buf)
          /\ Length(Before(buf)) = NoLength \/ Len(Rest) > Length(Before(buf))
    /\ spc' = "reply"
    /\ answer' = BadRequest
    /\ UNCHANGED <<request, got, buf, handled, applied, sent, client>>

BodyRoom_Greedy == RecvMax
BodyRoom == Least(RecvMax, request.length - Len(buf))

BodyComplete_AfterOneRecv == Len(buf) > 0 \/ request.length = 0
BodyComplete == Len(buf) >= request.length

RecvBody ==
    /\ spc = "body" /\ ~BodyComplete
    /\ Recv(BodyRoom)
    /\ UNCHANGED <<request, spc, handled, applied, answer, sent, client>>

\* dispatch: a refusal leaves the vault alone; an error may come in the middle.
Dispatch ==
    /\ spc = "body" /\ BodyComplete
    /\ handled' = [head |-> request.head, body |-> buf]
    /\ answer' \in Answers
    /\ CASE answer'.status = "OK" -> applied' = TRUE
         [] answer'.status = "SERVER_ERROR" -> applied' \in BOOLEAN
         [] OTHER -> applied' = FALSE
    /\ spc' = "reply"
    /\ UNCHANGED <<request, got, buf, sent, client>>

\* ConnectionClosed: the connection is dropped without an answer.
Drop ==
    /\ \/ spc = "head" /\ ~Complete(buf) /\ ~TooLong
       \/ spc = "body" /\ ~BodyComplete
    /\ Eof
    /\ spc' = "closed"
    /\ UNCHANGED <<request, got, buf, handled, applied, answer, sent, client>>

\* sendall and close; with input unread the close is a reset.
Send ==
    /\ spc = "reply"
    /\ spc' = "closed"
    /\ IF got < cut THEN sent' \in 0..Len(Reply) ELSE sent' = Len(Reply)
    /\ UNCHANGED <<request, got, buf, handled, applied, answer, client>>

\* The server process is killed.
Crash ==
    /\ spc # "closed"
    /\ spc' = "closed"
    /\ sent' \in IF spc = "reply" THEN 0..Len(Reply) ELSE {0}
    /\ UNCHANGED <<request, got, buf, handled, applied, answer, client>>

-----------------------------------------------------------------------------
(* The client: _round_trip with _read_response and _raise_for_status.      *)

Waiting == result = Pending

\* All of the response is in rbuf.
Whole_Early == Complete(rbuf)
Whole == Complete(rbuf) /\ Len(After(rbuf)) >= Len(answer.body)

TooBig == Complete(rbuf) /\ Len(answer.body) > MaxBody

ReplyRoom == IF Complete(rbuf) THEN Least(RecvMax, Len(answer.body) - Len(After(rbuf))) ELSE RecvMax

RecvReply ==
    /\ Waiting /\ ~Whole /\ ~TooBig
    /\ \E k \in 1..Least(ReplyRoom, sent - Len(rbuf)) :
        rbuf' = rbuf \o SubSeq(Reply, Len(rbuf) + 1, Len(rbuf) + k)
    /\ UNCHANGED <<request, server, cut, result>>

\* A response is returned, or raised as the exception its status stands for;
\* SERVER_ERROR is raised as StoreError, as a lost connection is.
Outcome(response) == IF response.status = "SERVER_ERROR" THEN Raised ELSE response

Return ==
    /\ Waiting /\ Whole /\ ~TooBig
    /\ result' = Outcome([status |-> answer.status, body |-> After(rbuf)])
    /\ UNCHANGED <<request, server, cut, rbuf>>

\* ProtocolError on a body too big, StoreError or a reset at the end of a
\* response that is not all there.
Raise ==
    /\ Waiting
    /\ TooBig \/ (~Whole /\ spc = "closed" /\ Len(rbuf) = sent)
    /\ result' = Raised
    /\ UNCHANGED <<request, server, cut, rbuf>>

\* A time-out, a failed connect or send, or the end of the client's process:
\* what was not sent by then never arrives.
GiveUp ==
    /\ Waiting
    /\ cut' \in got..cut
    /\ result' = Raised
    /\ UNCHANGED <<request, server, rbuf>>

-----------------------------------------------------------------------------
ServerStep == RecvHead \/ HeadDone \/ Refuse \/ RecvBody \/ Dispatch \/ Drop \/ Send
ClientStep == RecvReply \/ Return \/ Raise

Next == ServerStep \/ ClientStep \/ Crash \/ GiveUp

Spec == Init /\ [][Next]_vars

\* Each end runs on, and TCP delivers; nobody has to give up or to crash.
FairSpec == Spec /\ WF_vars(ServerStep) /\ WF_vars(ClientStep)

-----------------------------------------------------------------------------
(* What must hold.                                                         *)

\* Every variable has its type, and the server never buffers more of a head
\* than its limit and the blank line, or more of a body than was announced.
TypeOK ==
    /\ request \in Requests
    /\ cut \in 0..Len(Stream)
    /\ got \in 0..cut
    /\ buf \in Seq(Bytes)
    /\ spc \in {"head", "body", "reply", "closed"}
    /\ spc = "head" => Len(buf) <= MaxHeader + Len(HeaderEnd)
    /\ applied \in BOOLEAN
    /\ answer \in Answers \cup {NoAnswer, BadRequest}
    /\ spc = "reply" => answer # NoAnswer
    /\ sent \in Nat
    /\ rbuf \in Seq(Bytes) /\ Len(rbuf) <= sent
    /\ result \in {Pending, Raised}
         \/ result.status \in {"OK", "NOT_FOUND", "SCHEMA_ERROR", "BAD_REQUEST"}

\* However the stream is cut into pieces, what is dispatched is the request that
\* was sent: its head, and of its body as many bytes as the head announces.
HandledIsSent ==
    handled # NotHandled =>
        /\ handled.head = request.head
        /\ Len(request.body) >= request.length
        /\ handled.body = SubSeq(request.body, 1, request.length)

\* A head with its blank line within MAX_HEADER_BYTES is never refused for its
\* length, and a head longer than that never gets through.
HeaderLimit ==
    /\ spc = "head" /\ TooLong => Len(request.head) + Len(HeaderEnd) > MaxHeader
    /\ spc = "body" \/ handled # NotHandled => Len(request.head) <= MaxHeader

\* The client sent what its head announces.
WellFormed == request.length = Len(request.body)

\* The server reads a well-formed request to its end and no further: while it
\* asks for more and the client waits for the answer there is more, so that they
\* never wait for each other; and when it has dispatched the request nothing of
\* it is unread, so that the close is no reset and destroys no answer.
ReadsExactly ==
    WellFormed =>
        /\ Waiting /\ spc = "head" /\ ~Complete(buf) /\ ~TooLong => got < cut
        /\ Waiting /\ spc = "body" /\ ~BodyComplete => got < cut
        /\ handled # NotHandled => got = cut

\* A well-formed request is answered, or its connection lost, without anybody
\* timing out: no end waits for bytes that the other has no reason to send.
CallEnds == WellFormed => <>(spc = "closed" /\ ~Waiting)

\* The bytes on the wire carry out the call the client library promises.
Call == INSTANCE StoreCall WITH Answers <- Answers \cup {BadRequest}

ImplementsStoreCall == Call!Spec
==============================================================================
