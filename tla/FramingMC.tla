------------------------------ MODULE FramingMC ------------------------------
(* Instances of Framing for TLC.                                            *)
EXTENDS Framing

CONSTANTS HeadSizes   \* the lengths of the heads

\* A request line and a header line; the first line is one byte long.
HeadOf(n) == <<"x", "nl">> \o [i \in 1..(n - 2) |-> "x"]

Bodies == {<<>>, <<"nl">>, <<"nl", "nl">>, <<"x", "nl">>}

\* Heads that tell the length of the body, one too few, one too many, too much,
\* or nothing that parses.
SomeRequests ==
    {[head |-> HeadOf(n), length |-> l, body |-> b] :
        n \in HeadSizes, l \in {NoLength} \cup 0..3, b \in Bodies}

SomeAnswers ==
    {[status |-> s, body |-> b] : s \in {"OK", "NOT_FOUND", "SERVER_ERROR"},
                                  b \in {<<>>, <<"nl", "x">>}}
        \cup {[status |-> "OK", body |-> <<"x", "x", "x">>]}
==============================================================================
