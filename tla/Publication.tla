----------------------------- MODULE Publication -----------------------------
(***************************************************************************)
(* What a reader of the vault who goes by the status of a source may rely  *)
(* on: a document is published at once and whole, or its failure is told,  *)
(* and what was published or told never changes.                           *)
(***************************************************************************)
EXTENDS Integers

CONSTANTS Sources, MaxChunks

VARIABLE seen   \* what such a reader finds of each source

Nothing == [state |-> "open", chunk_count |-> 0, chunks |-> {}]
Failure == [state |-> "failed", chunk_count |-> 0, chunks |-> {}]
\* The document of s in n chunks.
Document(s, n) ==
    [state |-> "published", chunk_count |-> n,
     chunks |-> {[source |-> s, index |-> i, total |-> n] : i \in 0 .. n - 1}]

Init == seen = [s \in Sources |-> Nothing]

Settle(s, outcome) ==
    /\ seen[s] = Nothing
    /\ seen' = [seen EXCEPT ![s] = outcome]

Publish(s) == \E n \in 0 .. MaxChunks : Settle(s, Document(s, n))
Fail(s) == Settle(s, Failure)

Next == \E s \in Sources : Publish(s) \/ Fail(s)

Spec == Init /\ [][Next]_seen
==============================================================================
