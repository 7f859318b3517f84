------------------------------ MODULE StoreCall ------------------------------
(***************************************************************************)
(* What a caller of StoreClient may rely on: its operation is applied at   *)
(* most once; an answer is the one the store gave; OK means applied, a     *)
(* refusal means not applied, and an exception says nothing.               *)
(***************************************************************************)
CONSTANTS Answers, NoAnswer, Pending, Raised

VARIABLES
    applied,  \* the operation has changed, or read, the vault
    answer,   \* the answer the store decided on, or NoAnswer
    result    \* what the call came to: Pending, Raised or an answer

vars == <<applied, answer, result>>

Init == applied = FALSE /\ answer = NoAnswer /\ result = Pending

Decide(a) ==
    /\ answer = NoAnswer
    /\ answer' = a
    /\ CASE a.status = "OK" -> applied' = TRUE
         [] a.status = "SERVER_ERROR" -> applied' \in BOOLEAN
         [] OTHER -> applied' = FALSE
    /\ UNCHANGED result

Return ==
    /\ result = Pending /\ answer # NoAnswer /\ answer.status # "SERVER_ERROR"
    /\ result' = answer
    /\ UNCHANGED <<applied, answer>>

\* A time-out, a lost connection, or an error of the server.
Raise ==
    /\ result = Pending
    /\ result' = Raised
    /\ UNCHANGED <<applied, answer>>

Next == (\E a \in Answers : Decide(a)) \/ Return \/ Raise

Spec == Init /\ [][Next]_vars

\* What a caller is told is what happened: after OK the operation is applied,
\* after a refusal it is not (_raise_for_status).  What implements the call has
\* it from the call.
AnswersAreTrue ==
    result \notin {Pending, Raised} => answer = result /\ (applied <=> result.status = "OK")
==============================================================================
