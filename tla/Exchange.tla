------------------------------- MODULE Exchange -------------------------------
(***************************************************************************)
(* What package ctap2's call promises the commands above it, whatever goes *)
(* wrong below: each call returns one of the authenticator's answers,      *)
(* whole, or fails. Answers are returned in the order they were given and  *)
(* none twice, so after a failure it may be the answer to an earlier call  *)
(* on the same connection, but never one from before the connection.       *)
(***************************************************************************)
EXTENDS Integers, Sequences

VARIABLES
    calls,      \* calls begun, numbered from 1
    first,      \* the first call on this connection
    answered,   \* calls the authenticator has given its answer to
    results,    \* for each finished call, the call whose answer it returned
    garbling    \* the device may drop reports between others

vars == <<calls, first, answered, results, garbling>>

NoAnswer == 0       \* the call failed
Mixed == -1         \* it returned parts of several answers

Init ==
    /\ calls = 0 /\ first = 1 /\ answered = {} /\ results = << >>
    /\ garbling \in BOOLEAN

Running == Len(results) < calls

Connect ==
    /\ ~Running
    /\ first' = calls + 1
    /\ UNCHANGED <<calls, answered, results, garbling>>

Begin ==
    /\ ~Running
    /\ calls' = calls + 1
    /\ UNCHANGED <<first, answered, results, garbling>>

\* A request that cannot be sent.
Refuse ==
    /\ ~Running
    /\ calls' = calls + 1 /\ results' = Append(results, NoAnswer)
    /\ UNCHANGED <<first, answered, garbling>>

\* The authenticator answers requests in order, those of calls that have
\* failed too.
Answer ==
    /\ \E q \in 1..calls :
          /\ \A a \in answered : a < q
          /\ answered' = answered \cup {q}
    /\ UNCHANGED <<calls, first, results, garbling>>

Returnable(q) == q >= first /\ \A k \in DOMAIN results : results[k] < q

Return ==
    /\ Running
    /\ \E q \in answered : Returnable(q) /\ results' = Append(results, q)
    /\ UNCHANGED <<calls, first, answered, garbling>>

Fail ==
    /\ Running
    /\ results' = Append(results, NoAnswer)
    /\ UNCHANGED <<calls, first, answered, garbling>>

Garble ==
    /\ Running /\ garbling
    /\ results' = Append(results, Mixed)
    /\ UNCHANGED <<calls, first, answered, garbling>>

Next == Connect \/ Begin \/ Refuse \/ Answer \/ Return \/ Fail \/ Garble

Spec == Init /\ [][Next]_vars
=============================================================================
