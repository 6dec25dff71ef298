------------------------------ MODULE MCSession ------------------------------
(***************************************************************************)
(* Session with sets of model values: a key that is all the facade needs,  *)
(* one that only speaks protocol one, one without hmac-secret.             *)
(***************************************************************************)
EXTENDS Session, TLC

CONSTANTS good, old, plain, r1, r2, c1, c2, c3, p1, p2

MCKeys == {good, old, plain}
MCHmacKeys == {good, old}
MCTwoKeys == {good, plain}
MCRPs == {r1, r2}
MCConns == {c1, c2}
OneCaller == {p1}

\* Two goroutines, with a handle more than the two of them need.
TwoCallers == {p1, p2}
GoodAndOld == {good, old}
OnlyGood == {good}
OneRP == {r1}
ThreeConns == {c1, c2, c3}
Symmetric == Permutations(TwoCallers) \cup Permutations(ThreeConns)
=============================================================================
