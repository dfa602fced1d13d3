--------------------------- MODULE PairHandshake ---------------------------
(***************************************************************************)
(* What the pair epochs of a mesh room promise, whatever the order of the  *)
(* messages and of the browser's asynchronous operations: the two ends of  *)
(* a pair go through numbered attempts, in step; a description is applied  *)
(* only in the attempt it was made for; and the server issues an attempt   *)
(* only after one of the ends has been through the last.  MeshPairClient   *)
(* is shown to implement this.                                             *)
(***************************************************************************)
EXTENDS Integers

CONSTANTS Offerer, Answerer

VARIABLES
  issued,    \* the attempt the server has issued last
  attempt,   \* per end: the attempt it has begun last, 0 for none
  applied    \* per end: the last attempt whose remote description it applied

vars == <<issued, attempt, applied>>

Ends == {Offerer, Answerer}

\* Type correctness.
TypeOK == /\ issued \in Nat \ {0}
          /\ attempt \in [Ends -> Nat]
          /\ applied \in [Ends -> Nat]

Init == /\ issued = 1
        /\ attempt = [e \in Ends |-> 0]
        /\ applied = [e \in Ends |-> 0]

\* The attempt has failed at an end that had completed it.
Issue == /\ \E e \in Ends : applied[e] = issued
         /\ issued' = issued + 1
         /\ UNCHANGED <<attempt, applied>>

Begin(e) == /\ attempt[e] < issued
            /\ attempt' = [attempt EXCEPT ![e] = issued]
            /\ UNCHANGED <<issued, applied>>

\* The answerer has the offer of the attempt both are in.
ApplyOffer == /\ applied[Answerer] < attempt[Answerer]
              /\ attempt[Offerer] = attempt[Answerer]
              /\ applied' = [applied EXCEPT ![Answerer] = attempt[Answerer]]
              /\ UNCHANGED <<issued, attempt>>

\* The offerer has the answer to the offer it made in its attempt.
ApplyAnswer == /\ applied[Offerer] < attempt[Offerer]
               /\ applied[Answerer] = attempt[Offerer]
               /\ applied' = [applied EXCEPT ![Offerer] = attempt[Offerer]]
               /\ UNCHANGED <<issued, attempt>>

Next == Issue \/ (\E e \in Ends : Begin(e)) \/ ApplyOffer \/ ApplyAnswer

Spec == Init /\ [][Next]_vars

\* The ends are never two attempts apart, and an end that has completed an
\* attempt has a partner that took part in it (reconnect.go issues an epoch
\* only for a pair marked failed in the current one).
InStep ==
  \A e \in Ends : /\ applied[e] <= attempt[e]
                  /\ attempt[e] <= issued
                  /\ issued <= attempt[e] + 1
                  /\ \A f \in Ends : applied[e] <= attempt[f]

=============================================================================
