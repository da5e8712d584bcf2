---------------------------- MODULE LatestRequest ----------------------------
(***************************************************************************)
(* What an asynchronous signal promises to those who read its data,        *)
(* loading and error: they show the newest request and no other, whatever  *)
(* order the answers come in.                                              *)
(*                                                                         *)
(* A request is a number and stands for its own result, so data = 3 says   *)
(* that data holds the answer to the third request; 0 is the initial value.*)
(***************************************************************************)
EXTENDS Naturals

VARIABLES data, loading, error,
          last,     \* the newest request so far
          current,  \* last while its outcome can still be shown, or 0
          closed

vars == <<data, loading, error, last, current, closed>>

Init ==
  /\ data = 0 /\ error = 0 /\ loading \in BOOLEAN
  /\ last = 0 /\ current = 0 /\ closed = FALSE

\* A new request replaces the previous one.
Begin ==
  /\ ~closed
  /\ last' = last + 1 /\ current' = last'
  /\ loading' = TRUE /\ error' = 0
  /\ data' \in {data, 0}
  /\ UNCHANGED closed

Succeed ==
  /\ current # 0
  /\ data' = current /\ current' = 0 /\ loading' = FALSE
  /\ UNCHANGED <<error, last, closed>>

Fail ==
  /\ current # 0
  /\ error' = current /\ current' = 0 /\ loading' = FALSE
  /\ UNCHANGED <<data, last, closed>>

\* The request is cancelled.  If its code is still running it can still fail.
Cancel ==
  /\ loading' = FALSE /\ current' \in {current, 0}
  /\ UNCHANGED <<data, error, last, closed>>

\* The request ended with an AbortError nobody asked for: it is forgotten, and
\* nothing tells the readers.
Forget ==
  /\ current # 0 /\ current' = 0
  /\ UNCHANGED <<data, loading, error, last, closed>>

Close ==
  /\ closed' = TRUE /\ current' = 0 /\ loading' = FALSE
  /\ UNCHANGED <<data, error, last>>

Next == Begin \/ Succeed \/ Fail \/ Cancel \/ Forget \/ Close

Spec == Init /\ [][Next]_vars
=============================================================================
