----------------------------- MODULE MCReactive -----------------------------
(* The constants of the runs of Reactive: what the computed reads. *)
EXTENDS Reactive, TLC

SignalOf == [c \in Computeds |-> CHOOSE s \in Signals : TRUE]

\* The effects of a safety run are alike.
AlikeEffects == Permutations(Effects)
=============================================================================
