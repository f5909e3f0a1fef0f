------------------------- MODULE MCPaymentExecutor -------------------------
(* Symmetry for checking PaymentExecutor with TLC.                         *)
EXTENDS PaymentRefinement, TLC

(* Workers of one provider, and orders, are interchangeable.               *)
Symmetric == Permutations(Routed) \cup Permutations(Orders)
WorkerSymmetry == Permutations(Routed)
=============================================================================
