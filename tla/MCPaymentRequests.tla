------------------------- MODULE MCPaymentRequests -------------------------
(* Symmetry for checking PaymentRequests with TLC.                         *)
EXTENDS PaymentRequests, TLC

(* Nothing distinguishes one mission, key, provider or request.            *)
Symmetric == Permutations(Missions) \cup Permutations(Keys)
             \cup Permutations(Providers) \cup Permutations(Requests)
=============================================================================
