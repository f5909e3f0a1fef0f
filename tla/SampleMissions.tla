--------------------------- MODULE SampleMissions ---------------------------
(***************************************************************************)
(* Requests for Orchestrator: two merchants, the second unknown to the     *)
(* registry, each answering with up to two offers of a few kinds, and a    *)
(* few requests and answers that cannot be kept, for columns up to 15.     *)
(***************************************************************************)
EXTENDS PolicyEngine, TLC

SampleTrust == 1 :> 90

Base(m) ==
    [merchant_id |-> m, product_id |-> 1, price |-> 5, currency |-> "INR",
     rating |-> 4600, in_stock |-> TRUE, offered_at |-> Aware(10, 0),
     claims |-> << >>, writable |-> TRUE]

Claim(f, v, w) == [field |-> f, value |-> v, writable |-> w]

(* The base offer with one thing about it different.                       *)
Variants(m) ==
    {Base(m),
     [Base(m) EXCEPT !.merchant_id = 3 - m],
     [Base(m) EXCEPT !.price = 1],
     [Base(m) EXCEPT !.price = 3],
     [Base(m) EXCEPT !.price = 12],
     [Base(m) EXCEPT !.currency = "USD"],
     [Base(m) EXCEPT !.currency = "inr"],
     [Base(m) EXCEPT !.rating = 4598],
     [Base(m) EXCEPT !.in_stock = FALSE],
     [Base(m) EXCEPT !.offered_at = Aware(15, 5)],
     [Base(m) EXCEPT !.offered_at = Naive(10)],
     [Base(m) EXCEPT !.claims = <<Claim("category", 1, FALSE),
                                  Claim("hard_limit_inr", 99, TRUE)>>]}

(* One that cannot be rounded, stored or recorded.                         *)
Unkept(m) ==
    {[Base(m) EXCEPT !.price = Infinity],
     [Base(m) EXCEPT !.price = 20],
     [Base(m) EXCEPT !.price = 32],
     [Base(m) EXCEPT !.writable = FALSE],
     [Base(m) EXCEPT !.claims = <<Claim("currency", 1, TRUE),
                                  Claim("hard_limit_inr", 99, FALSE)>>]}

Answer(m, offers) == [merchant |-> m, offers |-> offers, raises |-> FALSE]

PairOf(o, p) == <<Answer(1, <<o>>), Answer(2, <<p>>)>>

Answers ==
    {PairOf(o, p) : o \in Variants(1), p \in Variants(2)}
    \cup {PairOf(o, Base(2)) : o \in Unkept(1)}
    \cup {<<Answer(1, << >>)>>}
    \cup {<<Answer(1, <<o, [Base(1) EXCEPT !.product_id = 2]>>)>> :
             o \in Variants(1) \cup Unkept(1)}
    \cup {<<Answer(1, <<Base(1)>>), [Answer(2, << >>) EXCEPT !.raises = TRUE]>>}

Constraints ==
    [soft_budget_inr |-> 3, hard_limit_inr |-> 5, currency |-> "INR",
     min_rating |-> 4599, allowed_merchants |-> {1, 2},
     blocked_merchants |-> {}, min_merchant_trust |-> 0]

SampleRequests ==
    [constraints : {Constraints,
                    [Constraints EXCEPT !.min_merchant_trust = 50],
                    [Constraints EXCEPT !.allowed_merchants = {2}],
                    [Constraints EXCEPT !.blocked_merchants = {1}],
                    [Constraints EXCEPT !.min_rating = 0]},
     quantity    : {1, 2},
     answers     : Answers,
     writable    : {TRUE}]
    \cup
    [constraints : {Constraints, [Constraints EXCEPT !.hard_limit_inr = 16]},
     quantity    : {1},
     answers     : {PairOf(Base(1), Base(2))},
     writable    : BOOLEAN]

(* Fewer: one constraint set, the second merchant constant.                *)
FewRequests ==
    {r \in SampleRequests :
        /\ r.constraints = Constraints /\ r.quantity = 2
        /\ Len(r.answers) = 2 => r.answers[2].offers \in {<<Base(2)>>, << >>}
        /\ Len(r.answers) = 1 => r.answers[1].offers = << >>}
=============================================================================
