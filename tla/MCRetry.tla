------------------------------ MODULE MCRetry ------------------------------
(* Policies for Retry: short calls, a short category and a long one. *)
EXTENDS Retry

MCCategories == {"gateway", "rate_limit"}
MCDeadline == [c \in MCCategories |-> IF c = "gateway" THEN 3 ELSE 6]
MCBase     == [c \in MCCategories |-> IF c = "gateway" THEN 1 ELSE 2]
MCMaxDelay == [c \in MCCategories |-> IF c = "gateway" THEN 2 ELSE 5]
=============================================================================
