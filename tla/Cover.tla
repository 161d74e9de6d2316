------------------------------- MODULE Cover --------------------------------
(***************************************************************************)
(* simplified-spscq/cover.cpp: how many cache lines a batch of b slots     *)
(* touches, counted slot by slot, against the closed formula the benchmark *)
(* predicts its cache misses with.  cover() and roll() compare the two     *)
(* over all batches up to a bound and report a wrong formula.              *)
(***************************************************************************)
EXTENDS Integers, FiniteSets

(* Lines of K slots, up to the one that starts at or before L, with a slot *)
(* of the batch first .. first + b - 1.                                    *)
Covered(first, b, L, K) ==
    {k \in (first \div K) .. (L \div K) :
       \E s \in K * k .. K * k + K - 1 : first <= s /\ s < first + b}

covered_cachelines(first, b, L, K) == Cardinality(Covered(first, b, L, K))

(* 1 + ceil((b - 1) / K).                                                  *)
predict(b, K) == 1 + ((b - 1) + (K - 1)) \div K

(* cover() returns 0: for every offset in a line the formula is exact or   *)
(* one too many.                                                           *)
cover(Bmax, K) ==
    \A b \in 1 .. Bmax, ofs \in 0 .. K - 1 :
        predict(b, K) - covered_cachelines(ofs, b, Bmax, K) \in 0 .. 1

(* Misses of batches of b slots, one after the other, over a ring of L.    *)
misses(b, ofs, L, K) ==
    Cardinality(UNION {{cur} \X Covered(cur, b, L, K) :
                         cur \in {c \in ofs .. L - 1 : (c - ofs) % b = 0}})

(* roll() returns 0: predict / b is an upper bound of misses / L, up to    *)
(* the 0.01 it tolerates for the last batch.                               *)
roll(L, Bmax, K) ==
    \A b \in 1 .. Bmax : \A ofs \in 0 .. b - 1 :
        100 * b * misses(b, ofs, L, K) <= 100 * L * predict(b, K) + L * b

=============================================================================
