------------------------------- MODULE Lists -------------------------------
(***************************************************************************)
(* What the report does with its lists: pick out what satisfies a          *)
(* condition, in order, sort, and add up.  All three are said without      *)
(* recursion, so that theorems can be proved about them (ListProofs).      *)
(***************************************************************************)
EXTENDS Integers, Sequences, FiniteSets

(* The order a stable sort by descending key gives the positions D of a    *)
(* list: the n-th is the one that n - 1 others go before.                  *)
Before(key, j, k) == key[j] > key[k] \/ (key[j] = key[k] /\ j < k)

Ranking(D, key) ==
  [n \in 1 .. Cardinality(D) |->
     CHOOSE k \in D : Cardinality({j \in D : Before(key, j, k)}) = n - 1]

InOrder(D) == Ranking(D, [k \in D |-> 0])

At(s, order) == [n \in DOMAIN order |-> s[order[n]]]

(* sort.SliceStable, by descending key.                                    *)
StableSort(s, Key(_)) == At(s, Ranking(DOMAIN s, [k \in DOMAIN s |-> Key(s[k])]))

(* The loop that appends every element satisfying P to an empty slice.     *)
Chosen(s, P(_)) == At(s, InOrder({k \in DOMAIN s : P(s[k])}))

(* The sum of natural numbers, as the number of units they have.           *)
Total(f) == Cardinality(UNION {{k} \X (1 .. f[k]) : k \in DOMAIN f})
=============================================================================
