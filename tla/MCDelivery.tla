----------------------------- MODULE MCDelivery -----------------------------
(***************************************************************************)
(* Two invocations, in the same minute or not, with the options that       *)
(* differ in what follows from them.                                       *)
(***************************************************************************)
EXTENDS Delivery, TLC

O(pub, lat, doc, send, stay) ==
  [valid |-> TRUE, publish |-> pub, latest |-> lat, pdf |-> doc,
   mail |-> send, keep |-> stay]

MCOptions ==
  { O(TRUE, TRUE, FALSE, TRUE, TRUE), O(FALSE, FALSE, TRUE, TRUE, FALSE),
    O(TRUE, FALSE, TRUE, TRUE, TRUE), O(TRUE, FALSE, FALSE, FALSE, FALSE) }
MCAllOptions == [valid : BOOLEAN, publish : BOOLEAN, latest : BOOLEAN,
                 pdf : BOOLEAN, mail : BOOLEAN, keep : BOOLEAN]

Permuted == Permutations(Invocations)
=============================================================================
