----------------------------- MODULE MCReceipts -----------------------------
(***************************************************************************)
(* Receipts for TLC: requests that share a key, an erasure and a           *)
(* transaction, two operations at a time.                                  *)
(***************************************************************************)
EXTENDS Receipts

MCRequests == {"a", "b", "e", "t"}
MCKeys == {"ab", "e", "t"}
MCKeyOf == [r \in MCRequests |-> CASE r \in {"a", "b"} -> "ab" [] r = "e" -> "e" [] r = "t" -> "t"]
\* A retry, two requests of one key, a write and an erasure; a transaction
\* begun twice, or beside an erasure.
MCMixes ==
    {[o \in Ops |-> IF o = 1 THEN x ELSE y] :
        <<x, y>> \in {<<"a", "a">>, <<"a", "b">>, <<"a", "e">>, <<"t", "t">>, <<"t", "e">>}}
=============================================================================
