----------------------------- MODULE MCOutbound -----------------------------
(***************************************************************************)
(* Outbound for TLC: a conversation of two rows, the second released by a  *)
(* sync and deduped by its provider, and rows that a fork and a former     *)
(* workspace account left.                                                 *)
(***************************************************************************)
EXTENDS Outbound

\* Rows 1 and 2 share a conversation, the others have their own.
MCConvOf == [m \in Messages |-> IF m > 2 THEN 2 ELSE 1]
\* A reply comes in on the thread that row 1 carries, or quotes row 2.
MCThread == [r \in Replies |-> {1}]
MCQuoted == [r \in Replies |-> {2}]
=============================================================================
