----------------------------- MODULE MCMatching -----------------------------
(* An instance of the order book for TLC. *)
EXTENDS Matching

CONSTANTS alice, bob

Offer(t, long, price, size) == [trader |-> t, long |-> long, price |-> price, size |-> size]

\* A large ask, a bid that fills it in part, and a better bid of the asker.
SelfBook ==
    <<Offer(alice, FALSE, 1, 2), Offer(bob, TRUE, 1, 1), Offer(alice, TRUE, 2, 2)>>
=============================================================================
