----------------------------- MODULE MCClients -----------------------------
(* Instances of Clients for TLC: a client, and a friend.                     *)
EXTENDS ClientsProperties

CONSTANTS ana, bia, r1, r2

(* Requests are told apart by nothing but what they hold.                    *)
SameRequests == Permutations(Requests)

Programme == {[enabled |-> TRUE, rewardWho |-> "both"], [enabled |-> FALSE, rewardWho |-> "referrer"]}
=============================================================================
