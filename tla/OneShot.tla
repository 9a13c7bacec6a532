------------------------------ MODULE OneShot ------------------------------
(***************************************************************************)
(* What a WSS session ticket promises: it is honoured at most once, and    *)
(* only if it was presented within its life.  Recording it may fail, and   *)
(* the ticket can then be presented again.                                 *)
(***************************************************************************)
EXTENDS Naturals

CONSTANT Tickets

VARIABLES tk,     \* ticket -> "none", "issued", "claimed" or "spent"
          life,   \* ticket -> until when it may be presented
          clock

vars == <<tk, life, clock>>

Init == tk = [t \in Tickets |-> "none"] /\ life = [t \in Tickets |-> 0] /\ clock = 0

Moves(t, from, to) == tk[t] = from /\ tk' = [tk EXCEPT ![t] = to]

\* One ticket is issued, for a life that has not ended.
Issue(t) ==
    /\ Moves(t, "none", "issued")
    /\ life' = [life EXCEPT ![t] = life'[t]] /\ life'[t] > clock
    /\ UNCHANGED clock

Claim(t) == clock < life[t] /\ Moves(t, "issued", "claimed") /\ UNCHANGED <<life, clock>>
Unclaim(t) == Moves(t, "claimed", "issued") /\ UNCHANGED <<life, clock>>
Spend(t) == Moves(t, "claimed", "spent") /\ UNCHANGED <<life, clock>>

Tick == clock' = clock + 1 /\ UNCHANGED <<tk, life>>

Next == Tick \/ \E t \in Tickets : Issue(t) \/ Claim(t) \/ Unclaim(t) \/ Spend(t)

Spec == Init /\ [][Next]_vars
=============================================================================
