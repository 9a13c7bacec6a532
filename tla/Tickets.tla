------------------------------ MODULE Tickets ------------------------------
(***************************************************************************)
(* WSS session tickets: the broker's issuer (internal/broker/wss_ticket.go)*)
(* and what a relay's verifier accepts (internal/wssbridge/ticket.go).     *)
(* A ticket stands for its jti; its claims are its front and its expiry.   *)
(***************************************************************************)
EXTENDS Env

CONSTANTS Tickets,   \* jtis
          TTL,       \* the issuer's ticket lifetime
          Skew       \* the verifier's clock skew

ASSUME TicketAssumption ==
    None \notin Tickets /\ TTL \in Nat \ {0, 1} /\ Skew \in Nat

VARIABLE claims      \* ticket -> its front, issue time and expiry

\* What is not issued has no expiry.
Unissued == [front |-> None, issued |-> 0, exp |-> 0]

TicketInit == claims = [t \in Tickets |-> Unissued]

Issued == {t \in Tickets : claims[t].exp # 0}

\* Random, so never one drawn before.
newWSSTicketID == CHOOSE t \in Tickets \ Issued : TRUE

\* A relay's lease ends at any time: the ticket lives until then, or for TTL.
Expiries == {e \in now..now + TTL : e > now + 1}

\* The handler's whole effect when it issues a ticket for front f; every error
\* of it leaves no trace.
wssTicketHandler(f) ==
    /\ Issued # Tickets
    /\ \E e \in Expiries :
         claims' = [claims EXCEPT ![newWSSTicketID] =
                      [front |-> f, issued |-> now, exp |-> e]]

\* Verify for a ticket of this relay.
validateClaims(t) ==
    /\ claims[t].issued <= now + Skew
    /\ claims[t].exp + Skew > now

Verify(t, f) == validateClaims(t) /\ claims[t].front = f

\* Until when a consumed ticket is remembered.
replayUntil(t) == claims[t].exp + Skew
=============================================================================
