---------------------------- MODULE LoginTickets ----------------------------
(***************************************************************************)
(* What the login-ticket store promises to the sessions that redeem        *)
(* tickets (spec.md 4.4, 8): a ticket is issued bound to an account with   *)
(* an expiry WaitTime seconds after issue; while the clock is before its   *)
(* expiry the first redemption hands out that account and consumes the    *)
(* ticket; any other redemption is refused.  Only the live tickets are     *)
(* state here: an expired ticket has simply gone, whenever the concrete    *)
(* store gets round to erasing it.                                         *)
(***************************************************************************)
EXTENDS Integers, Functions, TLC

CONSTANTS
    Ticket,      \* ticket ids
    Account,     \* accounts a ticket can be bound to
    Client,      \* parties that redeem tickets (one redemption each)
    WaitTime,    \* validity window of a ticket
    MaxTime      \* bound on the clock

VARIABLES
    tickets,     \* live tickets: id -> [Account, ExpiryTime]
    clock,       \* seconds
    holder       \* outcome of each client's redemption: "no", "fail" or an account

vars == <<tickets, clock, holder>>

Init ==
    /\ tickets = [id \in {} |-> [Account |-> CHOOSE a \in Account : TRUE, ExpiryTime |-> 0]]
    /\ clock = 0
    /\ holder = [c \in Client |-> "no"]

Issue(id, a) ==
    /\ tickets' = (id :> [Account |-> a, ExpiryTime |-> clock + WaitTime]) @@ tickets
    /\ UNCHANGED <<clock, holder>>

Redeem(c, id) ==
    /\ holder[c] = "no"
    /\ id \in DOMAIN tickets
    /\ holder' = [holder EXCEPT ![c] = tickets[id].Account]
    /\ tickets' = Restrict(tickets, DOMAIN tickets \ {id})
    /\ UNCHANGED clock

Refuse(c, id) ==
    /\ holder[c] = "no"
    /\ id \notin DOMAIN tickets
    /\ holder' = [holder EXCEPT ![c] = "fail"]
    /\ UNCHANGED <<tickets, clock>>

(* Time passes and every ticket whose expiry is reached stops being live.  *)
Tick ==
    /\ clock < MaxTime
    /\ clock' = clock + 1
    /\ tickets' = RestrictValues(tickets, LAMBDA t : t.ExpiryTime > clock + 1)
    /\ UNCHANGED holder

Next ==
    \/ \E id \in Ticket, a \in Account : Issue(id, a)
    \/ \E c \in Client, id \in Ticket : Redeem(c, id) \/ Refuse(c, id)
    \/ Tick

Spec == Init /\ [][Next]_vars

=============================================================================
