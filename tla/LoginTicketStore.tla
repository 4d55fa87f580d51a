-------------------------- MODULE LoginTicketStore --------------------------
(***************************************************************************)
(* The login-ticket map of LoginRESTService (_validLoginTickets, guarded   *)
(* by _loginTicketMutex).  Each operator is one of the three critical      *)
(* sections of LoginRESTService.cpp and is applied as a single step by the *)
(* modules that use it: the mutex makes each of them atomic with respect   *)
(* to the others.  The time the caller read with time(nullptr) is passed   *)
(* in as a parameter, because CleanupLoginTickets reads it before it takes *)
(* the lock.                                                               *)
(***************************************************************************)
EXTENDS Integers, Functions, TLC

CONSTANTS
    Ticket,      \* login ticket ids ("TC-" + 40 hex digits of random bytes)
    Account,     \* the AccountInfo a ticket is bound to
    NoAccount,   \* the empty unique_ptr returned by a failed verification
    WaitTime     \* _waitTime (config RestWaitTime, seconds)

VARIABLE store   \* _validLoginTickets: ticket id -> LoginTicket

LoginTicket == [Account: Account, ExpiryTime: Int]

StoreTypeOK ==
    /\ DOMAIN store \subseteq Ticket
    /\ \A id \in DOMAIN store : store[id] \in LoginTicket

(* AddLoginTicket: an existing entry is overwritten and its expiry         *)
(* restarted; otherwise a new entry is created.  Both branches leave the   *)
(* same entry, so one update models both.                                  *)
AddLoginTicket(id, accountInfo, now) ==
    store' = (id :> [Account |-> accountInfo, ExpiryTime |-> now + WaitTime]) @@ store

(* Variant of IsRedeemable that still accepts a ticket at its expiry      *)
(* second; used to show that the refinement of LoginTickets detects it.    *)
IsRedeemableAtExpiry(id, now) ==
    /\ id \in DOMAIN store
    /\ store[id].ExpiryTime >= now

(* The condition under which VerifyLoginTicket hands the account out.      *)
IsRedeemable(id, now) ==
    /\ id \in DOMAIN store
    /\ store[id].ExpiryTime > now

(* VerifyLoginTicket: a redeemable entry is erased and its account         *)
(* returned; an absent or expired one is left in place.                    *)
VerifyLoginTicket(id, now) ==
    store' = IF IsRedeemable(id, now)
             THEN Restrict(store, DOMAIN store \ {id})
             ELSE store

VerifiedAccount(id, now) ==
    IF IsRedeemable(id, now) THEN store[id].Account ELSE NoAccount

(* The sweep of CleanupLoginTickets under the lock, with the time read     *)
(* before the lock was taken: entries with ExpiryTime < now are erased.    *)
CleanupLoginTickets(now) ==
    store' = RestrictValues(store, LAMBDA t : ~(t.ExpiryTime < now))

=============================================================================
