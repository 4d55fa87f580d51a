\* The whole login service: two clients sending any request through the
\* io_context queue and the three-query chain, two accounts of which one is
\* registered, two ticket values (so a second login can overwrite the first
\* ticket), and a ticket lifetime and cleanup period of 1 s on a 2 s clock,
\* so tickets are issued at 0 and 1, redeemed at their expiry and swept by
\* two cleanup runs while others are live.
CONSTANTS
    Conn = {c1, c2}
    Account = {a1, a2}
    Registered = {a1}
    Ticket = {t1, t2}
    ConfigPort <- MCDefaultPort
    WaitTime = 1
    CleanupInterval = 1
    MaxTime = 2
    NoAccount = NoAccount
    NoTicket = NoTicket
    NotArmed = NotArmed

SPECIFICATION FairSpec
INVARIANT TypeOK
INVARIANT ResponseMatchesRequest
INVARIANT DeferredClosedOnlyWhenAnswered
PROPERTY DeferredEventuallyClosed
PROPERTY TicketStoreRefinement
\* The service really stops: after a failed Start(), and after Stop() once
\* the io_context has drained; the clock bound ends the others.
CHECK_DEADLOCK FALSE
