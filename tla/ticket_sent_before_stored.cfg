\* The login callback writes the ticket to the client before AddLoginTicket
\* stores it; a session verifying the ticket in between is refused.
CONSTANTS
    Conn = {c1, c2}
    Account = {a1, a2}
    Registered = {a1, a2}
    Ticket = {t1, t2}
    ConfigPort <- MCDefaultPort
    Request <- MCLoginRequest
    WaitTime = 2
    CleanupInterval = 2
    MaxTime = 4
    NoAccount = NoAccount
    NoTicket = NoTicket
    NotArmed = NotArmed

SPECIFICATION Spec
INVARIANT TicketUsableWhenReceived
\* The service really stops: after a failed Start(), and after Stop() once
\* the io_context has drained; the clock bound ends the others.
CHECK_DEADLOCK FALSE
