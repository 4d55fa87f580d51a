\* Start() returns true and the Run() thread then fails to bind: one
\* client, no clock.
CONSTANTS
    Conn = {c1}
    Account = {a1}
    Registered = {a1}
    Ticket = {t1}
    ConfigPort <- MCDefaultPort
    Request <- MCLoginRequest
    WaitTime = 2
    CleanupInterval = 2
    MaxTime = 0
    NoAccount = NoAccount
    NoTicket = NoTicket
    NotArmed = NotArmed

SPECIFICATION Spec
INVARIANT BindFailureFatal
\* The service really stops: after a failed Start(), and after Stop() once
\* the io_context has drained.
CHECK_DEADLOCK FALSE
