-------------------------- MODULE LoginRESTService --------------------------
(***************************************************************************)
(* The bnetserver login REST service (src/server/bnetserver/REST/          *)
(* LoginRESTService.cpp): Start/Stop on the main thread, the Run() thread  *)
(* that binds, accepts and TLS-handshakes connections and posts them to    *)
(* the io_context, the io_context thread that serves GET and POST, polls   *)
(* the AsyncLoginRequest query chain and runs the ticket cleanup timer,    *)
(* the login-database thread that completes the queries, and the bnet      *)
(* session threads that redeem the tickets clients were given.             *)
(***************************************************************************)
EXTENDS Integers, Sequences, FiniteSets, TLC

CONSTANTS
    Conn,            \* client connections the Run() thread may accept
    Account,         \* account names submitted in login forms
    Registered,      \* accounts that have a row in the account table
    Ticket,          \* values of the random login ticket
    ConfigPort,      \* values of the LoginREST.Port setting
    WaitTime,        \* RestWaitTime: seconds a login ticket stays valid
    CleanupInterval, \* period of _loginTicketCleanupTimer (10 s)
    MaxTime,         \* bound on the clock
    NoAccount,       \* no AccountInfo (empty unique_ptr)
    NoTicket,        \* a LoginResult without the login_ticket field
    NotArmed         \* the cleanup timer has no pending wait

ASSUME Registered \subseteq Account
ASSUME WaitTime \in Nat \ {0} /\ CleanupInterval \in Nat \ {0} /\ MaxTime \in Nat

VARIABLES
    svc,        \* main thread: "init", "failed", "running", "stopping", "stopped"
    port,       \* _port
    stopped,    \* _stopped
    acceptor,   \* Run() thread: "idle", "binding", "check", "accepting", "exited"
    now,        \* time(nullptr)
    timerAt,    \* expiry of the pending async_wait of the cleanup timer, or NotArmed
    ioQueue,    \* handlers posted to the io_context, run in FIFO order
    busy,       \* the handler the io_context thread is in the middle of, or NoTask
    store,      \* _validLoginTickets
    conn,       \* state of each client connection
    req,        \* the request the client sent on it
    code,       \* value soap_begin_recv returned for it (handler result)
    stage,      \* query of the AsyncLoginRequest chain awaited (1..3), 0 if none
    dbReady,    \* the awaited query has completed on the database thread
    result,     \* request->GetResult(): account loaded by the first query
    responses,  \* responses written on each connection, in order
    sentAt,     \* time a login ticket was written to the connection (history)
    redeemed,   \* outcome of the client's VerifyLoginTicket: "no", "fail", account
    redeemAt    \* time of that verification (history)

vars == <<svc, port, stopped, acceptor, now, timerAt, ioQueue, busy, store,
          conn, req, code, stage, dbReady, result, responses, sentAt,
          redeemed, redeemAt>>

TS == INSTANCE LoginTicketStore

-----------------------------------------------------------------------------
(* Requests and responses.  Paths are "login" for the /bnetserver/login/   *)
(* prefix and "other" for anything else; a POST body either deserializes   *)
(* as a LoginForm ("json") or does not ("garbage").                        *)

Request ==
    [method: {"GET"}, path: {"login", "other"}, body: {"none"},
     account: {NoAccount}, password: {"none"}]
    \cup [method: {"POST"}, path: {"other"}, body: {"json"},
          account: {NoAccount}, password: {"none"}]
    \cup [method: {"POST"}, path: {"login"}, body: {"garbage"},
          account: {NoAccount}, password: {"none"}]
    \cup [method: {"POST"}, path: {"login"}, body: {"json"},
          account: Account, password: {"right", "wrong"}]

(* The request of a connection that has not sent one yet.                 *)
NoRequest == [method |-> "none", path |-> "none", body |-> "none",
              account |-> NoAccount, password |-> "none"]

Response == [status: {200, 400}, state: {"FORM", "LOGIN", "DONE"},
             ticket: Ticket \cup {NoTicket}]

FormResponse == [status |-> 200, state |-> "FORM", ticket |-> NoTicket]
DecodeErrorResponse == [status |-> 400, state |-> "LOGIN", ticket |-> NoTicket]
DoneResponse(t) == [status |-> 200, state |-> "DONE", ticket |-> t]

(* Codes returned to soap_begin_recv: SOAP_OK is 0; 600 is                 *)
(* SOAP_CUSTOM_STATUS_ASYNC.                                               *)
SOAP_OK == 0
SOAP_CUSTOM_STATUS_ASYNC == 600
NoCode == -1

Task == [kind: {"serve", "poll"}, conn: Conn] \cup [kind: {"cleanup"}]
Busy == [kind: {"add"}, conn: Conn, ticket: Ticket] \cup [kind: {"sweep"}, at: Nat]
NoTask == [kind |-> "none"]

TypeOK ==
    /\ svc \in {"init", "failed", "running", "stopping", "stopped"}
    /\ port \in Int
    /\ stopped \in BOOLEAN
    /\ acceptor \in {"idle", "binding", "check", "accepting", "exited"}
    /\ now \in 0..MaxTime
    /\ timerAt \in Nat \cup {NotArmed}
    /\ ioQueue \in Seq(Task)
    /\ busy \in Busy \cup {NoTask}
    /\ TS!StoreTypeOK
    /\ conn \in [Conn -> {"none", "accepted", "deferred", "closed"}]
    /\ req \in [Conn -> Request \cup {NoRequest}]
    /\ code \in [Conn -> {NoCode, SOAP_OK, 404, 500, SOAP_CUSTOM_STATUS_ASYNC}]
    /\ stage \in [Conn -> 0..3]
    /\ dbReady \in [Conn -> BOOLEAN]
    /\ result \in [Conn -> Account \cup {NoAccount}]
    /\ responses \in [Conn -> Seq(Response)]
    /\ sentAt \in [Conn -> 0..MaxTime \cup {NoCode}]
    /\ redeemed \in [Conn -> {"no", "fail"} \cup Account]
    /\ redeemAt \in [Conn -> 0..MaxTime \cup {NoCode}]

Init ==
    /\ svc = "init"
    /\ port = 0
    /\ stopped = FALSE
    /\ acceptor = "idle"
    /\ now = 0
    /\ timerAt = NotArmed
    /\ ioQueue = <<>>
    /\ busy = NoTask
    /\ store = <<>>
    /\ conn = [c \in Conn |-> "none"]
    /\ req = [c \in Conn |-> NoRequest]
    /\ code = [c \in Conn |-> NoCode]
    /\ stage = [c \in Conn |-> 0]
    /\ dbReady = [c \in Conn |-> FALSE]
    /\ result = [c \in Conn |-> NoAccount]
    /\ responses = [c \in Conn |-> <<>>]
    /\ sentAt = [c \in Conn |-> NoCode]
    /\ redeemed = [c \in Conn |-> "no"]
    /\ redeemAt = [c \in Conn |-> NoCode]

-----------------------------------------------------------------------------
(* Main thread: Start() and Stop().                                        *)

lifeVars == <<svc, port, stopped, acceptor, timerAt>>
connVars == <<conn, req, code, stage, dbReady, result, responses, sentAt,
              redeemed, redeemAt>>

CleanupTask == [kind |-> "cleanup"]
ServeTask(c) == [kind |-> "serve", conn |-> c]
PollTask(c) == [kind |-> "poll", conn |-> c]

(* The range check of LoginREST.Port in Start().                           *)
ValidatedPort(p) == IF p < 0 \/ p > 65535 THEN 8081 ELSE p

(* Start(): read the configuration, resolve the external and local         *)
(* addresses (returning false if either fails), set up the form, arm the   *)
(* cleanup timer for CleanupInterval seconds and start the Run() thread.   *)
Start ==
    /\ svc = "init"
    /\ \E p \in ConfigPort : port' = ValidatedPort(p)
    /\ \/ /\ svc' = "failed"
          /\ UNCHANGED <<acceptor, timerAt>>
       \/ /\ svc' = "running"
          /\ timerAt' = now + CleanupInterval
          /\ acceptor' = "binding"
    /\ UNCHANGED <<stopped, now, ioQueue, busy, store>>
    /\ UNCHANGED connVars

(* Timer cancellation: a pending async_wait completes at once, so its      *)
(* handler is queued on the io_context (with operation_aborted, which the  *)
(* bound CleanupLoginTickets ignores).                                     *)
CancelTimer ==
    IF timerAt # NotArmed
    THEN /\ timerAt' = NotArmed
         /\ ioQueue' = Append(ioQueue, CleanupTask)
    ELSE UNCHANGED <<timerAt, ioQueue>>

(* Stop(): set _stopped, cancel the cleanup timer, then join Run().        *)
Stop ==
    /\ svc = "running"
    /\ stopped' = TRUE
    /\ CancelTimer
    /\ svc' = "stopping"
    /\ UNCHANGED <<port, acceptor, now, busy, store>>
    /\ UNCHANGED connVars

Joined ==
    /\ svc = "stopping"
    /\ acceptor = "exited"
    /\ svc' = "stopped"
    /\ UNCHANGED <<port, stopped, acceptor, now, timerAt, ioQueue, busy, store>>
    /\ UNCHANGED connVars

-----------------------------------------------------------------------------
(* The Run() thread.                                                       *)

(* soap_bind: on failure Run() logs and returns.                           *)
Bind ==
    /\ acceptor = "binding"
    /\ acceptor' \in {"check", "exited"}
    /\ UNCHANGED <<svc, port, stopped, now, timerAt, ioQueue, busy, store>>
    /\ UNCHANGED connVars

(* The while (!_stopped) test of the accept loop.                          *)
AcceptLoop ==
    /\ acceptor = "check"
    /\ acceptor' = IF stopped THEN "exited" ELSE "accepting"
    /\ UNCHANGED <<svc, port, stopped, now, timerAt, ioQueue, busy, store>>
    /\ UNCHANGED connVars

(* soap_accept ran into its 3 s accept_timeout.                            *)
AcceptTimeout ==
    /\ acceptor = "accepting"
    /\ acceptor' = "check"
    /\ UNCHANGED <<svc, port, stopped, now, timerAt, ioQueue, busy, store>>
    /\ UNCHANGED connVars

(* A connection is accepted and TLS-handshaked; if the handshake fails it  *)
(* is dropped, otherwise the serve lambda is posted to the io_context.     *)
Accept(c) ==
    /\ acceptor = "accepting"
    /\ conn[c] = "none"
    /\ acceptor' = "check"
    /\ \E r \in Request : req' = [req EXCEPT ![c] = r]
    /\ \/ /\ conn' = [conn EXCEPT ![c] = "closed"]
          /\ UNCHANGED ioQueue
       \/ /\ conn' = [conn EXCEPT ![c] = "accepted"]
          /\ ioQueue' = Append(ioQueue, ServeTask(c))
    /\ UNCHANGED <<svc, port, stopped, now, timerAt, busy, store>>
    /\ UNCHANGED <<code, stage, dbReady, result, responses, sentAt, redeemed, redeemAt>>

-----------------------------------------------------------------------------
(* The io_context thread.  It runs one posted handler at a time, in the    *)
(* order they were posted; a handler that is still running is in busy.    *)

Dispatched(t) ==
    /\ busy = NoTask
    /\ ioQueue # <<>>
    /\ Head(ioQueue) = t

rest == Tail(ioQueue)

Respond(c, r) == responses' = [responses EXCEPT ![c] = Append(@, r)]
Finish(c, k) ==
    /\ code' = [code EXCEPT ![c] = k]
    /\ conn' = [conn EXCEPT ![c] = "closed"]

(* The serve lambda with HandleGet: the form for a /bnetserver/login/      *)
(* path, 404 otherwise; the lambda then closes the socket.                 *)
HandleGet(c) ==
    /\ Dispatched(ServeTask(c))
    /\ req[c].method = "GET"
    /\ IF req[c].path = "login"
       THEN Respond(c, FormResponse) /\ Finish(c, SOAP_OK)
       ELSE Finish(c, 404) /\ UNCHANGED responses
    /\ ioQueue' = rest
    /\ UNCHANGED <<svc, port, stopped, acceptor, now, timerAt, busy, store>>
    /\ UNCHANGED <<req, stage, dbReady, result, sentAt, redeemed, redeemAt>>

(* HandlePost for a body that does not deserialize: the ResponseCodePlugin *)
(* is registered (failing that, 500) and the LoginResult is sent with      *)
(* status 400; the lambda closes the socket.  A path outside               *)
(* /bnetserver/login/ is answered 404 before the body is read.             *)
HandlePostRejected(c) ==
    /\ Dispatched(ServeTask(c))
    /\ req[c].method = "POST"
    /\ \/ req[c].path = "other" /\ Finish(c, 404) /\ UNCHANGED responses
       \/ /\ req[c].path = "login"
          /\ req[c].body = "garbage"
          /\ \/ Finish(c, 500) /\ UNCHANGED responses
             \/ Respond(c, DecodeErrorResponse) /\ Finish(c, SOAP_OK)
    /\ ioQueue' = rest
    /\ UNCHANGED <<svc, port, stopped, acceptor, now, timerAt, busy, store>>
    /\ UNCHANGED <<req, stage, dbReady, result, sentAt, redeemed, redeemAt>>

(* HandlePost for a login form: the first query of the chain is issued,   *)
(* HandleAsyncRequest is posted and SOAP_CUSTOM_STATUS_ASYNC returned, so  *)
(* the lambda leaves the socket open.                                      *)
HandlePostLogin(c) ==
    /\ Dispatched(ServeTask(c))
    /\ req[c].method = "POST"
    /\ req[c].path = "login"
    /\ req[c].body = "json"
    /\ stage' = [stage EXCEPT ![c] = 1]
    /\ dbReady' = [dbReady EXCEPT ![c] = FALSE]
    /\ ioQueue' = Append(rest, PollTask(c))
    /\ code' = [code EXCEPT ![c] = SOAP_CUSTOM_STATUS_ASYNC]
    /\ conn' = [conn EXCEPT ![c] = "deferred"]
    /\ UNCHANGED <<svc, port, stopped, acceptor, now, timerAt, busy, store>>
    /\ UNCHANGED <<req, result, responses, sentAt, redeemed, redeemAt>>

(* AsyncLoginRequest::InvokeIfReady: the callback of the awaited query  *)
(* runs only once the query has completed on the database thread.       *)
InvokeIfReady(c) == dbReady[c]

(* Variant of PollNotReady that does not post itself again (a lost        *)
(* re-post); used to show that DeferredEventuallyClosed detects it.        *)
PollNotReadyDropped(c) ==
    /\ Dispatched(PollTask(c))
    /\ ~InvokeIfReady(c)
    /\ ioQueue' = rest
    /\ UNCHANGED <<svc, port, stopped, acceptor, now, timerAt, busy, store>>
    /\ UNCHANGED connVars

(* HandleAsyncRequest when the awaited query has not completed:            *)
(* InvokeIfReady returns false and the handler posts itself again.         *)
PollNotReady(c) ==
    /\ Dispatched(PollTask(c))
    /\ ~InvokeIfReady(c)
    /\ ioQueue' = Append(rest, PollTask(c))
    /\ UNCHANGED <<svc, port, stopped, acceptor, now, timerAt, busy, store>>
    /\ UNCHANGED connVars

(* The query completed: its callback runs.  When it issues the next query  *)
(* InvokeIfReady returns false and HandleAsyncRequest is posted again.     *)
Advance(c, next) ==
    /\ stage' = [stage EXCEPT ![c] = next]
    /\ dbReady' = [dbReady EXCEPT ![c] = FALSE]
    /\ ioQueue' = Append(rest, PollTask(c))

(* Variant of CredentialsMatch without the hash comparison; used to show   *)
(* that ResponseMatchesRequest detects it.                                 *)
CredentialsMatchNoHash(r) == r.account \in Registered

CredentialsMatch(r) == r.account \in Registered /\ r.password = "right"

(* First callback, account row found and the password hash matches:       *)
(* load the AccountInfo and query the character counts.                   *)
AccountInfoAccepted(c) ==
    /\ Dispatched(PollTask(c))
    /\ InvokeIfReady(c)
    /\ stage[c] = 1
    /\ CredentialsMatch(req[c])
    /\ result' = [result EXCEPT ![c] = req[c].account]
    /\ Advance(c, 2)
    /\ UNCHANGED <<svc, port, stopped, acceptor, now, timerAt, busy, store>>
    /\ UNCHANGED <<conn, req, code, responses, sentAt, redeemed, redeemAt>>

(* Variant of AccountInfoRejected that ends the chain without sending the  *)
(* LoginResult; used to show that DeferredClosedOnlyWhenAnswered detects   *)
(* it.                                                                     *)
AccountInfoRejectedSilent(c) ==
    /\ Dispatched(PollTask(c))
    /\ InvokeIfReady(c)
    /\ stage[c] = 1
    /\ ~CredentialsMatch(req[c])
    /\ result' = [result EXCEPT ![c] = IF req[c].account \in Registered
                                        THEN req[c].account ELSE NoAccount]
    /\ stage' = [stage EXCEPT ![c] = 0]
    /\ conn' = [conn EXCEPT ![c] = "closed"]
    /\ ioQueue' = rest
    /\ UNCHANGED <<svc, port, stopped, acceptor, now, timerAt, busy, store>>
    /\ UNCHANGED <<req, code, dbReady, responses, sentAt, redeemed, redeemAt>>

(* First callback, no row or a hash mismatch: a LoginResult DONE without   *)
(* a ticket is sent and the chain ends, so InvokeIfReady returns true, the *)
(* AsyncLoginRequest is released and with it the socket.                   *)
AccountInfoRejected(c) ==
    /\ Dispatched(PollTask(c))
    /\ InvokeIfReady(c)
    /\ stage[c] = 1
    /\ ~CredentialsMatch(req[c])
    /\ result' = [result EXCEPT ![c] = IF req[c].account \in Registered
                                        THEN req[c].account ELSE NoAccount]
    /\ stage' = [stage EXCEPT ![c] = 0]
    /\ Respond(c, DoneResponse(NoTicket))
    /\ conn' = [conn EXCEPT ![c] = "closed"]
    /\ ioQueue' = rest
    /\ UNCHANGED <<svc, port, stopped, acceptor, now, timerAt, busy, store>>
    /\ UNCHANGED <<req, code, dbReady, sentAt, redeemed, redeemAt>>

(* Second callback: record the character counts (data abstracted) and     *)
(* query the last played characters, whether or not rows were found.      *)
CharacterCountsLoaded(c) ==
    /\ Dispatched(PollTask(c))
    /\ InvokeIfReady(c)
    /\ stage[c] = 2
    /\ Advance(c, 3)
    /\ UNCHANGED <<svc, port, stopped, acceptor, now, timerAt, busy, store>>
    /\ UNCHANGED <<conn, req, code, result, responses, sentAt, redeemed, redeemAt>>

(* Third callback, first half: record the last played characters, draw    *)
(* the random ticket and send the LoginResult carrying it.                 *)
LastPlayedLoadedSend(c) ==
    /\ Dispatched(PollTask(c))
    /\ InvokeIfReady(c)
    /\ stage[c] = 3
    /\ \E t \in Ticket :
         /\ Respond(c, DoneResponse(t))
         /\ busy' = [kind |-> "add", conn |-> c, ticket |-> t]
    /\ sentAt' = [sentAt EXCEPT ![c] = now]
    /\ stage' = [stage EXCEPT ![c] = 0]
    /\ ioQueue' = rest
    /\ UNCHANGED <<svc, port, stopped, acceptor, now, timerAt, store>>
    /\ UNCHANGED <<conn, req, code, dbReady, result, redeemed, redeemAt>>

(* Variant of LastPlayedLoadedAdd that stores an empty AccountInfo (the    *)
(* result moved out before AddLoginTicket); used to show that TypeOK       *)
(* detects it.                                                             *)
LastPlayedLoadedAddMovedOut ==
    /\ busy # NoTask
    /\ busy.kind = "add"
    /\ TS!AddLoginTicket(busy.ticket, NoAccount, now)
    /\ conn' = [conn EXCEPT ![busy.conn] = "closed"]
    /\ busy' = NoTask
    /\ UNCHANGED <<svc, port, stopped, acceptor, now, timerAt, ioQueue>>
    /\ UNCHANGED <<req, code, stage, dbReady, result, responses, sentAt,
                   redeemed, redeemAt>>

(* Third callback, second half: AddLoginTicket binds the ticket to the     *)
(* AccountInfo; the chain is complete, the request is released and the     *)
(* socket closed.                                                          *)
LastPlayedLoadedAdd ==
    /\ busy # NoTask
    /\ busy.kind = "add"
    /\ TS!AddLoginTicket(busy.ticket, result[busy.conn], now)
    /\ conn' = [conn EXCEPT ![busy.conn] = "closed"]
    /\ busy' = NoTask
    /\ UNCHANGED <<svc, port, stopped, acceptor, now, timerAt, ioQueue>>
    /\ UNCHANGED <<req, code, stage, dbReady, result, responses, sentAt,
                   redeemed, redeemAt>>

(* CleanupLoginTickets, first half: time(nullptr) is read before the      *)
(* mutex is taken.                                                         *)
CleanupReadClock ==
    /\ Dispatched(CleanupTask)
    /\ busy' = [kind |-> "sweep", at |-> now]
    /\ ioQueue' = rest
    /\ UNCHANGED <<svc, port, stopped, acceptor, now, timerAt, store>>
    /\ UNCHANGED connVars

(* Second half: the sweep under the mutex, then the timer is re-armed for  *)
(* CleanupInterval seconds from the current time.                          *)
CleanupSweep ==
    /\ busy # NoTask
    /\ busy.kind = "sweep"
    /\ TS!CleanupLoginTickets(busy.at)
    /\ timerAt' = now + CleanupInterval
    /\ busy' = NoTask
    /\ UNCHANGED <<svc, port, stopped, acceptor, now, ioQueue>>
    /\ UNCHANGED connVars

-----------------------------------------------------------------------------
(* The other threads: the deadline timer, the clock, the login database    *)
(* and the bnet sessions that redeem tickets.                              *)

(* The async_wait of the cleanup timer expires: its handler is queued.     *)
TimerExpires ==
    /\ timerAt # NotArmed
    /\ now >= timerAt
    /\ timerAt' = NotArmed
    /\ ioQueue' = Append(ioQueue, CleanupTask)
    /\ UNCHANGED <<svc, port, stopped, acceptor, now, busy, store>>
    /\ UNCHANGED connVars

Tick ==
    /\ now < MaxTime
    /\ now' = now + 1
    /\ UNCHANGED <<svc, port, stopped, acceptor, timerAt, ioQueue, busy, store>>
    /\ UNCHANGED connVars

(* The database thread completes the query the chain of c awaits.          *)
QueryCompletes(c) ==
    /\ stage[c] # 0
    /\ ~dbReady[c]
    /\ dbReady' = [dbReady EXCEPT ![c] = TRUE]
    /\ UNCHANGED <<svc, port, stopped, acceptor, now, timerAt, ioQueue, busy, store>>
    /\ UNCHANGED <<conn, req, code, stage, result, responses, sentAt, redeemed, redeemAt>>

ReceivedTicket(c) ==
    IF responses[c] # <<>> THEN Head(responses[c]).ticket ELSE NoTicket

(* The client that received a ticket presents it to a bnet session, which  *)
(* calls VerifyLoginTicket on its own network thread.                      *)
RedeemTicket(c) ==
    /\ redeemed[c] = "no"
    /\ ReceivedTicket(c) # NoTicket
    /\ LET t == ReceivedTicket(c) IN
         /\ TS!VerifyLoginTicket(t, now)
         /\ redeemed' = [redeemed EXCEPT ![c] =
                           IF TS!IsRedeemable(t, now) THEN TS!VerifiedAccount(t, now)
                           ELSE "fail"]
    /\ redeemAt' = [redeemAt EXCEPT ![c] = now]
    /\ UNCHANGED <<svc, port, stopped, acceptor, now, timerAt, ioQueue, busy>>
    /\ UNCHANGED <<conn, req, code, stage, dbReady, result, responses, sentAt>>

-----------------------------------------------------------------------------
IoContextStep ==
    \/ \E c \in Conn :
         \/ HandleGet(c)
         \/ HandlePostRejected(c)
         \/ HandlePostLogin(c)
         \/ PollNotReady(c)
         \/ AccountInfoAccepted(c)
         \/ AccountInfoRejected(c)
         \/ CharacterCountsLoaded(c)
         \/ LastPlayedLoadedSend(c)
    \/ LastPlayedLoadedAdd
    \/ CleanupReadClock
    \/ CleanupSweep

Next ==
    \/ Start \/ Stop \/ Joined
    \/ Bind \/ AcceptLoop \/ AcceptTimeout \/ \E c \in Conn : Accept(c)
    \/ IoContextStep
    \/ TimerExpires
    \/ Tick
    \/ \E c \in Conn : QueryCompletes(c)
    \/ \E c \in Conn : RedeemTicket(c)

Spec == Init /\ [][Next]_vars

(* The io_context thread keeps running the handlers posted to it, and the  *)
(* login database answers every query it was given.  Neither is promised  *)
(* by the code for a hung database (spec.md 5); they are the assumptions   *)
(* under which the liveness properties are stated.                         *)
Fairness ==
    /\ WF_vars(IoContextStep)
    /\ \A c \in Conn : WF_vars(QueryCompletes(c))

FairSpec == Spec /\ Fairness


-----------------------------------------------------------------------------
(* Properties.                                                             *)

(* The responses the spec (spec.md 4.5, 6) gives to a request: the login   *)
(* form for GET /bnetserver/login/, the 400 UNABLE_TO_DECODE result for an *)
(* undecodable POST, DONE with a ticket exactly when the account exists    *)
(* and the password hash matches, DONE without one otherwise, and nothing  *)
(* written by these handlers for a 404.                                    *)
AllowedResponses(r) ==
    CASE r.method = "GET" /\ r.path = "login" -> {FormResponse}
      [] r.method = "POST" /\ r.path = "login" /\ r.body = "garbage" ->
            {DecodeErrorResponse}
      [] r.method = "POST" /\ r.path = "login" /\ r.body = "json" ->
            IF r.account \in Registered /\ r.password = "right"
            THEN {DoneResponse(t) : t \in Ticket}
            ELSE {DoneResponse(NoTicket)}
      [] OTHER -> {}

(* Every connection is written at most one response, and it is the one    *)
(* its request calls for: neither the poll loop of HandleAsyncRequest nor  *)
(* the chained query callbacks answer twice, skip the hash check, or hand  *)
(* a ticket to a failed login.                                             *)
ResponseMatchesRequest ==
    \A c \in Conn :
        responses[c] \in {<<>>} \cup {<<x>> : x \in AllowedResponses(req[c])}

(* A connection whose handler returned SOAP_CUSTOM_STATUS_ASYNC is kept    *)
(* open until its deferred response has been written: the socket is only   *)
(* released together with the AsyncLoginRequest after the last callback.  *)
DeferredClosedOnlyWhenAnswered ==
    \A c \in Conn :
        code[c] = SOAP_CUSTOM_STATUS_ASYNC /\ conn[c] = "closed"
            => Len(responses[c]) = 1

(* Every deferred login is eventually answered and closed, given that the  *)
(* database answers and the io_context keeps running (Fairness): the      *)
(* HandleAsyncRequest re-post loop does not lose a request.               *)
DeferredEventuallyClosed ==
    \A c \in Conn : conn[c] = "deferred" ~> conn[c] = "closed"

(* The ticket store, read through the tickets that are still redeemable,  *)
(* implements LoginTickets: a ticket is redeemable from AddLoginTicket     *)
(* until now reaches its expiry, the first VerifyLoginTicket consumes it, *)
(* and neither the cleanup sweep (with its clock read before the lock)    *)
(* nor anything else removes a redeemable ticket.                         *)
LiveTickets == [id \in {x \in DOMAIN store : store[x].ExpiryTime > now} |-> store[id]]

LT == INSTANCE LoginTickets
        WITH tickets <- LiveTickets, clock <- now, holder <- redeemed,
             Client <- Conn

TicketStoreRefinement == LT!Spec

(* spec.md 4.2: the ticket is inserted into the store and then the success *)
(* response emitted, so a client that received a ticket can redeem it      *)
(* until it expires, unless another login drew the same ticket value.      *)
TicketUsableWhenReceived ==
    \A c \in Conn :
        redeemed[c] = "fail" =>
            \/ redeemAt[c] >= sentAt[c] + WaitTime
            \/ \E d \in Conn \ {c} : ReceivedTicket(d) = ReceivedTicket(c)

(* spec.md 7 (transport errors): a bind failure at startup is fatal to    *)
(* the whole service.  So the service never counts as running (Start()     *)
(* returned true and Stop() was not called) once the Run() thread has      *)
(* exited without being stopped, i.e. after soap_bind failed.              *)
BindFailureFatal ==
    ~(svc = "running" /\ acceptor = "exited" /\ ~stopped)

=============================================================================
