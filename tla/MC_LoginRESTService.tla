------------------------ MODULE MC_LoginRESTService ------------------------
(* Model-checking instance of LoginRESTService.  Connections, accounts    *)
(* and tickets are model values in the .cfg files; the port setting is   *)
(* the default, since no property reads the port.                         *)
EXTENDS LoginRESTService

MCDefaultPort == {8081}

(* Logins with valid credentials only, for the violation runs.           *)
MCLoginRequest ==
    [method: {"POST"}, path: {"login"}, body: {"json"},
     account: Account, password: {"right"}]

=============================================================================
