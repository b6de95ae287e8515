----------------------------- MODULE ServerAuth -----------------------------
(***************************************************************************)
(* Clients of the discover server and their right to modify the system    *)
(* (discover/discover-server.c, lib/crypt/crypt.c): connection, password   *)
(* requests and changes, the five minutes' timer, closed connections,      *)
(* shutdown and restart.  The platform is one that stores the password     *)
(* (platform-powerpc.c); a restart loses /etc/shadow, which is in the      *)
(* initramfs, and keeps the parameter `petitboot,password'.                *)
(***************************************************************************)
EXTENDS Naturals

CONSTANTS
    Clients,    \* addresses of struct client
    Passwords,  \* non-empty passwords
    Empty,      \* the empty password, and its "hash"
    Null        \* no parameter in NVRAM

ASSUME PasswordAssumption == Empty \notin Passwords /\ Null \notin Passwords

VARIABLES
    server,      \* "run", "off", or "assert": an assertion has failed
    restrict,    \* server->restrict_clients
    shadow,      \* the password in /etc/shadow
    nvram,       \* the parameter "petitboot,password" in NVRAM
    clients,     \* server->clients
    root,        \* those whose process runs as root
    hung,        \* those whose process has closed its end
    can_modify,  \* those with client->can_modify
    waiter,      \* those whose client->waiter is registered
    auth_waiter, \* those with client->auth_waiter
    told         \* those last told that they are authenticated

sess == <<clients, root, hung, can_modify, waiter, auth_waiter, told>>
vars == <<server, restrict, shadow, nvram, sess>>

Start(stored) ==
    /\ server' = "run"
    /\ nvram' = stored
    /\ shadow' = IF stored = Null THEN Empty ELSE stored
    /\ restrict' \in IF stored = Null THEN BOOLEAN ELSE {TRUE}
    /\ clients' = {} /\ root' = {} /\ hung' = {} /\ can_modify' = {}
    /\ waiter' = {} /\ auth_waiter' = {} /\ told' = {}

(* platform_init() and discover_server_init(), which leaves                 *)
(* restrict_clients uninitialised                                           *)
Init ==
    /\ server = "run"
    /\ nvram \in Passwords \cup {Empty, Null}
    /\ shadow = IF nvram = Null THEN Empty ELSE nvram
    /\ restrict \in IF nvram = Null THEN BOOLEAN ELSE {TRUE}
    /\ clients = {} /\ root = {} /\ hung = {} /\ can_modify = {}
    /\ waiter = {} /\ auth_waiter = {} /\ told = {}

-----------------------------------------------------------------------------
(* crypt_check_password(): crypt() may or may not accept an empty salt      *)
CheckPassword(password) == IF shadow = Empty THEN BOOLEAN
                           ELSE {password = shadow}

(* write_authenticate_message(): a closed connection receives nothing *)
WriteAuthenticate(who) ==
    told' = (told \ (who \ hung)) \cup ((who \ hung) \cap can_modify')

(* waiter_poll() drops the waiter of a callback that fails; only messages   *)
(* of clients without the right to modify return the handler's result.      *)
Return(c, rc) == waiter' = IF rc # 0 /\ c \notin can_modify THEN waiter \ {c} ELSE waiter

SetAuthMode(restricted) ==
    /\ restrict' = restricted
    /\ can_modify' = IF restricted THEN {} ELSE clients
    /\ WriteAuthenticate(clients)

-----------------------------------------------------------------------------
(* discover_server_process_connection(); `known' is whether getsockopt()    *)
(* succeeds.                                                                *)
Connect(c, as_root, known) ==
    /\ server = "run" /\ c \notin clients
    /\ clients' = clients \cup {c}
    /\ waiter' = waiter \cup {c}
    /\ root' = IF as_root THEN root \cup {c} ELSE root
    /\ can_modify' = IF ~restrict \/ (known /\ as_root) THEN can_modify \cup {c}
                     ELSE can_modify
    /\ WriteAuthenticate({c})
    /\ UNCHANGED <<server, restrict, shadow, nvram, hung, auth_waiter>>

(* The client's process ends or closes its socket. *)
Hangup(c) ==
    /\ server = "run" /\ c \in clients \ hung
    /\ hung' = hung \cup {c}
    /\ UNCHANGED <<server, restrict, shadow, nvram, clients, root, can_modify, waiter,
                   auth_waiter, told>>

(* Mutant: the timer of the authentication is not started. *)
AuthRequestNoTimer(c, password) ==
    /\ server = "run" /\ c \in waiter
    /\ \E right \in CheckPassword(password) :
        IF right
        THEN /\ can_modify' = can_modify \cup {c}
             /\ WriteAuthenticate({c})
             /\ Return(c, IF c \in hung THEN 1 ELSE 0)
        ELSE Return(c, 1) /\ UNCHANGED <<can_modify, told>>
    /\ UNCHANGED <<server, restrict, shadow, nvram, clients, root, hung, auth_waiter>>

AuthRequest(c, password) ==
    /\ server = "run" /\ c \in waiter
    /\ \E right \in CheckPassword(password) :
        IF right
        THEN /\ can_modify' = can_modify \cup {c}
             /\ WriteAuthenticate({c})
             /\ auth_waiter' = auth_waiter \cup {c}
             /\ Return(c, IF c \in hung THEN 1 ELSE 0)
        ELSE Return(c, 1) /\ UNCHANGED <<can_modify, auth_waiter, told>>
    /\ UNCHANGED <<server, restrict, shadow, nvram, clients, root, hung>>

AuthSetRefused(c, old) ==
    /\ server = "run" /\ c \in waiter
    /\ restrict /\ FALSE \in CheckPassword(old)
    /\ Return(c, 1)
    /\ UNCHANGED <<server, restrict, shadow, nvram, clients, root, hung,
                   can_modify, auth_waiter, told>>

(* crypt_set_password() fails *)
AuthSetFails(c, old) ==
    /\ server = "run" /\ c \in waiter
    /\ restrict => TRUE \in CheckPassword(old)
    /\ Return(c, 1)
    /\ UNCHANGED <<server, restrict, shadow, nvram, clients, root, hung,
                   can_modify, auth_waiter, told>>

(* `saved' is whether write_nvram() succeeds: nobody asks. *)
AuthSet(c, old, new, saved) ==
    /\ server = "run" /\ c \in waiter
    /\ restrict => TRUE \in CheckPassword(old)
    /\ shadow' = new
    /\ nvram' = IF saved THEN new ELSE nvram
    /\ SetAuthMode(new # Empty)
    /\ Return(c, 0)
    /\ UNCHANGED <<server, clients, root, hung, auth_waiter>>

(* AUTH_MSG_DECRYPT without the right, an unknown or undecodable request *)
AuthFails(c) ==
    /\ server = "run" /\ c \in waiter
    /\ Return(c, 1)
    /\ UNCHANGED <<server, restrict, shadow, nvram, clients, root, hung,
                   can_modify, auth_waiter, told>>

(* client_auth_timeout() *)
AuthTimeout(c) ==
    /\ server = "run" /\ c \in auth_waiter
    /\ auth_waiter' = auth_waiter \ {c}
    /\ can_modify' = can_modify \ {c}
    /\ WriteAuthenticate({c})
    /\ UNCHANGED <<server, restrict, shadow, nvram, clients, root, hung, waiter>>

(* discover_server_process_message() reads the end of the stream, and       *)
(* client_destructor() runs.                                                *)
Close(c) ==
    /\ server = "run" /\ c \in waiter \cap hung
    /\ clients' = clients \ {c} /\ root' = root \ {c} /\ hung' = hung \ {c}
    /\ can_modify' = can_modify \ {c} /\ waiter' = waiter \ {c} /\ told' = told \ {c}
    /\ auth_waiter' = auth_waiter \ {c}
    /\ UNCHANGED <<server, restrict, shadow, nvram>>

(* discover_server_destroy(): every client_destructor() removes its waiter *)
Shutdown ==
    /\ server = "run"
    /\ server' = IF clients \subseteq waiter THEN "off" ELSE "assert"
    /\ UNCHANGED <<restrict, shadow, nvram, sess>>

(* The machine restarts, at any moment. *)
Restart == Start(nvram)

Next ==
    \/ \E c \in Clients, as_root, known \in BOOLEAN : Connect(c, as_root, known)
    \/ \E c \in Clients : \/ Hangup(c) \/ AuthFails(c)
                          \/ AuthTimeout(c) \/ Close(c)
    \/ \E c \in Clients, old \in Passwords \cup {Empty} :
        \/ AuthRequest(c, old) \/ AuthSetRefused(c, old) \/ AuthSetFails(c, old)
    \/ \E c \in Clients, old, new \in Passwords \cup {Empty}, saved \in BOOLEAN :
        AuthSet(c, old, new, saved)
    \/ Shutdown
    \/ Restart

Spec == Init /\ [][Next]_vars
-----------------------------------------------------------------------------
(* The clients' flags are those of connected clients, the passwords are     *)
(* passwords.                                                               *)
TypeOK ==
    /\ server \in {"run", "off", "assert"}
    /\ restrict \in BOOLEAN
    /\ shadow \in Passwords \cup {Empty}
    /\ nvram \in Passwords \cup {Empty, Null}
    /\ clients \subseteq Clients
    /\ root \subseteq clients /\ hung \subseteq clients
    /\ can_modify \subseteq clients /\ waiter \subseteq clients
    /\ told \subseteq clients

(* While clients are restricted, one that is not root may modify the system *)
(* only as long as the timer started by its password is running.            *)
RestrictedRights ==
    restrict => can_modify \subseteq root \cup auth_waiter

(* A timer that is running belongs to a client that still exists.           *)
TimerHasClient == auth_waiter \subseteq clients

(* A client that is still there has been told its current right, whoever    *)
(* changed it.                                                              *)
ToldTruth == told \ hung = can_modify \ hung

(* When there is a password, clients are restricted, also after a restart,  *)
(* and also when the password could not be saved.                           *)
PasswordEnforced == shadow # Empty => restrict

(* assert(i < set->n_waiters) in waiter_remove(), when a client is freed.   *)
(* Refuted: a request that fails has the event loop remove the waiter that  *)
(* client->waiter still points to.                                          *)
ClientWaiterAssertion == server # "assert"

(* "if the client is being run as root allow them to make changes": no      *)
(* event but its disconnection takes the right from a client that runs as   *)
(* root and never asked for authentication.  Refuted: a new password does.  *)
RootKeepsRight ==
    [][(root \ auth_waiter) \cap can_modify \cap clients' \subseteq can_modify']_vars
=============================================================================
