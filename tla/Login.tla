-------------------------------- MODULE Login --------------------------------
(***************************************************************************)
(* Logging in and out (user_agent::login() to signed_in(), logout(), the    *)
(* password of an account).                                                 *)
(*                                                                         *)
(* Each login() starts a flow: the application is asked for a value, the    *)
(* value goes into a query, and the answer decides what is asked next.      *)
(* Flows run side by side; what they share is the client's flag, the lock   *)
(* on the phone number and the lock on the password.  A flow is where it    *)
(* waits:                                                                   *)
(*                                                                         *)
(*   for the application  "phone", "code", "register", "sign_up_code",       *)
(*                        "password"                                         *)
(*   for the server       "sending_code", "signing_in", "signing_up",        *)
(*                        "asking_password", "checking", "asking_self"       *)
(*   for nothing          "idle", "in" (told), "left" (its query was dropped *)
(*                        while another flow deals with the password or the  *)
(*                        number), "stuck" (the password was removed)        *)
(***************************************************************************)
EXTENDS Integers, FiniteSets

CONSTANTS
    Flow,         \* the calls of login()
    MaxLogouts,   \* calls of logout()
    MaxMistakes   \* wrong values of the application and refusals of the server

VARIABLES
    flow,         \* where each flow waits
    client,       \* logged in? the locks, what logout() has under way
    server,       \* is the phone registered, has the account a password?
    told,         \* the last thing logged_in()/logged_out() said, and how often
    logouts, mistakes

loginVars == <<flow, client, server, told, logouts, mistakes>>

Queries == {"sending_code", "signing_in", "signing_up", "asking_password", "checking",
            "asking_self"}

Init ==
    /\ flow = [f \in Flow |-> "idle"]
    /\ client = [loggedIn |-> FALSE, phoneLock |-> FALSE, passwordLock |-> FALSE,
                 unregistering |-> 0, waiting |-> 0, logging |-> FALSE, dead |-> FALSE]
    /\ server \in [registered : BOOLEAN, password : BOOLEAN, device : BOOLEAN]
    /\ server.password => server.registered
    /\ told = [said |-> "nothing", count |-> 0]
    /\ logouts = 0 /\ mistakes = 0

-----------------------------------------------------------------------------
\* Steps of the flows.

To(f, place) == flow' = [flow EXCEPT ![f] = place]
Says(what)   == told' = [said |-> what, count |-> told.count + 1]
Errs         == mistakes < MaxMistakes /\ mistakes' = mistakes + 1
Right        == UNCHANGED mistakes

\* set_dc_logged_in() and set_logged_in(); what waits for the login goes on
\* waiting (Configured).
LoggedIn(c) == [c EXCEPT !.loggedIn = TRUE]

\* login() tells of a client that is logged in; sign_in() asks for the phone
\* number, unless another flow waits for its code to be sent.
Login(f) ==
    /\ flow[f] = "idle"
    /\ IF client.loggedIn THEN To(f, "in") /\ Says("logged_in")
       ELSE To(f, IF client.phoneLock THEN "left" ELSE "phone") /\ UNCHANGED told
    /\ Right /\ UNCHANGED <<client, server, logouts>>

\* sign_in_phone(), for a number or for sending the code again.
SignInPhone(f) ==
    /\ \/ flow[f] = "phone" /\ Right
       \/ flow[f] \in {"code", "sign_up_code"} /\ Errs
    /\ To(f, "sending_code")
    /\ client' = [client EXCEPT !.phoneLock = TRUE,
                                !.passwordLock = @ /\ flow[f] # "code"]
    /\ UNCHANGED <<server, told, logouts>>

\* The answer of query_send_code, or its failure, which asks again.
CodeSent(f) ==
    /\ flow[f] = "sending_code"
    /\ \/ /\ To(f, IF server.registered THEN "code" ELSE "register")
          /\ Right /\ UNCHANGED told
       \/ Errs /\ To(f, "phone") /\ Says("not_logged_in")
    /\ client' = [client EXCEPT !.phoneLock = FALSE]
    /\ UNCHANGED <<server, logouts>>

\* sign_in_code() forgets what is known of a password.
SignInCode(f) ==
    /\ flow[f] = "code" /\ To(f, "signing_in")
    /\ client' = [client EXCEPT !.passwordLock = FALSE]
    /\ Right /\ UNCHANGED <<server, told, logouts>>

\* register_me(): without a first name the question is asked again, without
\* the wish to register login() starts over.
RegisterMe(f) ==
    /\ flow[f] = "register"
    /\ \/ To(f, "sign_up_code") /\ Right /\ UNCHANGED told
       \/ Errs /\ To(f, "register") /\ UNCHANGED told
       \/ /\ Errs
          /\ IF client.loggedIn THEN To(f, "in") /\ Says("logged_in")
             ELSE To(f, IF client.phoneLock THEN "left" ELSE "phone") /\ UNCHANGED told
    /\ UNCHANGED <<client, server, logouts>>

\* sign_up_code().
SignUpCode(f) ==
    /\ flow[f] = "sign_up_code" /\ To(f, "signing_up")
    /\ Right /\ UNCHANGED <<client, server, told, logouts>>

\* query_sign_in: the answer sets the client's flag and has signed_in() tell
\* of it; an error, a time-out or a user that cannot be created ask for the
\* code again.
SignedIn(f) ==
    /\ flow[f] \in {"signing_in", "signing_up"}
    /\ (flow[f] = "signing_in" /\ server.password) => client.loggedIn
    /\ \/ /\ To(f, "in") /\ Says("logged_in") /\ Right
          /\ client' = LoggedIn(client) /\ server' = [server EXCEPT !.registered = TRUE]
       \/ /\ Errs /\ UNCHANGED told
          /\ To(f, IF flow[f] = "signing_in" THEN "code" ELSE "sign_up_code")
          /\ \/ UNCHANGED <<client, server>>
             \/ client' = LoggedIn(client) /\ server' = [server EXCEPT !.registered = TRUE]
    /\ UNCHANGED logouts

\* Mutant of PasswordNeeded: the flow leaves the password to another one,
\* which there may not be.
NotAsked(f) ==
    /\ flow[f] = "signing_in" /\ server.password
    /\ To(f, "left") /\ UNCHANGED client
    /\ Right /\ UNCHANGED <<server, told, logouts>>

\* query_sign_in::handle_session_password_needed(): the first flow asks for
\* the password, the query of another is dropped.  An assertion says that the
\* client is not logged in.
PasswordNeeded(f) ==
    /\ flow[f] = "signing_in" /\ server.password
    /\ IF client.loggedIn THEN client' = [client EXCEPT !.dead = TRUE] /\ UNCHANGED flow
       ELSE IF client.passwordLock THEN To(f, "left") /\ UNCHANGED client
       ELSE To(f, "asking_password") /\ client' = [client EXCEPT !.passwordLock = TRUE]
    /\ Right /\ UNCHANGED <<server, told, logouts>>

\* check_password(): the account's password was removed meanwhile: the lock
\* is opened and the callback of query_sign_in is not called.
PasswordAsked(f) ==
    /\ flow[f] = "asking_password"
    /\ \/ To(f, "password") /\ Right /\ UNCHANGED <<client, server>>
       \/ /\ Errs /\ To(f, "stuck") /\ server' = [server EXCEPT !.password = FALSE]
          /\ client' = [client EXCEPT !.passwordLock = FALSE]
       \/ /\ Errs /\ To(f, "code") /\ UNCHANGED server
          /\ client' = [client EXCEPT !.passwordLock = FALSE]
    /\ UNCHANGED <<told, logouts>>

\* password_got(): one too long is refused at once, the lock stays.
PasswordGot(f) ==
    /\ flow[f] = "password"
    /\ \/ To(f, "checking") /\ Right
       \/ To(f, "code") /\ Errs
    /\ UNCHANGED <<client, server, told, logouts>>

\* query_check_password: a wrong password is asked for again.
Checked(f) ==
    /\ flow[f] = "checking"
    /\ \/ /\ To(f, "asking_self") /\ Right
          /\ client' = LoggedIn([client EXCEPT !.passwordLock = FALSE])
       \/ To(f, "asking_password") /\ Errs /\ UNCHANGED client
       \/ To(f, "code") /\ Errs /\ client' = [client EXCEPT !.passwordLock = FALSE]
    /\ UNCHANGED <<server, told, logouts>>

\* Mutant of SelfAsked: the query does not wait for the client to be logged in.
SelfAtOnce(f) ==
    /\ flow[f] = "asking_self"
    /\ \/ To(f, "in") /\ Says("logged_in") /\ Right
       \/ To(f, "code") /\ Errs /\ UNCHANGED told
    /\ UNCHANGED <<client, server, logouts>>

\* query_user_info of query_sign_in, pending while the client is logged out.
SelfAsked(f) ==
    /\ flow[f] = "asking_self" /\ client.loggedIn
    /\ \/ To(f, "in") /\ Says("logged_in") /\ Right
       \/ To(f, "code") /\ Errs /\ UNCHANGED told
    /\ UNCHANGED <<client, server, logouts>>

-----------------------------------------------------------------------------
\* Logging out.

\* The query of logout(): it waits for a client that is not logged in, and an
\* assertion says that it does not meet another.
DoLogout(c) ==
    IF c.logging THEN [c EXCEPT !.dead = TRUE]
    ELSE IF ~c.loggedIn THEN [c EXCEPT !.waiting = @ + 1]
    ELSE [c EXCEPT !.logging = TRUE]

\* logout(): first the device is unregistered.
Logout ==
    /\ logouts < MaxLogouts /\ logouts' = logouts + 1
    /\ \/ client.logging /\ UNCHANGED <<client, told>>
       \/ /\ ~client.logging /\ ~client.loggedIn
          /\ Says("logged_out") /\ UNCHANGED client
       \/ /\ ~client.logging /\ client.loggedIn /\ UNCHANGED told
          /\ client' = IF server.device THEN [client EXCEPT !.unregistering = @ + 1]
                       ELSE DoLogout(client)
    /\ UNCHANGED <<flow, server, mistakes>>

\* query_unregister_device: answered, refused or timed out.
Unregistered ==
    /\ client.unregistering > 0
    /\ client' = DoLogout([client EXCEPT !.unregistering = @ - 1])
    /\ UNCHANGED <<flow, server, told, logouts, mistakes>>

\* query_logout and set_client_logged_out(): all locks are opened.
LoggedOut ==
    /\ client.logging
    /\ \/ /\ client' = [client EXCEPT !.logging = FALSE, !.loggedIn = FALSE,
                                      !.phoneLock = FALSE, !.passwordLock = FALSE]
          /\ Says("logged_out") /\ Right
       \/ /\ client' = [client EXCEPT !.logging = FALSE]
          /\ Says("not_logged_out") /\ Errs
    /\ UNCHANGED <<flow, server, logouts>>

\* configured() of a client whose temporary key was made anew sends what is
\* pending: the queries of logout() if it is logged in by now.
Configured ==
    /\ client.waiting > 0 /\ client.loggedIn
    /\ client' = IF client.logging \/ client.waiting > 1 THEN [client EXCEPT !.dead = TRUE]
                 ELSE [client EXCEPT !.waiting = 0, !.logging = TRUE]
    /\ UNCHANGED <<flow, server, told, logouts, mistakes>>

\* The time of a query of logout() that waits for a login is over; the one
\* that is on its way is forgotten with it, and nothing is told of that.
GivenUp ==
    /\ client.waiting > 0
    /\ client' = [client EXCEPT !.waiting = @ - 1, !.logging = FALSE]
    /\ Says("not_logged_out") /\ UNCHANGED <<flow, server, logouts, mistakes>>

-----------------------------------------------------------------------------

Steps(f) ==
    \/ SignInPhone(f) \/ CodeSent(f) \/ SignInCode(f) \/ RegisterMe(f) \/ SignUpCode(f)
    \/ SignedIn(f) \/ PasswordNeeded(f) \/ PasswordAsked(f) \/ PasswordGot(f)
    \/ Checked(f) \/ SelfAsked(f)

Next ==
    /\ ~client.dead
    /\ \/ \E f \in Flow : Login(f) \/ Steps(f)
       \/ Logout \/ Unregistered \/ LoggedOut \/ Configured \/ GivenUp

Spec == Init /\ [][Next]_loginVars

\* The application answers what it is asked and the server what it is sent;
\* the mistakes of both are bounded.
Fairness == \A f \in Flow : WF_loginVars(~client.dead /\ Steps(f))

FairSpec == Spec /\ Fairness

-----------------------------------------------------------------------------
\* Properties.

\* What the application is told of a login or a logout is the state of the
\* client when it is told, also when flows and logouts cross.
TruthTold ==
    [][told'.count # told.count =>
         /\ told'.said = "logged_in" => client'.loggedIn
         /\ told'.said = "logged_out" => ~client'.loggedIn]_loginVars

\* A login that has begun comes to an end: the application is told that it is
\* logged in, unless the password was removed at the wrong moment or an
\* assertion stopped the client: logout() was called twice before the device
\* was unregistered, or the password is wanted again of a client whose own
\* user could not be asked for; or the application called logout() itself.
LogsIn ==
    (\E f \in Flow : flow[f] # "idle") ~>
        \/ \E f \in Flow : flow[f] \in {"in", "stuck"}
        \/ client.dead \/ logouts > 0
=============================================================================
