------------------------------- MODULE Queries -------------------------------
(***************************************************************************)
(* The life of a query (query/query.cpp) beside the clients of the data    *)
(* centres it is executed at (mtproto_client.cpp: sessions, pending        *)
(* queries, transfer of the authorization) and the user agent's lists of   *)
(* active and retried queries (user_agent.cpp).  A query waits in its      *)
(* client's pending list until the client is connected, configured and     *)
(* logged in; it is sent, and sent again after a timeout, a wrong salt or  *)
(* an error that goes away; it ends with an answer, an error or a timeout. *)
(* Sessions are compared for equality only.  Keys are in Authorization.    *)
(***************************************************************************)
EXTENDS Integers, FiniteSets, Sequences, SequencesExt

CONSTANTS
    Query,         \* the queries
    Kind,          \* Kind[q]: "plain", "timed", "login" or "logout"
    TooLong,       \* the queries that fit no message
    Client,        \* the data centres
    Main,          \* the active one at the beginning
    Faults,        \* the faults there are
    MaxFaults,     \* bound: how many of them
    None

ASSUME QueriesAssumption ==
    /\ Kind \in [Query -> {"plain", "timed", "login", "logout"}]
    /\ TooLong \subseteq Query
    /\ Main \in Client
    /\ MaxFaults \in Nat
    /\ None \notin Query \cup Client

VARIABLES
    ua,       \* the user agent with its clients and queries
    asked,    \* logout(): the queries that wait for the device to be unregistered
    passed,   \* ghost: queries that a login, a change of the active client or a
              \* failed transfer has passed by
    faults    \* how many faults so far

vars == <<ua, asked, passed, faults>>

\* query_with_timeout: not sent again after a timeout, and timed while pending.
Timed(q) == Kind[q] # "plain"

Open(s, q) == s.q[q].at # None /\ s.q[q].end = "no"

\* m_active_queries of the client c.
Active(s, c) == {q \in Query : s.q[q].active /\ s.q[q].at = c}

Pending(s, c) == ToSet(s.dc[c].pending)

\* Somebody holds the query: a timer alone keeps a weak pointer.
Alive(s, q) == s.q[q].active \/ s.q[q].kept \/ \E c \in Client : q \in Pending(s, c)

OpenAt(c) == {q \in Query : Open(ua, q) /\ ua.q[q].at = c}

Running == ua.stop = "no"

Init ==
    /\ \E in \in BOOLEAN :
         ua = [home |-> Main, stop |-> "no",
               dc |-> [c \in Client |->
                   [session |-> FALSE, up |-> FALSE, known |-> c = Main, configured |-> FALSE,
                    in |-> c = Main /\ in, moving |-> FALSE, leaving |-> None,
                    idle |-> FALSE, pending |-> <<>>]],
               q |-> [q \in Query |->
                   [at |-> None, active |-> FALSE, timer |-> FALSE, retry |-> FALSE,
                    kept |-> FALSE, sess |-> FALSE, end |-> "no", ends |-> 0]]]
    /\ asked = {} /\ passed = {} /\ faults = 0

-----------------------------------------------------------------------------
(* Sessions and timers                                                     *)

\* clear_timers(): an entry in the list of retried queries stays.
Quiet(s, q) == [s EXCEPT !.q[q].timer = FALSE, !.q[q].retry = FALSE]

\* Mutant of Inactive: the query stays among the active ones.
StillActive(s, q) == s

\* remove_active_query(), decrease_active_queries(): a client that is left
\* without queries starts its cleanup timer, the active one excepted.
Inactive(s, q) ==
    LET c == s.q[q].at
    IN  IF ~s.q[q].active THEN s
        ELSE [s EXCEPT !.q[q].active = FALSE,
                       !.dc[c].idle = \/ @
                                      \/ /\ Active(s, c) = {q} /\ Pending(s, c) = {}
                                         /\ c # s.home]

\* What was sent in the session of c was sent in another one.
Parted(s, c) == [q \in Query |-> IF s.q[q].at = c THEN [s.q[q] EXCEPT !.sess = FALSE] ELSE s.q[q]]

\* clear_session().
Cleared(s, c) ==
    [s EXCEPT !.dc[c].session = FALSE, !.dc[c].up = FALSE, !.q = Parted(s, c)]

\* restart_session(): a connection that is not up yet.
Restarted(s, c) ==
    [s EXCEPT !.dc[c].session = TRUE, !.dc[c].up = FALSE, !.q = Parted(s, c)]

\* Mutant of WithSession: nothing starts a session that is gone.
StaysWithout(s, c) == s

\* create_session(), when there is none.
WithSession(s, c) == IF s.dc[c].session THEN s ELSE Restarted(s, c)

\* restart_temp_authorization(): a new temporary key, bound and configured.
Rekeyed(s, c) == WithSession([s EXCEPT !.dc[c].configured = FALSE], c)

\* transfer_auth_to_me().
Moving(s, c) == [s EXCEPT !.dc[c].moving = TRUE]

Ended(s, q, how) == [s EXCEPT !.q[q].end = how, !.q[q].ends = @ + 1]

\* retry_within(): it holds the query even if it has just been dropped.
Retried(s, q) == [s EXCEPT !.q[q].retry = TRUE, !.q[q].kept = TRUE,
                           !.q[q].end = IF @ = "dropped" THEN "no" ELSE @]

-----------------------------------------------------------------------------
(* Logging out                                                             *)

\* The logout query of c is taken from the active ones; nobody holds it any
\* more, and unless this is its own end the application is never told of it.
NotLeaving(s, c) ==
    LET l == s.dc[c].leaving
    IN  IF l = None THEN s
        ELSE [Inactive(Quiet(s, l), l) EXCEPT !.dc[c].leaving = None, !.q[l].end = "dropped"]

\* set_client_logged_out(from, TRUE): every session is closed.  A logout
\* query of another client is looked for at `from', where there is none.
LoggedOut(s, from) ==
    LET r == NotLeaving(s, from)
    IN  IF \E c \in Client : r.dc[c].leaving # None
        THEN [r EXCEPT !.stop = "null"]
        ELSE [r EXCEPT !.dc = [c \in Client |-> [r.dc[c] EXCEPT !.session = FALSE, !.up = FALSE,
                                                                !.in = FALSE]],
                       !.q = [q \in Query |-> [r.q[q] EXCEPT !.sess = FALSE]]]

\* on_error() and on_timeout(): the logout query gives its client back.
Told(s, q, how) ==
    Ended(IF Kind[q] = "logout" THEN NotLeaving(s, s.q[q].at) ELSE s, q, how)

-----------------------------------------------------------------------------
(* Sending                                                                 *)

\* check_pending() finds no reason to wait.
Ready(s, q) ==
    LET d == s.dc[s.q[q].at]
    IN  d.session /\ d.up /\ d.configured /\ (d.in \/ Kind[q] = "login")

\* add_pending_query() and what comes before it; execute() also asks for the
\* authorization when the client is not the active one.
Parked(s, q, transfer) ==
    LET c == s.q[q].at
        r == WithSession(s, c)
    IN  [r EXCEPT !.q[q].timer = @ \/ Timed(q),
                  !.dc[c].pending = IF q \in Pending(s, c) THEN @ ELSE Append(@, q),
                  !.dc[c].moving = @ \/ (transfer /\ c # s.home /\ ~s.dc[c].in /\ Kind[q] # "login")]

\* send().
Sent(s, q) ==
    LET c == s.q[q].at
    IN  IF q \in TooLong THEN Told(Quiet(s, q), q, "failed")
        ELSE [s EXCEPT !.q[q].active = TRUE, !.q[q].timer = TRUE, !.q[q].sess = TRUE,
                       !.dc[c].idle = FALSE,
                       !.dc[c].leaving = IF Kind[q] = "logout" THEN q ELSE @]

\* check_logging_out(), check_pending() and send(); the logout query itself
\* must not meet a client that is logging out.
Tried(s, q, transfer) ==
    CASE s.dc[s.q[q].at].leaving # None /\ Kind[q] = "logout" -> [s EXCEPT !.stop = "logout"]
      [] s.dc[s.q[q].at].leaving # None /\ Kind[q] # "logout" -> Told(s, q, "failed")
      [] s.dc[s.q[q].at].leaving = None /\ ~Ready(s, q)       -> Parked(s, q, transfer)
      [] s.dc[s.q[q].at].leaving = None /\ Ready(s, q)        -> Sent(s, q)

\* alarm().
Alarmed(s, q) == Tried(Inactive(Quiet(s, q), q), q, FALSE)

\* Mutant of Unparked: the query leaves the list in any case.
UnparkedAnyWay(s, q) ==
    LET r == Tried(s, q, FALSE) IN [r EXCEPT !.dc[s.q[q].at].pending = RemoveFirst(@, q)]

\* execute_after_pending(): the query leaves the list, where it stands once,
\* unless it waits again.
Unparked(s, q) ==
    LET c == s.q[q].at
        r == Tried(s, q, FALSE)
    IN  IF s.dc[c].leaving = None /\ ~Ready(s, q) THEN r
        ELSE [r EXCEPT !.dc[c].pending = RemoveFirst(@, q)]

\* Mutant of Flushed: the first of the list only.
FlushedOne(s, c) == IF s.dc[c].pending = <<>> THEN s ELSE Unparked(s, s.dc[c].pending[1])

\* send_pending_queries().
Flushed(s, c) ==
    LET list == s.dc[c].pending
        after[i \in 0..Len(list)] ==
            IF i = 0 THEN s
            ELSE IF after[i - 1].stop # "no" THEN after[i - 1]
            ELSE Unparked(after[i - 1], list[i])
    IN  after[Len(list)]

\* configured(true).
Configured(s, c) ==
    LET r == [s EXCEPT !.dc[c].configured = TRUE, !.dc[c].known = TRUE]
    IN  IF c = s.home \/ s.dc[c].in \/ s.dc[c].moving THEN Flushed(r, c) ELSE Moving(r, c)

-----------------------------------------------------------------------------
(* The application and the connections                                     *)

Fault(kind) == kind \in Faults /\ faults < MaxFaults /\ faults' = faults + 1

\* execute(); a query goes to the active client or fetches a part of a file.
Execute(q, c) ==
    /\ Running
    /\ Kind[q] # "logout" /\ ua.q[q].at = None
    /\ Kind[q] = "login" => c = ua.home
    /\ ua' = Tried([ua EXCEPT !.q[q].at = c], q, TRUE)
    /\ UNCHANGED <<asked, passed, faults>>

\* logout(): nothing while the client logs out or is not logged in;
\* where a device is registered the logout comes after unregister_device().
Logout(q) ==
    /\ Running
    /\ Kind[q] = "logout" /\ ua.q[q].at = None /\ q \notin asked
    /\ ua.dc[ua.home].leaving = None /\ ua.dc[ua.home].in
    /\ \/ asked' = asked \cup {q} /\ UNCHANGED ua
       \/ ua' = Tried([ua EXCEPT !.q[q].at = ua.home], q, TRUE) /\ UNCHANGED asked
    /\ UNCHANGED <<passed, faults>>

\* The callback of unregister_device() checks nothing again.
LogoutNow(q) ==
    /\ Running
    /\ q \in asked
    /\ asked' = asked \ {q}
    /\ ua' = Tried([ua EXCEPT !.q[q].at = ua.home], q, TRUE)
    /\ UNCHANGED <<passed, faults>>

\* connection_status_changed(): the primary connection is up.
Up(c) ==
    /\ Running
    /\ ua.dc[c].session /\ ~ua.dc[c].up
    /\ LET s == [ua EXCEPT !.dc[c].up = TRUE]
       IN  ua' = IF s.dc[c].configured THEN Configured(s, c) ELSE s
    /\ UNCHANGED <<asked, passed, faults>>

\* The keys are made, the temporary key is bound, the client is configured.
Configure(c) ==
    /\ Running
    /\ ua.dc[c].session /\ ua.dc[c].up /\ ~ua.dc[c].configured
    /\ ua' = Configured(ua, c)
    /\ UNCHANGED <<asked, passed, faults>>

\* The connection is lost and opens again.
Down(c) ==
    /\ Running
    /\ Fault("down")
    /\ ua.dc[c].up
    /\ ua' = [ua EXCEPT !.dc[c].up = FALSE]
    /\ UNCHANGED <<asked, passed>>

\* The temporary key is refused with -404.
Rekey(c) ==
    /\ Running
    /\ Fault("rekey")
    /\ ua.dc[c].up /\ ua.dc[c].known
    /\ ua' = Rekeyed(ua, c)
    /\ UNCHANGED <<asked, passed>>

\* cleanup_timer_expired().
CleanUp(c) ==
    /\ Running
    /\ ua.dc[c].idle
    /\ LET s == [ua EXCEPT !.dc[c].idle = FALSE]
       IN  ua' = IF Active(ua, c) = {} /\ Pending(ua, c) = {} THEN Cleared(s, c) ELSE s
    /\ UNCHANGED <<asked, passed, faults>>

ReadyToServe(c) == ua.dc[c].session /\ ua.dc[c].up /\ ua.dc[c].configured

\* The login (Login) is through: signed_in() moves the authorization to the
\* other clients; nothing is sent that waits for it at this one.
SignIn ==
    /\ Running
    /\ ReadyToServe(ua.home) /\ ~ua.dc[ua.home].in
    /\ \E all \in BOOLEAN :   \* FALSE: check_password() after a missing password
         /\ ua' = [ua EXCEPT !.dc = [c \in Client |->
                     [ua.dc[c] EXCEPT !.in = @ \/ c = ua.home,
                                      !.moving = @ \/ (all /\ c # ua.home /\ ~ua.dc[c].in)]]]
         /\ passed' = passed \cup IF all THEN Pending(ua, ua.home)
                                 ELSE UNION {OpenAt(c) : c \in Client}
    /\ UNCHANGED <<asked, faults>>

\* A query of the login, or query_export_auth, is executed without a session.
Reach ==
    /\ Running
    /\ ~ua.dc[ua.home].session
    /\ ~ua.dc[ua.home].in \/ \E c \in Client : ua.dc[c].moving
    /\ ua' = WithSession(ua, ua.home)
    /\ UNCHANGED <<asked, passed, faults>>

\* query_export_auth is answered, query_import_auth waits for a session.
Export(c) ==
    /\ Running
    /\ ua.dc[c].moving /\ ~ua.dc[c].session
    /\ ReadyToServe(ua.home) /\ ua.dc[ua.home].in
    /\ ua' = WithSession(ua, c)
    /\ UNCHANGED <<asked, passed, faults>>

\* query_import_auth is answered.
Import(c) ==
    /\ Running
    /\ ua.dc[c].moving /\ ReadyToServe(c)
    /\ c = ua.home \/ (ReadyToServe(ua.home) /\ ua.dc[ua.home].in)
    /\ ua' = Flushed([ua EXCEPT !.dc[c].moving = FALSE, !.dc[c].in = TRUE], c)
    /\ UNCHANGED <<asked, passed, faults>>

\* One of the two fails: the pending queries stay.
ImportFails(c) ==
    /\ Running
    /\ Fault("transfer")
    /\ ua.dc[c].moving
    /\ ua' = [ua EXCEPT !.dc[c].moving = FALSE]
    /\ passed' = passed \cup OpenAt(c)
    /\ UNCHANGED asked

-----------------------------------------------------------------------------
(* What the server says, and what it does not say                          *)

\* The server has the query and the client hears it.
Heard(q) == ua.q[q].active /\ ua.q[q].sess /\ ua.dc[ua.q[q].at].up

\* handle_result(); an acknowledged logout query is as good as answered.
Answer(q) ==
    /\ Running
    /\ Heard(q)
    /\ LET s == IF Kind[q] = "logout" THEN LoggedOut(ua, ua.q[q].at) ELSE ua
       IN  ua' = IF s.stop # "no" THEN s ELSE Inactive(Quiet(Ended(s, q, "answered"), q), q)
    /\ UNCHANGED <<asked, passed, faults>>

\* handle_error() of 303: the query goes to another data centre.
Migrated(s, q, c) ==
    LET r == [s EXCEPT !.home = c, !.q[q].at = c, !.q[q].sess = FALSE]
    IN  IF s.dc[c].known THEN r ELSE WithSession([r EXCEPT !.dc[c].configured = FALSE], c)

\* handle_error(), by what the server says; the rest is the user's fault.
AfterError(s, q, kind) ==
    LET r == Inactive(Quiet(s, q), q)
        c == s.q[q].at
    IN  CASE kind = "user"         -> {Told(r, q, "failed")}
          [] kind = "internal"     -> {Retried(r, q)}
          [] kind = "migrate"      -> {Retried(Migrated(r, q, d), q) : d \in Client \ {s.home}}
          [] kind = "password"     -> {Retried([r EXCEPT !.dc[s.home].in = FALSE], q)}
          [] kind = "unregistered" -> LET o == LoggedOut(r, c)
                                      IN  {IF o.stop # "no" THEN o ELSE Retried(o, q)}
          [] kind = "rekey"        -> {Retried(Rekeyed(r, c), q)}

Errors == {"user", "internal", "migrate", "password", "unregistered", "rekey"}

Error(q) ==
    /\ Running
    /\ Heard(q)
    /\ \E kind \in Errors :
         /\ Fault(kind)
         /\ kind = "migrate" => Kind[q] = "login"
         /\ kind = "password" => Kind[q] # "logout" /\ ua.q[q].at = ua.home
         /\ ua' \in AfterError(ua, q, kind)
         /\ passed' = IF kind = "migrate" THEN passed \cup OpenAt(ua.home) ELSE passed
    /\ UNCHANGED asked

\* bad_server_salt: restart_query().
Salt(q) ==
    /\ Running
    /\ Fault("salt")
    /\ Heard(q)
    /\ ua' = Alarmed(ua, q)
    /\ UNCHANGED <<asked, passed>>

\* bad_msg_notification: regen(), and the session starts again.
Regen(q) ==
    /\ Running
    /\ Fault("regen")
    /\ Heard(q)
    /\ ua' = Restarted(Retried(ua, q), ua.q[q].at)
    /\ UNCHANGED <<asked, passed>>

RetryFires(q) ==
    /\ Running
    /\ ua.q[q].retry
    /\ ua' = Alarmed([ua EXCEPT !.q[q].kept = FALSE], q)
    /\ UNCHANGED <<asked, passed, faults>>

\* timeout_alarm() of a query that is not sent again.
TimedOut(s, q) ==
    LET r == Inactive(Told(Quiet(s, q), q, "expired"), q)
    IN  [r EXCEPT !.dc[s.q[q].at].pending = RemoveFirst(@, q)]

\* timeout_alarm(): it is a fault only where an answer was due.
Timeout(q) ==
    /\ Running
    /\ ua.q[q].timer /\ Alive(ua, q)
    /\ IF Heard(q) THEN Fault("timeout") ELSE UNCHANGED faults
    /\ ua' = IF Timed(q) THEN TimedOut(ua, q) ELSE Alarmed(ua, q)
    /\ UNCHANGED <<asked, passed>>

-----------------------------------------------------------------------------
Application(q) == Logout(q) \/ LogoutNow(q) \/ \E c \in Client : Execute(q, c)

Network(c) == Up(c) \/ Configure(c) \/ Export(c) \/ Import(c) \/ CleanUp(c)

Trouble(c) == Down(c) \/ Rekey(c) \/ ImportFails(c)

Server(q) == Error(q) \/ Salt(q) \/ Regen(q)

\* What happens by itself.
Progress ==
    \/ SignIn \/ Reach
    \/ \E c \in Client : Network(c)
    \/ \E q \in Query : Answer(q) \/ RetryFires(q) \/ Timeout(q)

Next ==
    \/ Progress
    \/ \E c \in Client : Trouble(c)
    \/ \E q \in Query : Application(q) \/ Server(q)

Spec == Init /\ [][Next]_vars

\* Connections come up, clients are configured, the user logs in, the server
\* answers and timers fire: something of it happens as long as it can, and
\* without faults it comes to an end.
Fairness == WF_vars(Progress)

FairSpec == Spec /\ Fairness

-----------------------------------------------------------------------------
\* The lists and timers have the form query.h and mtproto_client.h give them,
\* and no query stands twice in a pending list.
TypeOK ==
    /\ ua.home \in Client
    /\ ua.stop \in {"no", "logout", "null"}
    /\ \A c \in Client :
         /\ ua.dc[c].leaving \in Query \cup {None}
         /\ ua.dc[c].up => ua.dc[c].session
         /\ IsInjective(ua.dc[c].pending) /\ Pending(ua, c) \subseteq Query
    /\ \A q \in Query :
         /\ ua.q[q].at \in Client \cup {None}
         /\ ua.q[q].end \in {"no", "answered", "failed", "expired", "dropped"}
         /\ ua.q[q].ends \in Nat

\* No query is forgotten: while it is open it waits in the pending list of
\* its own client, or for its retry timer, or for an answer with a timer.
Held ==
    Running => \A q \in Query : Open(ua, q) =>
        \/ q \in Pending(ua, ua.q[q].at) /\ ~ua.q[q].active
        \/ ua.q[q].retry /\ ua.q[q].kept
        \/ ua.q[q].active /\ ua.q[q].timer

\* A query that has ended is in no list from which it could be sent or told
\* again; the timer one may have left needs somebody else to hold it.
Gone ==
    Running => \A q \in Query : ua.q[q].end # "no" =>
        /\ ~ua.q[q].active /\ ~ua.q[q].retry
        /\ \A c \in Client : q \notin Pending(ua, c)

\* A query is found while it is open, and no more once it has ended.
NoneForgotten == TypeOK /\ Held /\ Gone

\* A query waits for its client only: once the client is connected,
\* configured and logged in, only those wait that a login on this very client,
\* a change of the active client or a failed transfer has passed by.
SentWhenReady ==
    Running => \A q \in Query :
        Open(ua, q) /\ q \in Pending(ua, ua.q[q].at) /\ Ready(ua, q) => q \in passed

\* What the application has heard of a query.
Promised(q) ==
    CASE ua.q[q].at = None                       -> "new"
      [] ua.q[q].at # None /\ ua.q[q].ends > 1   -> "repeated"
      [] ua.q[q].at # None /\ ua.q[q].ends = 0   -> "open"
      [] OTHER                                   -> ua.q[q].end

Promise == INSTANCE QueryPromise WITH told <- [q \in Query |-> Promised(q)]

\* The application hears at most once of a query: Queries implements QueryPromise.
PromiseSpec == Promise!Spec

\* Every query that is executed ends, unless a login or a transfer passes it by.
Finishes == \A q \in Query : Open(ua, q) ~> (~Open(ua, q) \/ q \in passed \/ ~Running)

\* query.cpp:444 `assert(!is_logout())': a logout query meets no client that
\* is logging out.
LogoutAssertion == ua.stop # "logout"
=============================================================================
