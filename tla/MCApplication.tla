---------------------------- MODULE MCApplication ----------------------------
(***************************************************************************)
(* What the application sees of user_agent, for TLC: a behaviour is one of  *)
(* the updates (Updater), of two calls (Calls), of the login flows (Login)  *)
(* or of a list fetched in pages (Pages); the other three stay as they are  *)
(* at the start.                                                            *)
(***************************************************************************)
EXTENDS Updater

CONSTANTS
    Second, MaxEvents, MaxPushes,                       \* Calls
    Flow, MaxLogouts, MaxMistakes,                      \* Login
    Sizes, Limits, PageMax, MaxNew, MaxGone             \* Pages

VARIABLES
    call, box,
    flow, owner, host, told, logouts, mistakes,
    list, first, st, page, added, gone,
    half

\* The server gives an item at least; all participants are asked for with -1.
ASSUME PagesAssumption ==
    Sizes \subseteq Nat /\ Limits \subseteq Nat \cup {-1} /\ PageMax \in Nat \ {0}

C == INSTANCE Calls
L == INSTANCE Login WITH client <- owner, server <- host
P == INSTANCE Pages

updates == <<made, log, client, base, got, again, outlived, aborted, faults>>
calls   == <<call, box>>
login   == <<flow, owner, host, told, logouts, mistakes>>
pages   == <<list, first, st, page, added, gone>>
all     == <<updates, calls, login, pages, half>>

\* The calls made beside the first.
Others == {<<"send_text_message", "user">>, <<"delete_message", "chat">>}

\* All participants, or a number of items.
AllOrSome == {-1, 0, 1, 2, 3, 4, 7}

\* A half that is not chosen starts in one state.
InitApplication ==
    /\ Init /\ C!Init /\ L!Init /\ P!Init
    /\ half \in {"updates", "calls", "login", "pages"}
    /\ half # "updates" => client.n.pts = 1
    /\ half # "calls" => /\ call[1].api = "get_history" /\ call[1].to = "user"
                         /\ call[2].api = "delete_message"
    /\ half # "login" => host = [registered |-> TRUE, password |-> FALSE, device |-> FALSE]
    /\ half # "pages" => list = <<>> /\ st.kind = "search" /\ st.limit = 0

Updates == half = "updates" /\ Next /\ UNCHANGED <<calls, login, pages, half>>
Calling == half = "calls" /\ C!Next /\ UNCHANGED <<updates, login, pages, half>>
LogIn   == half = "login" /\ L!Next /\ UNCHANGED <<updates, calls, pages, half>>
Paging  == half = "pages" /\ P!Next /\ UNCHANGED <<updates, calls, login, half>>

\* The fairness of the three that have liveness properties.
UpdatesFair ==
    /\ WF_all(half = "updates" /\ Lookup /\ UNCHANGED <<calls, login, pages, half>>)
    /\ \A kind \in {"difference", "state", "lookup"} :
           WF_all(/\ half = "updates"
                  /\ \E q \in client.asked : q.kind = kind /\ Answer(q)
                  /\ UNCHANGED <<calls, login, pages, half>>)

LoginFair ==
    \A f \in Flow :
        WF_all(half = "login" /\ ~owner.dead /\ L!Steps(f)
               /\ UNCHANGED <<updates, calls, pages, half>>)

PagesFair ==
    /\ WF_all(half = "pages" /\ P!Serve /\ UNCHANGED <<updates, calls, login, half>>)
    /\ WF_all(half = "pages" /\ P!Take /\ UNCHANGED <<updates, calls, login, half>>)

SpecApplication ==
    /\ InitApplication /\ [][Updates \/ Calling \/ LogIn \/ Paging]_all
    /\ UpdatesFair /\ LoginFair /\ PagesFair

-----------------------------------------------------------------------------
\* The properties of the instances, by their names.

\* Updater: one fetch at a time, and no event twice.
EachOnce == TypeOK /\ OneFetch /\ NoneTwice

\* Updater: the client catches up with the server.
CaughtUp == half = "updates" => CatchesUp

\* Calls: each call is told once.
ToldOnce == C!ToldOnce

\* Calls: a pending message is settled.
Settled == C!Settled

\* Login: what is told is true.
TruthTold == L!TruthTold

\* Pages: a list is given as it was, each item once.
Listed == P!Listed

\* Login, Pages: a login and a list fetched in pages come to an end.
AllEnd == L!LogsIn /\ (half = "pages" => P!PagesEnd)
=============================================================================
