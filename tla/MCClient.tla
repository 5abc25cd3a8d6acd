------------------------------- MODULE MCClient -------------------------------
(***************************************************************************)
(* A client of a data centre for TLC: a behaviour keeps a connection open   *)
(* (Connection), makes the keys (Authorization) or works a session          *)
(* (Session); the other two stay as they are at the start.                  *)
(***************************************************************************)
EXTENDS Connection

CONSTANTS
    MaxKey, Faults, MaxTroubles,                        \* Authorization
    Parts, MaxSecondary, MaxId, MaxTold, Mishaps, MaxMishaps    \* Session

VARIABLES
    client, packets, server, givenUp, troubles,
    s, q, peer, air, mishaps,
    half

\* The bounds are numbers, and there is a key besides 0 for the one that is stored.
ASSUME ClientAssumption ==
    /\ MaxKey \in Nat \ {0}
    /\ {MaxTroubles, Parts, MaxSecondary, MaxId, MaxTold, MaxMishaps} \subseteq Nat

K == INSTANCE Authorization WITH wire <- packets, faults <- troubles, MaxFaults <- MaxTroubles
S == INSTANCE Session

keys    == <<client, packets, server, givenUp, troubles>>
session == <<s, q, peer, air, mishaps>>
all     == <<vars, keys, session, half>>

\* A half that is not chosen starts in one state.
InitClient ==
    /\ Init /\ K!Init /\ S!Init
    /\ half \in {"connection", "keys", "session"}
    /\ half # "connection" => online
    /\ half # "keys" => client.pfs /\ client.authorized

NextConnection == half = "connection" /\ Next /\ UNCHANGED <<keys, session, half>>
NextKeys       == half = "keys" /\ K!Next /\ UNCHANGED <<vars, session, half>>
NextSession    == half = "session" /\ S!Next /\ UNCHANGED <<vars, keys, half>>

\* The fairness of the connection, of each of its timers.
ConnectionFair ==
    /\ WF_all(half = "connection" /\ Open /\ UNCHANGED <<keys, session, half>>)
    /\ WF_all(half = "connection" /\ (Connected \/ ConnectFails) /\ UNCHANGED <<keys, session, half>>)
    /\ WF_all(half = "connection" /\ Restart /\ UNCHANGED <<keys, session, half>>)
    /\ WF_all(half = "connection" /\ PingTimer /\ UNCHANGED <<keys, session, half>>)
    /\ WF_all(half = "connection" /\ Tick /\ UNCHANGED <<keys, session, half>>)

\* What the other two do of their own accord.
ProgressClient ==
    \/ half = "keys" /\ K!Progress /\ UNCHANGED <<vars, session, half>>
    \/ half = "session" /\ S!Progress /\ UNCHANGED <<vars, keys, half>>

SpecClient ==
    /\ InitClient /\ [][NextConnection \/ NextKeys \/ NextSession]_all
    /\ ConnectionFair /\ WF_all(ProgressClient)

-----------------------------------------------------------------------------
\* The properties of the connection are those of its module, Recovers of a
\* behaviour that is one of a connection.

\* Connection: it becomes ready and stays so.
ConnectionRecovers == half = "connection" => Recovers

\* Authorization: a key that is taken for bound is bound at the other end, and a
\* configured client can send.
KeysHold == K!KeysHold

\* Authorization: "assert(m_state == state::authorized);" and
\* "assert(m_temp_auth_key_id);" at the beginning of init_enc_msg().
EachMessageKeyed == K!EachMessageKeyed

\* Authorization: the client gets its keys and its configuration.
Settles == half = "keys" => K!Settles

\* Session: workers are busy or about to be closed.
WorkersSound == S!WorkersSound

\* Session: every part is transferred.
Transferred == half = "session" => S!Transferred

\* Session: what the server says is acknowledged, and the secondary connections
\* are closed, in the end.
ComesToRest == S!Acknowledged /\ S!Closes
=============================================================================
