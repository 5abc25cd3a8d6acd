---------------------------- MODULE Authorization ----------------------------
(***************************************************************************)
(* How a client makes the keys it talks to its data centre with            *)
(* (mtproto_client.cpp): a permanent key by a handshake of three requests, *)
(* with perfect forward secrecy a temporary key by the same handshake,     *)
(* which the bind query (query_bind_temp_auth_key.h) ties to the permanent *)
(* one, and then the configuration (query_help_get_config.cpp).  Requests  *)
(* are lost with their connection; the server may forget a temporary key.  *)
(* Keys are numbers, 0 is no key; the cryptography is left out.            *)
(***************************************************************************)
EXTENDS Integers, Sequences

CONSTANTS
    MaxKey,      \* bound: the keys that are made
    Faults,      \* the faults there are; "slow": a second passes without a key
    MaxFaults    \* bound: how many of them

VARIABLES
    client,    \* the members of mtproto_client, its bind and its config query
    wire,      \* what the server has sent on the connection, in order
    server,    \* the keys the server knows and what they are bound to
    givenUp,   \* ghost: a query was dropped, and only a new connection helps
    faults     \* how many faults so far

vars == <<client, wire, server, givenUp, faults>>

Handshake == {"reqpq_sent", "reqdh_sent", "client_dh_sent"}
States == {"init", "authorized"} \cup Handshake

Keys == 0..MaxKey

\* init_enc_msg() asserts that the client is authorized and has a key: a config
\* query that is sent without, here one under key 0, ends the program.
Running == 0 \notin client.config

\* m_auth_key_id may come from the database; pfs is what the application set.
Init ==
    /\ \E stored, pfs \in BOOLEAN :
         /\ client = [pfs |-> pfs, state |-> "init", temp |-> FALSE, authorized |-> stored,
                      auth |-> IF stored THEN 1 ELSE 0, key |-> 0,
                      bound |-> FALSE, configured |-> FALSE,
                      session |-> FALSE, up |-> FALSE, round |-> 0, asks |-> FALSE,
                      bind |-> FALSE, config |-> {}]
         /\ server = [made |-> IF stored THEN 1 ELSE 0,
                      known |-> IF stored THEN {1} ELSE {}, boundTo |-> [k \in Keys |-> 0]]
    /\ wire = <<>>
    /\ givenUp = FALSE /\ faults = 0

-----------------------------------------------------------------------------
(* The members                                                             *)

\* The server's answer to a request of the handshake; round is its nonce.
Reply(c, step) == [type |-> step, round |-> c.round, key |-> 0]

\* send_req_pq_packet(), send_req_pq_temp_packet(): a new nonce.
AskedPq(c, temp) ==
    [c EXCEPT !.state = "reqpq_sent", !.temp = temp, !.round = @ + 1, !.asks = TRUE]

\* Mutant of Unkeyed: the client still counts as bound.
StillBound(c) == [c EXCEPT !.key = 0, !.configured = FALSE, !.bind = FALSE]

\* reset_temp_authorization(), with clear_bind_temp_auth_key_query().
Unkeyed(c) ==
    [c EXCEPT !.key = 0, !.configured = FALSE, !.bound = FALSE, !.bind = FALSE]

\* create_session(): the connection is not up yet.
WithSession(c) == [c EXCEPT !.session = TRUE, !.up = FALSE]

\* restart_temp_authorization().
TempRestarted(c) ==
    IF c.session THEN AskedPq([Unkeyed(c) EXCEPT !.state = "authorized"], TRUE)
    ELSE WithSession([Unkeyed(c) EXCEPT !.state = "authorized"])

\* reset_authorization(), restart_authorization().
Restarted(c) ==
    IF c.session THEN AskedPq([Unkeyed(c) EXCEPT !.auth = 0], FALSE)
    ELSE WithSession([Unkeyed(c) EXCEPT !.auth = 0, !.state = "init"])

\* bind_temp_auth_key(): the query replaces the one before.
Binding(c) == [c EXCEPT !.bind = TRUE]

\* configure(): of the config queries the keys they were sent with are kept.
Configuring(c) == [c EXCEPT !.config = @ \cup {c.key}]

\* What connected() and process_auth_complete() go on with once the permanent
\* key is there.
Continued(c) ==
    CASE ~c.pfs /\ ~c.configured           -> Configuring([c EXCEPT !.key = c.auth, !.bound = TRUE])
      [] ~c.pfs /\ c.configured            -> [c EXCEPT !.key = c.auth, !.bound = TRUE]
      [] c.pfs /\ ~c.bound /\ c.key = 0    -> AskedPq(c, TRUE)
      [] c.pfs /\ ~c.bound /\ c.key # 0    -> Binding(c)
      [] c.pfs /\ c.bound /\ ~c.configured -> Configuring(c)
      [] c.pfs /\ c.bound /\ c.configured  -> c

\* Mutant of Connected: a handshake that was interrupted goes on.
GoesOn(c) ==
    IF c.authorized THEN Continued([c EXCEPT !.state = "authorized"])
    ELSE IF c.state = "init" THEN AskedPq(c, FALSE) ELSE c

\* connected(): a handshake that was interrupted begins anew.
Connected(c) ==
    IF c.authorized THEN Continued([c EXCEPT !.state = "authorized"])
    ELSE AskedPq(c, FALSE)

\* A message can be encrypted.
Keyed(c) == c.state = "authorized" /\ c.key # 0

Fault(kind) == kind \in Faults /\ faults < MaxFaults /\ faults' = faults + 1

-----------------------------------------------------------------------------
(* The connection                                                          *)

\* A query is executed without a session: create_session().
Open ==
    /\ Running
    /\ ~client.session
    /\ client' = WithSession(client)
    /\ UNCHANGED <<wire, server, givenUp, faults>>

\* connection_status_changed(): connected.  The observers come first: a
\* pending query is sent by alarm() or configured() only.
Up ==
    /\ Running
    /\ client.session /\ ~client.up
    /\ client' = Connected([client EXCEPT !.up = TRUE])
    /\ givenUp' = FALSE
    /\ UNCHANGED <<wire, server, faults>>

\* rpc_close() and the status the connection reports.
Dropped(c) == [c EXCEPT !.up = FALSE, !.asks = FALSE]

\* The connection is lost, or rpc_execute() returned FALSE; it opens again.
Down ==
    /\ Running
    /\ client.up
    /\ Fault("down")
    /\ client' = Dropped(client)
    /\ wire' = <<>>
    /\ UNCHANGED <<server, givenUp>>

\* clear_session() after the client was idle, or at a logout.
Close ==
    /\ Running
    /\ client.session
    /\ Fault("close")
    /\ client' = [Dropped(client) EXCEPT !.session = FALSE]
    /\ wire' = <<>>
    /\ UNCHANGED <<server, givenUp>>

-----------------------------------------------------------------------------
(* The server                                                              *)

Say(m) == wire' = Append(wire, m)

\* A request of this step was sent on this connection and is not answered.
Asks(step) ==
    /\ client.asks /\ client.state = step
    /\ ~\E i \in 1..Len(wire) : wire[i].type = step /\ wire[i].round = client.round

\* A query under this key that the server has not answered on this connection.
AsksUnder(key, types) ==
    /\ client.up /\ key \in server.known
    /\ ~\E i \in 1..Len(wire) : wire[i].type \in types /\ wire[i].key = key

\* resPQ and server_DH_params_ok.
ServeHandshake(step) ==
    /\ Running
    /\ Asks(step) /\ step # "client_dh_sent"
    /\ Say(Reply(client, step))
    /\ UNCHANGED <<client, server, givenUp, faults>>

\* dh_gen_ok: from here on the server knows the key.
ServeKey ==
    /\ Running
    /\ Asks("client_dh_sent")
    /\ server.made < MaxKey
    /\ server' = [server EXCEPT !.made = @ + 1, !.known = @ \cup {server.made + 1}]
    /\ Say([Reply(client, "client_dh_sent") EXCEPT !.key = server.made + 1])
    /\ UNCHANGED <<client, givenUp, faults>>

\* dh_gen_retry, dh_gen_fail.
RefuseKey ==
    /\ Running
    /\ Asks("client_dh_sent")
    /\ Fault("dh")
    /\ Say(Reply(client, "client_dh_sent"))
    /\ UNCHANGED <<client, server, givenUp>>

\* A query in a message under the key; the answer names the key it is under.
\* The bind query names the permanent key as well.
ServeBind ==
    /\ Running
    /\ client.bind /\ AsksUnder(client.key, {"bind", "refused"})
    /\ IF client.auth \in server.known
       THEN /\ server' = [server EXCEPT !.boundTo[client.key] = client.auth]
            /\ Say([type |-> "bind", round |-> 0, key |-> client.key])
       ELSE /\ UNCHANGED server
            /\ Say([type |-> "refused", round |-> 0, key |-> client.key])
    /\ UNCHANGED <<client, givenUp, faults>>

\* An answer that the server sends only after the client changed its key is
\* ignored: it is left out.
ServeConfig ==
    /\ Running
    /\ client.key \in client.config /\ AsksUnder(client.key, {"config", "unbound"})
    /\ Say([type |-> "config", round |-> 0, key |-> client.key])
    /\ UNCHANGED <<client, server, givenUp, faults>>

\* Under a key that is bound to none the server may refuse.
RefuseConfig ==
    /\ Running
    /\ client.key \in client.config /\ AsksUnder(client.key, {"config", "unbound"})
    /\ client.pfs /\ server.boundTo[client.key] = 0
    /\ Fault("unbound")
    /\ Say([type |-> "unbound", round |-> 0, key |-> client.key])
    /\ UNCHANGED <<client, server, givenUp>>

\* An update, or the answer to another query; bound: one at a time.
Push ==
    /\ Running
    /\ client.up /\ client.key \in server.known /\ wire = <<>>
    /\ Fault("push")
    /\ Say([type |-> "update", round |-> 0, key |-> client.key])
    /\ UNCHANGED <<client, server, givenUp>>

\* The server forgets a temporary key: it says -404 from now on.
Forget ==
    /\ Running
    /\ client.pfs /\ client.up
    /\ Fault("forget")
    /\ client.key \in server.known
    /\ server' = [server EXCEPT !.known = @ \ {client.key}]
    /\ Say([type |-> "unknown", round |-> 0, key |-> client.key])
    /\ UNCHANGED <<client, givenUp>>

\* So it says to whatever comes under that key.
NotFound ==
    /\ Running
    /\ client.up /\ client.key \notin server.known
    /\ client.bind \/ client.key \in client.config
    /\ ~\E i \in 1..Len(wire) : wire[i].type = "unknown"
    /\ Say([type |-> "unknown", round |-> 0, key |-> client.key])
    /\ UNCHANGED <<client, server, givenUp, faults>>

-----------------------------------------------------------------------------
(* rpc_execute(): the client reads a packet                                *)

\* process_respq_answer(), process_dh_answer(): header, type and nonce.
Nonce(m, c) == m.type = c.state /\ m.round = c.round

\* The next request of the handshake; anything unexpected ends the connection.
StepOf(m, c) ==
    CASE ~Nonce(m, c)                      -> Dropped(c)
      [] Nonce(m, c) /\ c.state = "reqpq_sent" -> [c EXCEPT !.state = "reqdh_sent"]
      [] Nonce(m, c) /\ c.state = "reqdh_sent" -> [c EXCEPT !.state = "client_dh_sent"]

\* process_auth_complete(): anything unexpected starts the handshake again.
Completed(m, c) ==
    CASE (~Nonce(m, c) \/ m.key = 0) /\ c.temp  -> TempRestarted(c)
      [] (~Nonce(m, c) \/ m.key = 0) /\ ~c.temp -> Restarted(c)
      [] Nonce(m, c) /\ m.key # 0 /\ c.temp     ->
            Binding([c EXCEPT !.state = "authorized", !.key = m.key])
      [] Nonce(m, c) /\ m.key # 0 /\ ~c.temp    ->
            Continued([c EXCEPT !.state = "authorized", !.auth = m.key, !.authorized = TRUE])

\* query_bind_temp_auth_key::on_answer(), if the query is still active.
Bound(c) ==
    IF c.bind THEN Configuring([c EXCEPT !.bind = FALSE, !.bound = TRUE]) ELSE c

\* query_help_get_config::on_answer(): configured(true).
Configured(c, key) ==
    IF key \in c.config THEN [c EXCEPT !.config = @ \ {key}, !.configured = TRUE] ELSE c

\* process_rpc_message(): only under a key of the client.
OwnKey(m, c) == m.key \in {c.key, c.auth}

\* process_rpc_message() and what it calls, in the state authorized.
MessageOf(m, c) ==
    CASE m.type = "unknown" /\ c.pfs       -> TempRestarted(c)
      [] m.type = "unknown" /\ ~c.pfs      -> Dropped(c)
      [] m.type \in Handshake                 -> c
      [] m.type = "bind" /\ OwnKey(m, c)      -> Bound(c)
      [] m.type = "refused" /\ OwnKey(m, c)   -> IF c.bind THEN TempRestarted(c) ELSE c
      [] m.type = "config" /\ OwnKey(m, c)    -> Configured(c, m.key)
      [] m.type = "unbound" /\ OwnKey(m, c) ->
            IF m.key \in c.config THEN TempRestarted(c) ELSE c
      [] OTHER                                -> c

After(m, c) ==
    CASE c.state \in {"reqpq_sent", "reqdh_sent"} -> StepOf(m, c)
      [] c.state = "client_dh_sent"               -> Completed(m, c)
      [] c.state = "authorized"                   -> MessageOf(m, c)
      [] c.state = "init"                         -> Dropped(c)

Read ==
    /\ Running
    /\ client.up /\ wire # <<>>
    /\ client' = After(Head(wire), client)
    /\ wire' = IF client'.up THEN Tail(wire) ELSE <<>>
    /\ UNCHANGED <<server, givenUp, faults>>

-----------------------------------------------------------------------------
(* The two queries                                                         *)

\* timeout_alarm() of the bind query: restart_temp_authorization().
BindTimeout ==
    /\ Running
    /\ client.bind
    /\ IF client.up /\ client.key \in server.known THEN Fault("timeout") ELSE UNCHANGED faults
    /\ client' = TempRestarted(client)
    /\ UNCHANGED <<wire, server, givenUp>>

\* Error 420 or 500: handle_error() takes it for handled and, as
\* should_retry_after_recover_from_error() is FALSE, nothing follows.
BindDropped ==
    /\ Running
    /\ client.up /\ client.bind
    /\ Fault("internal")
    /\ client' = [client EXCEPT !.bind = FALSE]
    /\ givenUp' = TRUE
    /\ UNCHANGED <<wire, server>>

\* configured(false): nothing follows either.
ConfigFails ==
    /\ Running
    /\ client.up /\ client.key \in client.config
    /\ Fault("config")
    /\ client' = [client EXCEPT !.config = @ \ {client.key}, !.configured = FALSE]
    /\ givenUp' = TRUE
    /\ UNCHANGED <<wire, server>>

\* reset_authorization() leaves the client authorized without a permanent key:
\* it goes on to make temporary keys that the server binds to nothing.
Orphaned == client.authorized /\ client.auth = 0

\* What is needed for the second of a config query to pass: the server was late;
\* a handshake takes longer, so that there is no key; otherwise nothing.
SecondPasses(key) ==
    CASE client.up /\ ~Keyed(client) /\ ~Orphaned -> Fault("slow")
      [] client.up /\ Keyed(client) /\ key = client.key /\ key \in server.known -> Fault("timeout")
      [] OTHER -> UNCHANGED faults

\* The config query is sent again, with the key of now or with none; without a
\* connection it waits, and another takes its place.
ConfigTimeout(key) ==
    /\ Running
    /\ key \in client.config
    /\ SecondPasses(key)
    /\ client' = [client EXCEPT !.config = (@ \ {key}) \cup
                      IF ~client.up THEN {} ELSE IF Keyed(client) THEN {client.key} ELSE {0}]
    /\ UNCHANGED <<wire, server, givenUp>>

\* The application's reset_authorization(): m_authorized stays.
Reset ==
    /\ Running
    /\ Fault("reset")
    /\ client' = [Unkeyed(client) EXCEPT !.auth = 0, !.state = "init"]
    /\ givenUp' = TRUE
    /\ UNCHANGED <<wire, server>>

-----------------------------------------------------------------------------
\* What the server does when it is asked, and the timers.
Progress ==
    \/ Open \/ Up \/ Read
    \/ ServeHandshake("reqpq_sent") \/ ServeHandshake("reqdh_sent") \/ ServeKey
    \/ ServeBind
    \/ BindTimeout \/ ServeConfig \/ NotFound
    \/ \E key \in Keys : ConfigTimeout(key)

Trouble ==
    \/ Down \/ Close \/ RefuseKey \/ Push \/ Forget \/ RefuseConfig \/ Reset
    \/ BindDropped \/ ConfigFails

Next == Progress \/ Trouble

Spec == Init /\ [][Next]_vars

Fairness == WF_vars(Progress)

FairSpec == Spec /\ Fairness

-----------------------------------------------------------------------------
\* The members have the types mtproto_client.h gives them; a client is up in a
\* session only.
TypeOK ==
    /\ client \in [pfs : BOOLEAN, state : States, temp : BOOLEAN, authorized : BOOLEAN, auth : Keys,
                   key : Keys, bound : BOOLEAN, configured : BOOLEAN, session : BOOLEAN,
                   up : BOOLEAN, round : Nat, asks : BOOLEAN, bind : BOOLEAN, config : SUBSET Keys]
    /\ client.up => client.session

\* A client that holds its temporary key for bound holds one that the server
\* has bound to the client's permanent key, whatever bind queries, handshakes
\* and connections were given up before.
KeyAgreed ==
    client.pfs /\ client.bound => client.key # 0 /\ server.boundTo[client.key] = client.auth

\* A configured client sends whatever it is asked to: whenever it is connected it
\* has a key to send it with, and no handshake under way.  The key need not be
\* bound: an old config query is sent again under a new key and may be answered.
UsableKey == client.configured /\ client.up => Keyed(client)

\* Every message is sent by a client that is authorized and has a key: the first
\* two assertions of init_enc_msg().  Of the queries that are sent before the
\* client is configured the config query alone does not wait for a key: its timer
\* sends it again while the temporary key is made anew.
EachMessageKeyed == 0 \notin client.config

\* The two ways to a message without a key: the timer of the config query beside a
\* handshake that takes longer, and a client that was told to forget its key.
KeylessOnly == EachMessageKeyed \/ "slow" \in Faults \/ Orphaned

\* A client that takes its key for bound is right, one that takes itself for
\* configured can send, and a message without a key has one of the two causes.
KeysHold == TypeOK /\ KeyAgreed /\ UsableKey /\ KeylessOnly

\* The client gets its keys and its configuration in the end, unless it has
\* dropped a query that nobody repeats before the next connection, or is told to
\* forget its key (of an orphaned client this says nothing).  It is a promise of
\* behaviours without "slow": a slow handshake may end the program instead.
Settles ==
    client.session ~> client.configured \/ ~client.session \/ givenUp \/ Orphaned
=============================================================================
