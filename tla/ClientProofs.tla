----------------------------- MODULE ClientProofs -----------------------------
(***************************************************************************)
(* The client of a data centre, for any number of keys, file parts,         *)
(* connections, messages and faults: what it sends is sent under a key that *)
(* the server knows as its own, no worker of a session is left behind, and  *)
(* the lengths of what it puts on the wire are those that are read.         *)
(***************************************************************************)
EXTENDS MCClient, Wire, Sequences, FiniteSetTheorems, TLAPS

-----------------------------------------------------------------------------
(* One connection is never stranded or unwatched                           *)

\* The initial states satisfy the invariant.
LEMMA InitIInv == Init => IInv
<1> SUFFICES ASSUME Init PROVE IInv
  OBVIOUS
<1>1. TypeOK
  <2>1. online \in BOOLEAN /\ restart \in BOOLEAN /\ ping \in BOOLEAN /\ alive \in BOOLEAN
    BY Zenon DEF Init
  <2>2. quiet \in 0..2 /\ faults \in Nat
    BY DEF Init
  <2>3. /\ state \in {"none", "connecting", "ready", "failed", "closed"}
        /\ wire \in {"none", "dialing", "up", "dead"}
    BY DEF Init
  <2> QED
    BY <2>1, <2>2, <2>3 DEF TypeOK
<1>2. NeverStranded
  BY DEF Init, NeverStranded
<1>3. NeverUnwatched
  BY DEF Init, NeverUnwatched
<1> QED
  BY <1>1, <1>2, <1>3 DEF IInv

\* Dialling, first or again, leaves a connection that is being connected, or a
\* failed one that will restart when online.
LEMMA DialPreserves ==
    ASSUME IInv, Dial, UNCHANGED <<online, quiet, alive>>, ping' \in BOOLEAN
    PROVE  IInv'
<1>1. TypeOK'
  <2>1. online' \in BOOLEAN /\ restart' \in BOOLEAN /\ alive' \in BOOLEAN
    BY Zenon DEF Dial, Fault, IInv, TypeOK
  <2>2. quiet' \in 0..2 /\ faults' \in Nat
    BY ConnectionAssumption DEF Dial, Fault, IInv, TypeOK
  <2>3. /\ state' \in {"none", "connecting", "ready", "failed", "closed"}
        /\ wire' \in {"none", "dialing", "up", "dead"}
    BY DEF Dial, Fault, IInv, TypeOK
  <2> QED
    BY <2>1, <2>2, <2>3 DEF TypeOK
<1>2. NeverStranded'
  BY Zenon DEF Dial, Fault, NeverStranded
<1>3. NeverUnwatched'
  BY DEF Dial, Fault, NeverUnwatched
<1> QED
  BY <1>1, <1>2, <1>3 DEF IInv

\* Every step preserves the invariant.
LEMMA StepIInv == IInv /\ [Next]_vars => IInv'
<1> SUFFICES ASSUME IInv, [Next]_vars PROVE IInv'
  OBVIOUS
<1> USE ConnectionAssumption DEF IInv, TypeOK, NeverStranded, NeverUnwatched, Fault, Scheduled
<1>1. CASE Open
  <2>1. Dial /\ UNCHANGED <<online, quiet, alive>> /\ ping' \in BOOLEAN
    BY <1>1 DEF Open
  <2> QED
    BY <2>1, DialPreserves
<1>2. CASE Restart
  <2>1. Dial /\ UNCHANGED <<online, quiet, alive>> /\ ping' \in BOOLEAN
    BY <1>2 DEF Restart
  <2> QED
    BY <2>1, DialPreserves
<1>3. CASE Connected
  BY <1>3 DEF Connected, Watched
<1>4. CASE ConnectFails
  BY <1>4 DEF ConnectFails
<1>5. CASE Data
  BY <1>5 DEF Data
<1>6. CASE BadData
  BY <1>6 DEF BadData
<1>7. CASE Lost
  BY <1>7 DEF Lost
<1>8. CASE Error
  BY <1>8 DEF Error
<1>9. CASE Dies
  BY <1>9 DEF Dies
<1>10. CASE Tick
  BY <1>10 DEF Tick
<1>11. CASE PingTimer
  BY <1>11 DEF PingTimer
<1>12. CASE GoesOffline
  <2>1. TypeOK'
    <3>1. online' \in BOOLEAN /\ restart' \in BOOLEAN /\ ping' \in BOOLEAN /\ alive' \in BOOLEAN
      BY <1>12, Zenon DEF GoesOffline
    <3>2. /\ faults' \in Nat
          /\ UNCHANGED <<state, quiet, wire>>
      BY <1>12 DEF GoesOffline
    <3> QED
      BY <3>1, <3>2
  <2>2. NeverStranded' /\ NeverUnwatched'
    BY <1>12, Zenon DEF GoesOffline
  <2> QED
    BY <2>1, <2>2
<1>13. CASE GoesOnline
  BY <1>13 DEF GoesOnline
<1>14. CASE Close
  BY <1>14 DEF Close
<1>15. CASE UNCHANGED vars
  BY <1>15 DEF vars
<1> QED
  BY <1>1, <1>2, <1>3, <1>4, <1>5, <1>6, <1>7, <1>8, <1>9, <1>10, <1>11, <1>12,
     <1>13, <1>14, <1>15 DEF Next

\* The invariant holds in every reachable state.
THEOREM Inductive == Spec => []IInv
  BY InitIInv, StepIInv, PTL DEF Spec

\* While the client is online a failed connection is about to restart.
THEOREM RestartIsScheduled == Spec => []NeverStranded
<1>1. IInv => NeverStranded
  BY DEF IInv
<1> QED
  BY <1>1, Inductive, PTL

\* A connection that claims to be ready is watched or about to restart.
THEOREM ReadyIsWatched == Spec => []NeverUnwatched
<1>1. IInv => NeverUnwatched
  BY DEF IInv
<1> QED
  BY <1>1, Inductive, PTL

-----------------------------------------------------------------------------
(* The keys: the inductive invariant                                       *)

\* The types of the client, of a packet and of the server.
Client == [pfs : BOOLEAN, state : K!States, temp : BOOLEAN, authorized : BOOLEAN,
           auth : K!Keys, key : K!Keys, bound : BOOLEAN, configured : BOOLEAN,
           session : BOOLEAN, up : BOOLEAN, round : Nat, asks : BOOLEAN, bind : BOOLEAN,
           config : SUBSET K!Keys]

\* What is on the way from the server.
Packet == [type : K!Handshake \cup {"bind", "refused", "config", "unbound", "update", "unknown"},
           round : Nat, key : K!Keys]

\* A program that goes on: no config query was sent without a key.
Goes(c) == 0 \notin c.config

\* It goes on, unless a handshake is slow or the client has lost its permanent key.
Excused(c) == Goes(c) \/ "slow" \in Faults \/ (c.authorized /\ c.auth = 0)

\* What holds of the members alone, whatever the connection: a handshake has
\* neither a bind query nor a configured client beside it, and a key is there as
\* soon as a message can be sent, until one was sent without.
Upright(c) ==
    /\ c.temp => c.pfs /\ c.authorized
    /\ c.up => c.session
    /\ c.state = "authorized" => c.authorized
    /\ c.bind => c.state = "authorized" /\ c.key # 0 /\ c.pfs
    /\ c.configured => c.state = "authorized" /\ c.key # 0 /\ (~c.pfs => c.key = c.auth)
    /\ c.pfs /\ c.bound => c.state = "authorized" /\ c.key # 0
    /\ Goes(c) /\ c.up /\ c.state = "authorized" => c.key # 0 /\ (~c.pfs => c.key = c.auth)

\* What the server has sent belongs to the client as it is: an answer to a bind
\* query that can still be read is about the key of now, which is bound; none comes
\* after the answer that a handshake waits for.  Before the connection is up only
\* the handshake has asked for anything.
Belongs(c, w, boundTo) ==
    /\ ~c.up => \A i \in 1..Len(w) : w[i].type \in K!Handshake
    /\ \A i \in 1..Len(w) : w[i].type \in K!Handshake => w[i].round <= c.round
    /\ \A i \in 1..Len(w) : c.state = "authorized" /\ w[i].type = "bind" =>
          w[i].key = c.key /\ boundTo[c.key] = c.auth
    /\ \A i, j \in 1..Len(w) :
          /\ c.state \in K!Handshake /\ i < j
          /\ w[i].type \in K!Handshake /\ w[i].round = c.round
          => w[j].type # "bind"
    /\ \A i \in 1..Len(w) : w[i].type = "unbound" => c.pfs
    /\ c.pfs /\ c.bound => boundTo[c.key] = c.auth

\* What the server knows of keys.
Server == [made : K!Keys, known : SUBSET (K!Keys \ {0}), boundTo : [K!Keys -> K!Keys]]

\* The invariant the steps preserve.
KInv ==
    /\ client \in Client /\ (client.up => client.session)
    /\ packets \in Seq(Packet) /\ server \in Server
    /\ Upright(client) /\ Belongs(client, packets, server.boundTo) /\ Excused(client)
-----------------------------------------------------------------------------
(* The keys: what the operators on a client do                             *)

\* A handshake that has just begun, or is to begin with the next connection.
Anew(c, d) ==
    /\ d.pfs = c.pfs /\ ~d.bound /\ d.session
    /\ \/ c.session /\ d.up = c.up /\ d.state = "reqpq_sent" /\ d.round = c.round + 1
       \/ ~c.session /\ ~d.up /\ d.state \in {"init", "authorized"} /\ d.round = c.round

\* A new nonce and the next state, and nothing else.
Asked(c, temp, d) ==
    /\ d \in Client /\ d.state = "reqpq_sent" /\ d.temp = temp /\ d.round = c.round + 1
    /\ d.pfs = c.pfs /\ d.authorized = c.authorized /\ d.auth = c.auth /\ d.key = c.key
    /\ d.bound = c.bound /\ d.configured = c.configured /\ d.session = c.session
    /\ d.up = c.up /\ d.bind = c.bind /\ d.config = c.config

\* The temporary key is given up, with its bind query.
Cleared(c, d) ==
    /\ d \in Client /\ d.key = 0 /\ ~d.configured /\ ~d.bound /\ ~d.bind
    /\ d.state = c.state /\ d.temp = c.temp /\ d.round = c.round
    /\ d.pfs = c.pfs /\ d.authorized = c.authorized /\ d.auth = c.auth
    /\ d.session = c.session /\ d.up = c.up /\ d.config = c.config

\* A session is made, and nothing else.
Begun(c, d) ==
    /\ d \in Client /\ d.session /\ ~d.up
    /\ d.state = c.state /\ d.temp = c.temp /\ d.round = c.round
    /\ d.pfs = c.pfs /\ d.authorized = c.authorized /\ d.auth = c.auth
    /\ d.key = c.key /\ d.bound = c.bound /\ d.configured = c.configured
    /\ d.bind = c.bind /\ d.config = c.config

\* send_req_pq_packet() does the first of them.
LEMMA AskedPqIs ==
    ASSUME NEW c \in Client, NEW temp \in BOOLEAN
    PROVE  Asked(c, temp, K!AskedPq(c, temp))
<1> DEFINE d == K!AskedPq(c, temp)
<1>1. "reqpq_sent" \in K!States
  BY DEF K!States, K!Handshake
<1>2. c.round + 1 \in Nat
  BY DEF Client
<1>3. c.round + 1 \in Nat /\ "reqpq_sent" \in K!States => d \in Client
  BY DEF Client, K!AskedPq
<1>4. d.state = "reqpq_sent" /\ d.temp = temp /\ d.round = c.round + 1
  BY DEF Client, K!AskedPq
<1>5. /\ d.pfs = c.pfs /\ d.authorized = c.authorized /\ d.auth = c.auth /\ d.key = c.key
      /\ d.bound = c.bound /\ d.configured = c.configured /\ d.session = c.session
      /\ d.up = c.up /\ d.bind = c.bind /\ d.config = c.config
  BY DEF Client, K!AskedPq
<1> QED
  BY <1>1, <1>2, <1>3, <1>4, <1>5 DEF Asked

\* reset_temp_authorization() does the second.
LEMMA UnkeyedIs ==
    ASSUME NEW c \in Client
    PROVE  Cleared(c, K!Unkeyed(c))
<1>1. 0 \in K!Keys
  BY ClientAssumption DEF K!Keys
<1> QED
  BY <1>1 DEF K!Unkeyed, Client, Cleared

\* create_session() does the third.
LEMMA WithSessionIs ==
    ASSUME NEW c \in Client
    PROVE  Begun(c, K!WithSession(c))
BY DEF K!WithSession, Client, Begun

\* restart_temp_authorization() begins a handshake for a temporary key.
LEMMA TempRestartedIsAnew ==
    ASSUME NEW c \in Client, c.pfs, c.authorized, c.up => c.session
    PROVE  LET d == K!TempRestarted(c) IN
           d \in Client /\ Upright(d) /\ Anew(c, d) /\ d.config = c.config
<1> DEFINE u == K!Unkeyed(c)
           e == [u EXCEPT !.state = "authorized"]
<1>1. Cleared(c, u)
  BY UnkeyedIs
<1> HIDE DEF u
<1>2. /\ e \in Client /\ e.key = 0 /\ ~e.configured /\ ~e.bound /\ ~e.bind
      /\ e.state = "authorized" /\ e.round = c.round /\ e.pfs = c.pfs
      /\ e.authorized = c.authorized /\ e.session = c.session /\ e.up = c.up
      /\ e.config = c.config
  BY <1>1 DEF Cleared, Client, K!States, K!Handshake
<1>3. K!TempRestarted(c) = IF c.session THEN K!AskedPq(e, TRUE) ELSE K!WithSession(e)
  BY DEF K!TempRestarted, e, u
<1> HIDE DEF e
<1>4. CASE c.session
  <2>1. K!TempRestarted(c) = K!AskedPq(e, TRUE)
    BY <1>3, <1>4
  <2> DEFINE d == K!TempRestarted(c)
  <2>2. Asked(e, TRUE, d)
    BY <2>1, <1>2, AskedPqIs, Zenon
  <2> HIDE DEF d
  <2>3. d \in Client /\ Upright(d) /\ Anew(c, d) /\ d.config = c.config
    BY <1>2, <1>4, <2>2 DEF Asked, Upright, Anew
  <2> QED
    BY <2>3 DEF d
<1>5. CASE ~c.session
  <2>1. K!TempRestarted(c) = K!WithSession(e)
    BY <1>3, <1>5
  <2> DEFINE d == K!TempRestarted(c)
  <2>2. Begun(e, d)
    BY <2>1, <1>2, WithSessionIs, Zenon
  <2> HIDE DEF d
  <2>3. d \in Client /\ Upright(d) /\ Anew(c, d) /\ d.config = c.config
    BY <1>2, <1>5, <2>2 DEF Begun, Upright, Anew
  <2> QED
    BY <2>3 DEF d
<1> QED
  BY <1>4, <1>5 DEF Client

\* restart_authorization() begins a handshake for a permanent key.
LEMMA RestartedIsAnew ==
    ASSUME NEW c \in Client, c.temp => c.pfs /\ c.authorized, c.up => c.session
    PROVE  LET d == K!Restarted(c) IN
           d \in Client /\ Upright(d) /\ Anew(c, d) /\ d.config = c.config
<1> DEFINE u == K!Unkeyed(c)
           e == [u EXCEPT !.auth = 0]
           f == [u EXCEPT !.auth = 0, !.state = "init"]
<1>1. Cleared(c, u)
  BY UnkeyedIs
<1> HIDE DEF u
<1>2. 0 \in K!Keys
  BY ClientAssumption DEF K!Keys
<1>3. /\ e \in Client /\ ~e.configured /\ ~e.bound /\ ~e.bind
      /\ e.round = c.round /\ e.pfs = c.pfs /\ e.session = c.session /\ e.up = c.up
      /\ e.config = c.config
  BY <1>1, <1>2 DEF Cleared, Client
<1>4. /\ f \in Client /\ ~f.configured /\ ~f.bound /\ ~f.bind /\ f.state = "init"
      /\ f.round = c.round /\ f.pfs = c.pfs /\ f.temp = c.temp /\ f.authorized = c.authorized
      /\ f.config = c.config
  BY <1>1, <1>2 DEF Cleared, Client, K!States
<1>5. K!Restarted(c) = IF c.session THEN K!AskedPq(e, FALSE) ELSE K!WithSession(f)
  BY DEF K!Restarted, e, f, u
<1> HIDE DEF e, f
<1>6. CASE c.session
  <2>1. K!Restarted(c) = K!AskedPq(e, FALSE)
    BY <1>5, <1>6
  <2> DEFINE d == K!Restarted(c)
  <2>2. Asked(e, FALSE, d)
    BY <2>1, <1>3, AskedPqIs, Zenon
  <2> HIDE DEF d
  <2>3. d \in Client /\ Upright(d) /\ Anew(c, d) /\ d.config = c.config
    BY <1>3, <1>6, <2>2 DEF Asked, Upright, Anew
  <2> QED
    BY <2>3 DEF d
<1>7. CASE ~c.session
  <2>1. K!Restarted(c) = K!WithSession(f)
    BY <1>5, <1>7
  <2> DEFINE d == K!Restarted(c)
  <2>2. Begun(f, d)
    BY <2>1, <1>4, WithSessionIs, Zenon
  <2> HIDE DEF d
  <2>3. d \in Client /\ Upright(d) /\ Anew(c, d) /\ d.config = c.config
    BY <1>4, <1>7, <2>2 DEF Begun, Upright, Anew
  <2> QED
    BY <2>3 DEF d
<1> QED
  BY <1>6, <1>7 DEF Client

\* A client that goes on with its permanent key: it is as it was but for a new
\* handshake, or sends its bind query or its config query, with a key unless the
\* program ends there.
Forth(c, d) ==
    /\ d.pfs = c.pfs /\ d.session = c.session /\ d.up = c.up /\ d.auth = c.auth
    /\ c.pfs => d.key = c.key /\ d.bound = c.bound
    /\ \/ d.state = "reqpq_sent" /\ d.round = c.round + 1
       \/ d.state = "authorized" /\ d.round = c.round

\* A client with its permanent key, on a connection.
Ready(c) ==
    /\ c.session /\ c.up /\ c.state = "authorized" /\ c.authorized /\ (c.temp => c.pfs)
    /\ c.bind => c.key # 0 /\ c.pfs
    /\ c.configured => c.key # 0 /\ (~c.pfs => c.key = c.auth)
    /\ c.pfs /\ c.bound => c.key # 0
    /\ c.key = 0 => ~c.bind /\ ~c.configured /\ ~(c.pfs /\ c.bound)

\* What connected() and process_auth_complete() go on with keeps the client upright.
LEMMA ContinuedIsForth ==
    ASSUME NEW c \in Client, Ready(c)
    PROVE  LET d == K!Continued(c) IN
           d \in Client /\ Forth(c, d) /\ Upright(d) /\ (Goes(c) => Excused(d))
<1> DEFINE e == [c EXCEPT !.key = c.auth, !.bound = TRUE]
<1>1. /\ e \in Client /\ e.pfs = c.pfs /\ e.session = c.session /\ e.up = c.up /\ e.auth = c.auth
      /\ e.key = c.auth /\ e.round = c.round /\ e.state = c.state /\ e.authorized = c.authorized
      /\ e.temp = c.temp /\ e.bind = c.bind /\ e.configured = c.configured /\ e.config = c.config
  BY DEF Client
<1>2. CASE ~c.pfs /\ ~c.configured
  <2>1. K!Continued(c) = K!Configuring(e)
    BY <1>2, Zenon DEF K!Continued, e
  <2> HIDE DEF e
  <2> DEFINE d == K!Configuring(e)
  <2>2. /\ d \in Client /\ d.pfs = e.pfs /\ d.session = e.session /\ d.up = e.up
        /\ d.auth = e.auth /\ d.key = e.key /\ d.round = e.round /\ d.state = e.state
        /\ d.authorized = e.authorized /\ d.temp = e.temp /\ d.bind = e.bind
        /\ d.configured = e.configured /\ d.config = e.config \cup {e.key}
    BY <1>1 DEF Client, K!Configuring
  <2> QED
    BY <1>1, <1>2, <2>1, <2>2 DEF Ready, Forth, Goes, Excused, Upright
<1>3. CASE ~c.pfs /\ c.configured
  <2>1. K!Continued(c) = e
    BY <1>3, Zenon DEF K!Continued, e
  <2> HIDE DEF e
  <2> QED
    BY <1>1, <1>3, <2>1 DEF Ready, Forth, Goes, Excused, Upright
<1>4. CASE c.pfs /\ ~c.bound /\ c.key = 0
  <2>1. K!Continued(c) = K!AskedPq(c, TRUE)
    BY <1>4, Zenon DEF K!Continued
  <2> DEFINE d == K!Continued(c)
  <2>2. Asked(c, TRUE, d)
    BY <2>1, AskedPqIs, Zenon
  <2> HIDE DEF d
  <2>3. d \in Client /\ Forth(c, d) /\ Upright(d) /\ (Goes(c) => Excused(d))
    BY <1>4, <2>2 DEF Asked, Ready, Forth, Goes, Excused, Upright
  <2> QED
    BY <2>3 DEF d
<1>5. CASE c.pfs /\ ~c.bound /\ c.key # 0
  <2>1. K!Continued(c) = K!Binding(c)
    BY <1>5, Zenon DEF K!Continued
  <2> QED
    BY <1>5, <2>1 DEF K!Binding, Client, Ready, Forth, Goes, Excused, Upright
<1>6. CASE c.pfs /\ c.bound /\ ~c.configured
  <2>1. K!Continued(c) = K!Configuring(c)
    BY <1>6, Zenon DEF K!Continued
  <2> DEFINE d == K!Continued(c)
  <2>2. /\ d \in Client /\ d.state = c.state /\ d.temp = c.temp /\ d.round = c.round
        /\ d.pfs = c.pfs /\ d.authorized = c.authorized /\ d.auth = c.auth /\ d.key = c.key
        /\ d.bound = c.bound /\ d.configured = c.configured /\ d.session = c.session
        /\ d.up = c.up /\ d.bind = c.bind /\ d.config = c.config \cup {c.key}
    BY <2>1 DEF K!Configuring, Client
  <2> HIDE DEF d
  <2>3. d \in Client /\ Forth(c, d) /\ Upright(d) /\ (Goes(c) => Excused(d))
    BY <1>6, <2>2 DEF Ready, Forth, Goes, Excused, Upright
  <2> QED
    BY <2>3 DEF d
<1>7. CASE c.pfs /\ c.bound /\ c.configured
  <2>1. K!Continued(c) = c
    BY <1>7, Zenon DEF K!Continued
  <2> QED
    BY <1>7, <2>1 DEF Client, Ready, Forth, Goes, Excused, Upright
<1> QED
  BY <1>2, <1>3, <1>4, <1>5, <1>6, <1>7 DEF Client
-----------------------------------------------------------------------------
(* The keys: what the server has sent                                      *)

\* There is no answer to a bind query, and nothing but answers to a handshake.
NoBind(w) == \A i \in 1..Len(w) : w[i].type # "bind"
\* Nothing but answers to a handshake.
Dialled(w) == \A i \in 1..Len(w) : w[i].type \in K!Handshake

\* A change of the client that leaves what the server has sent as it is.
Carries(c, d, w, b) ==
    /\ d.pfs = c.pfs /\ d.round >= c.round
    /\ d.up \/ Dialled(w)
    /\ d.state = "authorized" =>
          NoBind(w) \/ (c.state = "authorized" /\ d.key = c.key /\ d.auth = c.auth)
    /\ d.state \in K!Handshake /\ d.round = c.round => NoBind(w) \/ c.state \in K!Handshake
    /\ d.pfs /\ d.bound => b[d.key] = d.auth

\* Such a change keeps what was sent the client's.
LEMMA Carried ==
    ASSUME NEW c \in Client, NEW d \in Client, NEW w \in Seq(Packet), NEW b,
           Belongs(c, w, b), Carries(c, d, w, b)
    PROVE  Belongs(d, w, b)
<1>1. c.round \in Nat /\ d.round \in Nat /\ \A i \in 1..Len(w) : w[i].round \in Nat
  <2>1. \A i \in 1..Len(w) : w[i] \in Packet
    OBVIOUS
  <2> QED
    BY <2>1 DEF Client, Packet
<1>2. ~d.up => Dialled(w)
  BY DEF Carries
<1>3. \A i \in 1..Len(w) : w[i].type \in K!Handshake => w[i].round <= d.round
  BY <1>1 DEF Carries, Belongs
<1>4. \A i \in 1..Len(w) : d.state = "authorized" /\ w[i].type = "bind" =>
          w[i].key = d.key /\ b[d.key] = d.auth
  BY DEF Carries, Belongs, NoBind
<1>5. ASSUME NEW i \in 1..Len(w), NEW j \in 1..Len(w), d.state \in K!Handshake, i < j,
             w[i].type \in K!Handshake, w[i].round = d.round
      PROVE  w[j].type # "bind"
  <2>1. w[i].round <= c.round
    BY <1>5 DEF Belongs
  <2>2. d.round = c.round
    BY <1>1, <1>5, <2>1 DEF Carries
  <2>3. NoBind(w) \/ c.state \in K!Handshake
    BY <1>5, <2>2 DEF Carries
  <2> QED
    BY <1>5, <2>2, <2>3 DEF Belongs, NoBind
<1>6. \A i \in 1..Len(w) : w[i].type = "unbound" => d.pfs
  BY DEF Carries, Belongs
<1>7. d.pfs /\ d.bound => b[d.key] = d.auth
  BY DEF Carries
<1> QED
  BY <1>2, <1>3, <1>4, <1>5, <1>6, <1>7 DEF Belongs, Dialled

\* A handshake that begins anew is such a change.
LEMMA AnewBelongs ==
    ASSUME NEW c \in Client, NEW d \in Client, NEW w \in Seq(Packet), NEW b,
           Belongs(c, w, b), Anew(c, d), c.up => c.session
    PROVE  Belongs(d, w, b)
<1> SUFFICES Carries(c, d, w, b)
  BY Carried
<1>1. ~c.up => Dialled(w)
  BY DEF Belongs, Dialled
<1>2. "bind" \notin K!Handshake
  BY DEF K!Handshake
<1>3. ~c.up => NoBind(w)
  BY <1>1, <1>2 DEF Dialled, NoBind
<1>4. c.round \in Nat
  BY DEF Client
<1>5. CASE c.session /\ d.up = c.up /\ d.state = "reqpq_sent" /\ d.round = c.round + 1
  <2>1. d.up \/ Dialled(w)
    BY <1>1, <1>5, Zenon
  <2>2. /\ d.pfs = c.pfs /\ d.round >= c.round /\ d.round # c.round
        /\ d.state # "authorized" /\ ~d.bound
    BY <1>4, <1>5 DEF Anew
  <2> QED
    BY <2>1, <2>2, Zenon DEF Carries
<1>6. CASE ~c.session /\ ~d.up /\ d.state \in {"init", "authorized"} /\ d.round = c.round
  <2>1. Dialled(w) /\ NoBind(w)
    BY <1>1, <1>3, <1>6
  <2>2. d.pfs = c.pfs /\ d.round >= c.round /\ ~d.bound
    BY <1>4, <1>6 DEF Anew
  <2> QED
    BY <2>1, <2>2, Zenon DEF Carries
<1> QED
  BY <1>5, <1>6, Zenon DEF Anew

\* So is what follows the permanent key, if the bind query is not answered twice.
LEMMA ForthBelongs ==
    ASSUME NEW c \in Client, NEW e \in Client, NEW d \in Client, NEW w \in Seq(Packet), NEW b,
           Belongs(c, w, b), Forth(e, d), NoBind(w), e.pfs = c.pfs, e.round = c.round, e.up,
           e.pfs /\ e.bound => b[e.key] = e.auth
    PROVE  Belongs(d, w, b)
<1>1. c.round \in Nat
  BY DEF Client
<1>2. d.up /\ d.pfs = c.pfs
  BY Zenon DEF Forth
<1>3. d.pfs /\ d.bound => b[d.key] = d.auth
  BY DEF Forth
<1>4. d.round >= c.round
  BY <1>1 DEF Forth
<1>5. d.state \in K!Handshake /\ d.round = c.round => NoBind(w)
  OBVIOUS
<1>6. Carries(c, d, w, b)
  BY <1>2, <1>3, <1>4, <1>5 DEF Carries
<1> QED
  BY <1>6, Carried

\* Nothing was sent.
LEMMA NothingBelongs ==
    ASSUME NEW c \in Client, NEW b, c.pfs /\ c.bound => b[c.key] = c.auth
    PROVE  Belongs(c, <<>>, b)
<1>1. 1..Len(<<>>) = {}
  OBVIOUS
<1> QED
  BY <1>1 DEF Belongs

\* What the server may say to a client as it is.
Fitting(c, m, b) ==
    /\ c.up \/ m.type \in K!Handshake
    /\ m.type \in K!Handshake => m.round <= c.round
    /\ m.type = "bind" => c.state = "authorized" /\ m.key = c.key /\ b[c.key] = c.auth
    /\ m.type = "unbound" => c.pfs

\* It says so.
LEMMA SaidBelongs ==
    ASSUME NEW c \in Client, NEW w \in Seq(Packet), NEW m \in Packet, NEW b,
           Belongs(c, w, b), Fitting(c, m, b)
    PROVE  Append(w, m) \in Seq(Packet) /\ Belongs(c, Append(w, m), b)
<1> DEFINE v == Append(w, m)
<1>1. /\ v \in Seq(Packet) /\ Len(v) = Len(w) + 1 /\ Len(w) \in Nat
      /\ \A i \in 1..Len(w) : v[i] = w[i]
      /\ v[Len(w) + 1] = m
  OBVIOUS
<1> HIDE DEF v
<1>2. \A i \in 1..Len(v) : \/ i \in 1..Len(w) /\ v[i] = w[i]
                           \/ i = Len(w) + 1 /\ v[i] = m
  BY <1>1
<1>3. ~c.up => \A i \in 1..Len(v) : v[i].type \in K!Handshake
  BY <1>2 DEF Belongs, Fitting
<1>4. \A i \in 1..Len(v) : v[i].type \in K!Handshake => v[i].round <= c.round
  BY <1>2 DEF Belongs, Fitting
<1>5. \A i \in 1..Len(v) : c.state = "authorized" /\ v[i].type = "bind" =>
          v[i].key = c.key /\ b[c.key] = c.auth
  BY <1>2 DEF Belongs, Fitting
<1>6. ASSUME NEW i \in 1..Len(v), NEW j \in 1..Len(v), c.state \in K!Handshake, i < j,
             v[i].type \in K!Handshake, v[i].round = c.round
      PROVE  v[j].type # "bind"
  <2>1. i \in 1..Len(w) /\ v[i] = w[i]
    BY <1>1, <1>2, <1>6
  <2>2. CASE j = Len(w) + 1 /\ v[j] = m
    BY <1>6, <2>2 DEF Fitting, K!Handshake
  <2>3. CASE j \in 1..Len(w) /\ v[j] = w[j]
    BY <1>6, <2>1, <2>3 DEF Belongs
  <2> QED
    BY <1>2, <2>2, <2>3
<1>7. \A i \in 1..Len(v) : v[i].type = "unbound" => c.pfs
  BY <1>2 DEF Belongs, Fitting
<1>8. c.pfs /\ c.bound => b[c.key] = c.auth
  BY DEF Belongs
<1>9. Belongs(c, v, b)
  BY <1>3, <1>4, <1>5, <1>6, <1>7, <1>8 DEF Belongs
<1> QED
  BY <1>1, <1>9 DEF v

\* The client reads the first packet: the rest is still its own, and has no answer
\* to a bind query if that packet ends the handshake.
LEMMA ReadBelongs ==
    ASSUME NEW c \in Client, NEW w \in Seq(Packet), NEW b, Belongs(c, w, b), w # <<>>
    PROVE  /\ Head(w) \in Packet /\ Tail(w) \in Seq(Packet) /\ Belongs(c, Tail(w), b)
           /\ c.state \in K!Handshake /\ K!Nonce(Head(w), c) => NoBind(Tail(w))
           /\ c.state = "authorized" /\ Head(w).type = "bind" =>
                 Head(w).key = c.key /\ b[c.key] = c.auth
           /\ Head(w).type = "unbound" => c.pfs
<1> DEFINE v == Tail(w)
<1>1. /\ v \in Seq(Packet) /\ Len(v) = Len(w) - 1 /\ Len(w) \in Nat /\ Len(w) >= 1
      /\ \A i \in 1..Len(v) : v[i] = w[i + 1]
      /\ Head(w) = w[1] /\ w[1] \in Packet
  OBVIOUS
<1> HIDE DEF v
<1>2. \A i \in 1..Len(v) : i + 1 \in 1..Len(w) /\ v[i] = w[i + 1]
  BY <1>1
<1>3. 1 \in 1..Len(w)
  BY <1>1
<1>4. ~c.up => \A i \in 1..Len(v) : v[i].type \in K!Handshake
  BY <1>2 DEF Belongs
<1>5. \A i \in 1..Len(v) : v[i].type \in K!Handshake => v[i].round <= c.round
  BY <1>2 DEF Belongs
<1>6. \A i \in 1..Len(v) : c.state = "authorized" /\ v[i].type = "bind" =>
          v[i].key = c.key /\ b[c.key] = c.auth
  BY <1>2 DEF Belongs
<1>7. ASSUME NEW i \in 1..Len(v), NEW j \in 1..Len(v), c.state \in K!Handshake, i < j,
             v[i].type \in K!Handshake, v[i].round = c.round
      PROVE  v[j].type # "bind"
  <2>1. /\ i + 1 \in 1..Len(w) /\ v[i] = w[i + 1]
        /\ j + 1 \in 1..Len(w) /\ v[j] = w[j + 1] /\ i + 1 < j + 1
    BY <1>2, <1>7
  <2> QED
    BY <1>7, <2>1 DEF Belongs
<1>8. \A i \in 1..Len(v) : v[i].type = "unbound" => c.pfs
  BY <1>2 DEF Belongs
<1>9. c.pfs /\ c.bound => b[c.key] = c.auth
  BY DEF Belongs
<1>10. Belongs(c, v, b)
  BY <1>4, <1>5, <1>6, <1>7, <1>8, <1>9 DEF Belongs
<1>11. ASSUME c.state \in K!Handshake, K!Nonce(Head(w), c), NEW j \in 1..Len(v)
       PROVE  v[j].type # "bind"
  <2>1. j + 1 \in 1..Len(w) /\ v[j] = w[j + 1] /\ 1 < j + 1
    BY <1>2
  <2>2. w[1].type \in K!Handshake /\ w[1].round = c.round
    BY <1>1, <1>11 DEF K!Nonce
  <2> QED
    BY <1>3, <1>11, <2>1, <2>2 DEF Belongs
<1>12. c.state \in K!Handshake /\ K!Nonce(Head(w), c) => NoBind(v)
  BY <1>11 DEF NoBind
<1>13. /\ c.state = "authorized" /\ Head(w).type = "bind" =>
             Head(w).key = c.key /\ b[c.key] = c.auth
       /\ Head(w).type = "unbound" => c.pfs
  BY <1>1, <1>3 DEF Belongs
<1> QED
  BY <1>1, <1>10, <1>12, <1>13 DEF v
-----------------------------------------------------------------------------
(* The keys: the steps                                                     *)

\* What a step of the client is to establish.
Kept(d, w, b) ==
    /\ d \in Client /\ (d.up => d.session)
    /\ Upright(d) /\ Belongs(d, w, b) /\ Excused(d)

\* The invariant at the start.
LEMMA InitKInv == K!Init => KInv
<1> SUFFICES ASSUME K!Init PROVE KInv
  OBVIOUS
<1>1. 0 \in K!Keys /\ 1 \in K!Keys
  BY ClientAssumption DEF K!Keys
<1>2. PICK stored \in BOOLEAN, pfs \in BOOLEAN :
         /\ client = [pfs |-> pfs, state |-> "init", temp |-> FALSE, authorized |-> stored,
                      auth |-> IF stored THEN 1 ELSE 0, key |-> 0,
                      bound |-> FALSE, configured |-> FALSE,
                      session |-> FALSE, up |-> FALSE, round |-> 0, asks |-> FALSE,
                      bind |-> FALSE, config |-> {}]
         /\ server = [made |-> IF stored THEN 1 ELSE 0,
                      known |-> IF stored THEN {1} ELSE {}, boundTo |-> [k \in K!Keys |-> 0]]
  BY DEF K!Init
<1>3. "init" \in K!States
  BY DEF K!States
<1>4. client \in Client
  <2>1. (IF stored THEN 1 ELSE 0) \in K!Keys
    BY <1>1
  <2> QED
    BY <1>1, <1>2, <1>3, <2>1 DEF Client
<1>5. ~client.up /\ ~client.bound /\ Upright(client)
  BY <1>2 DEF Upright
<1>6. server \in Server
  <2>1. (IF stored THEN 1 ELSE 0) \in K!Keys
    BY <1>1
  <2>2. (IF stored THEN {1} ELSE {}) \in SUBSET (K!Keys \ {0})
    BY <1>1
  <2>3. [k \in K!Keys |-> 0] \in [K!Keys -> K!Keys]
    BY <1>1
  <2> QED
    BY <1>2, <2>1, <2>2, <2>3 DEF Server
<1>7. packets = <<>> /\ packets \in Seq(Packet)
  BY DEF K!Init
<1>8. Belongs(client, packets, server.boundTo)
  BY <1>4, <1>5, <1>7, NothingBelongs
<1>9. Excused(client)
  BY <1>2 DEF Excused, Goes
<1> QED
  BY <1>4, <1>5, <1>6, <1>7, <1>8, <1>9 DEF KInv

\* The steps of the client alone.
LEMMA AloneKInv ==
    ASSUME KInv, K!Running, Kept(client', packets, server.boundTo), UNCHANGED <<packets, server>>
    PROVE  KInv'
BY DEF KInv, Kept

\* What is known of a program that goes on.
LEMMA Going ==
    ASSUME KInv, K!Running
    PROVE  /\ client \in Client /\ packets \in Seq(Packet) /\ server \in Server
           /\ Upright(client) /\ Belongs(client, packets, server.boundTo) /\ Goes(client)
           /\ (client.up => client.session) /\ (client.temp => client.pfs /\ client.authorized)
BY DEF KInv, Goes, K!Running, Upright

\* A handshake that begins anew is a step of that kind.
LEMMA AnewKInv ==
    ASSUME KInv, K!Running, client' \in Client, Upright(client'), Anew(client, client'),
           client'.config = client.config, UNCHANGED <<packets, server>>
    PROVE  KInv'
<1>1. Belongs(client', packets, server.boundTo)
  BY Going, AnewBelongs
<1>2. client'.up => client'.session
  BY DEF Upright
<1>3. Excused(client')
  BY Going DEF Excused, Goes
<1> QED
  BY <1>1, <1>2, <1>3, AloneKInv DEF Kept

\* A query opens the session.
LEMMA OpenKInv == KInv /\ K!Open => KInv'
<1> SUFFICES ASSUME KInv, K!Open PROVE KInv'
  OBVIOUS
<1> USE Going DEF K!Open
<1> DEFINE d == client'
<1>1. Begun(client, d)
  BY WithSessionIs, Zenon
<1>2. ~client.up /\ ~client.session
  BY Zenon
<1>3. Dialled(packets)
  BY <1>2 DEF Belongs, Dialled
<1>4. Upright(d) /\ d \in Client /\ d.session
  BY <1>1 DEF Begun, Upright
<1>5. NoBind(packets)
  BY <1>3 DEF Dialled, NoBind, K!Handshake
<1>6. client.round \in Nat
  BY DEF Client
<1>7. Carries(client, d, packets, server.boundTo)
  BY <1>1, <1>3, <1>5, <1>6 DEF Begun, Carries, Belongs
<1>8. Belongs(d, packets, server.boundTo)
  BY <1>4, <1>7, Carried
<1>9. Excused(d)
  BY <1>1 DEF Begun, Excused, Goes
<1> QED
  BY <1>4, <1>8, <1>9, AloneKInv DEF Kept

\* The connection is up: the client goes on with its permanent key or asks for one.
LEMMA UpKInv == KInv /\ K!Up => KInv'
<1> SUFFICES ASSUME KInv, K!Up PROVE KInv'
  OBVIOUS
<1>0. K!Running /\ client.session /\ ~client.up /\ UNCHANGED <<packets, server>>
  BY DEF K!Up
<1>k. /\ client \in Client /\ packets \in Seq(Packet) /\ server \in Server
      /\ Upright(client) /\ Belongs(client, packets, server.boundTo) /\ Goes(client)
      /\ (client.up => client.session) /\ (client.temp => client.pfs /\ client.authorized)
  BY <1>0, Going
<1> DEFINE c == [client EXCEPT !.up = TRUE]
<1>1. /\ c \in Client /\ c.up /\ c.session /\ c.pfs = client.pfs /\ c.state = client.state
      /\ c.temp = client.temp /\ c.authorized = client.authorized /\ c.auth = client.auth
      /\ c.key = client.key /\ c.bound = client.bound /\ c.configured = client.configured
      /\ c.round = client.round /\ c.bind = client.bind /\ c.config = client.config
  BY <1>0, <1>k DEF Client
<1>2. client' = K!Connected(c)
  BY DEF K!Up
<1> HIDE DEF c
<1>3. Dialled(packets) /\ NoBind(packets)
  <2>1. Dialled(packets)
    BY <1>0, <1>k DEF Belongs, Dialled
  <2> QED
    BY <2>1 DEF Dialled, NoBind, K!Handshake
<1> DEFINE d == client'
<1>4. CASE c.authorized
  <2> DEFINE e == [c EXCEPT !.state = "authorized"]
  <2>1. client' = K!Continued(e)
    BY <1>2, <1>4, Zenon DEF K!Connected
  <2>2. "authorized" \in K!States
    BY DEF K!States
  <2>3. /\ e \in Client /\ e.up /\ e.session /\ e.pfs = c.pfs /\ e.state = "authorized"
        /\ e.temp = c.temp /\ e.authorized = c.authorized /\ e.auth = c.auth
        /\ e.key = c.key /\ e.bound = c.bound /\ e.configured = c.configured
        /\ e.round = c.round /\ e.bind = c.bind /\ e.config = c.config
    BY <1>1, <2>2 DEF Client
  <2> HIDE DEF e
  <2>4. Ready(e)
    BY <1>1, <1>4, <1>k, <2>3 DEF Ready, Upright
  <2>k. Goes(e)
    BY <1>1, <1>k, <2>3 DEF Goes
  <2>5. d \in Client /\ Forth(e, d) /\ Upright(d) /\ Excused(d)
    BY <2>1, <2>3, <2>4, <2>k, ContinuedIsForth
  <2>6. e.pfs /\ e.bound => server.boundTo[e.key] = e.auth
    BY <1>1, <1>k, <2>3 DEF Belongs
  <2>7. e.pfs = client.pfs /\ e.round = client.round
    BY <1>1, <2>3
  <2>8. Belongs(d, packets, server.boundTo)
    BY <1>3, <1>k, <2>3, <2>5, <2>6, <2>7, ForthBelongs
  <2>9. d.up => d.session
    BY <2>3, <2>5 DEF Forth
  <2> QED
    BY <1>0, <2>5, <2>8, <2>9, AloneKInv DEF Kept
<1>5. CASE ~c.authorized
  <2>1. client' = K!AskedPq(c, FALSE)
    BY <1>2, <1>5, Zenon DEF K!Connected
  <2>2. Asked(c, FALSE, d)
    BY <1>1, <2>1, AskedPqIs, Zenon
  <2>3. d \in Client /\ d.up /\ d.session /\ Upright(d)
    BY <1>1, <1>5, <1>k, <2>2 DEF Asked, Upright
  <2>k. Excused(d)
    BY <1>1, <1>k, <2>2 DEF Asked, Excused, Goes
  <2>4. client.round \in Nat
    BY <1>k DEF Client
  <2>5. d.round >= client.round
    BY <1>1, <2>2, <2>4 DEF Asked
  <2>6. ~(d.pfs /\ d.bound)
    BY <1>1, <1>5, <1>k, <2>2 DEF Asked, Upright
  <2>7. d.pfs = client.pfs
    BY <1>1, <2>2 DEF Asked
  <2>8. Carries(client, d, packets, server.boundTo)
    BY <1>3, <2>3, <2>5, <2>6, <2>7, Zenon DEF Carries
  <2>9. Belongs(d, packets, server.boundTo)
    BY <1>k, <2>3, <2>8, Carried
  <2> QED
    BY <1>0, <2>3, <2>9, <2>k, AloneKInv DEF Kept
<1> QED
  BY <1>4, <1>5

\* rpc_close() leaves no connection.
LEMMA DroppedIs ==
    ASSUME NEW c \in Client
    PROVE  LET d == K!Dropped(c) IN
           /\ d \in Client /\ ~d.up /\ d.session = c.session
           /\ Upright(c) => Upright(d)
           /\ d.pfs = c.pfs /\ d.bound = c.bound /\ d.key = c.key /\ d.auth = c.auth
           /\ d.config = c.config
<1> DEFINE d == K!Dropped(c)
<1>1. /\ d \in Client /\ ~d.up /\ d.session = c.session
      /\ d.pfs = c.pfs /\ d.bound = c.bound /\ d.key = c.key /\ d.auth = c.auth
      /\ d.config = c.config /\ d.temp = c.temp /\ d.authorized = c.authorized
      /\ d.state = c.state /\ d.bind = c.bind /\ d.configured = c.configured
  BY DEF K!Dropped, Client
<1> HIDE DEF d
<1>2. Upright(c) => Upright(d)
  BY <1>1 DEF Upright
<1> QED
  BY <1>1, <1>2 DEF d

\* The connection is lost, or the session is given up.
LEMMA LostKInv == KInv /\ (K!Down \/ K!Close) => KInv'
<1> SUFFICES ASSUME KInv, K!Down \/ K!Close PROVE KInv'
  OBVIOUS
<1>0. K!Running /\ packets' = <<>> /\ UNCHANGED server
  BY DEF K!Down, K!Close
<1>k. /\ client \in Client /\ packets \in Seq(Packet) /\ server \in Server
      /\ Upright(client) /\ Belongs(client, packets, server.boundTo) /\ Goes(client)
  BY <1>0, Going
<1> DEFINE e == K!Dropped(client)
           d == client'
<1>1. /\ e \in Client /\ ~e.up /\ Upright(e)
      /\ e.pfs = client.pfs /\ e.bound = client.bound /\ e.key = client.key
      /\ e.auth = client.auth /\ e.config = client.config
  BY <1>k, DroppedIs
<1>2. d = e \/ d = [e EXCEPT !.session = FALSE]
  BY DEF K!Down, K!Close
<1> HIDE DEF e
<1>3. d \in Client /\ ~d.up /\ Upright(d)
  BY <1>1, <1>2 DEF Client, Upright
<1>4. d.pfs /\ d.bound => server.boundTo[d.key] = d.auth
  <2>1. /\ d.pfs = client.pfs /\ d.bound = client.bound /\ d.key = client.key
        /\ d.auth = client.auth
    BY <1>1, <1>2 DEF Client
  <2> QED
    BY <1>k, <2>1 DEF Belongs
<1>5. Belongs(d, <<>>, server.boundTo)
  BY <1>3, <1>4, NothingBelongs
<1>6. <<>> \in Seq(Packet)
  OBVIOUS
<1>7. Excused(d)
  <2>1. d.config = client.config
    BY <1>1, <1>2 DEF Client
  <2> QED
    BY <1>k, <2>1 DEF Excused, Goes
<1> QED
  BY <1>0, <1>3, <1>5, <1>6, <1>7, <1>k DEF KInv
\* What the server says, if it fits and the server stays as it is.
LEMMA SaidKInv ==
    ASSUME KInv, K!Running, NEW m \in Packet, K!Say(m), UNCHANGED client,
           Fitting(client, m, server'.boundTo), server' \in Server,
           Belongs(client, packets, server'.boundTo)
    PROVE  KInv'
<1>1. client \in Client /\ packets \in Seq(Packet) /\ Upright(client) /\ client.up => client.session
  BY Going
<1>2. packets' \in Seq(Packet) /\ Belongs(client, packets', server'.boundTo)
  BY Going, SaidBelongs DEF K!Say
<1>3. client' = client
  OBVIOUS
<1> QED
  BY <1>2, <1>3, Going DEF KInv

\* The answers to the handshake.
LEMMA HandshakeKInv ==
    ASSUME KInv, \/ K!ServeHandshake("reqpq_sent") \/ K!ServeHandshake("reqdh_sent")
                 \/ K!ServeKey \/ K!RefuseKey
    PROVE  KInv'
<1>0. K!Running /\ UNCHANGED client
  BY DEF K!ServeHandshake, K!ServeKey, K!RefuseKey
<1>k. /\ client \in Client /\ server \in Server /\ Belongs(client, packets, server.boundTo)
      /\ client.round \in Nat
  BY <1>0, Going DEF Client
<1>1. 0 \in K!Keys
  BY ClientAssumption DEF K!Keys
<1>2. ASSUME NEW step \in K!Handshake
      PROVE  /\ K!Reply(client, step) \in Packet /\ K!Reply(client, step).type \in K!Handshake
             /\ K!Reply(client, step).round = client.round
  BY <1>k, <1>1 DEF K!Reply, Packet
<1>3. ASSUME NEW m \in Packet, m.type \in K!Handshake, m.round = client.round, NEW b
      PROVE  Fitting(client, m, b)
  BY <1>3, <1>k DEF Fitting, K!Handshake
<1>4. ASSUME NEW step \in K!Handshake, K!Say(K!Reply(client, step)), UNCHANGED server
      PROVE  KInv'
  <2> DEFINE m == K!Reply(client, step)
  <2>1. m \in Packet /\ Fitting(client, m, server'.boundTo)
    BY <1>2, <1>3
  <2>2. server' = server
    BY <1>4
  <2> HIDE DEF m
  <2>3. K!Say(m)
    BY <1>4 DEF m
  <2> QED
    BY <1>0, <1>k, <2>1, <2>2, <2>3, SaidKInv
<1>5. CASE K!ServeHandshake("reqpq_sent")
  BY <1>4, <1>5 DEF K!ServeHandshake, K!Handshake
<1>6. CASE K!ServeHandshake("reqdh_sent")
  BY <1>4, <1>6 DEF K!ServeHandshake, K!Handshake
<1>7. CASE K!RefuseKey
  BY <1>4, <1>7 DEF K!RefuseKey, K!Handshake
<1>8. CASE K!ServeKey
  <2> DEFINE r == K!Reply(client, "client_dh_sent")
             m == [r EXCEPT !.key = server.made + 1]
  <2>1. /\ server.made \in Nat /\ server.made < MaxKey /\ server.made + 1 \in K!Keys
        /\ server.made + 1 # 0
    BY <1>k, <1>8, ClientAssumption DEF K!ServeKey, Server, K!Keys
  <2>2. r \in Packet /\ r.type \in K!Handshake /\ r.round = client.round
    BY <1>2 DEF K!Handshake
  <2>3. K!Say(m)
    BY <1>8 DEF K!ServeKey
  <2> HIDE DEF r
  <2>4. m \in Packet /\ m.type \in K!Handshake /\ m.round = client.round
    BY <2>1, <2>2 DEF Packet
  <2>5. server' = [server EXCEPT !.made = @ + 1, !.known = @ \cup {server.made + 1}]
    BY <1>8 DEF K!ServeKey
  <2>6. server' \in Server /\ server'.boundTo = server.boundTo
    BY <1>k, <2>1, <2>5 DEF Server
  <2> HIDE DEF m
  <2> QED
    BY <1>0, <1>k, <1>3, <2>3, <2>4, <2>6, SaidKInv
<1> QED
  BY <1>5, <1>6, <1>7, <1>8

\* The server binds a key, or refuses to: an answer to the bind query of now.
LEMMA BindKInv ==
    ASSUME KInv, K!ServeBind
    PROVE  KInv'
<1>0. K!Running /\ UNCHANGED client /\ client.bind
  BY DEF K!ServeBind
<1>k. /\ client \in Client /\ server \in Server /\ Belongs(client, packets, server.boundTo)
      /\ Upright(client) /\ client.key \in K!Keys /\ client.auth \in K!Keys
      /\ packets \in Seq(Packet)
  BY <1>0, Going DEF Client
<1>1. client.up /\ client.state = "authorized"
  BY <1>0, <1>k DEF K!ServeBind, K!AsksUnder, Upright
<1>2. CASE client.auth \in server.known
  <2> DEFINE b == [server.boundTo EXCEPT ![client.key] = client.auth]
             m == [type |-> "bind", round |-> 0, key |-> client.key]
  <2>1. server' = [server EXCEPT !.boundTo[client.key] = client.auth] /\ K!Say(m)
    BY <1>2 DEF K!ServeBind
  <2>2. server' \in Server /\ server'.boundTo = b
    BY <1>k, <2>1 DEF Server
  <2>3. b[client.key] = client.auth
    BY <1>k DEF Server
  <2>4. m \in Packet /\ m.type = "bind" /\ m.key = client.key
    BY <1>k DEF Packet
  <2> HIDE DEF b, m
  <2>5. Belongs(client, packets, b)
    BY <1>k, <2>3 DEF Belongs
  <2>6. Fitting(client, m, b)
    BY <1>1, <2>3, <2>4 DEF Fitting, K!Handshake
  <2> QED
    BY <1>0, <2>1, <2>2, <2>4, <2>5, <2>6, SaidKInv
<1>3. CASE client.auth \notin server.known
  <2> DEFINE m == [type |-> "refused", round |-> 0, key |-> client.key]
  <2>1. server' = server /\ K!Say(m)
    BY <1>3 DEF K!ServeBind
  <2>2. m \in Packet /\ m.type = "refused"
    BY <1>k DEF Packet
  <2> HIDE DEF m
  <2>3. Fitting(client, m, server'.boundTo)
    BY <1>1, <2>2 DEF Fitting, K!Handshake
  <2> QED
    BY <1>0, <1>k, <2>1, <2>2, <2>3, SaidKInv
<1> QED
  BY <1>2, <1>3

\* The other answers, under the key of now.
LEMMA TalkKInv ==
    ASSUME KInv, K!ServeConfig \/ K!RefuseConfig \/ K!Push \/ K!Forget \/ K!NotFound
    PROVE  KInv'
<1>0. K!Running /\ UNCHANGED client /\ client.up
  BY DEF K!ServeConfig, K!RefuseConfig, K!Push, K!Forget, K!NotFound, K!AsksUnder
<1>k. /\ client \in Client /\ server \in Server /\ Belongs(client, packets, server.boundTo)
      /\ client.key \in K!Keys
  BY <1>0, Going DEF Client
<1>1. server' \in Server /\ server'.boundTo = server.boundTo
  BY <1>k DEF Server, K!ServeConfig, K!RefuseConfig, K!Push, K!Forget, K!NotFound
<1>2. PICK type \in {"config", "unbound", "update", "unknown"} :
         /\ K!Say([type |-> type, round |-> 0, key |-> client.key])
         /\ type = "unbound" => client.pfs
  BY DEF K!ServeConfig, K!RefuseConfig, K!Push, K!Forget, K!NotFound
<1> DEFINE m == [type |-> type, round |-> 0, key |-> client.key]
<1>3. m \in Packet /\ m.type = type
  BY <1>k DEF Packet
<1> HIDE DEF m
<1>4. Fitting(client, m, server'.boundTo)
  BY <1>0, <1>2, <1>3 DEF Fitting, K!Handshake
<1>5. K!Say(m)
  BY <1>2 DEF m
<1> QED
  BY <1>0, <1>k, <1>1, <1>3, <1>4, <1>5, SaidKInv
-----------------------------------------------------------------------------
(* The keys: the client reads                                              *)

\* What reading the first of the packets is to establish; w is what is left.
Read(d, w, b) == Kept(d, IF d.up THEN w ELSE <<>>, b)

\* Nothing happens but that it is read.
LEMMA IgnoredIsRead ==
    ASSUME NEW c \in Client, NEW w \in Seq(Packet), NEW b,
           Upright(c), Belongs(c, w, b), c.up, Goes(c)
    PROVE  Read(c, w, b)
BY DEF Read, Kept, Upright, Excused

\* The connection is closed over it.
LEMMA DroppedIsRead ==
    ASSUME NEW c \in Client, NEW w \in Seq(Packet), NEW b,
           Upright(c), Belongs(c, w, b), Goes(c)
    PROVE  Read(K!Dropped(c), w, b)
<1> DEFINE d == K!Dropped(c)
<1>1. /\ d \in Client /\ ~d.up /\ Upright(d)
      /\ d.pfs = c.pfs /\ d.bound = c.bound /\ d.key = c.key /\ d.auth = c.auth
      /\ d.config = c.config
  BY DroppedIs
<1> HIDE DEF d
<1>2. d.pfs /\ d.bound => b[d.key] = d.auth
  BY <1>1 DEF Belongs
<1>3. Belongs(d, <<>>, b)
  BY <1>1, <1>2, NothingBelongs
<1>4. Read(d, w, b)
  BY <1>1, <1>3 DEF Read, Kept, Excused, Goes
<1> QED
  BY <1>4 DEF d

\* A handshake begins anew.
LEMMA AnewIsRead ==
    ASSUME NEW c \in Client, NEW d \in Client, NEW w \in Seq(Packet), NEW b,
           Upright(c), Belongs(c, w, b), c.up, Upright(d), Anew(c, d),
           Goes(c), d.config = c.config
    PROVE  Read(d, w, b)
<1>1. d.up
  BY Zenon DEF Anew, Upright
<1>2. Belongs(d, w, b)
  BY AnewBelongs DEF Upright
<1>3. Excused(d)
  BY DEF Excused, Goes
<1> QED
  BY <1>1, <1>2, <1>3 DEF Read, Kept, Upright

\* process_respq_answer() and process_dh_answer().
LEMMA StepIsRead ==
    ASSUME NEW c \in Client, NEW w \in Seq(Packet), NEW b, NEW m \in Packet,
           Upright(c), Belongs(c, w, b), c.up, c.state \in {"reqpq_sent", "reqdh_sent"},
           Goes(c)
    PROVE  Read(K!StepOf(m, c), w, b)
<1>1. CASE ~K!Nonce(m, c)
  <2>1. K!StepOf(m, c) = K!Dropped(c)
    BY <1>1, Zenon DEF K!StepOf
  <2> QED
    BY <2>1, DroppedIsRead
<1>2. CASE K!Nonce(m, c)
  <2>1. PICK next \in {"reqdh_sent", "client_dh_sent"} :
            K!StepOf(m, c) = [c EXCEPT !.state = next]
    BY <1>2 DEF K!StepOf
  <2> DEFINE d == [c EXCEPT !.state = next]
  <2>2. next \in K!States /\ next \in K!Handshake /\ next # "authorized"
    BY DEF K!States, K!Handshake
  <2>3. /\ d \in Client /\ d.state = next /\ d.up /\ d.pfs = c.pfs /\ d.round = c.round
        /\ d.temp = c.temp /\ d.session = c.session /\ d.authorized = c.authorized
        /\ d.bind = c.bind /\ d.configured = c.configured /\ d.bound = c.bound
        /\ d.config = c.config
    BY <2>2 DEF Client
  <2> HIDE DEF d
  <2>4. Upright(d) /\ ~(d.pfs /\ d.bound)
    BY <2>2, <2>3 DEF Upright
  <2>5. c.state \in K!Handshake /\ c.round \in Nat
    BY DEF K!Handshake, Client
  <2>6. Carries(c, d, w, b)
    BY <2>2, <2>3, <2>4, <2>5 DEF Carries
  <2>7. Belongs(d, w, b)
    BY <2>3, <2>6, Carried
  <2>k. Excused(d)
    BY <2>3 DEF Excused, Goes
  <2>8. Read(d, w, b)
    BY <2>3, <2>4, <2>7, <2>k DEF Read, Kept, Upright
  <2> QED
    BY <2>1, <2>8 DEF d
<1> QED
  BY <1>1, <1>2

\* process_auth_complete(): the key is there, or the handshake begins anew.
LEMMA CompletedIsRead ==
    ASSUME NEW c \in Client, NEW w \in Seq(Packet), NEW b, NEW m \in Packet,
           Upright(c), Belongs(c, w, b), c.up, c.state = "client_dh_sent", Goes(c),
           K!Nonce(m, c) => NoBind(w)
    PROVE  Read(K!Completed(m, c), w, b)
<1>0. c.session /\ c.round \in Nat /\ c.temp \in BOOLEAN
  BY DEF Upright, Client
<1>1. CASE (~K!Nonce(m, c) \/ m.key = 0) /\ c.temp
  <2>1. K!Completed(m, c) = K!TempRestarted(c)
    BY <1>1, Zenon DEF K!Completed
  <2> DEFINE d == K!TempRestarted(c)
  <2>2. d \in Client /\ Upright(d) /\ Anew(c, d) /\ d.config = c.config
    BY <1>0, <1>1, TempRestartedIsAnew DEF Upright
  <2> HIDE DEF d
  <2>3. Read(d, w, b)
    BY <2>2, AnewIsRead
  <2> QED
    BY <2>1, <2>3 DEF d
<1>2. CASE (~K!Nonce(m, c) \/ m.key = 0) /\ ~c.temp
  <2>1. K!Completed(m, c) = K!Restarted(c)
    BY <1>2, Zenon DEF K!Completed
  <2> DEFINE d == K!Restarted(c)
  <2>2. d \in Client /\ Upright(d) /\ Anew(c, d) /\ d.config = c.config
    BY <1>0, <1>2, RestartedIsAnew DEF Upright
  <2> HIDE DEF d
  <2>3. Read(d, w, b)
    BY <2>2, AnewIsRead
  <2> QED
    BY <2>1, <2>3 DEF d
<1>3. CASE K!Nonce(m, c) /\ m.key # 0 /\ c.temp
  <2> DEFINE e == [c EXCEPT !.state = "authorized", !.key = m.key]
             d == K!Binding(e)
  <2>1. K!Completed(m, c) = d
    BY <1>3, Zenon DEF K!Completed
  <2>2. "authorized" \in K!States /\ m.key \in K!Keys
    BY DEF K!States, Packet
  <2>3. /\ d \in Client /\ d.state = "authorized" /\ d.key = m.key /\ d.bind
        /\ d.up /\ d.session /\ d.pfs = c.pfs /\ d.round = c.round
        /\ d.temp = c.temp /\ d.authorized = c.authorized
        /\ d.configured = c.configured /\ d.bound = c.bound /\ d.config = c.config
    BY <1>0, <2>2 DEF Client, K!Binding
  <2> HIDE DEF d
  <2>4. Upright(d) /\ ~(d.pfs /\ d.bound)
    BY <1>3, <2>3 DEF Upright
  <2>5. NoBind(w)
    BY <1>3
  <2>6. Carries(c, d, w, b)
    BY <1>0, <2>3, <2>4, <2>5 DEF Carries
  <2>7. Belongs(d, w, b)
    BY <2>3, <2>6, Carried
  <2>k. Excused(d)
    BY <2>3 DEF Excused, Goes
  <2>8. Read(d, w, b)
    BY <2>3, <2>4, <2>7, <2>k DEF Read, Kept
  <2> QED
    BY <2>1, <2>8
<1>4. CASE K!Nonce(m, c) /\ m.key # 0 /\ ~c.temp
  <2> DEFINE e == [c EXCEPT !.state = "authorized", !.auth = m.key, !.authorized = TRUE]
             d == K!Continued(e)
  <2>1. K!Completed(m, c) = d
    BY <1>4, Zenon DEF K!Completed
  <2>2. "authorized" \in K!States /\ m.key \in K!Keys
    BY DEF K!States, Packet
  <2>3. /\ e \in Client /\ e.state = "authorized" /\ e.key = c.key /\ e.bind = c.bind
        /\ e.up /\ e.session /\ e.pfs = c.pfs /\ e.round = c.round
        /\ e.temp = c.temp /\ e.authorized
        /\ e.configured = c.configured /\ e.bound = c.bound /\ e.config = c.config
    BY <1>0, <2>2 DEF Client
  <2> HIDE DEF e
  <2>4. Ready(e) /\ ~(e.pfs /\ e.bound)
    BY <1>4, <2>3 DEF Upright, Ready
  <2>k. Goes(e)
    BY <2>3 DEF Goes
  <2>5. d \in Client /\ Forth(e, d) /\ Upright(d) /\ Excused(d)
    BY <2>3, <2>4, <2>k, ContinuedIsForth
  <2> HIDE DEF d
  <2>6. Belongs(d, w, b)
    BY <1>4, <2>3, <2>4, <2>5, ForthBelongs
  <2>7. d.up /\ d.session
    BY <2>3, <2>5, Zenon DEF Forth
  <2>8. Read(d, w, b)
    BY <2>5, <2>6, <2>7 DEF Read, Kept
  <2> QED
    BY <2>1, <2>8
<1> QED
  BY <1>0, <1>1, <1>2, <1>3, <1>4, Zenon

\* process_rpc_message() in the state authorized.
LEMMA MessageIsRead ==
    ASSUME NEW c \in Client, NEW w \in Seq(Packet), NEW b, NEW m \in Packet,
           Upright(c), Belongs(c, w, b), c.up, c.state = "authorized", Goes(c),
           m.type = "bind" => m.key = c.key /\ b[c.key] = c.auth,
           m.type = "unbound" => c.pfs
    PROVE  Read(K!MessageOf(m, c), w, b)
<1>0. c.session /\ c.authorized /\ c.pfs \in BOOLEAN
  BY DEF Upright, Client
<1>1. ASSUME c.pfs
      PROVE  Read(K!TempRestarted(c), w, b)
  <2> DEFINE d == K!TempRestarted(c)
  <2>1. d \in Client /\ Upright(d) /\ Anew(c, d) /\ d.config = c.config
    BY <1>0, <1>1, TempRestartedIsAnew
  <2> HIDE DEF d
  <2>2. Read(d, w, b)
    BY <2>1, AnewIsRead
  <2> QED
    BY <2>2 DEF d
<1>2. Read(c, w, b)
  BY IgnoredIsRead
<1>3. Read(K!Dropped(c), w, b)
  BY DroppedIsRead
<1>4. ASSUME m.type = "bind"
      PROVE  Read(K!Bound(c), w, b)
  <2>1. CASE c.bind
    <3> DEFINE e == [c EXCEPT !.bind = FALSE, !.bound = TRUE]
               d == K!Configuring(e)
    <3>1. K!Bound(c) = d
      BY <2>1, Zenon DEF K!Bound
    <3>2. /\ d \in Client /\ d.state = "authorized" /\ d.key = c.key /\ d.auth = c.auth
          /\ ~d.bind /\ d.up /\ d.session /\ d.pfs = c.pfs /\ d.round = c.round
          /\ d.temp = c.temp /\ d.authorized = c.authorized
          /\ d.configured = c.configured /\ d.config = c.config \cup {c.key}
      BY <1>0 DEF Client, K!Configuring
    <3> HIDE DEF d
    <3>k. Excused(d)
      BY <2>1, <3>2 DEF Excused, Goes, Upright
    <3>3. Upright(d)
      BY <2>1, <3>2 DEF Upright, Goes
    <3>4. b[d.key] = d.auth
      BY <1>4, <3>2
    <3>5. c.round \in Nat
      BY DEF Client
    <3>6. Carries(c, d, w, b)
      BY <3>2, <3>4, <3>5 DEF Carries, K!Handshake
    <3>7. Belongs(d, w, b)
      BY <3>2, <3>6, Carried
    <3>8. Read(d, w, b)
      BY <3>2, <3>3, <3>7, <3>k DEF Read, Kept
    <3> QED
      BY <3>1, <3>8
  <2>2. CASE ~c.bind
    BY <1>2, <2>2 DEF K!Bound
  <2> QED
    BY <2>1, <2>2
<1>5. Read(K!Configured(c, m.key), w, b)
  <2>1. CASE m.key \in c.config
    <3> DEFINE d == [c EXCEPT !.config = @ \ {m.key}, !.configured = TRUE]
    <3>1. K!Configured(c, m.key) = d
      BY <2>1 DEF K!Configured
    <3>2. /\ d \in Client /\ d.state = "authorized" /\ d.key = c.key /\ d.auth = c.auth
          /\ d.bind = c.bind /\ d.up /\ d.session /\ d.pfs = c.pfs /\ d.round = c.round
          /\ d.temp = c.temp /\ d.authorized = c.authorized /\ d.bound = c.bound
          /\ d.config = c.config \ {m.key}
      BY <1>0 DEF Client
    <3> HIDE DEF d
    <3>k. Excused(d)
      BY <3>2 DEF Excused, Goes
    <3>3. Upright(d)
      BY <3>2 DEF Upright, Goes
    <3>4. d.pfs /\ d.bound => b[d.key] = d.auth
      BY <3>2 DEF Belongs
    <3>5. c.round \in Nat
      BY DEF Client
    <3>6. Carries(c, d, w, b)
      BY <3>2, <3>4, <3>5 DEF Carries, K!Handshake
    <3>7. Belongs(d, w, b)
      BY <3>2, <3>6, Carried
    <3>8. Read(d, w, b)
      BY <3>2, <3>3, <3>7, <3>k DEF Read, Kept
    <3> QED
      BY <3>1, <3>8
  <2>2. CASE m.key \notin c.config
    BY <1>2, <2>2 DEF K!Configured
  <2> QED
    BY <2>1, <2>2
<1>6. c.bind => c.pfs
  BY DEF Upright
<1>7. CASE m.type = "unknown" /\ c.pfs
  <2>1. K!MessageOf(m, c) = K!TempRestarted(c)
    BY <1>7 DEF K!MessageOf, K!Handshake
  <2> QED
    BY <1>1, <1>7, <2>1
<1>8. CASE m.type = "unknown" /\ ~c.pfs
  <2>1. K!MessageOf(m, c) = K!Dropped(c)
    BY <1>8 DEF K!MessageOf, K!Handshake
  <2> QED
    BY <1>3, <2>1
<1>9. CASE m.type = "bind" /\ K!OwnKey(m, c)
  <2>1. K!MessageOf(m, c) = K!Bound(c)
    BY <1>9 DEF K!MessageOf, K!Handshake
  <2> QED
    BY <1>4, <1>9, <2>1
<1>10. CASE m.type = "refused" /\ K!OwnKey(m, c)
  <2>1. K!MessageOf(m, c) = IF c.bind THEN K!TempRestarted(c) ELSE c
    BY <1>10 DEF K!MessageOf, K!Handshake
  <2>2. CASE c.bind
    BY <1>1, <1>6, <2>1, <2>2
  <2>3. CASE ~c.bind
    BY <1>2, <2>1, <2>3
  <2> QED
    BY <2>2, <2>3
<1>11. CASE m.type = "config" /\ K!OwnKey(m, c)
  <2>1. K!MessageOf(m, c) = K!Configured(c, m.key)
    BY <1>11 DEF K!MessageOf, K!Handshake
  <2> QED
    BY <1>5, <2>1
<1>12. CASE m.type = "unbound" /\ K!OwnKey(m, c)
  <2>1. K!MessageOf(m, c) = IF m.key \in c.config THEN K!TempRestarted(c) ELSE c
    BY <1>12 DEF K!MessageOf, K!Handshake
  <2>2. CASE m.key \in c.config
    BY <1>1, <1>12, <2>1, <2>2
  <2>3. CASE m.key \notin c.config
    BY <1>2, <2>1, <2>3
  <2> QED
    BY <2>2, <2>3
<1>13. CASE /\ m.type # "unknown"
            /\ m.type \in {"bind", "refused", "config", "unbound"} => ~K!OwnKey(m, c)
  <2>1. K!MessageOf(m, c) = c
    BY <1>13 DEF K!MessageOf, K!Handshake
  <2> QED
    BY <1>2, <2>1
<1> QED
  BY <1>0, <1>7, <1>8, <1>9, <1>10, <1>11, <1>12, <1>13
\* The client reads a packet, whatever its state.
LEMMA ReadKInv == KInv /\ K!Read => KInv'
<1> SUFFICES ASSUME KInv, K!Read PROVE KInv'
  OBVIOUS
<1> DEFINE c == client
           w == Tail(packets)
           b == server.boundTo
           m == Head(packets)
<1>0. /\ K!Running /\ client.up /\ packets # <<>> /\ client' = K!After(m, client)
      /\ packets' = IF client'.up THEN w ELSE <<>>
      /\ UNCHANGED server
  BY DEF K!Read
<1>1. /\ client \in Client /\ packets \in Seq(Packet) /\ server \in Server
      /\ Upright(client) /\ Belongs(client, packets, b) /\ Goes(client)
  BY <1>0, Going
<1>2. /\ m \in Packet /\ w \in Seq(Packet) /\ Belongs(client, w, b)
      /\ client.state \in K!Handshake /\ K!Nonce(m, client) => NoBind(w)
      /\ client.state = "authorized" /\ m.type = "bind"
         => m.key = client.key /\ b[client.key] = client.auth
      /\ m.type = "unbound" => client.pfs
  BY <1>0, <1>1, ReadBelongs
<1> HIDE DEF w, b, m
<1>3. Read(client', w, b)
  <2>1. CASE client.state \in {"reqpq_sent", "reqdh_sent"}
    <3>1. K!After(m, client) = K!StepOf(m, client)
      BY <2>1 DEF K!After
    <3> QED
      BY <1>0, <1>1, <1>2, <2>1, <3>1, StepIsRead
  <2>2. CASE client.state = "client_dh_sent"
    <3>1. K!After(m, client) = K!Completed(m, client)
      BY <2>2 DEF K!After
    <3>2. K!Nonce(m, client) => NoBind(w)
      BY <1>2, <2>2 DEF K!Handshake
    <3> QED
      BY <1>0, <1>1, <1>2, <2>2, <3>1, <3>2, CompletedIsRead
  <2>3. CASE client.state = "authorized"
    <3>1. K!After(m, client) = K!MessageOf(m, client)
      BY <2>3 DEF K!After
    <3> QED
      BY <1>0, <1>1, <1>2, <2>3, <3>1, MessageIsRead
  <2>4. CASE client.state = "init"
    <3>1. K!After(m, client) = K!Dropped(client)
      BY <2>4 DEF K!After
    <3> QED
      BY <1>0, <1>1, <1>2, <3>1, DroppedIsRead
  <2>5. client.state \in {"init", "authorized", "reqpq_sent", "reqdh_sent", "client_dh_sent"}
    BY <1>1 DEF Client, K!States, K!Handshake
  <2> QED
    BY <2>1, <2>2, <2>3, <2>4, <2>5
<1>4. packets' \in Seq(Packet)
  <2>1. <<>> \in Seq(Packet)
    OBVIOUS
  <2> QED
    BY <1>0, <1>2, <2>1
<1>5. server' = server /\ server'.boundTo = b
  BY <1>0 DEF b
<1>6. Kept(client', packets', b)
  BY <1>0, <1>3 DEF Read
<1> QED
  BY <1>1, <1>4, <1>5, <1>6 DEF KInv, Kept

\* The bind query or the config query fails, times out, or the keys are forgotten.
LEMMA TimersKInv ==
    ASSUME KInv,
           \/ K!BindTimeout \/ K!BindDropped \/ K!ConfigFails \/ K!Reset
           \/ \E key \in K!Keys : K!ConfigTimeout(key)
    PROVE  KInv'
<1>0. K!Running /\ UNCHANGED <<packets, server>>
  BY DEF K!BindTimeout, K!BindDropped, K!ConfigFails, K!Reset, K!ConfigTimeout
<1>1. /\ client \in Client /\ packets \in Seq(Packet) /\ server \in Server
      /\ Upright(client) /\ Belongs(client, packets, server.boundTo) /\ Goes(client)
      /\ (client.up => client.session)
  BY <1>0, Going
<1>2. client.round \in Nat /\ client.key \in K!Keys
  BY <1>1 DEF Client
<1> DEFINE d == client'
\* What does not touch the keys.
<1>3. ASSUME d \in Client, d.state = client.state, d.key = client.key, d.auth = client.auth,
             d.up = client.up, d.session = client.session, d.pfs = client.pfs,
             d.round = client.round, d.bound = client.bound, Upright(d), Excused(d)
      PROVE  KInv'
  <2>1. d.up \/ Dialled(packets)
    BY <1>1, <1>3 DEF Belongs, Dialled
  <2>2. d.pfs /\ d.bound => server.boundTo[d.key] = d.auth
    BY <1>1, <1>3 DEF Belongs
  <2>3. Carries(client, d, packets, server.boundTo)
    BY <1>2, <1>3, <2>1, <2>2 DEF Carries, K!Handshake
  <2>4. Belongs(d, packets, server.boundTo)
    BY <1>1, <1>3, <2>3, Carried
  <2>5. d.up => d.session
    BY <1>3 DEF Upright
  <2> QED
    BY <1>0, <1>3, <2>4, <2>5, AloneKInv DEF Kept
<1>4. CASE K!BindTimeout
  <2>1. client.pfs /\ client.authorized /\ d = K!TempRestarted(client)
    BY <1>1, <1>4 DEF K!BindTimeout, Upright
  <2>2. d \in Client /\ Upright(d) /\ Anew(client, d) /\ d.config = client.config
    BY <1>1, <2>1, TempRestartedIsAnew
  <2> QED
    BY <1>0, <2>2, AnewKInv
<1>5. CASE K!BindDropped
  <2>1. d = [client EXCEPT !.bind = FALSE]
    BY <1>5 DEF K!BindDropped
  <2>2. /\ d \in Client /\ d.state = client.state /\ d.key = client.key /\ d.auth = client.auth
        /\ d.up = client.up /\ d.session = client.session /\ d.pfs = client.pfs
        /\ d.round = client.round /\ d.bound = client.bound
        /\ ~d.bind /\ d.temp = client.temp /\ d.authorized = client.authorized
        /\ d.configured = client.configured /\ d.config = client.config
    BY <1>1, <2>1 DEF Client
  <2>3. Upright(d) /\ Excused(d)
    BY <1>1, <2>2 DEF Upright, Excused, Goes
  <2> QED
    BY <1>3, <2>2, <2>3
<1>6. CASE K!ConfigFails
  <2>1. d = [client EXCEPT !.config = @ \ {client.key}, !.configured = FALSE]
    BY <1>6 DEF K!ConfigFails
  <2>2. /\ d \in Client /\ d.state = client.state /\ d.key = client.key /\ d.auth = client.auth
        /\ d.up = client.up /\ d.session = client.session /\ d.pfs = client.pfs
        /\ d.round = client.round /\ d.bound = client.bound
        /\ d.bind = client.bind /\ d.temp = client.temp /\ d.authorized = client.authorized
        /\ ~d.configured /\ d.config = client.config \ {client.key}
    BY <1>1, <2>1 DEF Client
  <2>3. Upright(d) /\ Excused(d)
    BY <1>1, <2>2 DEF Upright, Excused, Goes
  <2> QED
    BY <1>3, <2>2, <2>3
<1>7. ASSUME NEW key \in K!Keys, K!ConfigTimeout(key)
      PROVE  KInv'
  <2> DEFINE sent == IF ~client.up THEN {} ELSE IF K!Keyed(client) THEN {client.key} ELSE {0}
             config == (client.config \ {key}) \cup sent
  <2>1. d = [client EXCEPT !.config = config]
    BY <1>7 DEF K!ConfigTimeout
  <2>2. config \subseteq K!Keys
    BY <1>1, <1>2, ClientAssumption DEF Client, K!Keys
  <2>k. 0 \in config => "slow" \in Faults \/ (client.authorized /\ client.auth = 0)
    <3> SUFFICES ASSUME 0 \in config PROVE "slow" \in Faults \/ K!Orphaned
      BY DEF K!Orphaned
    <3>1. client.up /\ ~K!Keyed(client)
      BY <1>1 DEF Goes, K!Keyed
    <3>2. CASE ~K!Orphaned
      BY <1>7, <3>1, <3>2 DEF K!ConfigTimeout, K!SecondPasses, K!Fault
    <3> QED
      BY <3>2
  <2> HIDE DEF config
  <2>3. /\ d \in Client /\ d.state = client.state /\ d.key = client.key /\ d.auth = client.auth
        /\ d.up = client.up /\ d.session = client.session /\ d.pfs = client.pfs
        /\ d.round = client.round /\ d.bound = client.bound
        /\ d.bind = client.bind /\ d.temp = client.temp /\ d.authorized = client.authorized
        /\ d.configured = client.configured /\ d.config = config
    BY <1>1, <2>1, <2>2 DEF Client
  <2>4. Upright(d) /\ Excused(d)
    BY <1>1, <2>3, <2>k DEF Upright, Excused, Goes
  <2> QED
    BY <1>3, <2>3, <2>4
<1>8. CASE K!Reset
  <2> DEFINE u == K!Unkeyed(client)
  <2>1. Cleared(client, u)
    BY <1>1, UnkeyedIs
  <2>2. d = [u EXCEPT !.auth = 0, !.state = "init"]
    BY <1>8 DEF K!Reset
  <2> HIDE DEF u
  <2>3. 0 \in K!Keys /\ "init" \in K!States
    BY ClientAssumption DEF K!Keys, K!States
  <2>4. /\ d \in Client /\ d.state = "init" /\ ~d.bind /\ ~d.bound /\ ~d.configured
        /\ d.temp = client.temp /\ d.authorized = client.authorized /\ d.pfs = client.pfs
        /\ d.up = client.up /\ d.session = client.session /\ d.round = client.round
        /\ d.config = client.config
    BY <2>1, <2>2, <2>3 DEF Client, Cleared
  <2>5. Upright(d) /\ Excused(d)
    BY <1>1, <2>4 DEF Upright, Excused, Goes
  <2>6. d.up \/ Dialled(packets)
    BY <1>1, <2>4 DEF Belongs, Dialled
  <2>7. Carries(client, d, packets, server.boundTo)
    BY <1>2, <2>4, <2>6 DEF Carries, K!Handshake
  <2>8. Belongs(d, packets, server.boundTo)
    BY <1>1, <2>4, <2>7, Carried
  <2>9. d.up => d.session
    BY <2>5 DEF Upright
  <2> QED
    BY <1>0, <2>4, <2>5, <2>8, <2>9, AloneKInv DEF Kept
<1> QED
  BY <1>4, <1>5, <1>6, <1>7, <1>8

\* Every step of a client that makes its keys preserves the invariant.
LEMMA StepKInv == KInv /\ [K!Next]_keys => KInv'
<1> SUFFICES ASSUME KInv, [K!Next]_keys PROVE KInv'
  OBVIOUS
<1>1. CASE UNCHANGED keys
  BY <1>1 DEF keys, KInv, Belongs
<1>2. CASE K!Progress
  BY <1>2, OpenKInv, UpKInv, ReadKInv, HandshakeKInv, BindKInv, TalkKInv, TimersKInv
     DEF K!Progress
<1>3. CASE K!Trouble
  BY <1>3, LostKInv, HandshakeKInv, TalkKInv, TimersKInv DEF K!Trouble
<1> QED
  BY <1>1, <1>2, <1>3 DEF K!Next

\* What is checked of it follows.
LEMMA KInvKeysHold == KInv => KeysHold
<1> SUFFICES ASSUME KInv PROVE KeysHold
  OBVIOUS
<1>1. K!TypeOK
  BY DEF KInv, K!TypeOK, Client
<1>2. K!KeyAgreed
  BY DEF KInv, K!KeyAgreed, Upright, Belongs
<1>3. K!UsableKey
  BY DEF KInv, K!UsableKey, K!Keyed, Upright
<1>4. K!KeylessOnly
  BY DEF KInv, K!KeylessOnly, K!EachMessageKeyed, K!Orphaned, Excused, Goes
<1> QED
  BY <1>1, <1>2, <1>3, <1>4 DEF KeysHold, K!KeysHold
-----------------------------------------------------------------------------
(* The session: the inductive invariant                                    *)

\* What each worker has to do, for as many as there are.
Loads == UNION {[ws -> SUBSET S!Ids] : ws \in SUBSET (0..MaxSecondary)}

\* The types of a session, of its queries and of the other end.
SessionType ==
    [id : 0..MaxMishaps, ready : BOOLEAN, up : BOOLEAN, load : Loads,
     idle : SUBSET (1..MaxSecondary), lost : SUBSET (1..MaxSecondary),
     acks : SUBSET (S!Ids \cup S!Told), ev : BOOLEAN, early : BOOLEAN, last : 0..MaxId]

\* A part that is sent as a query.
QueryType == [id : 0..MaxId, session : 0..MaxMishaps, done : BOOLEAN]

\* What the other end has heard and not acknowledged.
PeerType ==
    [asked : SUBSET [id : S!Ids, on : 0..MaxSecondary],
     unacked : SUBSET (S!Ids \cup S!Told), told : 0..MaxTold]

\* The types of the state.
SessionTyped ==
    /\ s \in SessionType /\ q \in [S!Part -> QueryType] /\ peer \in PeerType
    /\ air \subseteq [id : S!Ids \cup S!Told, on : 0..MaxSecondary]
    /\ mishaps \in 0..MaxMishaps

\* The primary worker stays, and only others are closed or lost.
Staffed(t) == S!Primary \in DOMAIN t.load /\ t.idle \cup t.lost \subseteq DOMAIN t.load

\* The ids in the loads are of messages that were sent, each in one load.
Numbered(t) ==
    /\ \A w \in DOMAIN t.load : \A id \in t.load[w] : id <= t.last
    /\ \A v, w \in DOMAIN t.load : v # w => t.load[v] \cap t.load[w] = {}

\* A secondary worker is busy or about to be closed.
Armed(t) == \A w \in DOMAIN t.load \ {S!Primary} : t.load[w] # {} \/ w \in t.idle

\* A query that waits is in a load; no query is of a session to come.
Waits(r, t) == r.id # 0 /\ r.session = t.id /\ ~r.done
\* Such a query is in the load of a worker.
Held(r, t) == Waits(r, t) => \E w \in DOMAIN t.load : r.id \in t.load[w]

\* The invariant the steps preserve: sessions are replaced by mishaps only.
SInv ==
    /\ SessionTyped
    /\ Staffed(s) /\ Numbered(s) /\ Armed(s) /\ s.id <= mishaps
    /\ \A p \in S!Part : Held(q[p], s) /\ q[p].session <= s.id

-----------------------------------------------------------------------------
(* The session: the operators on its workers                               *)

\* The bounds of the session are numbers.
LEMMA Bounds == /\ MaxSecondary \in Nat /\ MaxId \in Nat /\ MaxTold \in Nat
                /\ MaxMishaps \in Nat /\ Parts \in Nat
BY ClientAssumption

\* The loads are a function on some of the workers, whichever these are.
LEMMA LoadsAre ==
    ASSUME NEW f \in Loads
    PROVE  DOMAIN f \subseteq 0..MaxSecondary /\ f \in [DOMAIN f -> SUBSET S!Ids]
BY DEF Loads

\* And the other way round.
LEMMA AreLoads ==
    ASSUME NEW ws \in SUBSET (0..MaxSecondary), NEW f \in [ws -> SUBSET S!Ids]
    PROVE  f \in Loads
BY DEF Loads

\* The session of a client that has the workers it may have.
Sound(t) == t \in SessionType /\ Staffed(t) /\ Numbered(t) /\ Armed(t)

\* A change that leaves every worker what it has to do, and the session the same.
Keeps(t, d) ==
    /\ d.id = t.id
    /\ \A v \in DOMAIN t.load : v \in DOMAIN d.load /\ t.load[v] \subseteq d.load[v]

\* So what waited still waits in a load.
LEMMA KeepsHeld ==
    ASSUME NEW t, NEW d, NEW r, Keeps(t, d), Held(r, t)
    PROVE  Held(r, d)
BY DEF Keeps, Held, Waits

\* Nothing but flags, losses and acknowledgements changes.
Settled(t, d) ==
    /\ d \in SessionType /\ d.id = t.id /\ d.load = t.load /\ d.idle = t.idle /\ d.last = t.last
    /\ d.lost \subseteq DOMAIN t.load

\* Then the session is as sound as it was.
LEMMA SettledIsSound ==
    ASSUME NEW t, NEW d, Sound(t), Settled(t, d)
    PROVE  Sound(d) /\ Keeps(t, d)
BY DEF Sound, Settled, Keeps, Staffed, Numbered, Armed

\* A new session has its primary worker, which has nothing to do.
LEMMA FreshIsSound ==
    ASSUME NEW id \in 0..MaxMishaps, NEW ready \in BOOLEAN
    PROVE  Sound(S!Fresh(id, ready)) /\ S!Fresh(id, ready).id = id
<1> DEFINE f == [w \in {S!Primary} |-> {}]
           t == S!Fresh(id, ready)
<1>1. f \in [{S!Primary} -> SUBSET S!Ids] /\ {S!Primary} \subseteq 0..MaxSecondary
  BY Bounds DEF S!Primary
<1>2. f \in Loads
  BY <1>1, AreLoads, Zenon
<1> HIDE DEF f
<1>3. t = [id |-> id, ready |-> ready, up |-> FALSE, load |-> f, idle |-> {}, lost |-> {},
           acks |-> {}, ev |-> FALSE, early |-> FALSE, last |-> 0]
  BY DEF S!Fresh, f
<1>4. 0 \in 0..MaxId
  BY Bounds
<1>5. t \in SessionType
  BY <1>2, <1>3, <1>4 DEF SessionType
<1>6. t.load = f /\ t.idle = {} /\ t.lost = {} /\ t.id = id
  BY <1>3
<1>7. DOMAIN f = {S!Primary} /\ f[S!Primary] = {}
  BY DEF f
<1> HIDE DEF t
<1>8. Staffed(t) /\ Numbered(t) /\ Armed(t)
  BY <1>6, <1>7 DEF Staffed, Numbered, Armed
<1> QED
  BY <1>5, <1>6, <1>8 DEF Sound, t

\* A message that is sent goes to the load of one worker, new or not, whose idle
\* timer is off.
LEMMA LoadedIsSound ==
    ASSUME NEW t, Sound(t), NEW w \in 0..MaxSecondary, t.last < MaxId
    PROVE  LET d == S!Loaded(t, w, t.last + 1) IN
           /\ Sound(d) /\ Keeps(t, d)
           /\ w \in DOMAIN d.load /\ t.last + 1 \in d.load[w]
<1> DEFINE new == t.last + 1
           f == [v \in DOMAIN t.load \cup {w} |->
                    (IF v \in DOMAIN t.load THEN t.load[v] ELSE {})
                    \cup IF v = w THEN {new} ELSE {}]
           d == S!Loaded(t, w, new)
<1>1. /\ t.load \in Loads /\ t.last \in 0..MaxId
      /\ t.idle \in SUBSET (1..MaxSecondary) /\ t.lost \in SUBSET (1..MaxSecondary)
  BY DEF Sound, SessionType
<1>2. /\ DOMAIN t.load \subseteq 0..MaxSecondary
      /\ \A v \in DOMAIN t.load : t.load[v] \subseteq S!Ids
  BY <1>1, LoadsAre
<1>3. new \in S!Ids /\ new \in 0..MaxId /\ new > t.last /\ t.last \in Nat
  BY <1>1, Bounds DEF S!Ids
<1> HIDE DEF new
<1>4. f \in [DOMAIN t.load \cup {w} -> SUBSET S!Ids]
  BY <1>2, <1>3
<1>5. DOMAIN t.load \cup {w} \in SUBSET (0..MaxSecondary)
  BY <1>2
<1>6. f \in Loads
  BY <1>4, <1>5, AreLoads, Zenon
<1>7. /\ DOMAIN f = DOMAIN t.load \cup {w}
      /\ f[w] = (IF w \in DOMAIN t.load THEN t.load[w] ELSE {}) \cup {new}
      /\ \A v \in DOMAIN t.load : v # w => f[v] = t.load[v]
  OBVIOUS
<1>8. d = [t EXCEPT !.load = f, !.idle = @ \ {w}, !.last = new]
  BY DEF S!Loaded
<1> HIDE DEF f, d
<1>9. /\ d \in SessionType /\ d.load = f /\ d.idle = t.idle \ {w} /\ d.last = new
      /\ d.lost = t.lost /\ d.id = t.id
  BY <1>1, <1>3, <1>6, <1>8 DEF Sound, SessionType
<1>10. Staffed(d)
  BY <1>7, <1>9 DEF Sound, Staffed
<1>11. \A v \in DOMAIN t.load : \A id \in t.load[v] : id <= t.last /\ id \in Nat
  BY <1>2 DEF Sound, Numbered, S!Ids
<1>12. new \in Nat /\ \A v \in DOMAIN t.load : new \notin t.load[v]
  BY <1>3, <1>11 DEF S!Ids
<1>13. \A v \in DOMAIN f : \A id \in f[v] : id <= new
  BY <1>3, <1>7, <1>11, <1>12
<1>14. ASSUME NEW u \in DOMAIN f, NEW v \in DOMAIN f, u # v
       PROVE  f[u] \cap f[v] = {}
  <2>1. \A x, y \in DOMAIN t.load : x # y => t.load[x] \cap t.load[y] = {}
    BY DEF Sound, Numbered
  <2>2. CASE u # w /\ v # w
    BY <1>7, <1>14, <2>1, <2>2
  <2>3. CASE u = w
    <3>1. v \in DOMAIN t.load /\ f[v] = t.load[v]
      BY <1>7, <1>14, <2>3
    <3>2. w \in DOMAIN t.load => t.load[w] \cap t.load[v] = {}
      BY <1>14, <2>1, <2>3, <3>1
    <3> QED
      BY <1>7, <1>12, <2>3, <3>1, <3>2
  <2>4. CASE v = w
    <3>1. u \in DOMAIN t.load /\ f[u] = t.load[u]
      BY <1>7, <1>14, <2>4
    <3>2. w \in DOMAIN t.load => t.load[w] \cap t.load[u] = {}
      BY <1>14, <2>1, <2>4, <3>1
    <3> QED
      BY <1>7, <1>12, <2>4, <3>1, <3>2
  <2> QED
    BY <2>2, <2>3, <2>4
<1>15. Numbered(d)
  BY <1>9, <1>13, <1>14 DEF Numbered
<1>16. Armed(d)
  BY <1>7, <1>9 DEF Sound, Armed
<1>17. Keeps(t, d)
  BY <1>7, <1>9 DEF Keeps
<1>18. w \in DOMAIN d.load /\ new \in d.load[w]
  BY <1>7, <1>9
<1> QED
  BY <1>9, <1>10, <1>15, <1>16, <1>17, <1>18 DEF Sound, d, new

\* The message of a query is answered, or one that is no query's is noted: each
\* load is as it was without it, and a worker with nothing left is about to close.
LEMMA JobDoneIsSound ==
    ASSUME NEW t, Sound(t), DOMAIN t.load = DOMAIN s.load, NEW id
    PROVE  LET d == S!JobDone(t, id) IN
           /\ Sound(d) /\ d.id = t.id /\ DOMAIN d.load = DOMAIN t.load
           /\ \A w \in DOMAIN t.load : d.load[w] = t.load[w] \ {id}
<1> DEFINE f == [w \in DOMAIN t.load |-> t.load[w] \ {id}]
           more == {w \in DOMAIN t.load \ {S!Primary} : t.load[w] = {id}}
           d == S!JobDone(t, id)
<1>1. /\ t.load \in Loads /\ t.idle \in SUBSET (1..MaxSecondary)
      /\ t.idle \cup t.lost \subseteq DOMAIN t.load
  BY DEF Sound, SessionType, Staffed
<1>2. /\ DOMAIN t.load \subseteq 0..MaxSecondary
      /\ \A v \in DOMAIN t.load : t.load[v] \subseteq S!Ids
  BY <1>1, LoadsAre
<1>3. f \in [DOMAIN t.load -> SUBSET S!Ids]
  BY <1>2
<1>4. f \in Loads
  BY <1>2, <1>3, AreLoads, Zenon
<1>5. DOMAIN f = DOMAIN t.load /\ \A w \in DOMAIN t.load : f[w] = t.load[w] \ {id}
  OBVIOUS
<1>6. d = [t EXCEPT !.load = f, !.idle = @ \cup more]
  BY DEF S!JobDone, S!Secondaries
<1>7. more \subseteq 1..MaxSecondary
  BY <1>2, Bounds DEF S!Primary
<1>8. /\ \A w \in more : w \in DOMAIN t.load
      /\ \A w \in DOMAIN t.load \ {S!Primary} : t.load[w] = {id} => w \in more
  OBVIOUS
<1> HIDE DEF f, d, more
<1>9. /\ d \in SessionType /\ d.load = f /\ d.idle = t.idle \cup more /\ d.last = t.last
      /\ d.lost = t.lost /\ d.id = t.id
  BY <1>1, <1>4, <1>6, <1>7 DEF Sound, SessionType
<1>10. Staffed(d)
  BY <1>1, <1>5, <1>8, <1>9 DEF Sound, Staffed
<1>11. Numbered(d)
  BY <1>5, <1>9 DEF Sound, Numbered
<1>12. ASSUME NEW w \in DOMAIN f \ {S!Primary}
       PROVE  f[w] # {} \/ w \in d.idle
  <2>1. CASE t.load[w] = {}
    BY <1>5, <1>9, <1>12, <2>1 DEF Sound, Armed
  <2>2. CASE t.load[w] = {id}
    BY <1>5, <1>8, <1>9, <1>12, <2>2
  <2>3. CASE t.load[w] # {} /\ t.load[w] # {id}
    BY <1>5, <1>12, <2>3
  <2> QED
    BY <2>1, <2>2, <2>3
<1>13. Armed(d)
  BY <1>9, <1>12 DEF Armed
<1> QED
  BY <1>5, <1>9, <1>10, <1>11, <1>13 DEF Sound, d

\* The session without a worker.
Without(t, w) ==
    [t EXCEPT !.load = [v \in DOMAIN @ \ {w} |-> @[v]], !.idle = @ \ {w}, !.lost = @ \ {w}]

\* A worker that has nothing to do is closed.
LEMMA ClosedIsSound ==
    ASSUME NEW t, Sound(t), NEW w \in t.idle, t.load[w] = {}
    PROVE  LET d == Without(t, w) IN
           /\ Sound(d) /\ d.id = t.id
           /\ \A v \in DOMAIN t.load : t.load[v] # {} =>
                 v \in DOMAIN d.load /\ d.load[v] = t.load[v]
<1> DEFINE f == [v \in DOMAIN t.load \ {w} |-> t.load[v]]
           d == Without(t, w)
<1>1. /\ t.load \in Loads /\ t.idle \in SUBSET (1..MaxSecondary)
      /\ t.lost \in SUBSET (1..MaxSecondary) /\ t.idle \cup t.lost \subseteq DOMAIN t.load
      /\ S!Primary \in DOMAIN t.load
  BY DEF Sound, SessionType, Staffed
<1>2. /\ DOMAIN t.load \subseteq 0..MaxSecondary
      /\ \A v \in DOMAIN t.load : t.load[v] \subseteq S!Ids
  BY <1>1, LoadsAre
<1>3. /\ f \in [DOMAIN t.load \ {w} -> SUBSET S!Ids]
      /\ DOMAIN t.load \ {w} \in SUBSET (0..MaxSecondary)
  BY <1>2
<1>4. f \in Loads
  BY <1>3, AreLoads, Zenon
<1>5. DOMAIN f = DOMAIN t.load \ {w} /\ \A v \in DOMAIN f : f[v] = t.load[v]
  OBVIOUS
<1>e. d = [t EXCEPT !.load = f, !.idle = @ \ {w}, !.lost = @ \ {w}]
  BY DEF Without
<1> HIDE DEF f, d
<1>6. /\ d \in SessionType /\ d.load = f /\ d.idle = t.idle \ {w} /\ d.last = t.last
      /\ d.lost = t.lost \ {w} /\ d.id = t.id
  BY <1>1, <1>4, <1>e DEF Sound, SessionType
<1>7. w # S!Primary
  BY <1>1, Bounds DEF S!Primary
<1>8. Staffed(d)
  BY <1>1, <1>5, <1>6, <1>7 DEF Staffed
<1>9. Numbered(d)
  BY <1>5, <1>6 DEF Sound, Numbered
<1>10. Armed(d)
  BY <1>5, <1>6 DEF Sound, Armed
<1>11. \A v \in DOMAIN t.load : t.load[v] # {} => v \in DOMAIN d.load /\ d.load[v] = t.load[v]
  BY <1>5, <1>6
<1> QED
  BY <1>6, <1>8, <1>9, <1>10, <1>11 DEF Sound, d, f
-----------------------------------------------------------------------------
(* The session: the steps                                                  *)

\* The parts of the invariant.
LEMMA SInvIs ==
    ASSUME SInv
    PROVE  /\ Sound(s) /\ s \in SessionType /\ q \in [S!Part -> QueryType] /\ peer \in PeerType
           /\ air \subseteq [id : S!Ids \cup S!Told, on : 0..MaxSecondary]
           /\ mishaps \in 0..MaxMishaps /\ s.id \in 0..MaxMishaps /\ s.id <= mishaps
           /\ \A p \in S!Part : Held(q[p], s) /\ q[p].session <= s.id
BY DEF SInv, SessionTyped, Sound, SessionType

\* And its parts in the next state, in the session that was.
LEMMA SInvStep ==
    ASSUME SInv, Sound(s'), s'.id = s.id, peer' \in PeerType,
           air' \subseteq [id : S!Ids \cup S!Told, on : 0..MaxSecondary],
           mishaps' \in 0..MaxMishaps, mishaps' >= mishaps,
           q' \in [S!Part -> QueryType],
           \A p \in S!Part : Held(q'[p], s') /\ q'[p].session <= s'.id
    PROVE  SInv'
<1>1. s'.id <= mishaps'
  BY SInvIs
<1> QED
  BY <1>1 DEF SInv, SessionTyped, Sound

\* A mishap is counted.
LEMMA MishapCounts ==
    ASSUME SInv, NEW kind, S!Mishap(kind)
    PROVE  mishaps' \in 0..MaxMishaps /\ mishaps' = mishaps + 1 /\ mishaps' >= mishaps
BY SInvIs, Bounds DEF S!Mishap

\* The session counts as the library does.
LEMMA SameCardinality == \A T : S!Cardinality(T) = Cardinality(T)
BY Zenon DEF S!Cardinality, Cardinality

\* The least busy worker is one of those there are, and the one that is chosen
\* instead may be made.
LEMMA ChosenIsAWorker ==
    ASSUME SInv, NEW w \in S!LeastBusy
    PROVE  S!Chosen(w) \in 0..MaxSecondary
<1>1. /\ s.load \in Loads /\ DOMAIN s.load \subseteq 0..MaxSecondary
      /\ S!Primary \in DOMAIN s.load
  BY SInvIs, LoadsAre DEF SessionType, Sound, Staffed
<1>2. w \in 0..MaxSecondary
  BY <1>1 DEF S!LeastBusy, S!Secondaries
<1>3. CASE S!Load(w) # 0 /\ Cardinality(S!Secondaries) < MaxSecondary
  <2>1. S!Secondaries \subseteq 1..MaxSecondary
    BY <1>1, Bounds DEF S!Secondaries, S!Primary
  <2>2. Cardinality(1..MaxSecondary) = MaxSecondary
    <3>1. Cardinality(1..MaxSecondary) = IF 1 > MaxSecondary THEN 0 ELSE MaxSecondary - 1 + 1
      BY Bounds, FS_Interval
    <3> QED
      BY <3>1, Bounds
  <2>3. S!Secondaries # 1..MaxSecondary
    BY <1>3, <2>2, Bounds
  <2>4. \E v \in 1..MaxSecondary : v \notin S!Secondaries
    BY <2>1, <2>3
  <2>5. (CHOOSE v \in 1..MaxSecondary : v \notin S!Secondaries) \in 1..MaxSecondary
    BY <2>4
  <2>6. S!Chosen(w) = CHOOSE v \in 1..MaxSecondary : v \notin S!Secondaries
    BY <1>3, SameCardinality, Zenon DEF S!Chosen
  <2> QED
    BY <2>5, <2>6
<1>4. CASE ~(S!Load(w) # 0 /\ Cardinality(S!Secondaries) < MaxSecondary)
  <2>1. S!Chosen(w) = w
    BY <1>4, SameCardinality, Zenon DEF S!Chosen
  <2> QED
    BY <1>2, <2>1
<1> QED
  BY <1>3, <1>4

\* A query is sent, for the first time or again.
LEMMA SendPartSInv ==
    ASSUME SInv, NEW p \in S!Part, S!SendPart(p), s.last < MaxId, UNCHANGED air,
           mishaps' \in 0..MaxMishaps, mishaps' >= mishaps
    PROVE  SInv'
<1>1. PICK w0 \in S!LeastBusy :
         /\ s' = S!Loaded(s, S!Chosen(w0), s.last + 1)
         /\ q' = [q EXCEPT ![p] = [@ EXCEPT !.id = s.last + 1, !.session = s.id]]
         /\ peer' = [peer EXCEPT !.asked = @ \cup {[id |-> s.last + 1, on |-> S!Chosen(w0)]}]
  BY DEF S!SendPart
<1> DEFINE w == S!Chosen(w0)
<1>2. w \in 0..MaxSecondary
  BY ChosenIsAWorker
<1> HIDE DEF w
<1>k. /\ Sound(s) /\ s \in SessionType /\ q \in [S!Part -> QueryType] /\ peer \in PeerType
      /\ s.id \in 0..MaxMishaps
      /\ \A r \in S!Part : Held(q[r], s) /\ q[r].session <= s.id
  BY SInvIs
<1>3. /\ Sound(s') /\ Keeps(s, s') /\ w \in DOMAIN s'.load /\ s.last + 1 \in s'.load[w]
  <2>1. s' = S!Loaded(s, w, s.last + 1)
    BY <1>1 DEF w
  <2> QED
    BY <1>2, <1>k, <2>1, LoadedIsSound
<1>4. s.last + 1 \in S!Ids /\ s.last + 1 \in 0..MaxId
  BY <1>k, Bounds DEF SessionType, S!Ids
<1>5. peer' \in PeerType
  <2>1. peer' = [peer EXCEPT !.asked = @ \cup {[id |-> s.last + 1, on |-> w]}]
    BY <1>1 DEF w
  <2>2. [id |-> s.last + 1, on |-> w] \in [id : S!Ids, on : 0..MaxSecondary]
    BY <1>2, <1>4
  <2> QED
    BY <1>k, <2>1, <2>2 DEF PeerType
<1> DEFINE r == [q[p] EXCEPT !.id = s.last + 1, !.session = s.id]
<1>6. /\ r \in QueryType /\ r.id = s.last + 1 /\ r.session = s.id
  <2>1. q[p] \in QueryType
    BY <1>k
  <2> QED
    BY <1>4, <1>k, <2>1 DEF QueryType
<1>7. q' = [q EXCEPT ![p] = r]
  BY <1>1
<1> HIDE DEF r
<1>8. /\ q' \in [S!Part -> QueryType] /\ q'[p] = r
      /\ \A o \in S!Part : o # p => q'[o] = q[o]
  BY <1>6, <1>7, <1>k
<1>9. s'.id = s.id
  BY <1>3 DEF Keeps
<1>10. ASSUME NEW o \in S!Part
       PROVE  Held(q'[o], s') /\ q'[o].session <= s'.id
  <2>1. CASE o = p
    <3>1. Held(r, s')
      BY <1>3, <1>6 DEF Held
    <3> QED
      BY <1>6, <1>8, <1>9, <1>k, <2>1, <3>1, Bounds
  <2>2. CASE o # p
    <3>1. Held(q[o], s')
      BY <1>3, <1>k, KeepsHeld
    <3> QED
      BY <1>8, <1>9, <1>k, <2>2, <3>1
  <2> QED
    BY <2>1, <2>2
<1>11. air' \subseteq [id : S!Ids \cup S!Told, on : 0..MaxSecondary]
  BY SInvIs
<1> QED
  BY <1>3, <1>5, <1>8, <1>9, <1>10, <1>11, SInvStep

\* The session is replaced after a mishap: nothing waits in it.
LEMMA ReplacedSInv ==
    ASSUME SInv, S!Replaced, mishaps' \in 0..MaxMishaps, mishaps' = mishaps + 1,
           q' \in [S!Part -> QueryType], \A p \in S!Part : q'[p].session = q[p].session
    PROVE  SInv'
<1>k. /\ s \in SessionType /\ peer \in PeerType /\ q \in [S!Part -> QueryType]
      /\ s.id \in Nat /\ mishaps \in Nat /\ s.id <= mishaps
      /\ \A p \in S!Part : q[p].session <= s.id
  BY SInvIs
<1>1. s.id + 1 \in 0..MaxMishaps /\ s.ready \in BOOLEAN
  BY <1>k, Bounds DEF SessionType
<1>2. s' = S!Fresh(s.id + 1, s.ready)
  BY DEF S!Replaced
<1>3. Sound(s') /\ s'.id = s.id + 1
  BY <1>1, <1>2, FreshIsSound
<1>4. peer' \in PeerType
  BY <1>k DEF S!Replaced, PeerType
<1>5. air' = {}
  BY DEF S!Replaced
<1>6. ASSUME NEW p \in S!Part
      PROVE  Held(q'[p], s') /\ q'[p].session <= s'.id
  <2>1. q'[p].session = q[p].session /\ q[p].session <= s.id /\ q[p].session \in Nat
    <3>1. q[p] \in QueryType
      BY <1>k
    <3> QED
      BY <1>k, <3>1 DEF QueryType
  <2>2. q'[p].session # s'.id
    BY <1>3, <1>k, <2>1
  <2> QED
    BY <1>3, <1>k, <2>1, <2>2 DEF Held, Waits
<1>7. s'.id <= mishaps'
  BY <1>3, <1>k
<1> QED
  BY <1>3, <1>4, <1>5, <1>6, <1>7 DEF SInv, SessionTyped, Sound

\* Steps that touch no query and no load.
LEMMA SettledSInv ==
    ASSUME SInv, Settled(s, s'), UNCHANGED q, peer' \in PeerType,
           air' \subseteq [id : S!Ids \cup S!Told, on : 0..MaxSecondary],
           mishaps' \in 0..MaxMishaps, mishaps' >= mishaps
    PROVE  SInv'
<1>1. Sound(s') /\ Keeps(s, s')
  BY SInvIs, SettledIsSound
<1>2. s'.id = s.id /\ q' = q
  BY <1>1 DEF Keeps
<1>3. \A p \in S!Part : Held(q'[p], s') /\ q'[p].session <= s'.id
  BY <1>1, <1>2, SInvIs, KeepsHeld
<1> QED
  BY <1>1, <1>2, <1>3, SInvIs, SInvStep
\* A query is sent for the first time, or times out.
LEMMA QueriesSInv ==
    ASSUME SInv, NEW p \in S!Part, S!Execute(p) \/ S!TimedOut(p)
    PROVE  SInv'
<1>k. /\ s \in SessionType /\ q \in [S!Part -> QueryType] /\ mishaps \in 0..MaxMishaps
      /\ Sound(s) /\ peer \in PeerType
      /\ air \subseteq [id : S!Ids \cup S!Told, on : 0..MaxSecondary]
      /\ \A o \in S!Part : Held(q[o], s) /\ q[o].session <= s.id
  BY SInvIs
<1>1. air' = air /\ mishaps' \in 0..MaxMishaps /\ mishaps' >= mishaps
  <2>1. CASE S!Execute(p)
    BY <1>k, <2>1 DEF S!Execute
  <2>2. CASE S!TimedOut(p)
    <3>1. CASE UNCHANGED mishaps
      BY <1>k, <2>2, <3>1 DEF S!TimedOut
    <3>2. CASE S!Mishap("timeout")
      BY <2>2, <3>2, MishapCounts DEF S!TimedOut
    <3> QED
      BY <2>2, <3>1, <3>2 DEF S!TimedOut
  <2> QED
    BY <2>1, <2>2
<1>2. CASE S!CanSend /\ S!SendPart(p)
  BY <1>1, <1>2, SendPartSInv DEF S!CanSend
<1>3. CASE q' = [q EXCEPT ![p].id = 0] /\ UNCHANGED <<s, peer>>
  <2> DEFINE r == [q[p] EXCEPT !.id = 0]
  <2>1. r \in QueryType /\ r.id = 0 /\ r.session = q[p].session
    <3>1. q[p] \in QueryType
      BY <1>k
    <3> QED
      BY <3>1, Bounds DEF QueryType
  <2>2. q' = [q EXCEPT ![p] = r]
    BY <1>3
  <2> HIDE DEF r
  <2>3. /\ q' \in [S!Part -> QueryType] /\ q'[p] = r
        /\ \A o \in S!Part : o # p => q'[o] = q[o]
    BY <1>k, <2>1, <2>2
  <2>4. s' = s /\ peer' = peer
    BY <1>3
  <2>5. ASSUME NEW o \in S!Part
        PROVE  Held(q'[o], s') /\ q'[o].session <= s'.id
    BY <1>k, <2>1, <2>3, <2>4 DEF Held, Waits
  <2> QED
    BY <1>1, <1>k, <2>3, <2>4, <2>5, SInvStep
<1> QED
  BY <1>2, <1>3 DEF S!Execute, S!TimedOut

\* What is on a connection may be lost with it.
LEMMA ConnectionGone ==
    ASSUME SInv, NEW w, peer' = [peer EXCEPT !.asked = {r \in @ : r.on # w}],
           air' = {m \in air : m.on # w}
    PROVE  /\ peer' \in PeerType
           /\ air' \subseteq [id : S!Ids \cup S!Told, on : 0..MaxSecondary]
BY SInvIs DEF PeerType

\* The idle timer of a worker fires: it has nothing to do, or stays.
LEMMA IdleSInv ==
    ASSUME SInv, NEW w, S!IdleTimer(w)
    PROVE  SInv'
<1>k. /\ Sound(s) /\ q \in [S!Part -> QueryType] /\ mishaps \in 0..MaxMishaps
      /\ \A o \in S!Part : Held(q[o], s) /\ q[o].session <= s.id
  BY SInvIs
<1>1. /\ w \in s.idle /\ q' = q /\ mishaps' = mishaps /\ peer' \in PeerType
      /\ air' \subseteq [id : S!Ids \cup S!Told, on : 0..MaxSecondary]
  BY ConnectionGone DEF S!IdleTimer
<1>2. mishaps' >= mishaps
  BY <1>1, <1>k
<1>3. CASE s.load[w] # {}
  <2>1. s' = s
    BY <1>3 DEF S!IdleTimer
  <2> QED
    BY <1>1, <1>2, <1>k, <2>1, SInvStep
<1>4. CASE s.load[w] = {}
  <2>1. s' = Without(s, w)
    BY <1>4 DEF S!IdleTimer, Without
  <2>2. /\ Sound(s') /\ s'.id = s.id
        /\ \A v \in DOMAIN s.load : s.load[v] # {} =>
              v \in DOMAIN s'.load /\ s'.load[v] = s.load[v]
    BY <1>1, <1>4, <1>k, <2>1, ClosedIsSound
  <2>3. ASSUME NEW o \in S!Part
        PROVE  Held(q'[o], s') /\ q'[o].session <= s'.id
    <3>1. Waits(q[o], s) => \E v \in DOMAIN s.load : q[o].id \in s.load[v]
      BY <1>k DEF Held
    <3>2. Waits(q[o], s') => Waits(q[o], s)
      BY <2>2 DEF Waits
    <3> QED
      BY <1>1, <1>k, <2>2, <3>1, <3>2 DEF Held
  <2> QED
    BY <1>1, <1>2, <1>k, <2>2, <2>3, SInvStep
<1> QED
  BY <1>3, <1>4

\* A connection is lost, or comes back; the client is configured, or is not any more.
LEMMA FlagsSInv ==
    ASSUME SInv,
           \/ \E w \in DOMAIN s.load : S!Lose(w) \/ S!Reconnect(w)
           \/ S!Configured \/ S!Unconfigured
    PROVE  SInv'
<1>k. /\ s \in SessionType /\ Staffed(s) /\ mishaps \in 0..MaxMishaps /\ peer \in PeerType
      /\ air \subseteq [id : S!Ids \cup S!Told, on : 0..MaxSecondary]
      /\ DOMAIN s.load \subseteq 0..MaxSecondary
  BY SInvIs, LoadsAre DEF SessionType, Sound
<1>1. ASSUME NEW w \in DOMAIN s.load, S!Lose(w)
      PROVE  SInv'
  <2>1. /\ peer' \in PeerType /\ air' \subseteq [id : S!Ids \cup S!Told, on : 0..MaxSecondary]
        /\ mishaps' \in 0..MaxMishaps /\ mishaps' >= mishaps /\ q' = q
    BY <1>1, ConnectionGone, MishapCounts DEF S!Lose
  <2>2. CASE w = S!Primary
    <3>1. s' = [s EXCEPT !.up = FALSE]
      BY <1>1, <2>2 DEF S!Lose
    <3>2. Settled(s, s')
      BY <1>k, <3>1 DEF SessionType, Settled, Staffed
    <3> QED
      BY <2>1, <3>2, SettledSInv
  <2>3. CASE w # S!Primary
    <3>1. s' = [s EXCEPT !.lost = @ \cup {w}]
      BY <1>1, <2>3 DEF S!Lose
    <3>2. w \in 1..MaxSecondary
      BY <1>1, <1>k, <2>3, Bounds DEF S!Primary
    <3>3. Settled(s, s')
      BY <1>1, <1>k, <3>1, <3>2 DEF SessionType, Settled, Staffed
    <3> QED
      BY <2>1, <3>3, SettledSInv
  <2> QED
    BY <2>2, <2>3
<1>2. ASSUME NEW w \in DOMAIN s.load, S!Reconnect(w)
      PROVE  SInv'
  <2>1. q' = q /\ peer' = peer /\ air' = air /\ mishaps' = mishaps
    BY <1>2 DEF S!Reconnect
  <2>2. s' = [s EXCEPT !.up = TRUE] \/ s' = [s EXCEPT !.lost = @ \ {w}]
    BY <1>2 DEF S!Reconnect
  <2>3. Settled(s, s')
    BY <1>k, <2>2 DEF SessionType, Settled, Staffed
  <2> QED
    BY <1>k, <2>1, <2>3, SettledSInv
<1>3. CASE S!Configured \/ S!Unconfigured
  <2>1. /\ q' = q /\ peer' = peer /\ air' = air
        /\ mishaps' \in 0..MaxMishaps /\ mishaps' >= mishaps
    <3>1. CASE S!Configured
      BY <1>k, <3>1 DEF S!Configured
    <3>2. CASE S!Unconfigured
      BY <3>2, MishapCounts DEF S!Unconfigured
    <3> QED
      BY <1>3, <3>1, <3>2
  <2>2. s' = [s EXCEPT !.ready = TRUE] \/ s' = [s EXCEPT !.ready = FALSE]
    BY <1>3 DEF S!Configured, S!Unconfigured
  <2>3. Settled(s, s')
    BY <1>k, <2>2 DEF SessionType, Settled, Staffed
  <2> QED
    BY <1>k, <2>1, <2>3, SettledSInv
<1> QED
  BY <1>1, <1>2, <1>3

\* The timer for acknowledgements fires.
LEMMA AckSInv ==
    ASSUME SInv, S!AckTimer
    PROVE  SInv'
<1>k. /\ s \in SessionType /\ Staffed(s) /\ mishaps \in 0..MaxMishaps /\ peer \in PeerType
      /\ air \subseteq [id : S!Ids \cup S!Told, on : 0..MaxSecondary]
  BY SInvIs DEF Sound
<1>1. q' = q /\ air' = air /\ mishaps' = mishaps
  BY DEF S!AckTimer
<1>2. peer' \in PeerType
  BY <1>k DEF S!AckTimer, PeerType
<1>3. \/ s' = [s EXCEPT !.ev = FALSE, !.acks = {}]
      \/ s' = [s EXCEPT !.ev = FALSE, !.early = TRUE]
  BY DEF S!AckTimer
<1>4. Settled(s, s')
  BY <1>k, <1>3 DEF SessionType, Settled, Staffed
<1> QED
  BY <1>1, <1>2, <1>4, <1>k, SettledSInv

\* The server answers, tells or repeats.
LEMMA ServerSInv ==
    ASSUME SInv,
           \/ \E r \in peer.asked : S!ServerAnswers(r)
           \/ S!ServerTells
           \/ \E id \in peer.unacked : S!ServerRepeats(id)
    PROVE  SInv'
<1>k. /\ s \in SessionType /\ Staffed(s) /\ mishaps \in 0..MaxMishaps /\ peer \in PeerType
      /\ air \subseteq [id : S!Ids \cup S!Told, on : 0..MaxSecondary]
  BY SInvIs DEF Sound
<1>0. S!Primary \in 0..MaxSecondary
  BY Bounds DEF S!Primary
<1>1. s' = s /\ q' = q /\ mishaps' = mishaps /\ Settled(s, s')
  <2>1. s' = s /\ q' = q /\ mishaps' = mishaps
    BY DEF S!ServerAnswers, S!ServerTells, S!ServerRepeats
  <2> QED
    BY <1>k, <2>1 DEF Settled, Staffed
<1>2. /\ peer' \in PeerType
      /\ air' \subseteq [id : S!Ids \cup S!Told, on : 0..MaxSecondary]
  <2>1. ASSUME NEW r \in peer.asked, S!ServerAnswers(r)
        PROVE  /\ peer' \in PeerType
               /\ air' \subseteq [id : S!Ids \cup S!Told, on : 0..MaxSecondary]
    <3>1. r \in [id : S!Ids, on : 0..MaxSecondary]
      BY <1>k DEF PeerType
    <3>2. r.id \in S!Ids /\ r \in [id : S!Ids \cup S!Told, on : 0..MaxSecondary]
      BY <3>1
    <3> QED
      BY <1>k, <2>1, <3>2 DEF S!ServerAnswers, PeerType
  <2>2. CASE S!ServerTells
    <3>1. peer.told + 1 \in 1..MaxTold
      BY <1>k, <2>2, Bounds DEF S!ServerTells, PeerType
    <3>2. -(peer.told + 1) \in S!Told
      BY <3>1 DEF S!Told
    <3>3. peer.told + 1 \in 0..MaxTold
      BY <3>1, Bounds
    <3> DEFINE m == [id |-> -(peer.told + 1), on |-> S!Primary]
    <3>4. m \in [id : S!Ids \cup S!Told, on : 0..MaxSecondary]
      BY <1>0, <3>2
    <3> HIDE DEF m
    <3>5. air' = air \cup {m}
      BY <2>2 DEF S!ServerTells, m
    <3>6. peer' = [peer EXCEPT !.told = peer.told + 1,
                               !.unacked = peer.unacked \cup {-(peer.told + 1)}]
      BY <2>2 DEF S!ServerTells
    <3> QED
      BY <1>k, <3>2, <3>3, <3>4, <3>5, <3>6 DEF PeerType
  <2>3. ASSUME NEW id \in peer.unacked, S!ServerRepeats(id)
        PROVE  /\ peer' \in PeerType
               /\ air' \subseteq [id : S!Ids \cup S!Told, on : 0..MaxSecondary]
    <3>1. id \in S!Ids \cup S!Told
      BY <1>k DEF PeerType
    <3> QED
      BY <1>0, <1>k, <2>3, <3>1 DEF S!ServerRepeats
  <2> QED
    BY <2>1, <2>2, <2>3
<1> QED
  BY <1>1, <1>2, <1>k, SettledSInv

\* The client reads a message: a query that it answers waits no more.
LEMMA ReadSInv ==
    ASSUME SInv, NEW m \in air, S!Read(m)
    PROVE  SInv'
<1>k. /\ s \in SessionType /\ Sound(s) /\ mishaps \in 0..MaxMishaps /\ peer \in PeerType
      /\ air \subseteq [id : S!Ids \cup S!Told, on : 0..MaxSecondary]
      /\ q \in [S!Part -> QueryType]
      /\ \A o \in S!Part : Held(q[o], s) /\ q[o].session <= s.id
  BY SInvIs
<1>0. m \in [id : S!Ids \cup S!Told, on : 0..MaxSecondary]
  BY <1>k
<1>1. m.id \in S!Ids \cup S!Told
  BY <1>0
<1> DEFINE t == S!Noted(s, m.id)
<1>2. Settled(s, t)
  <2>1. t = [s EXCEPT !.ev = @ \/ s.acks = {}, !.acks = @ \cup {m.id}]
    BY DEF S!Noted
  <2>2. s.ev \in BOOLEAN /\ (s.ev \/ s.acks = {}) \in BOOLEAN
    BY <1>k DEF SessionType
  <2> HIDE DEF t
  <2> DEFINE flag == s.ev \/ s.acks = {}
  <2> HIDE DEF flag
  <2>3. t = [s EXCEPT !.ev = flag, !.acks = @ \cup {m.id}] /\ flag \in BOOLEAN
    BY <2>1, <2>2 DEF flag
  <2> QED
    BY <1>1, <1>k, <2>3 DEF SessionType, Settled, Sound, Staffed
<1> HIDE DEF t
<1>3. Sound(t) /\ t.id = s.id /\ t.load = s.load
  BY <1>2, <1>k, SettledIsSound DEF Settled
<1>4. s' = S!JobDone(t, m.id)
  BY DEF S!Read, t
<1>5. /\ Sound(s') /\ s'.id = s.id /\ DOMAIN s'.load = DOMAIN s.load
      /\ \A w \in DOMAIN s.load : s'.load[w] = s.load[w] \ {m.id}
  BY <1>3, <1>4, JobDoneIsSound
<1>6. q' = [p \in S!Part |-> IF q[p].id = m.id /\ m.id # 0 /\ ~q[p].done
                             THEN [q[p] EXCEPT !.done = TRUE] ELSE q[p]]
  BY DEF S!Read, S!Answered
<1>7. ASSUME NEW o \in S!Part
      PROVE  /\ q'[o] \in QueryType /\ Held(q'[o], s') /\ q'[o].session <= s'.id
  <2>0. q[o] \in QueryType
    BY <1>k
  <2>1. CASE q[o].id = m.id /\ m.id # 0 /\ ~q[o].done
    <3> DEFINE r == [q[o] EXCEPT !.done = TRUE]
    <3>1. r \in QueryType /\ r.done /\ r.session = q[o].session
      BY <2>0 DEF QueryType
    <3>2. q'[o] = r
      BY <1>6, <2>1
    <3> HIDE DEF r
    <3> QED
      BY <1>5, <1>k, <3>1, <3>2 DEF Held, Waits
  <2>2. CASE ~(q[o].id = m.id /\ m.id # 0 /\ ~q[o].done)
    <3>1. q'[o] = q[o]
      BY <1>6, <2>2
    <3>2. ASSUME Waits(q[o], s')
          PROVE  \E w \in DOMAIN s'.load : q[o].id \in s'.load[w]
      <4>1. Waits(q[o], s)
        BY <1>5, <3>2 DEF Waits
      <4>2. PICK w \in DOMAIN s.load : q[o].id \in s.load[w]
        BY <1>k, <4>1 DEF Held
      <4>3. q[o].id # m.id
        BY <2>2, <3>2 DEF Waits
      <4> QED
        BY <1>5, <4>2, <4>3
    <3> QED
      BY <1>5, <1>k, <2>0, <3>1, <3>2 DEF Held
  <2> QED
    BY <2>1, <2>2
<1>8. q' \in [S!Part -> QueryType]
  BY <1>6, <1>7
<1>9. peer' = peer /\ mishaps' = mishaps /\ air' \subseteq air
  BY DEF S!Read
<1> QED
  BY <1>5, <1>7, <1>8, <1>9, <1>k, SInvStep

\* A bad time or a bad message replaces the session.
LEMMA BadSInv ==
    ASSUME SInv, S!BadTime \/ \E r \in peer.asked : S!BadMessage(r)
    PROVE  SInv'
<1>k. q \in [S!Part -> QueryType]
  BY SInvIs
<1>1. CASE S!BadTime
  BY <1>1, <1>k, MishapCounts, ReplacedSInv DEF S!BadTime
<1>2. ASSUME NEW r \in peer.asked, S!BadMessage(r)
      PROVE  SInv'
  <2>1. S!Replaced /\ mishaps' \in 0..MaxMishaps /\ mishaps' = mishaps + 1
    BY <1>2, MishapCounts DEF S!BadMessage
  <2>2. q' = [p \in S!Part |-> IF q[p].id = r.id THEN [q[p] EXCEPT !.id = 0] ELSE q[p]]
    BY <1>2 DEF S!BadMessage
  <2>3. ASSUME NEW p \in S!Part
        PROVE  q'[p] \in QueryType /\ q'[p].session = q[p].session
    <3>1. q[p] \in QueryType
      BY <1>k
    <3>2. [q[p] EXCEPT !.id = 0] \in QueryType /\ [q[p] EXCEPT !.id = 0].session = q[p].session
      BY <3>1, Bounds DEF QueryType
    <3>3. q'[p] = [q[p] EXCEPT !.id = 0] \/ q'[p] = q[p]
      BY <2>2
    <3> QED
      BY <3>1, <3>2, <3>3
  <2>4. q' \in [S!Part -> QueryType]
    BY <2>2, <2>3
  <2> QED
    BY <2>1, <2>3, <2>4, ReplacedSInv
<1> QED
  BY <1>1, <1>2

\* The invariant at the start.
LEMMA InitSInv == S!Init => SInv
<1> SUFFICES ASSUME S!Init PROVE SInv
  OBVIOUS
<1>1. 0 \in 0..MaxMishaps /\ 0 \in 0..MaxId /\ 0 \in 0..MaxTold
  BY Bounds
<1>2. Sound(s) /\ s.id = 0
  BY <1>1, FreshIsSound DEF S!Init
<1> DEFINE r == [id |-> 0, session |-> 0, done |-> FALSE]
<1>3. r \in QueryType /\ r.id = 0 /\ r.session = 0
  BY <1>1 DEF QueryType
<1>4. q = [p \in S!Part |-> r]
  BY DEF S!Init
<1> HIDE DEF r
<1>5. q \in [S!Part -> QueryType] /\ \A p \in S!Part : Held(q[p], s) /\ q[p].session <= s.id
  BY <1>2, <1>3, <1>4 DEF Held, Waits
<1>6. peer \in PeerType /\ air = {} /\ mishaps = 0
  BY <1>1 DEF S!Init, PeerType
<1> QED
  BY <1>1, <1>2, <1>5, <1>6 DEF SInv, SessionTyped, Sound

\* Every step of a session preserves the invariant.
LEMMA StepSInv == SInv /\ [S!Next]_session => SInv'
<1> SUFFICES ASSUME SInv, [S!Next]_session PROVE SInv'
  OBVIOUS
<1>1. CASE UNCHANGED session
  BY <1>1 DEF session, SInv, SessionTyped
<1>2. CASE S!Progress
  BY <1>2, QueriesSInv, IdleSInv, FlagsSInv, AckSInv, ServerSInv, ReadSInv DEF S!Progress
<1>3. CASE S!Trouble
  BY <1>3, ServerSInv, FlagsSInv, BadSInv DEF S!Trouble
<1> QED
  BY <1>1, <1>2, <1>3 DEF S!Next
\* What is checked of it follows.
LEMMA SInvWorkersSound == SInv => WorkersSound
<1> SUFFICES ASSUME SInv PROVE WorkersSound
  OBVIOUS
<1>k. /\ s \in SessionType /\ Sound(s) /\ q \in [S!Part -> QueryType] /\ peer \in PeerType
      /\ \A p \in S!Part : Held(q[p], s)
  BY SInvIs
<1>1. /\ s.load \in Loads /\ DOMAIN s.load \subseteq 0..MaxSecondary
      /\ s.load \in [DOMAIN s.load -> SUBSET S!Ids]
  BY <1>k, LoadsAre DEF SessionType
<1>2. s.idle \cup s.lost \subseteq S!Secondaries
  <2>1. s.idle \cup s.lost \subseteq DOMAIN s.load /\ S!Primary \notin s.idle \cup s.lost
    BY <1>k, Bounds DEF Sound, Staffed, SessionType, S!Primary
  <2> QED
    BY <2>1 DEF S!Secondaries
<1>3. S!TypeOK
  <2>1. s.id \in 0..MaxMishaps /\ s.last \in 0..MaxId
    BY <1>k DEF SessionType
  <2>2. \A flag \in {s.ready, s.up, s.ev, s.early} : flag \in BOOLEAN
    BY <1>k DEF SessionType
  <2>3. s.acks \cup peer.unacked \subseteq S!Ids \cup S!Told
    BY <1>k DEF SessionType, PeerType
  <2>4. \A w \in DOMAIN s.load : s.load[w] \subseteq S!Ids
    BY <1>1
  <2>5. q \in [S!Part -> [id : 0..MaxId, session : 0..MaxMishaps, done : BOOLEAN]]
    BY <1>k DEF QueryType
  <2> QED
    BY <1>1, <1>2, <2>1, <2>2, <2>3, <2>4, <2>5 DEF S!TypeOK
<1>4. S!IdleArmed
  BY <1>k DEF Sound, Armed, S!IdleArmed, S!Secondaries
<1>5. ASSUME NEW p \in S!Part, q[p].id # 0 /\ q[p].session = s.id /\ ~q[p].done
      PROVE  S!Cardinality({w \in DOMAIN s.load : q[p].id \in s.load[w]}) = 1
  <2>1. PICK w \in DOMAIN s.load : q[p].id \in s.load[w]
    BY <1>5, <1>k DEF Held, Waits
  <2>2. \A v \in DOMAIN s.load : q[p].id \in s.load[v] => v = w
    BY <1>k, <2>1 DEF Sound, Numbered
  <2>3. {v \in DOMAIN s.load : q[p].id \in s.load[v]} = {w}
    BY <2>1, <2>2
  <2>4. Cardinality({w}) = 1
    BY FS_Singleton
  <2> QED
    BY <2>3, <2>4, SameCardinality
<1>6. S!Accounted
  BY <1>5 DEF S!Accounted
<1> QED
  BY <1>3, <1>4, <1>6 DEF WorkersSound, S!WorkersSound

-----------------------------------------------------------------------------
(* The client                                                              *)

\* A step of the client is a step of the half that works; the others stand still.
LEMMA StepOfAHalf ==
    ASSUME [NextConnection \/ NextKeys \/ NextSession]_all
    PROVE  [Next]_vars /\ [K!Next]_keys /\ [S!Next]_session
<1>1. CASE NextConnection
  BY <1>1 DEF NextConnection
<1>2. CASE NextKeys
  BY <1>2 DEF NextKeys
<1>3. CASE NextSession
  BY <1>3 DEF NextSession
<1>4. CASE UNCHANGED all
  BY <1>4 DEF all
<1> QED
  BY <1>1, <1>2, <1>3, <1>4

\* The connection of a client is never stranded nor unwatched, as the connection
\* alone is not (Inductive).
THEOREM ConnectionHolds == SpecClient => []IInv
<1>1. InitClient => IInv
  BY InitIInv DEF InitClient
<1>2. IInv /\ [NextConnection \/ NextKeys \/ NextSession]_all => IInv'
  BY StepIInv, StepOfAHalf
<1> QED
  BY <1>1, <1>2, PTL DEF SpecClient

\* What a client sends is sent under a key that both ends know, whatever bind
\* queries, handshakes and connections it gave up before.
THEOREM KeysAlwaysHold == SpecClient => []KeysHold
<1>1. InitClient => KInv
  BY InitKInv DEF InitClient
<1>2. KInv /\ [NextConnection \/ NextKeys \/ NextSession]_all => KInv'
  BY StepKInv, StepOfAHalf
<1>3. KInv => KeysHold
  BY KInvKeysHold
<1> QED
  BY <1>1, <1>2, <1>3, PTL DEF SpecClient

\* The workers of a session are as many as it may have, each busy with queries of
\* its own or about to be closed, and every query that waits is in the load of one.
THEOREM WorkersAlwaysSound == SpecClient => []WorkersSound
<1>1. InitClient => SInv
  BY InitSInv DEF InitClient
<1>2. SInv /\ [NextConnection \/ NextKeys \/ NextSession]_all => SInv'
  BY StepSInv, StepOfAHalf
<1>3. SInv => WorkersSound
  BY SInvWorkersSound
<1> QED
  BY <1>1, <1>2, <1>3, PTL DEF SpecClient

-----------------------------------------------------------------------------
(* Lengths on the wire                                                     *)

\* Every string is read back, whatever its size and its bytes.
THEOREM StringsReadBack ==
    \A size \in Nat : \A d \in Nat : ReadsBack(size, d)
<1> SUFFICES ASSUME NEW size \in Nat, NEW d \in Nat
             PROVE  ReadsBack(size, d)
    OBVIOUS
<1>1. CASE size < 254
    <2>1. /\ StringWords(size) = (size + 4) \div 4
          /\ Header(size, d) = size + 256 * d
          /\ FetchedWords(size) = 1 + size \div 4
        BY <1>1, SMT DEF StringWords, Header, FetchedWords, IsShort
    <2>2. (size + 256 * d) % 256 = size
        BY <1>1, SMT
    <2>3. (size + 4) \div 4 = size \div 4 + 1
        BY SMT
    <2>4. size \div 4 \in Nat
        BY SMT
    <2>. QED
        BY <1>1, <2>1, <2>2, <2>3, <2>4, SMT DEF ReadsBack, Prefetch
<1>2. CASE size >= 254
    <2>1. /\ StringWords(size) = (size + 7) \div 4
          /\ Header(size, d) = size * 256 + 254
          /\ FetchedWords(size) = (size + 7) \div 4
        BY <1>2, SMT DEF StringWords, Header, FetchedWords, IsShort
    <2>2. (size * 256 + 254) % 256 = 254 /\ (size * 256 + 254) \div 256 = size
        BY SMT
    <2>3. (size + 7) \div 4 \in Nat
        BY SMT
    <2>. QED
        BY <1>2, <2>1, <2>2, <2>3, SMT DEF ReadsBack, Prefetch
<1>. QED
    BY <1>1, <1>2, SMT

\* A big number takes the words of the string of its bytes, which is how
\* tgl_fetch_bignum() reads it.
THEOREM BignumsAreStrings ==
    \A size \in Nat : BignumBytes(size) = 4 * StringWords(size)
<1> SUFFICES ASSUME NEW size \in Nat
             PROVE  BignumBytes(size) = 4 * StringWords(size)
    OBVIOUS
<1>1. CASE size < 254
    BY <1>1, SMT DEF BignumBytes, StringWords, IsShort
<1>2. CASE size >= 254
    BY <1>2, SMT DEF BignumBytes, StringWords, IsShort
<1>. QED
    BY <1>1, <1>2, SMT

\* What is encrypted for a secret chat is whole blocks of the cipher, has room
\* for the length and the message and no whole block more, and opens to the
\* words of the message: tgl_pad_aes_encrypt() would add nothing to it.
THEOREM SealedOpens ==
    \A n \in Nat :
        /\ SealedWords(n) \in n + 1..n + 4
        /\ PaddedAes(4 * SealedWords(n)) = 4 * SealedWords(n)
        /\ OpenedWords(4 * n) = n
<1> SUFFICES ASSUME NEW n \in Nat
             PROVE  /\ SealedWords(n) \in n + 1..n + 4
                    /\ PaddedAes(4 * SealedWords(n)) = 4 * SealedWords(n)
                    /\ OpenedWords(4 * n) = n
    OBVIOUS
<1>1. \E m \in n + 1..n + 4 : m % 4 = 0
    <2>1. n + 4 - (n % 4) \in n + 1..n + 4 /\ (n + 4 - (n % 4)) % 4 = 0
        BY SMT
    <2>. QED
        BY <2>1
<1>2. SealedWords(n) \in n + 1..n + 4 /\ SealedWords(n) % 4 = 0
    BY <1>1 DEF SealedWords
<1>3. ASSUME NEW m \in Nat, m % 4 = 0
      PROVE  16 * ((4 * m + 15) \div 16) = 4 * m
    BY <1>3, SMT
<1>4. SealedWords(n) \in Nat
    BY <1>2, SMT
<1>5. PaddedAes(4 * SealedWords(n)) = 4 * SealedWords(n)
    BY <1>2, <1>3, <1>4 DEF PaddedAes
<1>6. OpenedWords(4 * n) = n
    BY SMT DEF OpenedWords
<1>. QED
    BY <1>2, <1>5, <1>6

\* What is encrypted with RSA is whole chunks of 255 bytes, at least 32 of them
\* random, for all lengths that the assert allows.
THEOREM RsaChunks ==
    \A bytes \in Nat :
        bytes <= 2550 => PaddedRsa(bytes) % 255 = 0 /\ PaddedRsa(bytes) >= bytes + 32
<1> SUFFICES ASSUME NEW bytes \in Nat, bytes <= 2550
             PROVE  PaddedRsa(bytes) % 255 = 0 /\ PaddedRsa(bytes) >= bytes + 32
    OBVIOUS
<1>. DEFINE k == (255000 - bytes - 32) \div 255
            r == (255000 - bytes - 32) % 255
<1>1. k \in Nat /\ r \in 0..254 /\ 255000 - bytes - 32 = 255 * k + r
    BY SMT
<1>2. PaddedRsa(bytes) = 255 * (1000 - k)
    BY <1>1, SMT DEF PaddedRsa
<1>3. 1000 - k \in Int
    BY <1>1, SMT
<1>4. \A m \in Int : (255 * m) % 255 = 0
    BY SMT
<1>5. PaddedRsa(bytes) >= bytes + 32
    BY <1>1, SMT DEF PaddedRsa
<1>. QED
    BY <1>2, <1>3, <1>4, <1>5

=============================================================================
