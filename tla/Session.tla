------------------------------- MODULE Session -------------------------------
(***************************************************************************)
(* The session of a client with its data centre (session.h and the part of *)
(* mtproto_client.cpp that sends and reads encrypted messages): queries go *)
(* out on the primary connection or, file parts, on the least busy of up   *)
(* to MaxSecondary others, which close after they were idle; what the      *)
(* server says is acknowledged when a timer fires; a bad message or a bad  *)
(* time replaces the session.  Message ids count up: the clock they are    *)
(* made of is left out.  Queries are told apart by their message only:     *)
(* their own life is in Queries, the keys and the state are Authorization. *)
(***************************************************************************)
EXTENDS Integers, FiniteSets, FiniteSetsExt

CONSTANTS
    Parts,          \* how many file parts to transfer, each by a query
    MaxSecondary,   \* MAX_SECONDARY_WORKERS_PER_SESSION
    MaxId,          \* bound: the messages the client sends
    MaxTold,        \* bound: the updates the server sends of its own
    Mishaps,        \* the faults there are
    MaxMishaps      \* bound: how many of them

VARIABLES
    s,        \* struct session, and m_configured of the client
    q,        \* the query of each part
    peer,     \* what the server has to answer, and what it was not acknowledged
    air,      \* messages of the server on their way, each on a connection
    mishaps   \* how many faults so far

svars == <<s, q, peer, air, mishaps>>

Part == 1..Parts

Primary == 0
Secondaries == DOMAIN s.load \ {Primary}

\* Sent messages are numbered from 1, what the server says of its own from -1
\* down; an answer has the number of what it answers.
Ids == 1..MaxId
Told == {-i : i \in 1..MaxTold}

\* early is a ghost: the timer for acknowledgements fired before the client
\* was configured.
Fresh(id, ready) ==
    [id |-> id, ready |-> ready, up |-> FALSE, load |-> [w \in {Primary} |-> {}],
     idle |-> {}, lost |-> {}, acks |-> {}, ev |-> FALSE, early |-> FALSE, last |-> 0]

Init ==
    /\ s = Fresh(0, FALSE)
    /\ q = [p \in Part |-> [id |-> 0, session |-> 0, done |-> FALSE]]
    /\ peer = [asked |-> {}, unacked |-> {}, told |-> 0]
    /\ air = {}
    /\ mishaps = 0

Mishap(kind) == kind \in Mishaps /\ mishaps < MaxMishaps /\ mishaps' = mishaps + 1

-----------------------------------------------------------------------------
(* Workers                                                                 *)

Load(w) == Cardinality(s.load[w])

\* select_best_worker() for a file part, up to the new worker: the primary one
\* unless a connected one has less to do.
LeastBusy ==
    LET open  == {Primary} \cup (Secondaries \ s.lost)
        least == {w \in open : \A v \in open : Load(w) <= Load(v)}
    IN  IF Primary \in least THEN {Primary} ELSE least

\* If even that one has something to do a new worker is made.
Chosen(w) ==
    IF Load(w) # 0 /\ Cardinality(Secondaries) < MaxSecondary
    THEN CHOOSE v \in 1..MaxSecondary : v \notin Secondaries
    ELSE w

\* send_message_impl() with count_work_load: the worker's idle timer is off.
Loaded(t, w, id) ==
    [t EXCEPT !.load = [v \in DOMAIN @ \cup {w} |->
                           (IF v \in DOMAIN @ THEN @[v] ELSE {})
                           \cup IF v = w THEN {id} ELSE {}],
              !.idle = @ \ {w}, !.last = id]

\* Mutant of JobDone: lower_bound() is taken for find().
JobDoneNext(t, id) ==
    LET later(w) == {i \in t.load[w] : i >= id}
        gone(w)  == IF later(w) = {} THEN {} ELSE {Min(later(w))}
        ws       == {w \in DOMAIN t.load : later(w) # {}}
        w1       == CHOOSE w \in ws : TRUE
    IN  IF ws = {} THEN t
        ELSE [t EXCEPT !.load[w1] = @ \ gone(w1),
                       !.idle = IF w1 # Primary /\ t.load[w1] = gone(w1) THEN @ \cup {w1} ELSE @]

\* worker_job_done(): a secondary worker with nothing left starts its timer.
JobDone(t, id) ==
    [t EXCEPT !.load = [w \in DOMAIN @ |-> @[w] \ {id}],
              !.idle = @ \cup {w \in Secondaries : t.load[w] = {id}}]

-----------------------------------------------------------------------------
(* The session                                                             *)

\* session::clear() and create_session(): every connection is closed.
Replaced ==
    /\ s' = Fresh(s.id + 1, s.ready)
    /\ air' = {}
    /\ peer' = [peer EXCEPT !.asked = {}, !.unacked = {}]

\* A query is sent, by execute() or by alarm(): the message before it, if there
\* was one, stays in the load of its worker.
SendPart(p) ==
    \E w0 \in LeastBusy :
      LET w == Chosen(w0) IN
        /\ s' = Loaded(s, w, s.last + 1)
        /\ q' = [q EXCEPT ![p] = [@ EXCEPT !.id = s.last + 1, !.session = s.id]]
        /\ peer' = [peer EXCEPT !.asked = @ \cup {[id |-> s.last + 1, on |-> w]}]

CanSend == s.up /\ s.ready /\ s.last < MaxId

\* Parts are asked for in order, and pending queries sent in order.
Execute(p) ==
    /\ \A r \in 1..p - 1 : q[r].id # 0 \/ q[r].done
    /\ q[p].id = 0 /\ ~q[p].done
    /\ CanSend
    /\ SendPart(p)
    /\ UNCHANGED <<air, mishaps>>

\* The answer may still come.
Awaited(p) ==
    /\ q[p].session = s.id
    /\ \/ \E r \in peer.asked : r.id = q[p].id
       \/ q[p].id \in peer.unacked

\* Mutant of TimedOut: a query of a replaced session is not sent again.
TimedOutHere(p) ==
    /\ q[p].id # 0 /\ ~q[p].done /\ q[p].session = s.id
    /\ IF Awaited(p) THEN Mishap("timeout") ELSE UNCHANGED mishaps
    /\ \/ CanSend /\ SendPart(p)
       \/ ~(s.up /\ s.ready) /\ q' = [q EXCEPT ![p].id = 0] /\ UNCHANGED <<s, peer>>
    /\ UNCHANGED air

\* timeout_alarm(): the query is sent again, or waits to be.
TimedOut(p) ==
    /\ q[p].id # 0 /\ ~q[p].done
    /\ IF Awaited(p) THEN Mishap("timeout") ELSE UNCHANGED mishaps
    /\ \/ CanSend /\ SendPart(p)
       \/ ~(s.up /\ s.ready) /\ q' = [q EXCEPT ![p].id = 0] /\ UNCHANGED <<s, peer>>
    /\ UNCHANGED air

\* The idle timer of a worker.
IdleTimer(w) ==
    /\ w \in s.idle
    /\ s' = IF s.load[w] # {} THEN s
            ELSE [s EXCEPT !.load = [v \in DOMAIN @ \ {w} |-> @[v]],
                           !.idle = @ \ {w}, !.lost = @ \ {w}]
    /\ peer' = [peer EXCEPT !.asked = {r \in @ : r.on # w}]
    /\ air' = {m \in air : m.on # w}
    /\ UNCHANGED <<q, mishaps>>

\* A connection is lost with all that is on it, and comes back.
Lose(w) ==
    /\ w \in DOMAIN s.load \ s.lost
    /\ w = Primary => s.up
    /\ Mishap("lost")
    /\ s' = IF w = Primary THEN [s EXCEPT !.up = FALSE] ELSE [s EXCEPT !.lost = @ \cup {w}]
    /\ peer' = [peer EXCEPT !.asked = {r \in @ : r.on # w}]
    /\ air' = {m \in air : m.on # w}
    /\ UNCHANGED q

Reconnect(w) ==
    /\ IF w = Primary THEN ~s.up ELSE w \in s.lost
    /\ s' = IF w = Primary THEN [s EXCEPT !.up = TRUE] ELSE [s EXCEPT !.lost = @ \ {w}]
    /\ UNCHANGED <<q, peer, air, mishaps>>

\* configured(TRUE), and restart_temp_authorization().
Configured ==
    /\ s.up /\ ~s.ready
    /\ s' = [s EXCEPT !.ready = TRUE]
    /\ UNCHANGED <<q, peer, air, mishaps>>

Unconfigured ==
    /\ s.up /\ s.ready
    /\ Mishap("rekey")
    /\ s' = [s EXCEPT !.ready = FALSE]
    /\ UNCHANGED <<q, peer, air>>

-----------------------------------------------------------------------------
(* The server                                                              *)

Connected(w) == IF w = Primary THEN s.up ELSE w \notin s.lost

ServerAnswers(r) ==
    /\ r \in peer.asked
    /\ Connected(r.on)
    /\ peer' = [peer EXCEPT !.asked = @ \ {r}, !.unacked = @ \cup {r.id}]
    /\ air' = air \cup {r}
    /\ UNCHANGED <<s, q, mishaps>>

\* An update, or the answer to a query of the authorization: the client need
\* not be configured.
ServerTells ==
    /\ s.up
    /\ peer.told < MaxTold
    /\ peer' = [peer EXCEPT !.told = @ + 1, !.unacked = @ \cup {-(peer.told + 1)}]
    /\ air' = air \cup {[id |-> -(peer.told + 1), on |-> Primary]}
    /\ UNCHANGED <<s, q, mishaps>>

\* What was not acknowledged is said again, unless the client is about to.
ServerRepeats(id) ==
    /\ id \in peer.unacked \ s.acks
    /\ s.up
    /\ ~\E m \in air : m.id = id
    /\ air' = air \cup {[id |-> id, on |-> Primary]}
    /\ UNCHANGED <<s, q, peer, mishaps>>

-----------------------------------------------------------------------------
(* process_rpc_message()                                                   *)

\* insert_msg_id(): the timer is started with the first of the set.
Noted(t, id) == [t EXCEPT !.ev = @ \/ t.acks = {}, !.acks = @ \cup {id}]

\* work_rpc_result(): an answer to a message that is no query's is skipped.
Answered(id) ==
    [p \in Part |-> IF q[p].id = id /\ id # 0 /\ ~q[p].done THEN [q[p] EXCEPT !.done = TRUE] ELSE q[p]]

Read(m) ==
    /\ m \in air
    /\ s' = JobDone(Noted(s, m.id), m.id)
    /\ q' = Answered(m.id)
    /\ air' = air \ {m}
    /\ UNCHANGED <<peer, mishaps>>

\* A message from another time, on a session that has seen one: restart_session().
BadTime ==
    /\ s.up
    /\ Mishap("time")
    /\ Replaced
    /\ UNCHANGED q

\* bad_msg_notification for a query: regen(), and then, as the work returns -1,
\* restart_session().  What follows in the container is not read.
BadMessage(r) ==
    /\ r \in peer.asked /\ Connected(r.on)
    /\ Mishap("bad")
    /\ q' = [p \in Part |-> IF q[p].id = r.id THEN [q[p] EXCEPT !.id = 0] ELSE q[p]]
    /\ Replaced

\* Mutant of AckTimer: the set is kept for the next time.
AckTimerKeeps ==
    /\ s.ev
    /\ s' = [s EXCEPT !.ev = FALSE]
    /\ peer' = IF s.ready /\ s.up THEN [peer EXCEPT !.unacked = @ \ s.acks] ELSE peer
    /\ UNCHANGED <<q, air, mishaps>>

\* send_all_acks(): while the client is not configured it returns early, and
\* the set is not empty when the next id comes.  Without a connection the set
\* is cleared all the same.
AckTimer ==
    /\ s.ev
    /\ s' = IF s.ready THEN [s EXCEPT !.ev = FALSE, !.acks = {}]
            ELSE [s EXCEPT !.ev = FALSE, !.early = TRUE]
    /\ peer' = IF s.ready /\ s.up THEN [peer EXCEPT !.unacked = @ \ s.acks] ELSE peer
    /\ UNCHANGED <<q, air, mishaps>>

-----------------------------------------------------------------------------
\* The timers, the connections, and the server that answers.
Progress ==
    \/ \E p \in Part : Execute(p) \/ TimedOut(p)
    \/ \E w \in DOMAIN s.load : IdleTimer(w) \/ Reconnect(w)
    \/ Configured \/ AckTimer
    \/ \E r \in peer.asked : ServerAnswers(r)
    \/ \E id \in peer.unacked : ServerRepeats(id)
    \/ \E m \in air : Read(m)

Trouble ==
    \/ ServerTells
    \/ \E w \in DOMAIN s.load : Lose(w)
    \/ Unconfigured \/ BadTime
    \/ \E r \in peer.asked : BadMessage(r)

Next == Progress \/ Trouble

-----------------------------------------------------------------------------
\* struct session, with no more workers than it may have.
TypeOK ==
    /\ s.id \in 0..MaxMishaps /\ s.last \in 0..MaxId
    /\ \A flag \in {s.ready, s.up, s.ev, s.early} : flag \in BOOLEAN
    /\ DOMAIN s.load \subseteq 0..MaxSecondary
    /\ \A w \in DOMAIN s.load : s.load[w] \subseteq Ids
    /\ s.idle \cup s.lost \subseteq Secondaries
    /\ s.acks \cup peer.unacked \subseteq Ids \cup Told
    /\ q \in [Part -> [id : 0..MaxId, session : 0..MaxMishaps, done : BOOLEAN]]

\* A secondary worker has something to do or its idle timer runs: none stays
\* for ever because its timer was cancelled for a message that was answered.
IdleArmed == \A w \in Secondaries : s.load[w] # {} \/ w \in s.idle

\* A query that waits for its answer is in the load of one worker: no worker
\* is closed over it, and no late answer to another takes it away.
Accounted ==
    \A p \in Part : q[p].id # 0 /\ q[p].session = s.id /\ ~q[p].done =>
        Cardinality({w \in DOMAIN s.load : q[p].id \in s.load[w]}) = 1

\* All three: the workers of a session are as many as it may have, each busy
\* with queries of its own or about to be closed.
WorkersSound == TypeOK /\ IdleArmed /\ Accounted

\* Every part is transferred in the end, whatever is lost or replaced.
Transferred == <>(\A p \in Part : q[p].done)

\* What the server says is acknowledged in the end, unless the timer fired
\* before the client was configured: then the session acknowledges nothing more.
Acknowledged == peer.unacked # {} ~> peer.unacked = {} \/ s.early

\* Secondary connections are closed in the end, unless a message of a query
\* that was sent again stays in the load.
Closes ==
    (\A p \in Part : q[p].done) ~>
        (Secondaries = {} \/ \E w \in Secondaries : s.load[w] # {})
=============================================================================
