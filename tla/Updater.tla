------------------------------- MODULE Updater -------------------------------
(***************************************************************************)
(* Updates (updater.cpp, query_get_difference.cpp, query_get_state.h,      *)
(* query_lookup_state.h and the counters of user_agent.cpp).  The server   *)
(* numbers the events of two boxes, pts for messages and qts for secret    *)
(* chats, and pushes them.  The client takes an event that is the next of  *)
(* its box, drops one that is old, and asks for the difference when one    *)
(* leaves a hole; while it waits for it every push is dropped.             *)
(***************************************************************************)
EXTENDS Integers, FiniteSets, Sequences

CONSTANTS
    Counts,      \* the values of pts_count
    MaxPts,      \* bound: the highest pts of the server
    MaxQts,      \* bound: the highest qts of the server
    MaxSeq,      \* bound: the containers the server numbers
    Faults,      \* which faults there are: "error", "logout"
    MaxFaults,   \* bound: how many of them
    None

ASSUME UpdaterAssumption ==
    /\ Counts \subseteq Nat
    /\ {MaxPts, MaxSeq} \subseteq Nat \ {0}    \* the server begins with 1
    /\ {MaxQts, MaxFaults} \subseteq Nat
    /\ Faults \subseteq {"error", "logout"}

VARIABLES
    made,     \* the server: its pts, qts and seq
    log,      \* the server: the events it has made
    client,   \* the counters and the lock of user_agent, and its queries
    base,     \* ghost: from where in each box the client follows
    got,      \* ghost: the events the application was given
    again,    \* ghost: those it was given more than once
    outlived, \* ghost: a fetch has outlived a logout
    aborted,  \* an assertion has failed
    faults    \* the errors and logouts so far

vars == <<made, log, client, base, got, again, outlived, aborted, faults>>

Boxes == {"pts", "qts"}

\* The event number `at' of its box; a pts event may take several numbers.
Events == [box : {"pts"}, at : 1..MaxPts, count : Counts]
          \cup [box : {"qts"}, at : 1..MaxQts, count : {1}]

Numbers == [pts : 0..MaxPts, qts : 0..MaxQts, seq : 0..MaxSeq]

Reached == [pts : 0..MaxPts, qts : 0..MaxQts]

\* A query carries the counters it was made with; old tells the queries of
\* an earlier session apart.  An answer is final, or leaves the difference
\* in the middle.
Queries == [kind : {"difference", "state", "lookup"}, from : Reached, old : BOOLEAN,
            to : Numbers \cup {None}, final : BOOLEAN]

\* No assertion has failed so far.
Running == ~aborted

Fetches(c) == {q \in c.asked : q.kind # "lookup"}

Init ==
    /\ made = [pts |-> 1, qts |-> 0, seq |-> 1]
    /\ log = {}
    /\ \E pts \in {0, 1} :
         /\ client = [n |-> [pts |-> pts, qts |-> 0, seq |-> 0], locked |-> FALSE, asked |-> {}]
         /\ base = [pts |-> pts, qts |-> 0]
    /\ got = {} /\ again = {}
    /\ outlived = FALSE /\ aborted = FALSE
    /\ faults = 0

-----------------------------------------------------------------------------
(* Counters and queries                                                    *)

\* set_pts(), set_qts(), set_seq(): never while locked, never backwards.
Advanced(c, key, value) ==
    IF c.locked \/ value <= c.n[key] THEN c ELSE [c EXCEPT !.n[key] = value]

\* Only a difference says from where.
Query(c, kind) ==
    [kind |-> kind, old |-> FALSE, to |-> None, final |-> TRUE,
     from |-> IF kind = "difference" THEN [b \in Boxes |-> c.n[b]] ELSE [b \in Boxes |-> 0]]

\* get_difference(false): the whole state when there is none to start from.
GetDifference(c) ==
    IF c.locked THEN c
    ELSE [c EXCEPT !.locked = TRUE,
                   !.asked = @ \cup {Query(c, IF c.n.pts > 0 THEN "difference" ELSE "state")}]

-----------------------------------------------------------------------------
(* Pushes                                                                  *)

\* Mutant of PtsVerdict: a hole is not noticed.
HoleTaken(c, u) == IF c.n.pts # 0 /\ u.at < c.n.pts + u.count THEN "drop" ELSE "take"

\* Mutant of PtsVerdict: pts_count is forgotten in the test for duplicates.
CountForgotten(c, u) ==
    IF c.n.pts = 0 \/ u.count = 0 THEN "take"
    ELSE IF u.at < c.n.pts THEN "drop"
    ELSE IF u.at > c.n.pts + u.count THEN "fetch" ELSE "take"

\* check_pts_diff(), when the lock is free.
PtsVerdict(c, u) ==
    IF c.n.pts = 0 \/ u.count = 0 \/ u.at = c.n.pts + u.count THEN "take"
    ELSE IF u.at < c.n.pts + u.count THEN "drop" ELSE "fetch"

\* check_qts_diff(): after a duplicate too the difference is asked for.
QtsVerdict(c, u) == IF u.at = c.n.qts + u.count THEN "take" ELSE "fetch"

Verdict(c, u) ==
    IF c.locked THEN "drop"
    ELSE IF u.box = "pts" THEN PtsVerdict(c, u) ELSE QtsVerdict(c, u)

\* work_update(), and with it the short messages, and what the answers to
\* "delete message" and "mark read" do to the counters.
Worked(c, u) ==
    CASE Verdict(c, u) = "take"  -> Advanced(c, u.box, u.at)
      [] Verdict(c, u) = "fetch" -> GetDifference(c)
      [] Verdict(c, u) = "drop"  -> c

SeqVerdict(c, start) ==
    IF c.locked THEN "drop"
    ELSE IF start = 0 THEN "take"
    ELSE IF c.n.seq = 0 \/ start <= c.n.seq THEN "drop"
    ELSE IF start > c.n.seq + 1 THEN "fetch" ELSE "take"

\* The client after the first i updates of the container us.
After(c, us, i) ==
    LET after[k \in 0..Len(us)] == IF k = 0 THEN c ELSE Worked(after[k - 1], us[k])
    IN  after[i]

\* The positions of the updates that reach the application.
TakenOf(c, us) == {i \in 1..Len(us) : Verdict(After(c, us, i - 1), us[i]) = "take"}

\* The ghosts, when the updates us reach the client one after the other.
Given(c, us) ==
    LET new == {us[i] : i \in TakenOf(c, us)}
        twice == {us[i] : i \in {j \in TakenOf(c, us) :
                    \/ us[j] \in got
                    \/ \E k \in TakenOf(c, us) : k < j /\ us[k] = us[j]}}
        first == {i \in TakenOf(c, us) : us[i].box = "pts" /\ After(c, us, i - 1).n.pts = 0}
    IN  /\ got' = got \cup new
        /\ again' = again \cup {e \in twice : e.count > 0}
        /\ base' = IF first = {} THEN base
                   ELSE [base EXCEPT !.pts = LET e == us[CHOOSE i \in first : TRUE]
                                             IN  e.at - e.count]

\* An update of its own (updateShort, a short message).
Short(u) ==
    /\ Running
    /\ client' = Worked(client, u)
    /\ Given(client, <<u>>)
    /\ UNCHANGED <<made, log, outlived, aborted, faults>>

\* work_updates() and work_updates_combined(): a fetch may begin between two
\* updates, and then neither the rest nor the number of the container counts.
Container(us, start, seq) ==
    /\ Running
    /\ \/ /\ SeqVerdict(client, start) = "take"
          /\ client' = Advanced(After(client, us, Len(us)), "seq", seq)
          /\ Given(client, us)
       \/ /\ SeqVerdict(client, start) = "fetch"
          /\ client' = GetDifference(client)
          /\ UNCHANGED <<base, got, again>>
    /\ UNCHANGED <<made, log, outlived, aborted, faults>>

\* updatesTooLong, a new session, the application's get_difference(false).
TooLong ==
    /\ Running
    /\ client' = GetDifference(client)
    /\ UNCHANGED <<made, log, base, got, again, outlived, aborted, faults>>

\* get_difference(true): from the start when there is no state.
SyncFromStart ==
    /\ Running
    /\ ~client.locked /\ client.n.pts = 0
    /\ client' = GetDifference([client EXCEPT !.n.pts = 1])
    /\ base' = [base EXCEPT !.pts = 1]
    /\ UNCHANGED <<made, log, got, again, outlived, aborted, faults>>

\* lookup_state(), by a timer; bound: one at a time.
Lookup ==
    /\ Running
    /\ ~client.locked
    /\ client.asked = Fetches(client)
    /\ client' = [client EXCEPT !.asked = @ \cup {Query(client, "lookup")}]
    /\ UNCHANGED <<made, log, base, got, again, outlived, aborted, faults>>

-----------------------------------------------------------------------------
(* Answers                                                                 *)

Answered(c, q) == [c EXCEPT !.asked = @ \ {q}]

\* The events between the counters `from' and `to'.
Between(from, to) == {e \in log : from[e.box] < e.at /\ e.at <= to[e.box] /\ e.count > 0}

\* The counters that an answer sets; an intermediate state has no seq.
Caught(c, q) ==
    LET boxes == Advanced(Advanced(c, "pts", q.to.pts), "qts", q.to.qts)
    IN  IF q.final THEN Advanced(boxes, "seq", q.to.seq) ELSE boxes

\* query_get_difference::on_answer(): the lock is given back, the events go
\* to the application unchecked; after a part the next is asked for.
DifferenceAnswered(q) ==
    /\ Running
    /\ q.kind = "difference" /\ q.to # None /\ client.locked
    /\ LET c == Caught([Answered(client, q) EXCEPT !.locked = FALSE], q)
       IN  client' = IF q.final THEN c ELSE GetDifference(c)
    /\ got' = got \cup Between(q.from, q.to)
    /\ again' = again \cup (got \cap Between(q.from, q.to))
    /\ UNCHANGED <<made, log, base, outlived, aborted, faults>>

\* query_get_state::on_answer(): the client follows from here.
StateAnswered(q) ==
    /\ Running
    /\ q.kind = "state" /\ q.to # None /\ client.locked
    /\ client' = Caught([Answered(client, q) EXCEPT !.locked = FALSE], q)
    /\ base' = [b \in Boxes |-> q.to[b]]
    /\ UNCHANGED <<made, log, got, again, outlived, aborted, faults>>

\* Both begin with assert(m_user_agent.is_diff_locked()).
Abort(q) ==
    /\ Running
    /\ q \in Fetches(client) /\ q.to # None /\ ~client.locked
    /\ aborted' = TRUE
    /\ UNCHANGED <<made, log, client, base, got, again, outlived, faults>>

\* Mutant of Newer: only pts is compared.
NewerPts(n, c) == n.pts > c.n.pts

\* query_lookup_state::on_answer().  The answer is what the server knows at
\* this moment: an older one asks for the same difference or for none.
Newer(n, c) == n.pts > c.n.pts \/ n.qts > c.n.qts \/ n.seq > c.n.seq

LookupAnswered(q) ==
    /\ Running
    /\ q.kind = "lookup"
    /\ client' = IF Newer(made, client) THEN GetDifference(Answered(client, q))
                                        ELSE Answered(client, q)
    /\ UNCHANGED <<made, log, base, got, again, outlived, aborted, faults>>

Fault(kind) == kind \in Faults /\ faults < MaxFaults /\ faults' = faults + 1

\* on_error() of the three: the lock of a fetch stays.
Fails(q) ==
    /\ Running
    /\ q.to = None
    /\ Fault("error")
    /\ client' = Answered(client, q)
    /\ UNCHANGED <<made, log, base, got, again, outlived, aborted>>

\* set_client_logged_out(), and the login after it: the locks are cleared and
\* so is qts, at both ends; queries stay and are sent again, their answers lost.
Logout ==
    /\ Running
    /\ Fault("logout")
    /\ client' = [client EXCEPT !.locked = FALSE, !.n.qts = 0,
                                !.asked = {[q EXCEPT !.old = TRUE, !.to = None, !.final = TRUE] : q \in @}]
    /\ outlived' = (outlived \/ Fetches(client) # {})
    /\ made' = [made EXCEPT !.qts = 0]
    /\ base' = [base EXCEPT !.qts = 0]
    /\ log' = {e \in log : e.box = "pts"}
    /\ got' = {e \in got : e.box = "pts"}
    /\ UNCHANGED <<again, aborted>>

-----------------------------------------------------------------------------
(* The server                                                              *)

Limit(box) == IF box = "pts" THEN MaxPts ELSE MaxQts

Make(box, count) ==
    /\ Running
    /\ made[box] + count <= Limit(box)
    /\ made' = [made EXCEPT ![box] = @ + count]
    /\ log' = log \cup {[box |-> box, at |-> made[box] + count, count |-> count]}
    /\ UNCHANGED <<client, base, got, again, outlived, aborted, faults>>

Number ==
    /\ Running
    /\ made.seq < MaxSeq
    /\ made' = [made EXCEPT !.seq = @ + 1]
    /\ UNCHANGED <<log, client, base, got, again, outlived, aborted, faults>>

\* Where a difference may stop on its way from `from': after some event.
Stops(from) ==
    {n \in [pts : {from.pts} \cup {e.at : e \in {x \in log : x.box = "pts"}},
            qts : from.qts..made.qts, seq : {0}] :
       /\ n.pts >= from.pts
       /\ n.pts > from.pts \/ n.qts > from.qts
       /\ n.pts < made.pts \/ n.qts < made.qts}

\* The server answers q, with what it knows now.
Serve(q) ==
    /\ Running
    /\ q.kind # "lookup" /\ q.to = None
    /\ \/ client' = [client EXCEPT !.asked = (@ \ {q}) \cup {[q EXCEPT !.to = made]}]
       \/ /\ q.kind = "difference"
          /\ \E n \in Stops(q.from) :
               client' = [client EXCEPT !.asked =
                            (@ \ {q}) \cup {[q EXCEPT !.to = n, !.final = FALSE]}]
    /\ UNCHANGED <<made, log, base, got, again, outlived, aborted, faults>>

-----------------------------------------------------------------------------
\* Containers of one or two updates, in the order in which they were made.
Containers == {<<u>> : u \in log}
              \cup {p \in log \X log : p[1].at <= p[2].at /\ p[1] # p[2]}

\* A push arrives any number of times, in any order, or never.
Push ==
    \/ \E u \in log : Short(u)
    \/ \E us \in Containers, start \in 0..made.seq : \E seq \in start..made.seq :
         Container(us, start, seq)
    \/ TooLong

Server == Number \/ Make("qts", 1) \/ \E count \in Counts : Make("pts", count)

Answer(q) == Serve(q) \/ DifferenceAnswered(q) \/ StateAnswered(q) \/ LookupAnswered(q)

Next ==
    \/ Push \/ SyncFromStart \/ Lookup \/ Logout \/ Server
    \/ \E q \in client.asked : Answer(q) \/ Abort(q) \/ Fails(q)

Spec == Init /\ [][Next]_vars

\* Queries are answered, and the timer of the lookups goes on.
Fairness ==
    /\ WF_vars(Lookup)
    /\ \A kind \in {"difference", "state", "lookup"} :
         WF_vars(\E q \in client.asked : q.kind = kind /\ Answer(q))

FairSpec == Spec /\ Fairness

-----------------------------------------------------------------------------
(* Properties                                                              *)

\* The variables have their types, and the client is never ahead of the
\* server (user_agent's counters).
TypeOK ==
    /\ made \in Numbers
    /\ log \subseteq Events
    /\ client.n \in Numbers /\ client.locked \in BOOLEAN /\ client.asked \subseteq Queries
    /\ client.n.pts <= made.pts /\ client.n.seq <= made.seq
    /\ got \subseteq log /\ again \subseteq Events

\* Every event that the client's counters have passed was given to the
\* application: check_pts_diff() and check_qts_diff() let no hole be skipped,
\* whatever is pushed between two answers.
NoneLost ==
    outlived \/ \A e \in log : (e.count > 0 /\ base[e.box] < e.at /\ e.at <= client.n[e.box]) => e \in got

\* No event is given twice, although a difference is worked without a check
\* and pushes may come before, within or after it (the lock).
NoneTwice == outlived \/ again = {}

\* At most one fetch is under way, and the lock is held until it is answered
\* (the assertion in query_get_difference.cpp and query_get_state.h).
OneFetch ==
    outlived \/ /\ Cardinality(Fetches(client)) <= 1
                /\ Fetches(client) # {} => client.locked

\* The lock is held by a fetch that is under way: "update during
\* get_difference, dropping update" (work_update()).
LockHasOwner == client.locked => Fetches(client) # {}

\* Whatever pushes are lost, the client gets to the state of the server,
\* unless its lock has been left behind by an error or a fetch outlived a
\* logout (lookup_state()).
CatchesUp ==
    <>[](client.n = made \/ (client.locked /\ Fetches(client) = {}) \/ outlived)

=============================================================================
