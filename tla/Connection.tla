------------------------------ MODULE Connection ------------------------------
(***************************************************************************)
(* One connection to a data centre (net/tgl_net_base.cpp): it is opened,   *)
(* watched by a ping timer, and restarted by a restart timer after a       *)
(* failure while the client is online.  The socket below it (connect(),    *)
(* disconnect(), the callbacks connect_finished(), lost() and error()) is  *)
(* a subclass outside the library.                                         *)
(*                                                                         *)
(* Times are abstracted: the restart timer fires some time after it is     *)
(* armed, and quiet tells apart what ping() tells apart.                   *)
(***************************************************************************)
EXTENDS Integers

CONSTANTS
    MaxFaults   \* bound: things that go wrong

ASSUME ConnectionAssumption == MaxFaults \in Nat

VARIABLES
    state,    \* m_state
    online,   \* m_online_status
    restart,  \* m_restart_timer is set
    ping,     \* m_ping_timer is running
    quiet,    \* the time since m_last_receive_time: below PING_DURATION (0),
              \* below PING_FAIL_DURATION (1), or longer (2)
    wire,     \* the socket: none, being connected, up, or silently dead
    alive,    \* the owner holds the connection: weak_this.lock() succeeds
    faults    \* ghost: things that went wrong so far

vars == <<state, online, restart, ping, quiet, wire, alive, faults>>

Init ==
    /\ state = "none"
    /\ online \in BOOLEAN
    /\ restart = FALSE
    /\ ping = FALSE
    /\ quiet = 0
    /\ wire = "none"
    /\ alive = TRUE
    /\ faults = 0

Fault ==
    /\ faults < MaxFaults
    /\ faults' = faults + 1

\* Mutant: the restart is scheduled before the state is set.
ScheduledBefore(s) == restart \/ (state \notin {"closed", "connecting"} /\ online)

\* m_restart_timer after schedule_restart() in state s.
Scheduled(s) == restart \/ (s \notin {"closed", "connecting"} /\ online)

-----------------------------------------------------------------------------
(* Opening and restarting                                                  *)

\* open(): connect() starts to connect, or fails at once.
Dial ==
    \/ /\ state' = "connecting"
       /\ wire' = "dialing"
       /\ restart' = FALSE
       /\ faults' = faults
    \/ /\ Fault
       /\ state' = "failed"
       /\ wire' = "none"
       /\ restart' = online

Open ==
    /\ state = "none"
    /\ Dial
    /\ UNCHANGED <<online, ping, quiet, alive>>

\* restart(): the timer is reset, the socket closed and connected again.
Restart ==
    /\ restart /\ alive
    /\ ping' = FALSE
    /\ Dial
    /\ UNCHANGED <<online, quiet, alive>>

\* start_ping_timer()
Watched == TRUE

\* connect_finished(TRUE), whatever became of the state meanwhile.
Connected ==
    /\ wire = "dialing"
    /\ wire' = "up"
    /\ state' = "ready"
    /\ ping' = Watched
    /\ quiet' = 0
    /\ UNCHANGED <<online, restart, alive, faults>>

\* connect_finished(FALSE)
ConnectFails ==
    /\ wire = "dialing"
    /\ Fault
    /\ wire' = "none"
    /\ state' = "failed"
    /\ restart' = Scheduled("failed")
    /\ UNCHANGED <<online, ping, quiet, alive>>

-----------------------------------------------------------------------------
(* A connection that is up                                                 *)

\* data_received(), and the client takes the data.
Data ==
    /\ wire = "up"
    /\ ping' = TRUE
    /\ quiet' = 0
    /\ UNCHANGED <<state, online, restart, wire, alive, faults>>

\* data_received(), and consume_data() finds that the client does not.
BadData ==
    /\ wire = "up"
    /\ Fault
    /\ ping' = TRUE
    /\ quiet' = 0
    /\ state' = "failed"
    /\ restart' = Scheduled("failed")
    /\ UNCHANGED <<online, wire, alive>>

\* lost(): the state is kept.
Lost ==
    /\ wire \in {"up", "dead"}
    /\ Fault
    /\ wire' = "none"
    /\ restart' = Scheduled(state)
    /\ UNCHANGED <<state, online, ping, quiet, alive>>

\* error()
Error ==
    /\ wire \in {"up", "dead"}
    /\ Fault
    /\ wire' = "none"
    /\ state' = "failed"
    /\ restart' = Scheduled("failed")
    /\ UNCHANGED <<online, ping, quiet, alive>>

\* The peer or the network goes away without a sign.
Dies ==
    /\ wire = "up"
    /\ Fault
    /\ wire' = "dead"
    /\ UNCHANGED <<state, online, restart, ping, quiet, alive>>

\* Time passes.  On a wire that is up the answer to a ping comes in time, or
\* something is wrong.
Tick ==
    /\ quiet < 2
    /\ quiet' = quiet + 1
    /\ IF wire = "up" /\ quiet = 1 THEN Fault ELSE faults' = faults
    /\ UNCHANGED <<state, online, restart, ping, wire, alive>>

\* Mutant: a silent connection is pinged again and again.
PingsOn == FALSE

\* ping(): nothing has been received for PING_FAIL_DURATION.
PingFailed == quiet = 2

\* The ping timer, when ping() gives the connection up; otherwise it does not
\* change anything here but start again.
PingTimer ==
    /\ ping /\ alive
    /\ PingFailed
    /\ ping' = FALSE
    /\ state' = "failed"
    /\ restart' = Scheduled("failed")
    /\ UNCHANGED <<online, quiet, wire, alive, faults>>

-----------------------------------------------------------------------------
(* The client                                                              *)

\* on_online_status_changed(); open() has registered the observer.
GoesOffline ==
    /\ state \notin {"none", "closed"} /\ online
    /\ Fault
    /\ online' = FALSE
    /\ UNCHANGED <<state, restart, ping, quiet, wire, alive>>

\* Coming online drops the connection there is and restarts at once.
GoesOnline ==
    /\ state \notin {"none", "closed"} /\ ~online
    /\ online' = TRUE
    /\ state' = "failed"
    /\ restart' = TRUE
    /\ UNCHANGED <<ping, quiet, wire, alive, faults>>

\* close(), by the owner, which lets the connection go: session::clear(), the
\* timer of a secondary worker.
Close ==
    /\ state \notin {"none", "closed"}
    /\ state' = "closed"
    /\ ping' = FALSE
    /\ wire' = "none"
    /\ alive' = FALSE
    /\ UNCHANGED <<online, restart, quiet, faults>>

Next ==
    \/ Open \/ Restart \/ Connected \/ ConnectFails
    \/ Data \/ BadData \/ Lost \/ Error \/ Dies \/ Tick \/ PingTimer
    \/ GoesOffline \/ GoesOnline \/ Close

Spec == Init /\ [][Next]_vars

\* An attempt to connect ends, timers fire, and time passes.
Fairness ==
    /\ WF_vars(Open)
    /\ WF_vars(Connected \/ ConnectFails)
    /\ WF_vars(Restart)
    /\ WF_vars(PingTimer)
    /\ WF_vars(Tick)

FairSpec == Spec /\ Fairness

-----------------------------------------------------------------------------
(* Properties                                                              *)

\* Every variable holds a value of its kind.
TypeOK ==
    /\ state \in {"none", "connecting", "ready", "failed", "closed"}
    /\ online \in BOOLEAN /\ restart \in BOOLEAN /\ ping \in BOOLEAN
    /\ alive \in BOOLEAN
    /\ quiet \in 0..2
    /\ wire \in {"none", "dialing", "up", "dead"}
    /\ faults \in Nat

\* No connection is stranded: while the client is online a failed one is about
\* to restart, whatever schedule_restart() was refused for, and when.
NeverStranded ==
    state = "failed" /\ online => restart

\* A connection that claims to be ready is watched, or about to restart; one
\* that claims to connect is connecting.
NeverUnwatched ==
    /\ state = "ready" => ping \/ restart
    /\ state = "connecting" => wire = "dialing"

\* What the steps preserve.
IInv == TypeOK /\ NeverStranded /\ NeverUnwatched

\* Once the client stays online and nothing goes wrong any more, the connection
\* becomes ready and stays so, though its peer may have gone without a sign.
Recovers ==
    <>[](online /\ alive) => <>[](state = "ready" /\ wire = "up")

=============================================================================
