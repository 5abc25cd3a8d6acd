---------------------------- MODULE SecretChatSeq ----------------------------
(***************************************************************************)
(* Sequencing of the messages of one secret chat (src/secret_chat.cpp and  *)
(* query_messages_send_encrypted_base.cpp) between its two ends.           *)
(*                                                                         *)
(* Every end numbers what it sends (out_seq_no), says in each message how  *)
(* much of the other end's numbering it has processed (in_seq_no, here     *)
(* "ack"), keeps what it sent until the other end has acknowledged it, and *)
(* parks what arrives behind a hole.  A hole is reported to the sender by  *)
(* a "resend" action, itself a numbered message.  With real-time quality   *)
(* of service a hole is given up when the skip timer fires.                *)
(*                                                                         *)
(* The storages of unconfirmed messages and the two sequence numbers       *)
(* survive a restart of the client; maps, flags and timers do not.         *)
(***************************************************************************)
EXTENDS Integers, FiniteSets

CONSTANTS
    MaxSeq,      \* bound: sequence numbers p may use are below MaxSeq[p]
    MaxText,     \* bound: p starts texts and deletes below number MaxText[p]
    MaxRestart,  \* bound: restarts of an end
    MaxLoss,     \* bound: messages of an end whose query fails
    Lossy,       \* Lossy[p]: the kinds of messages whose query may fail
    RealTime,    \* the ends whose quality of service is real_time
    Deletes      \* TRUE when the ends delete messages they sent

Side == {"admin", "member"}

Other(p) == IF p = "admin" THEN "member" ELSE "admin"

ASSUME ConstantsAssumption ==
    /\ MaxSeq \in [Side -> Nat] /\ MaxText \in [Side -> Nat]
    /\ MaxRestart \in [Side -> Nat] /\ MaxLoss \in Nat
    /\ RealTime \subseteq Side
    /\ Lossy \in [Side -> SUBSET {"text", "delete", "resend"}]
    /\ Deletes \in BOOLEAN

VARIABLES
    outSeq,     \* m_out_seq_no, persisted through secret_chat_update()
    inSeq,      \* m_in_seq_no, persisted through secret_chat_update()
    stOut,      \* storage of unconfirmed outgoing messages
    stIn,       \* storage of unconfirmed incoming messages
    unOut,      \* m_unconfirmed_outgoing_seq_numbers and ..._message_ids
    loadedOut,  \* m_unconfirmed_outgoing_messages_loaded
    unIn,       \* m_unconfirmed_incoming_messages
    loadedIn,   \* m_unconfirmed_incoming_messages_loaded
    fill,       \* m_fill_hole_timer is armed
    skip,       \* m_skip_hole_timer is armed
    net,        \* net[p]: copies on their way to p
    texts,      \* ghost: the numbers p gave to messages the application sees
    got,        \* ghost: how often p's application was given a number
    gone,       \* ghost: ids message_deleted() named to p's application
    restarts,   \* ghost: restarts of p so far
    lost        \* ghost: messages of p whose query failed

persisted == <<outSeq, inSeq, stOut, stIn>>
volatile  == <<unOut, loadedOut, unIn, loadedIn, fill, skip>>
ghosts    == <<texts, got, gone, restarts, lost>>
vars      == <<outSeq, inSeq, stOut, stIn, unOut, loadedOut, unIn, loadedIn,
               fill, skip, net, texts, got, gone, restarts, lost>>

-----------------------------------------------------------------------------
(* Messages                                                                *)

Kinds == {"text", "delete", "resend", "blank"}

\* A decrypted message: its number, the acknowledgement, what it carries, the
\* id of a text (or of the text a delete names), and the range of a resend.
\* "blank" is a parked message whose content was dropped (message == nullptr).
Message == [seq : Nat, ack : Nat, kind : Kinds, id : Nat, lo : Nat, hi : Nat]

Seqs(S) == {m.seq : m \in S}
Blank(m) == [m EXCEPT !.kind = "blank"]
Within(S, lo, hi) == {m \in S : lo <= m.seq /\ m.seq <= hi}

IsFirst(m, S) == m \in S /\ \A k \in S : m.seq <= k.seq

\* The message whose numbers stand for a batch.
IsLast(m, S) == m \in S /\ \A k \in S : k.seq <= m.seq

Numbers == UNION {0..MaxSeq[p] - 1 : p \in Side}

\* Mutant: the run does not stop at a hole.
RunOverHole(S, n) == {m \in S : m.seq >= n}

\* The messages numbered from n on without a gap.
RunFrom(S, n) == {m \in S : m.seq >= n /\ n..m.seq \subseteq Seqs(S)}

\* The stored messages the batch B asks to be sent again.
Wanted(p, B) ==
    UNION {Within(stOut[p], r.lo, r.hi) : r \in {m \in B : m.kind = "resend"}}

\* Mutants: the message the acknowledgement names is removed as well; whatever
\* is stored is removed.
TrimsOneMore(S, ack) == {m \in S : m.seq > ack}
ForgetsAll(S, n)     == {}

\* What is left of the sender's storage and of the receiver's, once the other
\* end has processed what is below ack, and once n is processed.
Unacknowledged(S, ack) == {m \in S : m.seq >= ack}
Unconsumed(S, n)       == {m \in S : m.seq > n}

\* The ids the batch B deletes.
Targets(B) == {m.id : m \in {k \in B : k.kind = "delete"}}

\* S after incoming_messages_deleted() has dropped the contents of the ids T.
Dropped(S, T) == {IF m.kind = "text" /\ m.id \in T THEN Blank(m) ELSE m : m \in S}

-----------------------------------------------------------------------------
Init ==
    /\ outSeq = [p \in Side |-> 0]
    /\ inSeq = [p \in Side |-> 0]
    /\ stOut = [p \in Side |-> {}]
    /\ stIn = [p \in Side |-> {}]
    /\ unOut = [p \in Side |-> {}]
    /\ loadedOut = [p \in Side |-> FALSE]
    /\ unIn = [p \in Side |-> {}]
    /\ loadedIn = [p \in Side |-> FALSE]
    /\ fill = [p \in Side |-> FALSE]
    /\ skip = [p \in Side |-> FALSE]
    /\ net = [p \in Side |-> {}]
    /\ texts = [p \in Side |-> {}]
    /\ got = [p \in Side |-> [s \in Numbers |-> 0]]
    /\ gone = [p \in Side |-> {}]
    /\ restarts = [p \in Side |-> 0]
    /\ lost = [p \in Side |-> 0]

-----------------------------------------------------------------------------
(* Sending                                                                 *)

\* Mutant: only what the other end could still ask for is loaded.
LoadedFromIn(p) == IF loadedOut[p] THEN unOut[p] ELSE Within(stOut[p], inSeq[p], outSeq[p])

\* m_unconfirmed_outgoing_* once load_unconfirmed_outgoing_messages_if_needed()
\* has run.
OutgoingLoaded(p) ==
    IF loadedOut[p] THEN unOut[p] ELSE Within(stOut[p], 0, outSeq[p])

NewMessage(p, kind, id, lo, hi) ==
    [seq |-> outSeq[p], ack |-> inSeq[p], kind |-> kind, id |-> id, lo |-> lo, hi |-> hi]

\* The query of m reaches the server, or fails (on_error()): m stays stored.
Transmit(p, m) ==
    \/ /\ net' = [net EXCEPT ![Other(p)] = @ \cup {m}]
       /\ lost' = lost
    \/ /\ m.kind \in Lossy[p]
       /\ lost[p] < MaxLoss
       /\ lost' = [lost EXCEPT ![p] = @ + 1]
       /\ net' = net

\* send_message() of the new message m up to will_send(): the number is given
\* when the query is assembled, m is stored before it goes on the wire.
Send(p, m) ==
    /\ outSeq[p] < MaxSeq[p]
    /\ outSeq' = [outSeq EXCEPT ![p] = @ + 1]
    /\ stOut' = [stOut EXCEPT ![p] = @ \cup {m}]
    /\ unOut' = [unOut EXCEPT ![p] = OutgoingLoaded(p) \cup {m}]
    /\ loadedOut' = [loadedOut EXCEPT ![p] = TRUE]
    /\ texts' = [texts EXCEPT ![p] = IF m.kind = "text" THEN @ \cup {m.seq} ELSE @]
    /\ Transmit(p, m)
    /\ UNCHANGED <<inSeq, stIn>>

SendText(p) ==
    /\ outSeq[p] < MaxText[p]
    /\ Send(p, NewMessage(p, "text", outSeq[p], 0, 0))
    /\ UNCHANGED <<unIn, loadedIn, fill, skip, got, gone, restarts>>

\* delete_message(): a service message that names an earlier text.
SendDelete(p) ==
    /\ Deletes
    /\ outSeq[p] < MaxText[p]
    /\ \E id \in texts[p] : Send(p, NewMessage(p, "delete", id, 0, 0))
    /\ UNCHANGED <<unIn, loadedIn, fill, skip, got, gone, restarts>>

\* The application sends again a text it saw fail: send_message() with an id
\* that is still unacknowledged finds the number the text already has.
SendAgain(p) ==
    \E t \in {m \in stOut[p] : m.kind = "text"} :
        \/ /\ t \in OutgoingLoaded(p)
           /\ unOut' = [unOut EXCEPT ![p] = OutgoingLoaded(p)]
           /\ loadedOut' = [loadedOut EXCEPT ![p] = TRUE]
           /\ net' = [net EXCEPT ![Other(p)] = @ \cup Within(stOut[p], t.seq, t.seq)]
           /\ UNCHANGED <<persisted, unIn, loadedIn, fill, skip, ghosts>>
        \/ /\ t \notin OutgoingLoaded(p)
           /\ Send(p, NewMessage(p, "text", t.id, 0, 0))
           /\ UNCHANGED <<unIn, loadedIn, fill, skip, got, gone, restarts>>

-----------------------------------------------------------------------------
(* Receiving                                                               *)

\* The records of the storage that load_unconfirmed_incoming_messages_if_needed()
\* reads.
Loadable(p) == {m \in stIn[p] : m.seq >= inSeq[p] + 1}

\* Mutant: in_seq_no stays at the message processed.
LastConsumed(m) == m.seq

\* in_seq_no after a batch that ends with m.
NextExpected(m) == m.seq + 1

\* process_messages(B) on the arrival of the copies A, where Q is
\* m_unconfirmed_incoming_messages meanwhile.  The acknowledgement and the new
\* in_seq_no are those of the last message.
Process(p, A, B, Q) ==
    \E last \in B :
    LET ids  == Targets(B)
        look == IF ids # {} /\ ~loadedIn[p] THEN Loadable(p) ELSE Q
        hit  == ids \cap {m.id : m \in {k \in look : k.kind = "text"}}
    IN /\ IsLast(last, B)
       /\ inSeq' = [inSeq EXCEPT ![p] = NextExpected(last)]
       /\ loadedIn' = [loadedIn EXCEPT ![p] = @ \/ ids # {}]
       /\ unIn' = [unIn EXCEPT ![p] = {m \in Dropped(look, hit) : m.seq \notin Seqs(B)}]
       /\ stIn' = [stIn EXCEPT ![p] = Unconsumed(Dropped(@, hit), last.seq)]
       /\ net' = [net EXCEPT ![p] = @ \ A, ![Other(p)] = @ \cup Wanted(p, B)]
       /\ stOut' = [stOut EXCEPT ![p] = Unacknowledged(@, last.ack)]
       /\ unOut' = [unOut EXCEPT ![p] = Unacknowledged(@, last.ack)]
       /\ got' = [got EXCEPT ![p] = [s \in Numbers |->
                     IF \E m \in B : m.kind = "text" /\ m.seq = s THEN @[s] + 1 ELSE @[s]]]
       /\ gone' = [gone EXCEPT ![p] = @ \cup (ids \ hit)]

\* queue_unconfirmed_incoming_message(m): m is stored, parked unless its number
\* is parked already, and the fill-hole timer started.
Park(p, m) ==
    LET q == IF loadedIn[p] THEN unIn[p] ELSE Loadable(p)
    IN /\ stIn' = [stIn EXCEPT ![p] = {k \in @ : k.seq # m.seq} \cup {m}]
       /\ unIn' = [unIn EXCEPT ![p] = IF m.seq \in Seqs(q) THEN q ELSE q \cup {m}]
       /\ loadedIn' = [loadedIn EXCEPT ![p] = TRUE]
       /\ fill' = [fill EXCEPT ![p] = TRUE]

\* message_received(): the copy is one the chat drops.
Stale(p, m) == m.ack > outSeq[p] \/ m.seq < inSeq[p]

ReceiveStale(p, m) ==
    /\ Stale(p, m)
    /\ net' = [net EXCEPT ![p] = @ \ {m}]
    /\ UNCHANGED <<persisted, volatile, ghosts>>

\* Mutant: a resend action behind a hole waits for its turn.
ServedInTurn(p, m) == {}

\* What a resend action is answered with when a hole lies ahead of it.
ServedEarly(p, m) == Wanted(p, {m})

\* message_received(): m is ahead of in_seq_no.  A resend action is served at
\* once and parked without its content.
ReceiveAhead(p, m) ==
    /\ ~Stale(p, m)
    /\ m.seq > inSeq[p]
    /\ Park(p, IF m.kind = "resend" THEN Blank(m) ELSE m)
    /\ net' = [net EXCEPT ![p] = @ \ {m}, ![Other(p)] = @ \cup ServedEarly(p, m)]
    /\ UNCHANGED <<outSeq, inSeq, stOut, unOut, loadedOut, skip, ghosts>>

\* message_received(): m is the next message; it is processed together with
\* the parked ones that follow it directly.
ReceiveNext(p, m) ==
    LET Q == IF m.seq \in Seqs(unIn[p]) THEN unIn[p] ELSE unIn[p] \cup {m}
        B == RunFrom(Q, inSeq[p])
    IN /\ ~Stale(p, m)
       /\ m.seq = inSeq[p]
       /\ Process(p, {m}, B, Q \ B)
       /\ UNCHANGED <<outSeq, loadedOut, fill, skip, texts, restarts, lost>>

Receive(p, m) == ReceiveStale(p, m) \/ ReceiveAhead(p, m) \/ ReceiveNext(p, m)

-----------------------------------------------------------------------------
(* Timers and restarts                                                     *)

ForgetVolatile(p) ==
    /\ unOut' = [unOut EXCEPT ![p] = {}]
    /\ loadedOut' = [loadedOut EXCEPT ![p] = FALSE]
    /\ unIn' = [unIn EXCEPT ![p] = {}]
    /\ loadedIn' = [loadedIn EXCEPT ![p] = FALSE]
    /\ fill' = [fill EXCEPT ![p] = FALSE]
    /\ skip' = [skip EXCEPT ![p] = FALSE]

\* The assertion of first_hole() that the fill-hole timer runs into.
HoleIsAhead(p) == \A m \in unIn[p] : m.seq > inSeq[p]

\* The quality of service gives a hole that was asked for a limited life.
GivesUp(p) == p \in RealTime

\* The fill-hole timer: ask for the first hole and, in real time, give it a
\* limited life.  A failed assertion ends the process.
FillHole(p) ==
    /\ fill[p]
    /\ \/ /\ unIn[p] = {}
          /\ fill' = [fill EXCEPT ![p] = FALSE]
          /\ UNCHANGED <<persisted, unOut, loadedOut, unIn, loadedIn, skip, net, ghosts>>
       \/ /\ HoleIsAhead(p)
          /\ \E m \in unIn[p] :
                /\ IsFirst(m, unIn[p])
                /\ Send(p, NewMessage(p, "resend", 0, inSeq[p], m.seq - 1))
          /\ fill' = [fill EXCEPT ![p] = FALSE]
          /\ skip' = [skip EXCEPT ![p] = @ \/ GivesUp(p)]
          /\ UNCHANGED <<unIn, loadedIn, got, gone, restarts>>
       \/ /\ ~HoleIsAhead(p)
          /\ ForgetVolatile(p)
          /\ UNCHANGED <<persisted, net, ghosts>>

\* The skip-hole timer: process the parked messages up to the next hole, and
\* start the fill-hole timer again.
SkipHole(p) ==
    /\ skip[p]
    /\ skip' = [skip EXCEPT ![p] = FALSE]
    /\ fill' = [fill EXCEPT ![p] = TRUE]
    /\ \/ /\ unIn[p] = {}
          /\ UNCHANGED <<inSeq, loadedIn, unIn, stIn, net, stOut, unOut, got, gone>>
       \/ \E m \in unIn[p] :
             /\ IsFirst(m, unIn[p])
             /\ Process(p, {}, RunFrom(unIn[p], m.seq), unIn[p])
    /\ UNCHANGED <<outSeq, loadedOut, texts, restarts, lost>>

\* The client of p ends and starts again between two handlers.
Restart(p) ==
    /\ restarts[p] < MaxRestart[p]
    /\ restarts' = [restarts EXCEPT ![p] = @ + 1]
    /\ ForgetVolatile(p)
    /\ UNCHANGED <<persisted, net, texts, got, gone, lost>>

Next ==
    \E p \in Side :
        \/ SendText(p)
        \/ SendDelete(p)
        \/ SendAgain(p)
        \/ \E m \in net[p] : Receive(p, m)
        \/ FillHole(p)
        \/ SkipHole(p)
        \/ Restart(p)

Spec == Init /\ [][Next]_vars

\* The server delivers each message it holds, and an armed timer fires.
Fairness ==
    \A p \in Side :
        /\ \A s \in Numbers :
              WF_vars(\E m \in net[p] : m.seq = s /\ Receive(p, m))
        /\ WF_vars(FillHole(p))
        /\ WF_vars(SkipHole(p))

FairSpec == Spec /\ Fairness

-----------------------------------------------------------------------------
(* Properties                                                              *)

\* Every variable holds a value of its kind.
TypeOK ==
    /\ outSeq \in [Side -> Nat]
    /\ inSeq \in [Side -> Nat]
    /\ stOut \in [Side -> SUBSET Message]
    /\ stIn \in [Side -> SUBSET Message]
    /\ unOut \in [Side -> SUBSET Message]
    /\ loadedOut \in [Side -> BOOLEAN]
    /\ unIn \in [Side -> SUBSET Message]
    /\ loadedIn \in [Side -> BOOLEAN]
    /\ fill \in [Side -> BOOLEAN]
    /\ skip \in [Side -> BOOLEAN]
    /\ net \in [Side -> SUBSET Message]
    /\ texts \in [Side -> SUBSET Nat]
    /\ got \in [Side -> [Numbers -> Nat]]
    /\ gone \in [Side -> SUBSET Nat]
    /\ restarts \in [Side -> Nat]
    /\ lost \in [Side -> Nat]

\* A message leaves the sender's storage only after the receiver has processed
\* it: whatever the receiver may still ask to be sent again is there, whatever
\* acknowledgements crossed, arrived late or were sent again meanwhile
\* (process_messages(), the removal below the peer's in_seq_no).
Retained ==
    \A p \in Side : inSeq[Other(p)]..outSeq[p] - 1 \subseteq Seqs(stOut[p])

\* Without real-time skipping the application is given every text exactly once,
\* when in_seq_no passes it; with it, at most once and never later.
Delivery ==
    \A p \in Side : \A s \in Numbers :
        /\ got[p][s] <= 1
        /\ s >= inSeq[p] => got[p][s] = 0
        /\ s < inSeq[p] /\ s \in texts[Other(p)] /\ p \notin RealTime => got[p][s] = 1

\* When the fill-hole timer fires, the assertion of first_hole() holds: what is
\* parked lies ahead of in_seq_no, and the range asked for is a hole.
HoleAssertion == \A p \in Side : fill[p] => HoleIsAhead(p)

\* What is parked in memory is in the storage with the same content, so that a
\* restart forgets nothing that was accepted, and revives nothing dropped.
ParkedIsStored == \A p \in Side : unIn[p] \subseteq stIn[p]

\* A text the application sends again while unacknowledged keeps its number:
\* no id is in the storage under two numbers (send_message()).
OneNumberPerText ==
    \A p \in Side : \A m, k \in stOut[p] :
        m.kind = "text" /\ k.kind = "text" /\ m.id = k.id => m.seq = k.seq

\* A message is not given to the application in a handler after the one that
\* told it the message is deleted, however late copies of it arrive.
NoDeliveryAfterDelete ==
    [][\A p \in Side : \A s \in gone[p] : got'[p][s] = got[p][s]]_<<gone, got>>

\* A parked message is processed, or skipped, in the end: two ends that both
\* wait behind a hole serve each other's resend requests (the case
\* message_received() makes of a resend action ahead of in_seq_no).
ParkedIsProcessed ==
    \A p \in Side : \A s \in Numbers :
        s \in Seqs(unIn[p]) ~> inSeq[p] > s

\* The chat implements SecretChatOrder: holes, resends, duplicates and restarts
\* are invisible in the numbering and in what the application is given.
Order == INSTANCE SecretChatOrder WITH sent <- outSeq, consumed <- inSeq

OrderSpec == Order!Spec

-----------------------------------------------------------------------------
(* The inductive invariant of the proofs                                   *)

\* m is what p sent under its number, or a parked resend without its content.
Genuine(p, m) ==
    /\ m.seq < outSeq[p]
    /\ m.ack <= inSeq[p]
    /\ m.kind = "text" <=> m.seq \in texts[p]
    /\ m.kind = "text" => m.id = m.seq
    /\ m.kind = "delete" => m.id < m.seq

\* The messages of p, wherever they are.
Copies(p) == stOut[p] \cup net[Other(p)] \cup stIn[Other(p)] \cup unIn[Other(p)]

Numbered(p) ==
    /\ \A m \in Copies(p) : Genuine(p, m)
    /\ \A s \in texts[p] : s < outSeq[p]
    /\ inSeq[Other(p)] <= outSeq[p]
    /\ outSeq[p] <= MaxSeq[p]

Loaded(p) ==
    /\ \A m \in unIn[p] : m.seq >= inSeq[p]
    /\ ~loadedIn[p] => unIn[p] = {}
    /\ loadedOut[p] => unOut[p] = stOut[p]

SkipIsRealTime(p) == skip[p] => p \in RealTime

\* What the application was told to delete has been consumed.
GoneIsConsumed(p) == \A s \in gone[p] : s < inSeq[p]

\* The strengthening that the steps preserve.
IInv ==
    /\ TypeOK
    /\ Retained
    /\ Delivery
    /\ \A p \in Side :
          Numbered(p) /\ Loaded(p) /\ SkipIsRealTime(p) /\ GoneIsConsumed(p)

=============================================================================
