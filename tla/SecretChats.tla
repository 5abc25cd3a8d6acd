----------------------------- MODULE SecretChats -----------------------------
(***************************************************************************)
(* The life of a secret chat and its keys (secret_chat.cpp, user_agent.cpp *)
(* 2269-2439 and the queries query_messages_*_encryption): alice creates   *)
(* it, bob accepts, either discards it, and either may ask for a new key   *)
(* in the chat itself.  Both run this code; the server passes on what they *)
(* say in order, unless something is late.  Sequence numbers are the       *)
(* matter of SecretChatSeq: here a message that cannot be read is dropped. *)
(*                                                                         *)
(* A secret number is a number; g^a is {a}, as is the place where a is     *)
(* kept, and a key made of a and b is {a, b}.                              *)
(***************************************************************************)
EXTENDS Integers, Sequences, FiniteSets

CONSTANTS
    MaxTexts,      \* bound: the texts of each side
    MaxRequests,   \* bound: the requests for a new key of each side
    Faults,        \* the faults there are
    MaxFaults      \* bound: how many of them

ASSUME SecretChatsAssumption == MaxTexts \in Nat /\ MaxRequests \in Nat /\ MaxFaults \in Nat

VARIABLES
    st,       \* the chat of each side, its queries and what comes to it
    srv,      \* what the server knows of the chat
    fresh,    \* the next secret number
    spoiled,  \* ghost: what has happened that the keys do not survive
    dropped,  \* ghost: messages that could not be read: the keys they needed and met
    faults    \* how many faults so far

vars == <<st, srv, fresh, spoiled, dropped, faults>>

Side == {"alice", "bob"}
Other(x) == IF x = "alice" THEN "bob" ELSE "alice"

Init ==
    /\ st = [x \in Side |->
               [chat |-> "absent", key |-> {}, fp |-> {},
                ex |-> "none", id |-> 0, exkey |-> {}, ready |-> TRUE, out |-> <<>>,
                asked |-> <<>>, inbox |-> <<>>, called |-> 0, told |-> 0,
                texts |-> 0, requests |-> 0, left |-> FALSE,
                wait |-> [dh |-> 0, request |-> 0, accept |-> 0, discard |-> 0]]]
    /\ srv = [chat |-> "no", ga |-> {}]
    /\ fresh = 1
    /\ spoiled = {} /\ dropped = {} /\ faults = 0

Fault(kind) == kind \in Faults /\ faults < MaxFaults /\ faults' = faults + 1

Msg(type) == [type |-> type, key |-> {}, g |-> {}, fp |-> {}, id |-> 0]
Secret(body, g, id) == [Msg(body) EXCEPT !.g = g, !.id = id]

-----------------------------------------------------------------------------
(* Sending in the chat                                                     *)

\* confirm_key_exchange(): the new key takes the place of the old one.
Confirmed(c) == [c EXCEPT !.key = c.exkey, !.fp = c.exkey, !.exkey = {}, !.ex = "none", !.id = 0]

\* Mutant of WillSend: the key is switched before the message is assembled.
SwitchedFirst(s, x, m) ==
    LET c == IF s[x].ex = "committed" THEN Confirmed(s[x]) ELSE s[x]
    IN  [s EXCEPT ![x] = [c EXCEPT !.asked = Append(@, [m EXCEPT !.key = c.key, !.fp = c.fp])]]

\* will_send(): the message is assembled under the key of now; what goes out
\* next, if a new key is committed, goes under that.
WillSend(s, x, m) ==
    LET c == [s[x] EXCEPT !.asked = Append(@, [m EXCEPT !.key = s[x].key, !.fp = s[x].fp])]
    IN  [s EXCEPT ![x] = IF c.ex = "committed" THEN Confirmed(c) ELSE c]

\* send_action(), send_message(): refused unless the chat is ok; a query that
\* cannot be sent yet waits with the others of the client.
Post(s, x, m) ==
    IF s[x].chat # "ok" THEN s
    ELSE IF s[x].ready THEN WillSend(s, x, m)
    ELSE [s EXCEPT ![x].out = Append(@, m)]

\* A text goes before a commit, and takes its place as the last under the old key.
Overtakes(s, x) ==
    s[x].ex = "committed" /\ s[x].out # <<>> /\ Head(s[x].out).type # "commit"

-----------------------------------------------------------------------------
(* The exchange of keys                                                    *)

\* Mutant of Aborted: the other side is not told.
AbortedAlone(s, x) == [s EXCEPT ![x].ex = "aborted"]

\* abort_key_exchange().
Aborted(s, x) ==
    [Post(s, x, Secret("abort", {}, s[x].id)) EXCEPT ![x].ex = "aborted"]

\* request_key_exchange(): nothing in the library calls it; a caller that
\* takes no new key while it waits for one is assumed.
RequestKey(x) ==
    /\ st[x].chat = "ok" /\ st[x].ex = "none" /\ st[x].requests < MaxRequests
    /\ st' = LET s == Post(st, x, Secret("request", {fresh}, fresh))
             IN  [s EXCEPT ![x].ex = "requested", ![x].id = fresh, ![x].exkey = {fresh},
                           ![x].requests = @ + 1]
    /\ fresh' = fresh + 1
    /\ UNCHANGED <<srv, spoiled, dropped, faults>>

\* Mutant of Accepted: the own number is kept, as by the side that requests.
AcceptedNumber(s, x, m, b) ==
    LET c == [s EXCEPT ![x].id = m.id, ![x].exkey = {b}, ![x].ex = "accepted"]
    IN  Post(c, x, Secret("accept", {b}, m.id))

\* accept_key_exchange(); b is the own secret number.
Accepted(s, x, m, b) ==
    LET c == [s EXCEPT ![x].id = m.id, ![x].exkey = m.g \cup {b}, ![x].ex = "accepted"]
    IN  Post(c, x, Secret("accept", {b}, m.id))

\* commit_key_exchange(): the commit itself is the last under the old key.
Committed(s, x, m) ==
    LET c == [s EXCEPT ![x].exkey = @ \cup m.g, ![x].ex = "committed"]
    IN  Post(c, x, Secret("commit", {}, m.id))

\* process_messages(), the exchange: of two requests that cross the one with
\* the lower id is taken.  An abort is answered by an abort.
Exchange(s, x, m, b) ==
    LET c == s[x] IN
    CASE m.type = "request"
         /\ (c.ex = "none" \/ (c.ex = "requested" /\ c.id > m.id))  -> Accepted(s, x, m, b)
      [] m.type = "accept" /\ c.ex = "requested" /\ c.id = m.id     -> Committed(s, x, m)
      [] m.type = "commit" /\ c.ex = "accepted" /\ c.id = m.id      ->
            Post([s EXCEPT ![x] = Confirmed(c)], x, Secret("noop", {}, 0))
      [] m.type = "abort" /\ c.ex # "none" /\ c.id = m.id           -> Aborted(s, x)
      [] OTHER                                                      -> s

InChat == {"text", "layer", "noop", "request", "accept", "commit", "abort"}

\* fetch_message(): the first message under a committed key confirms it.
Adopted(c, m) == IF c.ex = "committed" /\ c.exkey = m.fp THEN Confirmed(c) ELSE c

\* The key a message is compared with: while one is committed, that one.
Needed(c) == IF c.ex = "committed" THEN c.exkey ELSE c.fp
ReadWith(c) == IF c.ex = "committed" THEN c.exkey ELSE c.key

Readable(c, m) == m.fp = Needed(c) /\ m.key = ReadWith(c)

-----------------------------------------------------------------------------
(* The life of the chat                                                    *)

\* A callback of the application is called.
Told(s, x) == [s EXCEPT ![x].told = @ + 1]

\* An answer ends its query; one that has timed out is gone.
Waits(x, kind) == st[x].wait[kind] > 0
Done(s, x, kind) == [s EXCEPT ![x].wait[kind] = @ - 1]

\* create_secret_chat(): the chat is allocated, the parameters are asked for.
Create ==
    /\ st["alice"].chat = "absent"
    /\ st' = [st EXCEPT !["alice"].chat = "none", !["alice"].called = 1,
                        !["alice"].wait.dh = 1, !["alice"].asked = <<Msg("dh")>>]
    /\ UNCHANGED <<srv, fresh, spoiled, dropped, faults>>

\* accept_secret_chat_request(): only in the state request; but it stays in
\* that state until the parameters have come.
Accept ==
    /\ st["bob"].chat = "request"
    /\ Waits("bob", "dh") => Fault("twice")
    /\ ~Waits("bob", "dh") => UNCHANGED faults
    /\ st' = [st EXCEPT !["bob"].called = @ + 1, !["bob"].wait.dh = @ + 1,
                        !["bob"].asked = Append(@, Msg("dh"))]
    /\ UNCHANGED <<srv, fresh, spoiled, dropped>>

\* discard_secret_chat(): the own chat stays as it is until the server says so.
Discard(x) ==
    /\ st[x].chat \notin {"absent", "deleted"}
    /\ Fault("discard")
    /\ st' = [st EXCEPT ![x].called = @ + 1, ![x].wait.discard = @ + 1, ![x].left = TRUE,
                        ![x].asked = Append(@, Msg("discard"))]
    /\ UNCHANGED <<srv, fresh, spoiled, dropped>>

\* send_create_encr_chat(); a is the own secret number.
SendCreate(s, x, a) ==
    [s EXCEPT ![x].chat = "waiting", ![x].key = {a}, ![x].wait.request = @ + 1,
              ![x].asked = Append(@, [Msg("request_chat") EXCEPT !.g = {a}])]

\* g^ab, if each gives one number; otherwise a key that nobody else has (0).
Shared(k, l) == k \cup l \cup IF Cardinality(k) = 1 THEN {} ELSE {0}

\* send_accept_encr_chat(): the key is made of whatever the chat holds as key.
SendAccept(s, x, b) ==
    LET k == Shared(s[x].key, {b})
    IN  [s EXCEPT ![x].chat = "ok", ![x].key = k, ![x].fp = k, ![x].wait.accept = @ + 1,
                      ![x].asked = Append(@, [Msg("accept_chat") EXCEPT !.g = {b}, !.fp = k])]

\* create_keys_end(): with the fingerprint the server passed on.
KeysEnd(c, m) ==
    LET k == Shared(c.key, m.g)
    IN  [c EXCEPT !.key = k, !.fp = k, !.chat = IF k = m.fp THEN "ok" ELSE "deleted"]

\* create_or_update(): a new chat is one that is requested; an existing one
\* takes over the state of the server, whatever its own was.
Updated(c, m) ==
    CASE m.type = "discarded" -> IF c.chat = "absent" THEN c ELSE [c EXCEPT !.chat = "deleted"]
      [] m.type = "requested" -> IF c.chat = "absent" THEN [c EXCEPT !.chat = "request", !.key = m.g]
                                 ELSE [c EXCEPT !.chat = "deleted"]
      [] m.type = "waiting"   -> [c EXCEPT !.chat = "waiting"]
      [] m.type = "chat"      -> IF c.chat = "waiting" THEN KeysEnd(c, m) ELSE [c EXCEPT !.chat = "ok"]

\* notify_layer(), when the chat has become ok.
Noticed(s, x) == IF s[x].chat = "ok" THEN Post(s, x, Secret("layer", {}, 0)) ELSE s

\* Mutant of Declined: the chat is left as it is.
DeclinedKept(s, x) == s

\* query_messages_accept_encryption::on_error(): ENCRYPTION_DECLINED.
Declined(s, x) == [s EXCEPT ![x].chat = "deleted"]

\* What a side does with an update or an answer.
Lived(s, x, m) ==
    CASE m.type = "dh" /\ Waits(x, "dh")             ->
            IF x = "alice" THEN SendCreate(Done(s, x, "dh"), x, fresh)
            ELSE SendAccept(Done(s, x, "dh"), x, fresh)
      [] m.type = "dh_error" /\ Waits(x, "dh")       ->
            Told([Done(s, x, "dh") EXCEPT ![x].chat = "deleted"], x)
      [] m.type = "waiting" /\ Waits(x, "request")   ->
            Told([Done(s, x, "request") EXCEPT ![x] = Updated(@, m)], x)
      [] m.type = "request_error" /\ Waits(x, "request") -> Told(Done(s, x, "request"), x)
      [] m.type = "accepted" /\ Waits(x, "accept")   ->
            Told(Noticed([Done(s, x, "accept") EXCEPT ![x] = Updated(@, [m EXCEPT !.type = "chat"])], x), x)
      [] m.type = "accept_error" /\ Waits(x, "accept") -> Told(Done(s, x, "accept"), x)
      [] m.type = "declined" /\ Waits(x, "accept")   ->
            Told(Declined(Done(s, x, "accept"), x), x)
      [] m.type = "discard_done" /\ Waits(x, "discard") -> Told(Done(s, x, "discard"), x)
      [] m.type \in {"requested", "discarded"}       -> [s EXCEPT ![x] = Updated(@, m)]
      [] m.type = "chat"                             -> Noticed([s EXCEPT ![x] = Updated(@, m)], x)
      [] OTHER                                       -> s

First(x) == Head(st[x].inbox)
Taken(x) == [st EXCEPT ![x].inbox = Tail(@)]

\* An update or an answer.
ReadUpdate(x) ==
    /\ First(x).type \notin InChat
    /\ st' = Lived(Taken(x), x, First(x))
    /\ spoiled' = IF First(x).type = "dh" /\ x = "bob" /\ Waits(x, "dh") /\ st[x].fp # {}
                  THEN spoiled \cup {"accepted_twice"} ELSE spoiled
    /\ fresh' = IF First(x).type = "dh" THEN fresh + 1 ELSE fresh
    /\ UNCHANGED <<dropped, faults>>

\* work_encrypted_message(), imbue_encrypted_message(): one that cannot be
\* read, or comes to a chat that is not ok, is dropped.
Drop(x) ==
    LET m == First(x)  c == Adopted(st[x], m) IN
    /\ m.type \in InChat
    /\ st[x].chat # "ok" \/ ~Readable(c, m)
    /\ st' = [st EXCEPT ![x].inbox = Tail(@)]
    /\ dropped' = IF st[x].chat # "ok" THEN dropped
                  ELSE dropped \cup {[type |-> m.type, key |-> m.key, mine |-> ReadWith(c)]}
    /\ UNCHANGED <<spoiled, fresh, faults>>

\* The messages whose number is looked at: an accept, and a request that is taken.
Examined(c, m) ==
    \/ m.type = "request" /\ (c.ex = "none" \/ (c.ex = "requested" /\ c.id > m.id))
    \/ m.type = "accept" /\ c.ex = "requested" /\ c.id = m.id

\* One that can be read; a number of the other side that is weak (it fails
\* tglmp_check_g_a) ends the exchange.
ReadMessage(x) ==
    LET m == First(x)
        c == Adopted(st[x], m)
        s == [Taken(x) EXCEPT ![x] = [c EXCEPT !.inbox = Tail(@)]]
    IN
    /\ m.type \in InChat
    /\ st[x].chat = "ok" /\ Readable(c, m)
    /\ \/ st' = Exchange(s, x, m, fresh) /\ UNCHANGED faults
       \/ /\ Examined(c, m)
          /\ Fault("weak")
          /\ st' = Aborted([s EXCEPT ![x].id = m.id], x)
    /\ fresh' = IF m.type = "request" THEN fresh + 1 ELSE fresh
    /\ UNCHANGED <<spoiled, dropped>>

\* The next update, answer or message of a side.
Read(x) ==
    /\ st[x].inbox # <<>>
    /\ ReadUpdate(x) \/ Drop(x) \/ ReadMessage(x)
    /\ UNCHANGED srv

\* The application sends a text.
Text(x) ==
    /\ st[x].chat = "ok" /\ st[x].texts < MaxTexts
    /\ st' = [Post(st, x, Secret("text", {}, 0)) EXCEPT ![x].texts = @ + 1]
    /\ UNCHANGED <<srv, fresh, spoiled, dropped, faults>>

\* The client cannot send for a while, though it reads; then the queries that
\* wait are sent one after the other.
Unready(x) ==
    /\ st[x].ready
    /\ Fault("unready")
    /\ st' = [st EXCEPT ![x].ready = FALSE]
    /\ UNCHANGED <<srv, fresh, spoiled, dropped>>

Flush(x) ==
    /\ ~st[x].ready
    /\ IF st[x].out = <<>>
       THEN st' = [st EXCEPT ![x].ready = TRUE] /\ UNCHANGED spoiled
       ELSE /\ st' = WillSend([st EXCEPT ![x].out = Tail(@)], x, Head(st[x].out))
            /\ spoiled' = IF Overtakes(st, x) THEN spoiled \cup {"commit_overtaken"} ELSE spoiled
    /\ UNCHANGED <<srv, fresh, dropped, faults>>

\* The program ends and starts again: the chat is loaded, what waited is lost.
Crash(x) ==
    /\ st[x].out # <<>>
    /\ "crash" \in Faults
    /\ st' = [st EXCEPT ![x].out = <<>>]
    /\ spoiled' = spoiled \cup {"message_lost"}
    /\ UNCHANGED <<srv, fresh, dropped, faults>>

\* Mutant of GivenUp: on_timeout() without the callback.
GivenUpUntold(s, x, kind) == Done(s, x, kind)

\* on_timeout(): the chat stays as it is.
GivenUp(s, x, kind) == Told(Done(s, x, kind), x)

\* get dh config of the creator and request_encryption give up after 10 s.
Timeout(kind) ==
    /\ kind \in {"dh", "request"} /\ Waits("alice", kind)
    /\ Fault("timeout")
    /\ st' = GivenUp(st, "alice", kind)
    /\ UNCHANGED <<srv, fresh, spoiled, dropped>>

-----------------------------------------------------------------------------
(* The server                                                              *)

To(s, x, m) == [s EXCEPT ![x].inbox = Append(@, m)]

\* What it makes of a question: s is the state without it.
Served(s, x, m) ==
    \/ /\ m.type = "dh"
       /\ \/ st' = To(s, x, Msg("dh")) /\ UNCHANGED faults
          \/ st' = To(s, x, Msg("dh_error")) /\ Fault("error")
       /\ UNCHANGED srv
    \/ /\ m.type = "request_chat"
       /\ \/ /\ st' = To(To(s, x, Msg("waiting")), Other(x), [Msg("requested") EXCEPT !.g = m.g])
             /\ srv' = [chat |-> "requested", ga |-> m.g]
             /\ UNCHANGED faults
          \/ st' = To(s, x, Msg("request_error")) /\ UNCHANGED srv /\ Fault("error")
    \/ /\ m.type = "accept_chat" /\ srv.chat = "requested"
       /\ st' = To(To(s, x, [Msg("accepted") EXCEPT !.g = srv.ga, !.fp = m.fp]),
                   Other(x), [Msg("chat") EXCEPT !.g = m.g, !.fp = m.fp])
       /\ srv' = [srv EXCEPT !.chat = "ok"]
       /\ UNCHANGED faults
    \/ /\ m.type = "accept_chat" /\ srv.chat # "requested"
       /\ st' = To(s, x, Msg(IF srv.chat = "gone" THEN "declined" ELSE "accept_error"))
       /\ UNCHANGED <<srv, faults>>
    \/ /\ m.type = "discard"
       /\ st' = IF srv.chat = "no" THEN To(s, x, Msg("discard_done"))
                ELSE To(To(s, x, Msg("discard_done")), Other(x), Msg("discarded"))
       /\ srv' = [srv EXCEPT !.chat = IF @ = "no" THEN @ ELSE "gone"]
       /\ UNCHANGED faults
    \/ /\ m.type \in InChat
       /\ st' = IF srv.chat = "ok" THEN To(s, Other(x), m) ELSE s
       /\ UNCHANGED <<srv, faults>>

Serve(x) ==
    /\ st[x].asked # <<>>
    /\ Served([st EXCEPT ![x].asked = Tail(@)], x, Head(st[x].asked))
    /\ UNCHANGED <<fresh, spoiled, dropped>>

\* The answer or the update at the head comes late, after the one behind it.
Late(x) ==
    /\ Len(st[x].inbox) > 1
    /\ Head(st[x].inbox).type \notin InChat
    /\ Fault("late")
    /\ st' = [st EXCEPT ![x].inbox =
                 <<@[2], @[1]>> \o SubSeq(@, 3, Len(@))]
    /\ spoiled' = spoiled \cup {"late"}
    /\ UNCHANGED <<srv, fresh, dropped>>

-----------------------------------------------------------------------------
Progress == \E x \in Side : Read(x) \/ Flush(x) \/ Serve(x)

Next ==
    \/ Progress
    \/ Create \/ Accept
    \/ \E x \in Side : Discard(x) \/ RequestKey(x) \/ Text(x) \/ Unready(x) \/ Crash(x) \/ Late(x)
    \/ \E kind \in {"dh", "request"} : Timeout(kind)

Spec == Init /\ [][Next]_vars

Fairness == \A x \in Side : WF_vars(Read(x)) /\ WF_vars(Flush(x)) /\ WF_vars(Serve(x))

FairSpec == Spec /\ Fairness

-----------------------------------------------------------------------------
(* Properties                                                              *)

\* The messages that x or the server has not passed on to the other side, or
\* that it has not read.
Messages(x) ==
    LET all == st[Other(x)].inbox \o st[x].asked \o st[x].out
    IN  {i \in DOMAIN all : all[i].type \in InChat}

\* Type: the states of tgl_secret_chat_state and of the exchange; a chat that is
\* ok has the shared key and its fingerprint, one that waits its own number.
TypeOK ==
    \A x \in Side :
        /\ st[x].chat \in {"absent", "none", "request", "waiting", "ok", "deleted"}
        /\ st[x].ex \in {"none", "requested", "accepted", "committed", "aborted"}
        /\ \A kind \in DOMAIN st[x].wait : st[x].wait[kind] \in 0..(MaxFaults + 1)
        /\ st[x].told <= st[x].called
        /\ (spoiled = {} /\ st[x].chat = "ok") => Cardinality(st[x].key) = 2 /\ st[x].fp = st[x].key
        /\ st[x].ex \in {"accepted", "committed"} => Cardinality(st[x].exkey) = 2

\* Two sides that have the chat open, with no message under way and no exchange
\* half done, hold the same key: after the creation (create_keys_end), and after
\* every exchange, also of requests that cross and of one that is aborted.
SameKey ==
    (/\ spoiled = {}
     /\ \A x \in Side : st[x].chat = "ok" /\ Messages(x) = {}
                        /\ st[x].ex \notin {"accepted", "committed"})
    => st["alice"].key = st["bob"].key

\* The keys of both sides, with the types of what holds them.
KeysAgree == TypeOK /\ SameKey

Newer(k, l) == \E i \in k : \A j \in l : i > j

\* A message is unreadable only because its reader has a newer key: no side
\* encrypts with a key that the other has not yet agreed to (the order of
\* assemble() and will_send_query()).
Unread == spoiled = {} => \A d \in dropped : Newer(d.mine, d.key)

\* When the server has given up the chat and nothing is under way, the side
\* that did not ask for that has deleted it, though a late answer to accept may
\* have opened it again in between (ENCRYPTION_DECLINED).
Gone ==
    (/\ srv.chat = "gone" /\ spoiled = {}
     /\ \A x \in Side : st[x].asked \o st[x].out = <<>> /\ st[x].inbox = <<>>)
    => \A x \in Side : st[x].chat \in {"absent", "deleted"} \/ st[x].left

\* Every call of the application is answered by its callback.
AllTold == \A x \in Side : []<>(st[x].told = st[x].called)

\* An exchange that was asked for is over in the end: a new key, or aborted. Of
\* two sides that have aborted each answers the other's abort by its own, without
\* end; nothing depends on the exchange any more, so that it counts as over.
ExchangeEnds ==
    \A x \in Side :
        st[x].ex \in {"requested", "accepted", "committed"}
            ~> (st[x].ex \in {"none", "aborted"} \/ spoiled # {}
                \/ \E y \in Side : st[y].chat # "ok")
=============================================================================
