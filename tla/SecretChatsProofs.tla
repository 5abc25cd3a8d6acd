-------------------------- MODULE SecretChatsProofs --------------------------
(***************************************************************************)
(* Theorems about SecretChats, for any number of texts, of requests for a  *)
(* new key and of faults.  A chat that the server has given up is deleted  *)
(* on the side that did not ask for that (GoneIsGone), as long as nothing  *)
(* has spoiled the chat: it was not accepted twice, no message overtook a  *)
(* commit that waited, none was lost in a crash, and those of the server   *)
(* arrived in order.                                                       *)
(*                                                                         *)
(* This needs nearly everything about the life of the chat, because a      *)
(* deleted chat would open again if an answer to its request or its accept *)
(* came after the news of its end.  The invariant therefore says in which  *)
(* order an inbox tells of the life of the chat (Ordered), what each side  *)
(* may still be asked or told (Roles, Creator, Acceptor), when it has a    *)
(* key (Keyed), and what is left to be read once the server has given the  *)
(* chat up (Closing, Silent).  The types and the counts of calls hold      *)
(* whatever has gone wrong.                                                *)
(***************************************************************************)
EXTENDS SecretChats, SequencesExt, FiniteSetTheorems, TLAPS

-----------------------------------------------------------------------------
(* Types; n is the next secret number, and no number is known before.      *)

\* The values of a side's chat, of its exchange, and the types of the messages that are
\* not carried inside the chat.
States == {"absent", "none", "request", "waiting", "ok", "deleted"}
Exchanges == {"none", "requested", "accepted", "committed", "aborted"}
Updates == {"dh", "dh_error", "request_chat", "request_error", "accept_chat", "accept_error",
            "waiting", "requested", "accepted", "chat", "declined", "discard", "discard_done",
            "discarded"}

\* One number.
Single(k) == \E a \in k : k = {a}

\* Two numbers.
Pair(k) == \E i, j \in k : i # j /\ k = {i, j}

\* A request has one number, which names it, and an accept a later one.
Formed(m) ==
    /\ m.type = "request" => m.g = {m.id}
    /\ m.type = "accept" => \E b \in m.g : b > m.id /\ m.g = {b}

\* The messages, with the secret numbers known so far.
Message(n) ==
    {m \in [type : Updates \cup InChat, key : SUBSET (0..(n - 1)), g : SUBSET (0..(n - 1)),
            fp : SUBSET (0..(n - 1)), id : 0..(n - 1)] : Formed(m)}

\* The keys of an exchange: its own number first, then both.
Exchanging(c) ==
    /\ c.ex = "requested" => c.exkey = {c.id}
    /\ c.ex \in {"accepted", "committed"} => c.id \in c.exkey /\ Pair(c.exkey)

\* The states of one side.
Chat(n) ==
    {c \in [chat : States, key : SUBSET (0..(n - 1)), fp : SUBSET (0..(n - 1)),
            ex : Exchanges, id : 0..(n - 1), exkey : SUBSET (0..(n - 1)), ready : BOOLEAN,
            out : Seq(Message(n)), asked : Seq(Message(n)), inbox : Seq(Message(n)),
            called : Nat, told : Nat, texts : Nat, requests : Nat, left : BOOLEAN,
            wait : [dh : Nat, request : Nat, accept : Nat, discard : Nat]] : Exchanging(c)}

\* What waits in a chat is a message of the chat.
Types(s, n) ==
    /\ s \in [Side -> Chat(n)]
    /\ \A x \in Side : \A m \in ToSet(s[x].out) : m.type \in InChat

\* Every call is told, or one of its queries has not ended; a call beyond the
\* first of each side is a fault.
Counted(s, f) ==
    /\ \A x \in Side :
          LET w == s[x].wait IN
          s[x].called = s[x].told + w.dh + w.request + w.accept + w.discard
    /\ s["alice"].chat = "absent" => s["alice"].called = 0
    /\ s["alice"].called <= f + 1
    /\ s["bob"].called <= f + IF s["bob"].chat \in {"absent", "request"} /\ s["bob"].wait.dh = 0
                              THEN 0 ELSE 1
    /\ s["bob"].chat = "absent" => s["bob"].wait.dh = 0

-----------------------------------------------------------------------------
(* The life of the chat, as long as nothing has spoiled it                 *)

\* An inbox is in the order of the life of the chat: it is requested, accepted,
\* used and given up; answers that change nothing have no place in it.
Rank(m) ==
    IF m.type \in {"waiting", "requested"} THEN 1
    ELSE IF m.type \in {"chat", "accepted"} THEN 2
    ELSE IF m.type \in InChat THEN 3
    ELSE IF m.type \in {"discarded", "declined"} THEN 4 ELSE 0

\* How far the life of the chat has come at the server.
Level(v) == CASE v.chat = "no" -> 0 [] v.chat = "requested" -> 1
              [] v.chat = "ok" -> 3 [] v.chat = "gone" -> 4

\* m may come before l: what has no place in the order may come anywhere, and what is
\* said inside the chat, or ends it, may be followed by more of the same.
Before(m, l) == Rank(l) = 0 \/ Rank(m) < Rank(l) \/ (Rank(m) = Rank(l) /\ Rank(l) > 2)

\* A queue in the order of the life of the chat.
Sorted(q) == \A i, j \in DOMAIN q : i < j => Before(q[i], q[j])

\* Inboxes are in order, and tell nothing that the server does not know yet.
Ordered(s, v) ==
    \A x \in Side :
        /\ Sorted(s[x].inbox)
        /\ \A m \in ToSet(s[x].inbox) : Rank(m) <= Level(v)

\* A message of one of these types is in q; at most one is.
Has(q, types) == \E m \in ToSet(q) : m.type \in types
Once(q, types) == \A i, j \in DOMAIN q : q[i].type \in types /\ q[j].type \in types => i = j

\* What each side is asked and told; what is not yet begun has left no trace.
Roles(s, v) ==
    /\ v \in [chat : {"no", "requested", "ok", "gone"}, ga : SUBSET Nat]
    /\ ~Has(s["alice"].asked, {"accept_chat"})
    /\ ~Has(s["alice"].inbox, {"requested", "accepted", "accept_error", "declined"})
    /\ ~Has(s["bob"].asked, {"request_chat"})
    /\ ~Has(s["bob"].inbox, {"waiting", "chat", "request_error"})
    /\ \A x \in Side : Has(s[x].asked, {"discard"}) => s[x].left
    /\ s["bob"].chat # "waiting"
    /\ s["alice"].chat = "absent" => s["alice"].asked = <<>> /\ s["alice"].inbox = <<>>
    /\ s["bob"].chat = "absent" => s["bob"].asked = <<>> /\ s["bob"].key = {} /\ s["bob"].fp = {}

\* The side that creates the chat, up to its key.
Creator(s, v) ==
    LET c == s["alice"] IN
    /\ c.chat \in {"absent", "none"} => v.chat = "no" /\ c.key = {} /\ c.fp = {}
    /\ c.wait.dh > 0 => c.chat = "none" /\ c.wait.dh = 1
    /\ c.chat \in {"absent", "none"} => ~Has(c.asked, {"request_chat"})
    /\ Has(c.asked, {"request_chat"}) => v.chat = "no" /\ Once(c.asked, {"request_chat"})
    /\ \A m \in ToSet(c.asked) : m.type = "request_chat" => m.g = c.key /\ Single(m.g)
    /\ (Has(c.asked, {"request_chat"}) \/ Has(c.inbox, {"waiting", "chat"}) \/ v.chat = "requested")
           => c.chat = "waiting" /\ c.fp = {}
    /\ v.chat # "no" /\ c.fp = {} => c.key = v.ga
    /\ v.chat # "no" => Single(v.ga)
    /\ v.chat = "no" => c.fp = {}

\* The side that accepts it.
Acceptor(s, v) ==
    LET c == s["bob"] IN
    /\ v.chat = "no" => c.chat = "absent" /\ c.inbox = <<>>
    /\ Has(c.inbox, {"requested"}) => c.chat = "absent"
    /\ \A m \in ToSet(c.inbox) : m.type = "requested" => m.g = v.ga
    /\ c.chat # "absent" /\ c.fp = {} => c.key = v.ga
    /\ c.fp = {} => /\ v.chat # "ok" /\ c.wait.accept = 0
                    /\ ~Has(c.asked, {"accept_chat"} \cup InChat)
                    /\ ~Has(c.inbox, {"accepted", "accept_error", "declined"})
                    /\ c.ex = "none" /\ c.out = <<>>
                    /\ ~Has(s["alice"].inbox, {"chat"} \cup InChat)
    /\ c.fp # {} => Pair(c.fp)
    /\ Once(c.asked, {"accept_chat"})
    /\ Has(c.asked, {"accept_chat"}) =>
           /\ v.chat \in {"requested", "gone"} /\ c.wait.accept = 1 /\ s["alice"].fp = {}
           /\ ~Has(c.inbox, {"accepted", "accept_error", "declined"})
           /\ ~Has(s["alice"].inbox, {"chat"})
    /\ \A m \in ToSet(c.asked) : m.type = "accept_chat" =>
           m.fp = c.key /\ c.key = v.ga \cup m.g /\ Single(m.g)
    /\ Once(c.inbox, {"accepted", "accept_error", "declined"})
    /\ Has(c.inbox, {"accepted", "accept_error", "declined"}) => c.wait.accept = 1
    /\ \A m \in ToSet(s["alice"].inbox) : m.type = "chat" =>
           m.fp = c.key /\ c.key = v.ga \cup m.g /\ Single(m.g)

\* A chat that is open has its key.
Keyed(s, v) ==
    /\ \A x \in Side : /\ s[x].chat = "ok" => s[x].fp # {}
                       /\ s[x].fp # {} => s[x].fp = s[x].key /\ Pair(s[x].key)
    /\ s["alice"].fp # {} => s["bob"].fp # {} /\ v.chat \in {"ok", "gone"}

\* What would open the chat again, were it read after the end.
Reopeners == {"waiting", "requested", "chat", "accepted"}

\* What the server has given up is given up by each side, or will be.
Closing(s, v) ==
    v.chat = "gone" =>
        \A x \in Side :
            \/ s[x].left
            \/ Has(s[x].inbox, {"discarded"})
            \/ s[x].chat \in {"absent", "deleted"} /\ ~Has(s[x].inbox, Reopeners)
            \/ x = "bob" /\ ~Has(s[x].inbox, Reopeners)
               /\ (Has(s[x].asked, {"accept_chat"}) \/ Has(s[x].inbox, {"declined"}))

\* The life of the chat, without what holds once it has ended.
Life(s, v) == Ordered(s, v) /\ Roles(s, v) /\ Creator(s, v) /\ Acceptor(s, v) /\ Keyed(s, v)

-----------------------------------------------------------------------------
(* Sequences                                                               *)

\* A message behind the others.
LEMMA Grown ==
    ASSUME NEW S, NEW q \in Seq(S), NEW m \in S
    PROVE  /\ Append(q, m) \in Seq(S)
           /\ DOMAIN q = 1..Len(q) /\ Len(q) \in Nat
           /\ DOMAIN Append(q, m) = 1..(Len(q) + 1)
           /\ Append(q, m)[Len(q) + 1] = m
           /\ \A i \in 1..Len(q) : Append(q, m)[i] = q[i] /\ q[i] \in S
           /\ ToSet(Append(q, m)) = ToSet(q) \cup {m}
<1>1. /\ Append(q, m) \in Seq(S)
      /\ DOMAIN q = 1..Len(q) /\ Len(q) \in Nat
      /\ DOMAIN Append(q, m) = 1..(Len(q) + 1)
      /\ Append(q, m)[Len(q) + 1] = m
      /\ \A i \in 1..Len(q) : Append(q, m)[i] = q[i] /\ q[i] \in S
  OBVIOUS
<1> DEFINE r == Append(q, m)
<1> HIDE DEF r
<1>2. ToSet(r) = ToSet(q) \cup {m}
  BY <1>1 DEF ToSet, r
<1> QED
  BY <1>1, <1>2 DEF r

\* A sequence is its head and what is behind it.
LEMMA Rest ==
    ASSUME NEW S, NEW q \in Seq(S), q # <<>>
    PROVE  /\ Tail(q) \in Seq(S) /\ Head(q) \in S
           /\ DOMAIN q = 1..Len(q) /\ Len(q) \in Nat /\ Len(q) > 0
           /\ DOMAIN Tail(q) = 1..(Len(q) - 1)
           /\ Head(q) = q[1]
           /\ \A i \in 1..(Len(q) - 1) : Tail(q)[i] = q[i + 1]
           /\ ToSet(q) = {Head(q)} \cup ToSet(Tail(q))
<1>1. /\ Tail(q) \in Seq(S) /\ Head(q) \in S
      /\ DOMAIN q = 1..Len(q) /\ Len(q) \in Nat /\ Len(q) > 0
      /\ DOMAIN Tail(q) = 1..(Len(q) - 1)
      /\ Head(q) = q[1]
      /\ \A i \in 1..(Len(q) - 1) : Tail(q)[i] = q[i + 1]
  OBVIOUS
<1> DEFINE r == Tail(q)  n == Len(q)
<1> HIDE DEF r, n
<1>2. ToSet(q) = {q[1]} \cup ToSet(r)
  <2>1. ASSUME NEW i \in 1..n
        PROVE  q[i] \in {q[1]} \cup ToSet(r)
    <3>1. CASE i = 1
      BY <3>1
    <3>2. CASE i # 1
      <4>1. i - 1 \in 1..(n - 1) /\ r[i - 1] = q[i]
        BY <1>1, <3>2 DEF n, r
      <4> QED
        BY <1>1, <4>1 DEF ToSet, n, r
    <3> QED
      BY <3>1, <3>2
  <2>2. ASSUME NEW i \in 1..(n - 1)
        PROVE  r[i] \in ToSet(q)
    <3>1. i + 1 \in 1..n /\ r[i] = q[i + 1]
      BY <1>1 DEF n, r
    <3> QED
      BY <1>1, <3>1 DEF ToSet, n
  <2>3. q[1] \in ToSet(q)
    BY <1>1 DEF ToSet
  <2> QED
    BY <1>1, <2>1, <2>2, <2>3 DEF ToSet, n, r
<1> QED
  BY <1>1, <1>2 DEF r

\* The elements of a sequence are of its set, and an empty one has none.
LEMMA Elements ==
    ASSUME NEW S
    PROVE  /\ \A q \in Seq(S) : ToSet(q) \subseteq S
           /\ ToSet(<<>>) = {} /\ <<>> \in Seq(S)
           /\ \A q \in Seq(S) : ToSet(q) = {} => q = <<>>
<1>1. \A q \in Seq(S) : ToSet(q) \subseteq S
  BY DEF ToSet
<1>2. ToSet(<<>>) = {} /\ <<>> \in Seq(S)
  BY DEF ToSet
<1>3. \A q \in Seq(S) : ToSet(q) = {} => q = <<>>
  <2> SUFFICES ASSUME NEW q \in Seq(S), q # <<>>
               PROVE  ToSet(q) # {}
    OBVIOUS
  <2>1. 1 \in DOMAIN q
    OBVIOUS
  <2> QED
    BY <2>1 DEF ToSet
<1> QED
  BY <1>1, <1>2, <1>3

\* An inbox stays in order behind and when it is read.
LEMMA SortedGrows ==
    ASSUME NEW S, NEW q \in Seq(S), NEW m \in S, Sorted(q), \A l \in ToSet(q) : Before(l, m)
    PROVE  Sorted(Append(q, m))
<1> DEFINE r == Append(q, m)  n == Len(q)
<1>1. /\ DOMAIN q = 1..n /\ n \in Nat /\ DOMAIN r = 1..(n + 1) /\ r[n + 1] = m
      /\ \A i \in 1..n : r[i] = q[i] /\ q[i] \in ToSet(q)
  BY Grown DEF ToSet
<1> HIDE DEF r, n
<1>2. ASSUME NEW i \in 1..(n + 1), NEW j \in 1..(n + 1), i < j
      PROVE  Before(r[i], r[j])
  <2>1. CASE j = n + 1
    BY <1>1, <1>2, <2>1
  <2>2. CASE j # n + 1
    BY <1>1, <1>2, <2>2 DEF Sorted
  <2> QED
    BY <2>1, <2>2
<1> QED
  BY <1>1, <1>2 DEF Sorted, r

\* The rest of an ordered queue is in order, and its head was before all of it.
LEMMA SortedRest ==
    ASSUME NEW S, NEW q \in Seq(S), q # <<>>, Sorted(q)
    PROVE  Sorted(Tail(q)) /\ \A m \in ToSet(Tail(q)) : Before(Head(q), m)
<1> DEFINE r == Tail(q)  n == Len(q)
<1>1. /\ DOMAIN q = 1..n /\ n \in Nat /\ n > 0 /\ DOMAIN r = 1..(n - 1) /\ Head(q) = q[1]
      /\ \A i \in 1..(n - 1) : r[i] = q[i + 1]
  BY Rest
<1> HIDE DEF r, n
<1>2. ASSUME NEW i \in 1..(n - 1), NEW j \in 1..(n - 1), i < j
      PROVE  Before(r[i], r[j])
  <2>1. i + 1 \in 1..n /\ j + 1 \in 1..n /\ i + 1 < j + 1
    BY <1>1, <1>2
  <2> QED
    BY <1>1, <2>1 DEF Sorted
<1>3. ASSUME NEW i \in 1..(n - 1)
      PROVE  Before(q[1], r[i])
  BY <1>1 DEF Sorted
<1> QED
  BY <1>1, <1>2, <1>3 DEF Sorted, ToSet, r

\* The same of what there is once.
LEMMA OnceGrows ==
    ASSUME NEW S, NEW q \in Seq(S), NEW m \in S, NEW T, Once(q, T), m.type \in T => ~Has(q, T)
    PROVE  Once(Append(q, m), T)
<1> DEFINE r == Append(q, m)  n == Len(q)
<1>1. /\ DOMAIN q = 1..n /\ n \in Nat /\ DOMAIN r = 1..(n + 1) /\ r[n + 1] = m
      /\ \A i \in 1..n : r[i] = q[i] /\ q[i] \in ToSet(q)
  BY Grown DEF ToSet
<1> HIDE DEF r, n
<1>2. ASSUME NEW i \in 1..(n + 1), NEW j \in 1..(n + 1), r[i].type \in T, r[j].type \in T
      PROVE  i = j
  <2>1. \A k \in 1..n : ~(r[k].type \in T /\ m.type \in T)
    BY <1>1 DEF Has
  <2>2. CASE i \in 1..n /\ j \in 1..n
    BY <1>1, <1>2, <2>2 DEF Once
  <2> QED
    BY <1>1, <1>2, <2>1, <2>2
<1> QED
  BY <1>1, <1>2 DEF Once, r

\* Of what comes once, nothing is left in the rest when the head is one of it.
LEMMA OnceRest ==
    ASSUME NEW S, NEW q \in Seq(S), q # <<>>, NEW T, Once(q, T)
    PROVE  Once(Tail(q), T) /\ (Head(q).type \in T => ~Has(Tail(q), T))
<1> DEFINE r == Tail(q)  n == Len(q)
<1>1. /\ DOMAIN q = 1..n /\ n \in Nat /\ n > 0 /\ DOMAIN r = 1..(n - 1) /\ Head(q) = q[1]
      /\ \A i \in 1..(n - 1) : r[i] = q[i + 1]
  BY Rest
<1> HIDE DEF r, n
<1>2. ASSUME NEW i \in 1..(n - 1), NEW j \in 1..(n - 1), r[i].type \in T, r[j].type \in T
      PROVE  i = j
  <2>1. i + 1 \in 1..n /\ j + 1 \in 1..n
    BY <1>1
  <2>2. i + 1 = j + 1
    BY <1>1, <1>2, <2>1 DEF Once
  <2> QED
    BY <2>2
<1>3. ASSUME q[1].type \in T, NEW i \in 1..(n - 1), r[i].type \in T
      PROVE  FALSE
  <2>1. i + 1 \in 1..n /\ 1 \in 1..n /\ i + 1 # 1
    BY <1>1
  <2> QED
    BY <1>1, <1>3, <2>1 DEF Once
<1> QED
  BY <1>1, <1>2, <1>3 DEF Once, Has, ToSet, r

-----------------------------------------------------------------------------
(* Keys                                                                    *)

\* The fields of a message, and what becomes of it when it is sent.
LEMMA Fields ==
    ASSUME NEW n \in Nat, NEW m \in Message(n)
    PROVE  /\ m.type \in Updates \cup InChat
           /\ m.key \in SUBSET (0..(n - 1)) /\ m.g \in SUBSET (0..(n - 1))
           /\ m.fp \in SUBSET (0..(n - 1)) /\ m.id \in 0..(n - 1)
           /\ m.key \in SUBSET Nat /\ m.g \in SUBSET Nat /\ m.fp \in SUBSET Nat /\ m.id \in Nat
           /\ Formed(m)
           /\ \A k, f \in SUBSET (0..(n - 1)) :
                 LET l == [m EXCEPT !.key = k, !.fp = f] IN
                 /\ l \in Message(n)
                 /\ l.type = m.type /\ l.g = m.g /\ l.id = m.id /\ l.key = k /\ l.fp = f
<1>1. /\ m \in [type : Updates \cup InChat, key : SUBSET (0..(n - 1)),
                g : SUBSET (0..(n - 1)), fp : SUBSET (0..(n - 1)), id : 0..(n - 1)]
      /\ Formed(m)
  BY DEF Message
<1>2. ASSUME NEW k \in SUBSET (0..(n - 1)), NEW f \in SUBSET (0..(n - 1)),
             NEW l, l = [m EXCEPT !.key = k, !.fp = f]
      PROVE  /\ l \in Message(n)
             /\ l.type = m.type /\ l.g = m.g /\ l.id = m.id /\ l.key = k /\ l.fp = f
  <2>1. /\ l \in [type : Updates \cup InChat, key : SUBSET (0..(n - 1)),
                  g : SUBSET (0..(n - 1)), fp : SUBSET (0..(n - 1)), id : 0..(n - 1)]
        /\ l.type = m.type /\ l.g = m.g /\ l.id = m.id /\ l.key = k /\ l.fp = f
    BY <1>1, <1>2
  <2>2. Formed(l)
    BY <1>1, <2>1 DEF Formed
  <2> QED
    BY <2>1, <2>2 DEF Message
<1>3. SUBSET (0..(n - 1)) \subseteq SUBSET Nat /\ 0..(n - 1) \subseteq Nat
  OBVIOUS
<1>4. /\ m.type \in Updates \cup InChat
      /\ m.key \in SUBSET (0..(n - 1)) /\ m.g \in SUBSET (0..(n - 1))
      /\ m.fp \in SUBSET (0..(n - 1)) /\ m.id \in 0..(n - 1)
  BY <1>1
<1> QED
  BY <1>1, <1>2, <1>3, <1>4

\* What a queue has, when a message joins it.
LEMMA HasGrows ==
    ASSUME NEW S, NEW q \in Seq(S), NEW m \in S
    PROVE  \A T : Has(Append(q, m), T) <=> Has(q, T) \/ m.type \in T
<1>1. ToSet(Append(q, m)) = ToSet(q) \cup {m}
  BY Grown
<1> QED
  BY <1>1 DEF Has

\* What a queue has, when its head is read.
LEMMA HasRest ==
    ASSUME NEW S, NEW q \in Seq(S), q # <<>>
    PROVE  \A T : Has(q, T) <=> Has(Tail(q), T) \/ Head(q).type \in T
<1>1. ToSet(q) = {Head(q)} \cup ToSet(Tail(q))
  BY Rest
<1> QED
  BY <1>1 DEF Has

-----------------------------------------------------------------------------
(* Chats                                                                   *)

\* Side x becomes c.
With(s, x, c) == [s EXCEPT ![x] = c]

\* A message goes to the server under the key of now, or waits.
Say(c, m) == [c EXCEPT !.asked = Append(@, [m EXCEPT !.key = c.key, !.fp = c.fp])]
\* m waits at the end of what c has to say.
Park(c, m) == [c EXCEPT !.out = Append(@, m)]

\* The parts of a chat that steps leave alone.
SameLife(c, e) == e.chat = c.chat /\ e.left = c.left /\ e.wait = c.wait
\* What two states of a side have in common: the counts, the keys, the exchange.
SameBook(c, e) == e.called = c.called /\ e.told = c.told /\ e.texts = c.texts /\ e.requests = c.requests
SameKeys(c, e) == e.key = c.key /\ e.fp = c.fp
SameExchange(c, e) == e.ex = c.ex /\ e.id = c.id /\ e.exkey = c.exkey

\* There are two sides.
LEMMA Sides ==
    ASSUME NEW x \in Side
    PROVE  /\ Other(x) \in Side /\ Other(x) # x /\ Other(Other(x)) = x
           /\ Side = {x, Other(x)} /\ Side = {"alice", "bob"}
           /\ \A y \in Side : y # x => y = Other(x)
BY DEF Side, Other

\* The types of the fields.
LEMMA ChatFields ==
    ASSUME NEW n \in Nat, NEW c \in Chat(n)
    PROVE  /\ c.chat \in States /\ c.key \in SUBSET (0..(n - 1)) /\ c.fp \in SUBSET (0..(n - 1))
           /\ c.ex \in Exchanges /\ c.id \in 0..(n - 1) /\ c.exkey \in SUBSET (0..(n - 1))
           /\ c.ready \in BOOLEAN /\ c.left \in BOOLEAN
           /\ c.out \in Seq(Message(n)) /\ c.asked \in Seq(Message(n)) /\ c.inbox \in Seq(Message(n))
           /\ c.called \in Nat /\ c.told \in Nat /\ c.texts \in Nat /\ c.requests \in Nat
           /\ c.wait \in [dh : Nat, request : Nat, accept : Nat, discard : Nat]
           /\ c.key \in SUBSET Nat /\ c.fp \in SUBSET Nat /\ c.exkey \in SUBSET Nat
           /\ Exchanging(c)
<1>1. c \in [chat : States, key : SUBSET (0..(n - 1)), fp : SUBSET (0..(n - 1)),
            ex : Exchanges, id : 0..(n - 1), exkey : SUBSET (0..(n - 1)), ready : BOOLEAN,
            out : Seq(Message(n)), asked : Seq(Message(n)), inbox : Seq(Message(n)),
            called : Nat, told : Nat, texts : Nat, requests : Nat, left : BOOLEAN,
            wait : [dh : Nat, request : Nat, accept : Nat, discard : Nat]] /\ Exchanging(c)
  BY DEF Chat
<1>2. SUBSET (0..(n - 1)) \subseteq SUBSET Nat
  OBVIOUS
<1> QED
  BY <1>1, <1>2

\* What is said or parked.
LEMMA SayIs ==
    ASSUME NEW n \in Nat, NEW c \in Chat(n), NEW m \in Message(n)
    PROVE  LET e == Say(c, m) IN
           /\ e \in Chat(n)
           /\ e.asked = Append(c.asked, [m EXCEPT !.key = c.key, !.fp = c.fp])
           /\ SameLife(c, e) /\ SameBook(c, e) /\ SameKeys(c, e) /\ SameExchange(c, e)
           /\ e.inbox = c.inbox /\ e.out = c.out /\ e.ready = c.ready
<1> DEFINE e == Say(c, m)
<1> DEFINE q == Append(c.asked, [m EXCEPT !.key = c.key, !.fp = c.fp])
<1>1. q \in Seq(Message(n))
  BY ChatFields, Fields, Grown
<1>2. e = [c EXCEPT !.asked = q]
  BY DEF Say
<1> HIDE DEF q, e
<1>3. /\ e.asked = q
      /\ SameLife(c, e) /\ SameBook(c, e) /\ SameKeys(c, e) /\ SameExchange(c, e)
      /\ e.inbox = c.inbox /\ e.out = c.out /\ e.ready = c.ready
  BY <1>2 DEF Chat, SameLife, SameBook, SameKeys, SameExchange
<1>4. Exchanging(e)
  BY <1>3, ChatFields DEF Exchanging, SameExchange
<1>5. e \in Chat(n)
  BY <1>1, <1>2, <1>4 DEF Chat
<1> QED
  BY <1>3, <1>5 DEF e, q

\* Parking changes nothing but the queue.
LEMMA ParkIs ==
    ASSUME NEW n \in Nat, NEW c \in Chat(n), NEW m \in Message(n)
    PROVE  LET e == Park(c, m) IN
           /\ e \in Chat(n)
           /\ e.out = Append(c.out, m)
           /\ SameLife(c, e) /\ SameBook(c, e) /\ SameKeys(c, e) /\ SameExchange(c, e)
           /\ e.inbox = c.inbox /\ e.asked = c.asked /\ e.ready = c.ready
<1> DEFINE e == Park(c, m)
<1> DEFINE q == Append(c.out, m)
<1>1. q \in Seq(Message(n))
  BY ChatFields, Grown
<1>2. e = [c EXCEPT !.out = q]
  BY DEF Park
<1> HIDE DEF q, e
<1>3. /\ e.out = q
      /\ SameLife(c, e) /\ SameBook(c, e) /\ SameKeys(c, e) /\ SameExchange(c, e)
      /\ e.inbox = c.inbox /\ e.asked = c.asked /\ e.ready = c.ready
  BY <1>2 DEF Chat, SameLife, SameBook, SameKeys, SameExchange
<1>4. Exchanging(e)
  BY <1>3, ChatFields DEF Exchanging, SameExchange
<1>5. e \in Chat(n)
  BY <1>1, <1>2, <1>4 DEF Chat
<1> QED
  BY <1>3, <1>5 DEF e, q

\* The new key takes the place of the old one.
LEMMA ConfirmedIs ==
    ASSUME NEW n \in Nat \ {0}, NEW c \in Chat(n)
    PROVE  LET e == Confirmed(c) IN
           /\ e \in Chat(n)
           /\ e.key = c.exkey /\ e.fp = c.exkey /\ e.exkey = {} /\ e.ex = "none" /\ e.id = 0
           /\ SameLife(c, e) /\ SameBook(c, e)
           /\ e.inbox = c.inbox /\ e.asked = c.asked /\ e.out = c.out /\ e.ready = c.ready
<1> DEFINE e == Confirmed(c)
<1>1. e = [c EXCEPT !.key = c.exkey, !.fp = c.exkey, !.exkey = {}, !.ex = "none", !.id = 0]
  BY DEF Confirmed
<1> HIDE DEF e
<1>2. /\ e.key = c.exkey /\ e.fp = c.exkey /\ e.exkey = {} /\ e.ex = "none" /\ e.id = 0
      /\ SameLife(c, e) /\ SameBook(c, e)
      /\ e.inbox = c.inbox /\ e.asked = c.asked /\ e.out = c.out /\ e.ready = c.ready
  BY <1>1 DEF Chat, SameLife, SameBook
<1>3. Exchanging(e)
  BY <1>2 DEF Exchanging
<1>4. 0 \in 0..(n - 1) /\ "none" \in Exchanges
  BY DEF Exchanges
<1>5. e \in Chat(n)
  BY <1>1, <1>3, <1>4 DEF Chat
<1> QED
  BY <1>2, <1>5 DEF e

\* A step of one side keeps the types, and the other side.
LEMMA WithIs ==
    ASSUME NEW n \in Nat, NEW s, Types(s, n), NEW x \in Side, NEW e \in Chat(n),
           \A m \in ToSet(e.out) : m.type \in InChat
    PROVE  /\ Types(With(s, x, e), n)
           /\ With(s, x, e)[x] = e /\ With(s, x, e)[Other(x)] = s[Other(x)]
BY Sides DEF With, Types

\* What goes out, and what becomes of a committed key.
Sent(c, m) == IF c.ex = "committed" THEN Confirmed(Say(c, m)) ELSE Say(c, m)

\* will_send_message() is the step of one side.
LEMMA WillSendIs ==
    ASSUME NEW n \in Nat \ {0}, NEW s, Types(s, n), NEW x \in Side, NEW m \in Message(n),
           NEW p, p = WillSend(s, x, m)
    PROVE  Types(p, n) /\ p[Other(x)] = s[Other(x)] /\ p[x] = Sent(s[x], m)
<1> DEFINE l == [m EXCEPT !.key = s[x].key, !.fp = s[x].fp]
           c == Say(s[x], m)
           e == Sent(s[x], m)
<1>1. s[x] \in Chat(n) /\ \A k \in ToSet(s[x].out) : k.type \in InChat
  BY DEF Types
<1>2. c \in Chat(n) /\ c.out = s[x].out /\ c.ex = s[x].ex
  BY <1>1, SayIs DEF SameExchange
<1>3. e \in Chat(n) /\ e.out = s[x].out
  BY <1>2, ConfirmedIs DEF Sent
<1>4. p = With(s, x, e)
  BY DEF WillSend, With, Sent, Say, Confirmed
<1> HIDE DEF e
<1> QED
  BY <1>1, <1>3, <1>4, WithIs DEF e

\* send_message(): refused, parked, or sent.
LEMMA PostIs ==
    ASSUME NEW n \in Nat \ {0}, NEW s, Types(s, n), NEW x \in Side, NEW m \in Message(n),
           m.type \in InChat, NEW p, p = Post(s, x, m)
    PROVE  /\ Types(p, n) /\ p[Other(x)] = s[Other(x)]
           /\ \/ s[x].chat # "ok" /\ p = s
              \/ s[x].chat = "ok" /\ ~s[x].ready /\ p[x] = Park(s[x], m)
              \/ s[x].chat = "ok" /\ s[x].ready /\ p[x] = Sent(s[x], m)
           /\ SameLife(s[x], p[x]) /\ SameBook(s[x], p[x]) /\ p[x].inbox = s[x].inbox
           /\ p[x].ready = s[x].ready
<1>1. s[x] \in Chat(n) /\ \A k \in ToSet(s[x].out) : k.type \in InChat
  BY DEF Types
<1>2. CASE s[x].chat # "ok"
  BY <1>2 DEF Post, SameLife, SameBook
<1>3. CASE s[x].chat = "ok" /\ s[x].ready
  <2>1. p = WillSend(s, x, m)
    BY <1>3 DEF Post
  <2>2. Types(p, n) /\ p[Other(x)] = s[Other(x)] /\ p[x] = Sent(s[x], m)
    BY <2>1, WillSendIs
  <2> DEFINE c == Say(s[x], m)
  <2>3. /\ c \in Chat(n) /\ SameLife(s[x], c) /\ SameBook(s[x], c) /\ c.inbox = s[x].inbox
        /\ c.ready = s[x].ready
    BY <1>1, SayIs
  <2> HIDE DEF c
  <2>4. /\ SameLife(c, Confirmed(c)) /\ SameBook(c, Confirmed(c)) /\ Confirmed(c).inbox = c.inbox
        /\ Confirmed(c).ready = c.ready
    BY <2>3, ConfirmedIs
  <2>5. p[x] = c \/ p[x] = Confirmed(c)
    BY <2>2 DEF Sent, c
  <2> QED
    BY <1>3, <2>2, <2>3, <2>4, <2>5 DEF SameLife, SameBook
<1>4. CASE s[x].chat = "ok" /\ ~s[x].ready
  <2> DEFINE c == Park(s[x], m)
  <2>1. /\ c \in Chat(n) /\ SameLife(s[x], c) /\ SameBook(s[x], c) /\ c.inbox = s[x].inbox
        /\ c.ready = s[x].ready /\ c.out = Append(s[x].out, m)
    BY <1>1, ParkIs
  <2>2. \A k \in ToSet(c.out) : k.type \in InChat
    BY <1>1, <2>1, Grown, ChatFields
  <2>3. p = [s EXCEPT ![x].out = Append(@, m)]
    BY <1>4 DEF Post
  <2>4. p = With(s, x, c)
    BY <2>3 DEF With, Park, Types
  <2> HIDE DEF c
  <2>5. Types(p, n) /\ p[Other(x)] = s[Other(x)] /\ p[x] = c
    <3>1. n \in Nat /\ c \in Chat(n)
      BY <2>1
    <3> QED
      BY <2>2, <2>4, <3>1, WithIs
  <2> QED
    BY <1>4, <2>1, <2>5 DEF c
<1> QED
  BY <1>2, <1>3, <1>4

\* More numbers are known.
LEMMA MoreNumbers ==
    ASSUME NEW n \in Nat, NEW s, Types(s, n)
    PROVE  Types(s, n + 1) /\ Message(n) \subseteq Message(n + 1) /\ Chat(n) \subseteq Chat(n + 1)
<1>1. 0..(n - 1) \subseteq 0..(n + 1 - 1) /\ SUBSET (0..(n - 1)) \subseteq SUBSET (0..(n + 1 - 1))
  OBVIOUS
<1>2. ASSUME NEW m \in Message(n)
      PROVE  m \in Message(n + 1)
  BY <1>1 DEF Message
<1>3. ASSUME NEW q \in Seq(Message(n))
      PROVE  q \in Seq(Message(n + 1))
  BY <1>2
<1>4. ASSUME NEW c \in Chat(n)
      PROVE  c \in Chat(n + 1)
  <2>1. 0..(n - 1) \subseteq 0..(n + 1 - 1)
    BY <1>1
  <2>2. c \in [chat : States, key : SUBSET (0..(n - 1)), fp : SUBSET (0..(n - 1)),
            ex : Exchanges, id : 0..(n - 1), exkey : SUBSET (0..(n - 1)), ready : BOOLEAN,
            out : Seq(Message(n)), asked : Seq(Message(n)), inbox : Seq(Message(n)),
            called : Nat, told : Nat, texts : Nat, requests : Nat, left : BOOLEAN,
            wait : [dh : Nat, request : Nat, accept : Nat, discard : Nat]] /\ Exchanging(c)
    BY DEF Chat
  <2> DEFINE K == SUBSET (0..(n - 1))  L == SUBSET (0..(n + 1 - 1))
             I == 0..(n - 1)  J == 0..(n + 1 - 1)
             M == Seq(Message(n))  N == Seq(Message(n + 1))
  <2>3. K \subseteq L /\ I \subseteq J /\ M \subseteq N
    BY <1>1, <1>3
  <2> HIDE DEF K, L, I, J, M, N
  <2>4. c \in [chat : States, key : K, fp : K, ex : Exchanges, id : I, exkey : K, ready : BOOLEAN,
               out : M, asked : M, inbox : M, called : Nat, told : Nat, texts : Nat,
               requests : Nat, left : BOOLEAN,
               wait : [dh : Nat, request : Nat, accept : Nat, discard : Nat]]
    BY <2>2 DEF K, I, M
  <2>5. c \in [chat : States, key : L, fp : L, ex : Exchanges, id : J, exkey : L, ready : BOOLEAN,
               out : N, asked : N, inbox : N, called : Nat, told : Nat, texts : Nat,
               requests : Nat, left : BOOLEAN,
               wait : [dh : Nat, request : Nat, accept : Nat, discard : Nat]]
    BY <2>3, <2>4
  <2> QED
    BY <2>2, <2>5 DEF Chat, L, J, N
<1> DEFINE A == Chat(n)  B == Chat(n + 1)
<1>5. Message(n) \subseteq Message(n + 1) /\ A \subseteq B
  BY <1>2, <1>4
<1>6. s \in [Side -> A] /\ \A x \in Side : \A m \in ToSet(s[x].out) : m.type \in InChat
  BY DEF Types
<1> HIDE DEF A, B
<1>7. s \in [Side -> B]
  BY <1>5, <1>6
<1> QED
  BY <1>5, <1>6, <1>7 DEF Types, A, B

\* What is under way from and to a chat.
SameWay(c, e) == e.ready = c.ready /\ e.out = c.out /\ e.asked = c.asked /\ e.inbox = c.inbox

\* A query has ended; a call is told.
Kinds == {"dh", "request", "accept", "discard"}

\* The end of a query: one less of its kind waits.
IsDone(c, e, kind) ==
    /\ \A k \in Kinds : e.wait[k] = IF k = kind THEN c.wait[k] - 1 ELSE c.wait[k]
    /\ e.chat = c.chat /\ e.left = c.left /\ SameBook(c, e)
    /\ SameKeys(c, e) /\ SameExchange(c, e) /\ SameWay(c, e)

\* Done() ends one query.
LEMMA DoneIs ==
    ASSUME NEW n \in Nat, NEW s, Types(s, n), NEW x \in Side,
           NEW kind \in Kinds, s[x].wait[kind] > 0
    PROVE  LET t == Done(s, x, kind) IN
           Types(t, n) /\ t[Other(x)] = s[Other(x)] /\ IsDone(s[x], t[x], kind)
<1> DEFINE w == [s[x].wait EXCEPT ![kind] = @ - 1]
           e == [s[x] EXCEPT !.wait = w]
           t == Done(s, x, kind)
<1>1. s[x] \in Chat(n) /\ \A k \in ToSet(s[x].out) : k.type \in InChat
  BY DEF Types
<1>2. /\ w \in [dh : Nat, request : Nat, accept : Nat, discard : Nat]
      /\ \A k \in Kinds : w[k] = IF k = kind THEN s[x].wait[k] - 1 ELSE s[x].wait[k]
  <2>1. s[x].wait \in [dh : Nat, request : Nat, accept : Nat, discard : Nat]
    BY <1>1, ChatFields
  <2>2. s[x].wait[kind] - 1 \in Nat
    BY <2>1 DEF Kinds
  <2> QED
    BY <2>1, <2>2 DEF Kinds
<1>3. t = With(s, x, e)
  BY DEF Done, With, Types
<1> HIDE DEF w
<1>4. /\ e.wait = w /\ e.chat = s[x].chat /\ e.left = s[x].left /\ SameBook(s[x], e)
      /\ SameKeys(s[x], e) /\ SameExchange(s[x], e) /\ SameWay(s[x], e)
  BY <1>1 DEF Chat, SameBook, SameKeys, SameExchange, SameWay
<1>5. e \in Chat(n)
  <2>1. Exchanging(e)
    BY <1>1, <1>4, ChatFields DEF Exchanging, SameExchange
  <2> QED
    BY <1>1, <1>2, <2>1 DEF Chat
<1> HIDE DEF e, t
<1>6. e.out = s[x].out
  BY <1>4 DEF SameWay
<1>7. Types(t, n) /\ t[Other(x)] = s[Other(x)] /\ t[x] = e
  BY <1>1, <1>3, <1>5, <1>6, WithIs
<1> QED
  BY <1>2, <1>4, <1>7 DEF t, IsDone

\* Told() counts one answer.
LEMMA ToldIs ==
    ASSUME NEW n \in Nat, NEW s, Types(s, n), NEW x \in Side
    PROVE  LET t == Told(s, x) IN
           /\ Types(t, n) /\ t[Other(x)] = s[Other(x)]
           /\ t[x].told = s[x].told + 1 /\ t[x].called = s[x].called
           /\ SameLife(s[x], t[x])
           /\ SameKeys(s[x], t[x]) /\ SameExchange(s[x], t[x]) /\ SameWay(s[x], t[x])
<1> DEFINE e == [s[x] EXCEPT !.told = @ + 1]
           t == Told(s, x)
<1>1. s[x] \in Chat(n) /\ \A k \in ToSet(s[x].out) : k.type \in InChat
  BY DEF Types
<1>3. t = With(s, x, e)
  BY DEF Told, With, Types
<1>4. /\ e.told = s[x].told + 1 /\ e.called = s[x].called
      /\ SameLife(s[x], e)
      /\ SameKeys(s[x], e) /\ SameExchange(s[x], e) /\ SameWay(s[x], e)
  BY <1>1 DEF Chat, SameLife, SameKeys, SameExchange, SameWay
<1>5. e \in Chat(n)
  <2>1. Exchanging(e)
    BY <1>1, <1>4, ChatFields DEF Exchanging, SameExchange
  <2>2. s[x].told + 1 \in Nat
    BY <1>1, ChatFields
  <2> QED
    BY <1>1, <2>1, <2>2 DEF Chat
<1> HIDE DEF e, t
<1>6. e.out = s[x].out
  BY <1>4 DEF SameWay
<1>7. Types(t, n) /\ t[Other(x)] = s[Other(x)] /\ t[x] = e
  BY <1>1, <1>3, <1>5, <1>6, WithIs
<1> QED
  BY <1>4, <1>7 DEF t

-----------------------------------------------------------------------------
(* The life of the chat: what a step in the chat leaves alone              *)

\* The life of the chat, with what holds once it has ended.
LifeHolds(s, v) == Life(s, v) /\ Closing(s, v)

\* Asked of the server is the same, but for messages of the chat.
AskedMore(p, q) ==
    /\ \A T : T \cap InChat = {} => (Has(q, T) <=> Has(p, T)) /\ (Once(p, T) => Once(q, T))
    /\ \A m \in ToSet(q) : m.type \in InChat \/ m \in ToSet(p)
    /\ p # <<>> => q # <<>>

\* What is asked inside the chat adds nothing to the life of it.
LEMMA AskedGrows ==
    ASSUME NEW S, NEW q \in Seq(S), NEW m \in S, m.type \in InChat
    PROVE  AskedMore(q, Append(q, m)) /\ AskedMore(q, q)
<1>1. \A T : T \cap InChat = {} => (Has(Append(q, m), T) <=> Has(q, T))
  BY HasGrows
<1>2. ASSUME NEW T, T \cap InChat = {}, Once(q, T)
      PROVE  Once(Append(q, m), T)
  <2>1. m.type \notin T
    BY <1>2
  <2> QED
    BY <1>2, <2>1, OnceGrows
<1>3. /\ ToSet(Append(q, m)) = ToSet(q) \cup {m}
      /\ Append(q, m) # <<>>
  BY Grown
<1> QED
  BY <1>1, <1>2, <1>3 DEF AskedMore

\* A step of x that changes only what is said and the keys that are not yet due.
Talked(c, e) ==
    /\ e.chat = c.chat /\ e.left = c.left /\ e.inbox = c.inbox
    /\ e.wait.dh = c.wait.dh /\ e.wait.accept = c.wait.accept
    /\ AskedMore(c.asked, e.asked)
    /\ c.fp = {} => e.asked = c.asked /\ e.ex = c.ex /\ e.out = c.out
    /\ SameKeys(c, e) \/ (c.fp # {} /\ e.fp = e.key /\ Pair(e.key))

\* What the sides say to each other inside the chat keeps the life of it.
LEMMA LifeTalked ==
    ASSUME NEW n \in Nat \ {0}, NEW s, NEW t, NEW v, Types(s, n), Types(t, n), Life(s, v),
           \A x \in Side : Talked(s[x], t[x]),
           \A x \in Side : SameKeys(s[x], t[x]) \/ s["alice"].fp # {}
    PROVE  Life(t, v) /\ (Closing(s, v) => Closing(t, v))
<1>1. Life(s, v)
  OBVIOUS
<1> DEFINE a == s["alice"]  b == s["bob"]  e == t["alice"]  f == t["bob"]
<1>2. /\ Talked(a, e) /\ Talked(b, f)
      /\ SameKeys(a, e) \/ a.fp # {}
      /\ SameKeys(b, f) \/ a.fp # {}
      /\ a = s["alice"] /\ b = s["bob"] /\ e = t["alice"] /\ f = t["bob"]
  BY DEF Side
<1> HIDE DEF a, b, e, f
<1>3. /\ ~("request_chat" \in InChat) /\ ~("accept_chat" \in InChat) /\ ~("discard" \in InChat)
      /\ {"request_chat"} \cap InChat = {} /\ {"accept_chat"} \cap InChat = {}
      /\ {"discard"} \cap InChat = {}
  BY DEF InChat
<1>4. /\ e.inbox = a.inbox /\ f.inbox = b.inbox
      /\ e.chat = a.chat /\ f.chat = b.chat /\ e.left = a.left /\ f.left = b.left
      /\ e.wait.dh = a.wait.dh /\ f.wait.dh = b.wait.dh /\ f.wait.accept = b.wait.accept
      /\ a.fp = {} => e.asked = a.asked /\ e.ex = a.ex /\ e.out = a.out
      /\ b.fp = {} => f.asked = b.asked /\ f.ex = b.ex /\ f.out = b.out
      /\ SameKeys(a, e) \/ (a.fp # {} /\ e.fp = e.key /\ Pair(e.key))
      /\ SameKeys(b, f) \/ (b.fp # {} /\ f.fp = f.key /\ Pair(f.key))
  BY <1>2 DEF Talked
<1>5. /\ Has(e.asked, {"request_chat"}) <=> Has(a.asked, {"request_chat"})
      /\ Has(e.asked, {"accept_chat"}) <=> Has(a.asked, {"accept_chat"})
      /\ Has(e.asked, {"discard"}) <=> Has(a.asked, {"discard"})
      /\ Once(a.asked, {"request_chat"}) => Once(e.asked, {"request_chat"})
      /\ \A m \in ToSet(e.asked) : m.type \in InChat \/ m \in ToSet(a.asked)
  BY <1>2, <1>3 DEF Talked, AskedMore
<1>6. /\ Has(f.asked, {"request_chat"}) <=> Has(b.asked, {"request_chat"})
      /\ Has(f.asked, {"accept_chat"}) <=> Has(b.asked, {"accept_chat"})
      /\ Has(f.asked, {"discard"}) <=> Has(b.asked, {"discard"})
      /\ Once(b.asked, {"accept_chat"}) => Once(f.asked, {"accept_chat"})
      /\ \A m \in ToSet(f.asked) : m.type \in InChat \/ m \in ToSet(b.asked)
  BY <1>2, <1>3 DEF Talked, AskedMore
<1>7. (a.fp = {} <=> e.fp = {}) /\ (b.fp = {} <=> f.fp = {})
  BY <1>4 DEF SameKeys, Pair
<1>8. Ordered(t, v)
  BY <1>1, <1>2, <1>4 DEF Life, Ordered, Side
<1>9. Roles(t, v)
  <2>1. a.chat = "absent" => a.fp = {}
    BY <1>1, <1>2 DEF Life, Creator
  <2>2. b.chat = "absent" => b.fp = {} /\ SameKeys(b, f)
    BY <1>1, <1>2, <1>4 DEF Life, Roles
  <2> QED
    BY <1>1, <1>2, <1>4, <1>5, <1>6, <2>1, <2>2 DEF Life, Roles, Side, SameKeys
<1>10. Creator(t, v)
  <2>1. a.fp = {} => SameKeys(a, e)
    BY <1>4
  <2>2. Has(a.asked, {"request_chat"}) => a.fp = {}
    BY <1>1, <1>2 DEF Life, Creator
  <2>3. \A m \in ToSet(e.asked) : m.type = "request_chat" => m.g = e.key /\ Single(m.g)
    <3>1. ASSUME NEW m \in ToSet(e.asked), m.type = "request_chat"
          PROVE  m.g = e.key /\ Single(m.g)
      <4>1. m \in ToSet(a.asked)
        BY <1>3, <1>5, <3>1
      <4>2. a.fp = {}
        BY <2>2, <3>1, <4>1 DEF Has
      <4> QED
        BY <1>1, <1>2, <2>1, <3>1, <4>1, <4>2 DEF Life, Creator, SameKeys
    <3> QED
      BY <3>1
  <2> QED
    BY <1>1, <1>2, <1>4, <1>5, <1>7, <2>1, <2>3 DEF Life, Creator, SameKeys
<1>11. Acceptor(t, v)
  <2>1. b.fp = {} => SameKeys(b, f)
    BY <1>4
  <2>2. Has(b.asked, {"accept_chat"}) => SameKeys(b, f)
    BY <1>1, <1>2 DEF Life, Acceptor
  <2>3. \A m \in ToSet(f.asked) : m.type = "accept_chat" =>
           m.fp = f.key /\ f.key = v.ga \cup m.g /\ Single(m.g)
    <3>1. ASSUME NEW m \in ToSet(f.asked), m.type = "accept_chat"
          PROVE  m.fp = f.key /\ f.key = v.ga \cup m.g /\ Single(m.g)
      <4>1. m \in ToSet(b.asked)
        BY <1>3, <1>6, <3>1
      <4>2. SameKeys(b, f)
        BY <2>2, <3>1, <4>1 DEF Has
      <4> QED
        BY <1>1, <1>2, <3>1, <4>1, <4>2 DEF Life, Acceptor, SameKeys
    <3> QED
      BY <3>1
  <2>4. \A m \in ToSet(e.inbox) : m.type = "chat" =>
           m.fp = f.key /\ f.key = v.ga \cup m.g /\ Single(m.g)
    <3>1. ASSUME NEW m \in ToSet(a.inbox), m.type = "chat"
          PROVE  m.fp = f.key /\ f.key = v.ga \cup m.g /\ Single(m.g)
      <4>1. a.fp = {}
        BY <1>1, <1>2, <3>1 DEF Life, Creator, Has
      <4> QED
        BY <1>1, <1>2, <3>1, <4>1 DEF Life, Acceptor, SameKeys
    <3> QED
      BY <1>4, <3>1
  <2>5. f.fp # {} => Pair(f.fp)
    BY <1>1, <1>2, <1>4 DEF Life, Acceptor, SameKeys
  <2>6. f.chat # "absent" /\ f.fp = {} => f.key = v.ga
    BY <1>1, <1>2, <1>4, <1>7, <2>1 DEF Life, Acceptor, SameKeys
  <2>7. f.fp = {} => /\ v.chat # "ok" /\ f.wait.accept = 0
                     /\ ~Has(f.asked, {"accept_chat"} \cup InChat)
                     /\ ~Has(f.inbox, {"accepted", "accept_error", "declined"})
                     /\ f.ex = "none" /\ f.out = <<>>
                     /\ ~Has(e.inbox, {"chat"} \cup InChat)
    BY <1>1, <1>2, <1>4, <1>7 DEF Life, Acceptor
  <2> QED
    BY <1>1, <1>2, <1>4, <1>6, <1>7, <2>3, <2>4, <2>5, <2>6, <2>7 DEF Life, Acceptor
<1>12. Keyed(t, v)
  BY <1>1, <1>2, <1>4, <1>7 DEF Life, Keyed, SameKeys, Side
<1>13. Closing(s, v) => Closing(t, v)
  BY <1>2, <1>4, <1>6 DEF Closing, Side
<1> QED
  BY <1>8, <1>9, <1>10, <1>11, <1>12, <1>13 DEF Life

\* The next message is read, and nothing else happens yet.
Heard(c, e) ==
    /\ c.inbox # <<>> /\ e.inbox = Tail(c.inbox)
    /\ SameLife(c, e) /\ SameKeys(c, e) /\ SameExchange(c, e)
    /\ e.ready = c.ready /\ e.out = c.out /\ e.asked = c.asked

\* Taking a message from the inbox keeps the life of the chat, but for the news of its
\* end, which has to be acted upon.
LEMMA LifeHeard ==
    ASSUME NEW n \in Nat \ {0}, NEW s, NEW t, NEW v, Types(s, n), Types(t, n), LifeHolds(s, v),
           NEW x \in Side, Heard(s[x], t[x]), t[Other(x)] = s[Other(x)]
    PROVE  /\ Life(t, v)
           /\ Head(s[x].inbox).type \notin {"discarded", "declined"} => LifeHolds(t, v)
<1>1. Life(s, v) /\ Closing(s, v)
  BY DEF LifeHolds
<1>2. ASSUME NEW y \in Side
      PROVE  /\ t[y].chat = s[y].chat /\ t[y].left = s[y].left /\ t[y].wait = s[y].wait
             /\ t[y].key = s[y].key /\ t[y].fp = s[y].fp /\ t[y].ex = s[y].ex /\ t[y].out = s[y].out
             /\ t[y].asked = s[y].asked
             /\ \A m \in ToSet(t[y].inbox) : m \in ToSet(s[y].inbox)
             /\ Sorted(s[y].inbox) => Sorted(t[y].inbox)
             /\ s[y].inbox = <<>> => t[y].inbox = <<>>
             /\ \A T : Has(t[y].inbox, T) => Has(s[y].inbox, T)
             /\ \A T : Once(s[y].inbox, T) => Once(t[y].inbox, T)
             /\ \A T : Head(s[x].inbox).type \notin T /\ Has(s[y].inbox, T) => Has(t[y].inbox, T)
  <2>1. CASE y # x
    <3>1. t[y] = s[y]
      BY <2>1, Sides
    <3> QED
      BY <3>1
  <2>2. CASE y = x
    <3>1. s[x].inbox \in Seq(Message(n)) /\ s[x].inbox # <<>> /\ t[x].inbox = Tail(s[x].inbox)
      BY ChatFields DEF Types, Heard
    <3>2. /\ ToSet(t[x].inbox) \subseteq ToSet(s[x].inbox)
          /\ Sorted(s[x].inbox) => Sorted(t[x].inbox)
          /\ \A T : Has(t[x].inbox, T) => Has(s[x].inbox, T)
          /\ \A T : Once(s[x].inbox, T) => Once(t[x].inbox, T)
          /\ \A T : Head(s[x].inbox).type \notin T /\ Has(s[x].inbox, T) => Has(t[x].inbox, T)
      <4> DEFINE q == s[x].inbox
      <4>1. q \in Seq(Message(n)) /\ q # <<>> /\ t[x].inbox = Tail(q) /\ q = s[x].inbox
        BY <3>1
      <4> HIDE DEF q
      <4>2. ToSet(Tail(q)) \subseteq ToSet(q)
        BY <4>1, Rest
      <4>3. Sorted(q) => Sorted(Tail(q))
        BY <4>1, SortedRest
      <4>4. \A T : Once(q, T) => Once(Tail(q), T)
        BY <4>1, OnceRest
      <4>5. \A T : Has(q, T) <=> Has(Tail(q), T) \/ Head(q).type \in T
        BY <4>1, HasRest
      <4> QED
        BY <4>1, <4>2, <4>3, <4>4, <4>5
    <3> QED
      BY <2>2, <3>1, <3>2 DEF Heard, SameLife, SameKeys, SameExchange
  <2> QED
    BY <2>1, <2>2
<1> DEFINE a == s["alice"]  b == s["bob"]  e == t["alice"]  f == t["bob"]
<1>3. a = s["alice"] /\ b = s["bob"] /\ e = t["alice"] /\ f = t["bob"]
  OBVIOUS
<1> HIDE DEF a, b, e, f
<1>4. /\ e.chat = a.chat /\ e.left = a.left /\ e.wait = a.wait
      /\ e.key = a.key /\ e.fp = a.fp /\ e.ex = a.ex /\ e.out = a.out /\ e.asked = a.asked
      /\ \A m \in ToSet(e.inbox) : m \in ToSet(a.inbox)
      /\ Sorted(a.inbox) => Sorted(e.inbox)
      /\ a.inbox = <<>> => e.inbox = <<>>
      /\ \A T : Has(e.inbox, T) => Has(a.inbox, T)
  BY <1>2, <1>3 DEF Side
<1>5. /\ f.chat = b.chat /\ f.left = b.left /\ f.wait = b.wait
      /\ f.key = b.key /\ f.fp = b.fp /\ f.ex = b.ex /\ f.out = b.out /\ f.asked = b.asked
      /\ \A m \in ToSet(f.inbox) : m \in ToSet(b.inbox)
      /\ Sorted(b.inbox) => Sorted(f.inbox)
      /\ b.inbox = <<>> => f.inbox = <<>>
      /\ \A T : Has(f.inbox, T) => Has(b.inbox, T)
      /\ \A T : Once(b.inbox, T) => Once(f.inbox, T)
  BY <1>2, <1>3 DEF Side
<1>6. Ordered(t, v)
  BY <1>1, <1>3, <1>4, <1>5 DEF Life, Ordered, Side
<1>7. Roles(t, v)
  BY <1>1, <1>3, <1>4, <1>5 DEF Life, Roles, Side
<1>8. Creator(t, v)
  BY <1>1, <1>3, <1>4 DEF Life, Creator
<1>9. Acceptor(t, v)
  BY <1>1, <1>3, <1>4, <1>5 DEF Life, Acceptor
<1>10. Keyed(t, v)
  BY <1>1, <1>3, <1>4, <1>5 DEF Life, Keyed, Side
<1>11. ASSUME Head(s[x].inbox).type \notin {"discarded", "declined"}
       PROVE  Closing(t, v)
  <2>1. \A y \in Side : /\ Has(s[y].inbox, {"discarded"}) => Has(t[y].inbox, {"discarded"})
                        /\ Has(s[y].inbox, {"declined"}) => Has(t[y].inbox, {"declined"})
    BY <1>2, <1>11
  <2>2. \A y \in Side : Has(t[y].inbox, Reopeners) => Has(s[y].inbox, Reopeners)
    BY <1>2
  <2>3. \A y \in Side : t[y].left = s[y].left /\ t[y].chat = s[y].chat /\ t[y].asked = s[y].asked
    BY <1>2
  <2> QED
    BY <1>1, <2>1, <2>2, <2>3 DEF Closing
<1> QED
  BY <1>6, <1>7, <1>8, <1>9, <1>10, <1>11 DEF LifeHolds, Life

-----------------------------------------------------------------------------
(* The life of the chat: the server                                        *)

\* A question has reached the server.
Asked(c, e) ==
    /\ c.asked # <<>> /\ e.asked = Tail(c.asked)
    /\ SameLife(c, e) /\ SameKeys(c, e) /\ SameExchange(c, e)
    /\ e.ready = c.ready /\ e.out = c.out /\ e.inbox = c.inbox

\* The server's taking a message keeps the life of the chat, but for an accept, which
\* has to be answered.
LEMMA LifeAsked ==
    ASSUME NEW n \in Nat \ {0}, NEW s, NEW t, NEW v, Types(s, n), Types(t, n), LifeHolds(s, v),
           NEW x \in Side, Asked(s[x], t[x]), t[Other(x)] = s[Other(x)]
    PROVE  /\ Life(t, v)
           /\ Head(s[x].asked).type # "accept_chat" => LifeHolds(t, v)
<1>1. Life(s, v) /\ Closing(s, v)
  BY DEF LifeHolds
<1>2. ASSUME NEW y \in Side
      PROVE  /\ t[y].chat = s[y].chat /\ t[y].left = s[y].left /\ t[y].wait = s[y].wait
             /\ t[y].key = s[y].key /\ t[y].fp = s[y].fp /\ t[y].ex = s[y].ex /\ t[y].out = s[y].out
             /\ t[y].inbox = s[y].inbox
             /\ \A m \in ToSet(t[y].asked) : m \in ToSet(s[y].asked)
             /\ s[y].asked = <<>> => t[y].asked = <<>>
             /\ \A T : Has(t[y].asked, T) => Has(s[y].asked, T)
             /\ \A T : Once(s[y].asked, T) => Once(t[y].asked, T)
             /\ \A T : Head(s[x].asked).type \notin T /\ Has(s[y].asked, T) => Has(t[y].asked, T)
  <2>1. CASE y # x
    <3>1. t[y] = s[y]
      BY <2>1, Sides
    <3> QED
      BY <3>1
  <2>2. CASE y = x
    <3> DEFINE q == s[x].asked
    <3>1. q \in Seq(Message(n)) /\ q # <<>> /\ t[x].asked = Tail(q) /\ q = s[x].asked
      BY ChatFields DEF Types, Asked
    <3> HIDE DEF q
    <3>2. ToSet(Tail(q)) \subseteq ToSet(q)
      BY <3>1, Rest
    <3>3. \A T : Once(q, T) => Once(Tail(q), T)
      BY <3>1, OnceRest
    <3>4. \A T : Has(q, T) <=> Has(Tail(q), T) \/ Head(q).type \in T
      BY <3>1, HasRest
    <3> QED
      BY <2>2, <3>1, <3>2, <3>3, <3>4 DEF Asked, SameLife, SameKeys, SameExchange
  <2> QED
    BY <2>1, <2>2
<1> DEFINE a == s["alice"]  b == s["bob"]  e == t["alice"]  f == t["bob"]
<1>3. a = s["alice"] /\ b = s["bob"] /\ e = t["alice"] /\ f = t["bob"]
  OBVIOUS
<1> HIDE DEF a, b, e, f
<1>4. /\ e.chat = a.chat /\ e.left = a.left /\ e.wait = a.wait
      /\ e.key = a.key /\ e.fp = a.fp /\ e.ex = a.ex /\ e.out = a.out /\ e.inbox = a.inbox
      /\ \A m \in ToSet(e.asked) : m \in ToSet(a.asked)
      /\ a.asked = <<>> => e.asked = <<>>
      /\ \A T : Has(e.asked, T) => Has(a.asked, T)
      /\ \A T : Once(a.asked, T) => Once(e.asked, T)
  BY <1>2, <1>3 DEF Side
<1>5. /\ f.chat = b.chat /\ f.left = b.left /\ f.wait = b.wait
      /\ f.key = b.key /\ f.fp = b.fp /\ f.ex = b.ex /\ f.out = b.out /\ f.inbox = b.inbox
      /\ \A m \in ToSet(f.asked) : m \in ToSet(b.asked)
      /\ b.asked = <<>> => f.asked = <<>>
      /\ \A T : Has(f.asked, T) => Has(b.asked, T)
      /\ \A T : Once(b.asked, T) => Once(f.asked, T)
  BY <1>2, <1>3 DEF Side
<1>6. Ordered(t, v)
  BY <1>1, <1>3, <1>4, <1>5 DEF Life, Ordered, Side
<1>7. Roles(t, v)
  BY <1>1, <1>3, <1>4, <1>5 DEF Life, Roles, Side
<1>8. Creator(t, v)
  BY <1>1, <1>3, <1>4 DEF Life, Creator
<1>9. Acceptor(t, v)
  BY <1>1, <1>3, <1>4, <1>5 DEF Life, Acceptor
<1>10. Keyed(t, v)
  BY <1>1, <1>3, <1>4, <1>5 DEF Life, Keyed, Side
<1>11. ASSUME Head(s[x].asked).type # "accept_chat"
       PROVE  Closing(t, v)
  <2>1. \A y \in Side : Has(s[y].asked, {"accept_chat"}) => Has(t[y].asked, {"accept_chat"})
    BY <1>2, <1>11
  <2>2. \A y \in Side : t[y].left = s[y].left /\ t[y].chat = s[y].chat /\ t[y].inbox = s[y].inbox
    BY <1>2
  <2> QED
    BY <1>1, <2>1, <2>2 DEF Closing
<1> QED
  BY <1>6, <1>7, <1>8, <1>9, <1>10, <1>11 DEF LifeHolds, Life

\* Something has reached the inbox.
Reached(c, e, l) ==
    /\ e.inbox = Append(c.inbox, l)
    /\ SameLife(c, e) /\ SameKeys(c, e) /\ SameExchange(c, e)
    /\ e.ready = c.ready /\ e.out = c.out /\ e.asked = c.asked

\* What does not depend on when it comes.
LEMMA LifeReached ==
    ASSUME NEW n \in Nat \ {0}, NEW s, NEW t, NEW v, Types(s, n), Types(t, n), Life(s, v),
           NEW x \in Side, NEW l \in Message(n), Reached(s[x], t[x], l), t[Other(x)] = s[Other(x)],
           x = "alice" => s[x].chat # "absent", x = "bob" => v.chat # "no",
           \/ l.type \in {"dh", "dh_error", "discard_done"}
           \/ l.type = "request_error" /\ x = "alice"
           \/ l.type \in InChat /\ v.chat = "ok"
           \/ l.type = "discarded" /\ v.chat = "gone"
    PROVE  Life(t, v) /\ (Closing(s, v) => Closing(t, v))
<1>1. /\ l.type \notin Reopeners
      /\ l.type \notin {"requested", "accepted", "accept_error", "declined", "waiting", "chat"}
      /\ Rank(l) \in {0, 3, 4} /\ (Rank(l) = 3 => v.chat = "ok") /\ (Rank(l) = 4 => v.chat = "gone")
  BY DEF Reopeners, InChat, Rank
<1>2. ASSUME NEW y \in Side
      PROVE  /\ t[y].chat = s[y].chat /\ t[y].left = s[y].left /\ t[y].wait = s[y].wait
             /\ t[y].key = s[y].key /\ t[y].fp = s[y].fp /\ t[y].ex = s[y].ex /\ t[y].out = s[y].out
             /\ t[y].asked = s[y].asked
             /\ \A m \in ToSet(t[y].inbox) : m \in ToSet(s[y].inbox) \/ (m = l /\ x = y)
             /\ \A m \in ToSet(s[y].inbox) : m \in ToSet(t[y].inbox)
             /\ Sorted(t[y].inbox)
             /\ \A T : Has(t[y].inbox, T) => Has(s[y].inbox, T) \/ (l.type \in T /\ x = y)
             /\ \A T : Has(s[y].inbox, T) => Has(t[y].inbox, T)
             /\ \A T : Once(s[y].inbox, T) /\ l.type \notin T => Once(t[y].inbox, T)
  <2>1. CASE y # x
    <3>1. t[y] = s[y]
      BY <2>1, Sides
    <3> QED
      BY <3>1 DEF Life, Ordered
  <2>2. CASE y = x
    <3> DEFINE q == s[x].inbox
    <3>1. q \in Seq(Message(n)) /\ t[x].inbox = Append(q, l) /\ q = s[x].inbox
      BY ChatFields DEF Types, Reached
    <3> HIDE DEF q
    <3>2. ToSet(Append(q, l)) = ToSet(q) \cup {l}
      BY <3>1, Grown
    <3>3. Sorted(Append(q, l))
      <4>1. Sorted(q) /\ \A m \in ToSet(q) : Rank(m) <= Level(v)
        BY <3>1 DEF Life, Ordered
      <4>2. \A m \in ToSet(q) : Rank(m) \in 0..4
        BY DEF Rank
      <4>3. \A m \in ToSet(q) : Before(m, l)
        BY <1>1, <4>1, <4>2 DEF Before, Level
      <4> QED
        BY <3>1, <4>1, <4>3, SortedGrows
    <3>4. \A T : Once(q, T) /\ l.type \notin T => Once(Append(q, l), T)
      BY <3>1, OnceGrows
    <3>5. \A T : Has(Append(q, l), T) <=> Has(q, T) \/ l.type \in T
      BY <3>1, HasGrows
    <3> QED
      BY <2>2, <3>1, <3>2, <3>3, <3>4, <3>5 DEF Reached, SameLife, SameKeys, SameExchange
  <2> QED
    BY <2>1, <2>2
<1> DEFINE a == s["alice"]  b == s["bob"]  e == t["alice"]  f == t["bob"]
<1>3. a = s["alice"] /\ b = s["bob"] /\ e = t["alice"] /\ f = t["bob"]
  OBVIOUS
<1> HIDE DEF a, b, e, f
<1>4. /\ e.chat = a.chat /\ e.left = a.left /\ e.wait = a.wait
      /\ e.key = a.key /\ e.fp = a.fp /\ e.ex = a.ex /\ e.out = a.out /\ e.asked = a.asked
      /\ \A m \in ToSet(e.inbox) : m \in ToSet(a.inbox) \/ (m = l /\ x = "alice")
      /\ \A T : Has(e.inbox, T) => Has(a.inbox, T) \/ (l.type \in T /\ x = "alice")
      /\ x # "alice" => e = a
  BY <1>2, <1>3, Sides DEF Side
<1>5. /\ f.chat = b.chat /\ f.left = b.left /\ f.wait = b.wait
      /\ f.key = b.key /\ f.fp = b.fp /\ f.ex = b.ex /\ f.out = b.out /\ f.asked = b.asked
      /\ \A m \in ToSet(f.inbox) : m \in ToSet(b.inbox) \/ (m = l /\ x = "bob")
      /\ \A T : Has(f.inbox, T) => Has(b.inbox, T) \/ (l.type \in T /\ x = "bob")
      /\ \A T : Once(b.inbox, T) /\ l.type \notin T => Once(f.inbox, T)
      /\ x # "bob" => f = b
  BY <1>2, <1>3, Sides DEF Side
<1>6. Ordered(t, v)
  <2>1. Rank(l) <= Level(v)
    BY <1>1 DEF Level, Life, Ordered, Roles
  <2> QED
    BY <1>2, <2>1 DEF Life, Ordered
<1>7. Roles(t, v)
  BY <1>1, <1>3, <1>4, <1>5 DEF Life, Roles, Side, InChat
<1>8. Creator(t, v)
  BY <1>1, <1>3, <1>4 DEF Life, Creator
<1>9. Acceptor(t, v)
  <2>1. f.fp = {} => ~Has(e.inbox, {"chat"} \cup InChat)
    BY <1>1, <1>3, <1>4, <1>5 DEF Life, Acceptor, InChat
  <2>2. \A m \in ToSet(f.inbox) : m.type = "requested" => m.g = v.ga
    BY <1>1, <1>3, <1>5 DEF Life, Acceptor
  <2>3. \A m \in ToSet(e.inbox) : m.type = "chat" =>
           m.fp = f.key /\ f.key = v.ga \cup m.g /\ Single(m.g)
    BY <1>1, <1>3, <1>4, <1>5 DEF Life, Acceptor
  <2>4. Once(f.inbox, {"accepted", "accept_error", "declined"})
    BY <1>1, <1>3, <1>5 DEF Life, Acceptor
  <2>5. v.chat = "no" => f.chat = "absent" /\ f.inbox = <<>>
    BY <1>3, <1>5 DEF Life, Acceptor
  <2>6. /\ ~Has(b.inbox, {"accepted", "accept_error", "declined"}) =>
               ~Has(f.inbox, {"accepted", "accept_error", "declined"})
        /\ ~Has(a.inbox, {"chat"}) => ~Has(e.inbox, {"chat"})
        /\ Has(f.inbox, {"requested"}) => Has(b.inbox, {"requested"})
    BY <1>1, <1>4, <1>5
  <2> QED
    BY <1>3, <1>4, <1>5, <2>1, <2>2, <2>3, <2>4, <2>5, <2>6 DEF Life, Acceptor
<1>10. Keyed(t, v)
  BY <1>3, <1>4, <1>5 DEF Life, Keyed, Side
<1>11. ASSUME Closing(s, v)
       PROVE  Closing(t, v)
  <2>1. \A y \in Side : /\ Has(s[y].inbox, {"discarded"}) => Has(t[y].inbox, {"discarded"})
                        /\ Has(s[y].inbox, {"declined"}) => Has(t[y].inbox, {"declined"})
    BY <1>2
  <2>2. \A y \in Side : t[y].left = s[y].left /\ t[y].chat = s[y].chat /\ t[y].asked = s[y].asked
    BY <1>2
  <2>3. \A y \in Side : Has(t[y].inbox, Reopeners) => Has(s[y].inbox, Reopeners)
    BY <1>1, <1>2
  <2> QED
    BY <1>11, <2>1, <2>2, <2>3 DEF Closing
<1> QED
  BY <1>6, <1>7, <1>8, <1>9, <1>10, <1>11 DEF Life

\* What reaches an inbox, field by field.
Arrived(c, e, l) ==
    /\ e.chat = c.chat /\ e.left = c.left /\ e.wait = c.wait
    /\ e.key = c.key /\ e.fp = c.fp /\ e.ex = c.ex /\ e.id = c.id /\ e.exkey = c.exkey
    /\ e.out = c.out /\ e.asked = c.asked /\ e.ready = c.ready
    /\ ToSet(e.inbox) = ToSet(c.inbox) \cup {l}
    /\ \A T : Has(e.inbox, T) <=> Has(c.inbox, T) \/ l.type \in T
    /\ \A T : Once(c.inbox, T) /\ (l.type \in T => ~Has(c.inbox, T)) => Once(e.inbox, T)
    /\ Sorted(c.inbox) /\ (\A m \in ToSet(c.inbox) : Before(m, l)) => Sorted(e.inbox)

\* What is put into an inbox arrives there and changes nothing else.
LEMMA ReachedIs ==
    ASSUME NEW n \in Nat, NEW c \in Chat(n), NEW e, NEW l \in Message(n), Reached(c, e, l)
    PROVE  Arrived(c, e, l)
<1> DEFINE q == c.inbox
<1>1. q \in Seq(Message(n)) /\ e.inbox = Append(q, l) /\ q = c.inbox
  BY ChatFields DEF Reached
<1> HIDE DEF q
<1>2. ToSet(Append(q, l)) = ToSet(q) \cup {l}
  BY <1>1, Grown
<1>3. ASSUME Sorted(q), \A m \in ToSet(q) : Before(m, l)
      PROVE  Sorted(Append(q, l))
  BY <1>1, <1>3, SortedGrows
<1>4. \A T : Once(q, T) /\ (l.type \in T => ~Has(q, T)) => Once(Append(q, l), T)
  BY <1>1, OnceGrows
<1>5. \A T : Has(Append(q, l), T) <=> Has(q, T) \/ l.type \in T
  BY <1>1, HasGrows
<1> QED
  BY <1>1, <1>2, <1>3, <1>4, <1>5 DEF Arrived, Reached, SameLife, SameKeys, SameExchange

\* The chat is requested: the creator waits, the other side is asked.
LEMMA LifeRequested ==
    ASSUME NEW n \in Nat \ {0}, NEW s, NEW t, NEW v, Types(s, n), Types(t, n), Life(s, v),
           v.chat = "no", NEW g, Single(g), g \in SUBSET Nat,
           s["alice"].chat = "waiting", s["alice"].fp = {}, s["alice"].key = g,
           ~Has(s["alice"].asked, {"request_chat"}),
           NEW k \in Message(n), NEW l \in Message(n), k.type = "waiting", l.type = "requested",
           l.g = g, Reached(s["alice"], t["alice"], k), Reached(s["bob"], t["bob"], l)
    PROVE  LifeHolds(t, [chat |-> "requested", ga |-> g])
<1> DEFINE a == s["alice"]  b == s["bob"]  e == t["alice"]  f == t["bob"]
           w == [chat |-> "requested", ga |-> g]
<1>1. a = s["alice"] /\ b = s["bob"] /\ e = t["alice"] /\ f = t["bob"]
      /\ w.chat = "requested" /\ w.ga = g /\ w \in [chat : {"no", "requested", "ok", "gone"}, ga : SUBSET Nat]
      /\ a \in Chat(n) /\ b \in Chat(n) /\ n \in Nat /\ Reached(a, e, k) /\ Reached(b, f, l)
  BY DEF Types, Side
<1> HIDE DEF a, b, e, f, w
<1>1a. Arrived(a, e, k) /\ Arrived(b, f, l)
  BY <1>1, ReachedIs
<1>2. /\ e.chat = a.chat /\ e.left = a.left /\ e.wait = a.wait
      /\ e.key = a.key /\ e.fp = a.fp /\ e.ex = a.ex /\ e.out = a.out /\ e.asked = a.asked
      /\ ToSet(e.inbox) = ToSet(a.inbox) \cup {k}
      /\ \A T : Has(e.inbox, T) <=> Has(a.inbox, T) \/ k.type \in T
      /\ Sorted(a.inbox) /\ (\A m \in ToSet(a.inbox) : Before(m, k)) => Sorted(e.inbox)
  BY <1>1, <1>1a DEF Arrived
<1>3. /\ f.chat = b.chat /\ f.left = b.left /\ f.wait = b.wait
      /\ f.key = b.key /\ f.fp = b.fp /\ f.ex = b.ex /\ f.out = b.out /\ f.asked = b.asked
      /\ ToSet(f.inbox) = ToSet(b.inbox) \cup {l}
      /\ \A T : Has(f.inbox, T) <=> Has(b.inbox, T) \/ l.type \in T
      /\ \A T : Once(b.inbox, T) /\ (l.type \in T => ~Has(b.inbox, T)) => Once(f.inbox, T)
      /\ Sorted(b.inbox) /\ (\A m \in ToSet(b.inbox) : Before(m, l)) => Sorted(f.inbox)
  BY <1>1, <1>1a DEF Arrived
<1>4. b.chat = "absent" /\ b.inbox = <<>> /\ ToSet(b.inbox) = {}
  BY <1>1, Elements DEF Life, Acceptor
<1>5. \A m \in ToSet(a.inbox) : Rank(m) = 0 /\ m.type \notin {"waiting", "chat"} \cup InChat
  <2>1. ASSUME NEW m \in ToSet(a.inbox)
        PROVE  Rank(m) = 0
    BY <1>1 DEF Life, Ordered, Side, Level, Rank
  <2> QED
    BY <2>1 DEF Rank, InChat
<1>6. Ordered(t, w)
  <2>1. \A m \in ToSet(a.inbox) : Before(m, k)
    BY <1>5 DEF Before, Rank
  <2>2. Rank(k) = 1 /\ Rank(l) = 1 /\ Level(w) = 1
    BY <1>1 DEF Rank, Level
  <2>3. Sorted(e.inbox) /\ Sorted(f.inbox)
    BY <1>1, <1>2, <1>3, <1>4, <2>1 DEF Life, Ordered, Side
  <2>4. /\ \A m \in ToSet(e.inbox) : Rank(m) <= 1
        /\ \A m \in ToSet(f.inbox) : Rank(m) <= 1
    BY <1>2, <1>3, <1>4, <1>5, <2>2
  <2> QED
    BY <1>1, <2>2, <2>3, <2>4 DEF Ordered, Side
<1>7. Roles(t, w)
  BY <1>1, <1>2, <1>3, <1>4 DEF Life, Roles, Side
<1>8. Creator(t, w)
  BY <1>1, <1>2 DEF Life, Creator
<1>9. Acceptor(t, w)
  <2>1. \A m \in ToSet(f.inbox) : m.type = "requested" => m.g = w.ga
    BY <1>1, <1>3, <1>4
  <2>2. ~Has(e.inbox, {"chat"} \cup InChat)
    BY <1>2, <1>5 DEF Has, InChat
  <2>3. \A m \in ToSet(e.inbox) : m.type # "chat"
    BY <2>2 DEF Has
  <2>4. /\ ~Has(f.inbox, {"accepted", "accept_error", "declined"})
        /\ Once(f.inbox, {"accepted", "accept_error", "declined"})
    BY <1>1, <1>3, <1>4 DEF Has, Life, Acceptor
  <2>5. b.fp = {} /\ b.asked = <<>>
    BY <1>1, <1>4 DEF Life, Roles
  <2>6. \A T : ~Has(f.asked, T)
    BY <1>3, <2>5, Elements DEF Has
  <2>7. \A m \in ToSet(f.asked) : FALSE
    BY <1>3, <2>5, Elements
  <2>8. f.wait.accept = 0 /\ f.ex = "none" /\ f.out = <<>> /\ Once(f.asked, {"accept_chat"})
    BY <1>1, <1>3, <2>5 DEF Life, Acceptor
  <2> QED
    BY <1>1, <1>3, <1>4, <2>1, <2>2, <2>3, <2>4, <2>5, <2>6, <2>7, <2>8 DEF Acceptor
<1>10. Keyed(t, w)
  BY <1>1, <1>2, <1>3 DEF Life, Keyed, Side
<1>11. Closing(t, w)
  BY <1>1 DEF Closing
<1> QED
  BY <1>6, <1>7, <1>8, <1>9, <1>10, <1>11 DEF LifeHolds, Life, w

\* The chat is accepted: each side is told of it.
LEMMA LifeAccepted ==
    ASSUME NEW n \in Nat \ {0}, NEW s, NEW t, NEW v, Types(s, n), Types(t, n), Life(s, v),
           v.chat = "requested", s["alice"].fp = {},
           s["bob"].fp # {}, s["bob"].wait.accept = 1,
           ~Has(s["bob"].asked, {"accept_chat"}),
           ~Has(s["bob"].inbox, {"accepted", "accept_error", "declined"}),
           NEW k \in Message(n), NEW l \in Message(n), k.type = "accepted", l.type = "chat",
           l.fp = s["bob"].key, s["bob"].key = v.ga \cup l.g, Single(l.g),
           Reached(s["bob"], t["bob"], k), Reached(s["alice"], t["alice"], l)
    PROVE  LifeHolds(t, [v EXCEPT !.chat = "ok"])
<1> DEFINE a == s["alice"]  b == s["bob"]  e == t["alice"]  f == t["bob"]
           w == [v EXCEPT !.chat = "ok"]
<1>1. a = s["alice"] /\ b = s["bob"] /\ e = t["alice"] /\ f = t["bob"]
      /\ w.chat = "ok" /\ w.ga = v.ga /\ w \in [chat : {"no", "requested", "ok", "gone"}, ga : SUBSET Nat]
      /\ a \in Chat(n) /\ b \in Chat(n) /\ n \in Nat /\ Reached(a, e, l) /\ Reached(b, f, k)
  BY DEF Types, Side, Life, Roles
<1> HIDE DEF a, b, e, f, w
<1>1a. Arrived(a, e, l) /\ Arrived(b, f, k)
  BY <1>1, ReachedIs
<1>2. /\ e.chat = a.chat /\ e.left = a.left /\ e.wait = a.wait
      /\ e.key = a.key /\ e.fp = a.fp /\ e.ex = a.ex /\ e.out = a.out /\ e.asked = a.asked
      /\ ToSet(e.inbox) = ToSet(a.inbox) \cup {l}
      /\ \A T : Has(e.inbox, T) <=> Has(a.inbox, T) \/ l.type \in T
      /\ Sorted(a.inbox) /\ (\A m \in ToSet(a.inbox) : Before(m, l)) => Sorted(e.inbox)
  BY <1>1, <1>1a DEF Arrived
<1>3. /\ f.chat = b.chat /\ f.left = b.left /\ f.wait = b.wait
      /\ f.key = b.key /\ f.fp = b.fp /\ f.ex = b.ex /\ f.out = b.out /\ f.asked = b.asked
      /\ ToSet(f.inbox) = ToSet(b.inbox) \cup {k}
      /\ \A T : Has(f.inbox, T) <=> Has(b.inbox, T) \/ k.type \in T
      /\ \A T : Once(b.inbox, T) /\ (k.type \in T => ~Has(b.inbox, T)) => Once(f.inbox, T)
      /\ Sorted(b.inbox) /\ (\A m \in ToSet(b.inbox) : Before(m, k)) => Sorted(f.inbox)
  BY <1>1, <1>1a DEF Arrived
<1>5. /\ \A m \in ToSet(a.inbox) : Rank(m) \in {0, 1} /\ m.type \notin {"chat"} \cup InChat
      /\ \A m \in ToSet(b.inbox) : Rank(m) \in {0, 1}
  <2>1. Level(v) = 1
    BY DEF Level
  <2>2. ASSUME NEW m \in ToSet(a.inbox)
        PROVE  Rank(m) \in {0, 1}
    BY <1>1, <2>1 DEF Life, Ordered, Side, Rank
  <2>3. ASSUME NEW m \in ToSet(b.inbox)
        PROVE  Rank(m) \in {0, 1}
    BY <1>1, <2>1 DEF Life, Ordered, Side, Rank
  <2> QED
    BY <2>2, <2>3 DEF Rank, InChat
<1>6. Ordered(t, w)
  <2>1. Rank(k) = 2 /\ Rank(l) = 2 /\ Level(w) = 3
    BY <1>1 DEF Rank, Level
  <2>2. (\A m \in ToSet(a.inbox) : Before(m, l)) /\ (\A m \in ToSet(b.inbox) : Before(m, k))
    BY <1>5, <2>1 DEF Before
  <2>3. Sorted(e.inbox) /\ Sorted(f.inbox)
    BY <1>1, <1>2, <1>3, <2>2 DEF Life, Ordered, Side
  <2>4. /\ \A m \in ToSet(e.inbox) : Rank(m) <= 3
        /\ \A m \in ToSet(f.inbox) : Rank(m) <= 3
    BY <1>2, <1>3, <1>5, <2>1
  <2> QED
    BY <1>1, <2>1, <2>3, <2>4 DEF Ordered, Side
<1>7. Roles(t, w)
  <2>1. a.chat = "waiting" /\ b.chat # "absent"
    BY <1>1 DEF Life, Creator, Roles
  <2> QED
    BY <1>1, <1>2, <1>3, <2>1 DEF Life, Roles, Side
<1>8. Creator(t, w)
  BY <1>1, <1>2 DEF Life, Creator
<1>9. Acceptor(t, w)
  <2>1. \A m \in ToSet(f.inbox) : m.type = "requested" => m.g = w.ga
    BY <1>1, <1>3 DEF Life, Acceptor
  <2>2. \A m \in ToSet(e.inbox) : m.type = "chat" =>
           m.fp = f.key /\ f.key = w.ga \cup m.g /\ Single(m.g)
    BY <1>1, <1>2, <1>3, <1>5
  <2>3. Once(f.inbox, {"accepted", "accept_error", "declined"})
    BY <1>1, <1>3 DEF Life, Acceptor
  <2>4. Has(f.inbox, {"requested"}) => f.chat = "absent"
    BY <1>1, <1>3 DEF Life, Acceptor
  <2>5. f.fp # {} /\ Pair(f.fp)
    BY <1>1, <1>3 DEF Life, Acceptor
  <2>6. \A m \in ToSet(f.asked) : m.type # "accept_chat"
    BY <1>1, <1>3 DEF Has
  <2>7. Once(f.asked, {"accept_chat"}) /\ ~Has(f.asked, {"accept_chat"}) /\ f.wait.accept = 1
    BY <1>1, <1>3 DEF Life, Acceptor
  <2> QED
    BY <1>1, <2>1, <2>2, <2>3, <2>4, <2>5, <2>6, <2>7 DEF Acceptor
<1>10. Keyed(t, w)
  BY <1>1, <1>2, <1>3 DEF Life, Keyed, Side
<1>11. Closing(t, w)
  BY <1>1 DEF Closing
<1> QED
  BY <1>6, <1>7, <1>8, <1>9, <1>10, <1>11 DEF LifeHolds, Life, w

\* The acceptance comes too late.
LEMMA LifeDeclined ==
    ASSUME NEW n \in Nat \ {0}, NEW s, NEW t, NEW v, Types(s, n), Types(t, n), Life(s, v),
           v.chat = "gone", s["bob"].fp # {}, s["bob"].wait.accept = 1,
           ~Has(s["bob"].asked, {"accept_chat"}),
           ~Has(s["bob"].inbox, {"accepted", "accept_error", "declined"}),
           NEW k \in Message(n), k.type = "declined",
           Reached(s["bob"], t["bob"], k), t["alice"] = s["alice"]
    PROVE  Life(t, v)
<1> DEFINE a == s["alice"]  b == s["bob"]  e == t["alice"]  f == t["bob"]
<1>1. a = s["alice"] /\ b = s["bob"] /\ e = t["alice"] /\ f = t["bob"]
      /\ a \in Chat(n) /\ b \in Chat(n) /\ n \in Nat /\ e = a /\ Reached(b, f, k)
  BY DEF Types, Side
<1> HIDE DEF a, b, e, f
<1>1a. Arrived(b, f, k)
  BY <1>1, ReachedIs
<1>3. /\ f.chat = b.chat /\ f.left = b.left /\ f.wait = b.wait
      /\ f.key = b.key /\ f.fp = b.fp /\ f.ex = b.ex /\ f.out = b.out /\ f.asked = b.asked
      /\ ToSet(f.inbox) = ToSet(b.inbox) \cup {k}
      /\ \A T : Has(f.inbox, T) <=> Has(b.inbox, T) \/ k.type \in T
      /\ \A T : Once(b.inbox, T) /\ (k.type \in T => ~Has(b.inbox, T)) => Once(f.inbox, T)
      /\ Sorted(b.inbox) /\ (\A m \in ToSet(b.inbox) : Before(m, k)) => Sorted(f.inbox)
  BY <1>1, <1>1a DEF Arrived
<1>6. Ordered(t, v)
  <2>1. Rank(k) = 4 /\ Level(v) = 4
    BY DEF Rank, Level, InChat
  <2>2. \A m \in ToSet(b.inbox) : Rank(m) \in 0..4
    BY DEF Rank
  <2>3. \A m \in ToSet(b.inbox) : Before(m, k)
    BY <2>1, <2>2 DEF Before
  <2>4. Sorted(f.inbox)
    BY <1>1, <1>3, <2>3 DEF Life, Ordered, Side
  <2> QED
    BY <1>1, <1>3, <2>1, <2>4 DEF Life, Ordered, Side
<1>7. Roles(t, v)
  <2>1. b.chat # "absent"
    BY <1>1 DEF Life, Roles
  <2> QED
    BY <1>1, <1>3, <2>1 DEF Life, Roles, Side
<1>8. Creator(t, v)
  BY <1>1 DEF Life, Creator
<1>9. Acceptor(t, v)
  <2>1. \A m \in ToSet(f.inbox) : m.type = "requested" => m.g = v.ga
    BY <1>1, <1>3 DEF Life, Acceptor
  <2>3. Once(f.inbox, {"accepted", "accept_error", "declined"})
    BY <1>1, <1>3 DEF Life, Acceptor
  <2>4. Has(f.inbox, {"requested"}) => f.chat = "absent"
    BY <1>1, <1>3 DEF Life, Acceptor
  <2> QED
    BY <1>1, <1>3, <2>1, <2>3, <2>4 DEF Life, Acceptor
<1>10. Keyed(t, v)
  BY <1>1, <1>3 DEF Life, Keyed, Side
<1> QED
  BY <1>6, <1>7, <1>8, <1>9, <1>10 DEF Life

\* The chat is given up.
LEMMA LifeGone ==
    ASSUME NEW s, NEW v, Life(s, v), v.chat # "no"
    PROVE  Life(s, [v EXCEPT !.chat = "gone"])
<1> DEFINE w == [v EXCEPT !.chat = "gone"]
<1>1. w.chat = "gone" /\ w.ga = v.ga /\ w \in [chat : {"no", "requested", "ok", "gone"}, ga : SUBSET Nat]
      /\ v.chat \in {"no", "requested", "ok", "gone"}
  BY DEF Life, Roles
<1> HIDE DEF w
<1>2. Ordered(s, w)
  <2>1. Level(w) = 4 /\ \A m : Rank(m) \in 0..4
    BY <1>1 DEF Level, Rank
  <2> QED
    BY <2>1 DEF Life, Ordered
<1>3. Roles(s, w)
  BY <1>1 DEF Life, Roles
<1>4. Creator(s, w)
  BY <1>1 DEF Life, Creator
<1>5. Acceptor(s, w)
  BY <1>1 DEF Life, Acceptor
<1>6. Keyed(s, w)
  BY <1>1 DEF Life, Keyed
<1> QED
  BY <1>2, <1>3, <1>4, <1>5, <1>6 DEF Life, w
-----------------------------------------------------------------------------
(* What the operators of the model make of a chat                          *)

\* An exchange moves: its phase, its name and its numbers.
Exchanged(c, ex, id, k) == [c EXCEPT !.ex = ex, !.id = id, !.exkey = k]

\* Moving an exchange changes nothing else.
LEMMA ExchangedIs ==
    ASSUME NEW n \in Nat, NEW c \in Chat(n), NEW ex \in Exchanges, NEW id \in 0..(n - 1),
           NEW k \in SUBSET (0..(n - 1)),
           ex = "requested" => k = {id},
           ex \in {"accepted", "committed"} => id \in k /\ Pair(k)
    PROVE  LET e == Exchanged(c, ex, id, k) IN
           /\ e \in Chat(n)
           /\ e.ex = ex /\ e.id = id /\ e.exkey = k
           /\ SameLife(c, e) /\ SameBook(c, e) /\ SameKeys(c, e) /\ SameWay(c, e)
<1> DEFINE e == Exchanged(c, ex, id, k)
<1>1. e = [c EXCEPT !.ex = ex, !.id = id, !.exkey = k]
  BY DEF Exchanged
<1> HIDE DEF e
<1>2. /\ e.ex = ex /\ e.id = id /\ e.exkey = k
      /\ SameLife(c, e) /\ SameBook(c, e) /\ SameKeys(c, e) /\ SameWay(c, e)
  BY <1>1 DEF Chat, SameLife, SameBook, SameKeys, SameWay
<1>3. Exchanging(e)
  BY <1>2 DEF Exchanging
<1>4. e \in Chat(n)
  BY <1>1, <1>3 DEF Chat
<1> QED
  BY <1>2, <1>4 DEF e

\* What is sent, field by field.
IsSent(c, e, m) ==
    /\ SameLife(c, e) /\ SameBook(c, e)
    /\ e.inbox = c.inbox /\ e.out = c.out /\ e.ready = c.ready
    /\ e.asked = Append(c.asked, [m EXCEPT !.key = c.key, !.fp = c.fp])
    /\ c.ex # "committed" => SameKeys(c, e) /\ SameExchange(c, e)
    /\ c.ex = "committed" => e.key = c.exkey /\ e.fp = c.exkey /\ e.ex = "none"

\* Sending, as a function of the side, keeps the types and does what IsSent says.
LEMMA SentIs ==
    ASSUME NEW n \in Nat \ {0}, NEW c \in Chat(n), NEW m \in Message(n)
    PROVE  Sent(c, m) \in Chat(n) /\ IsSent(c, Sent(c, m), m)
<1> DEFINE d == Say(c, m)  e == Confirmed(d)
<1>1. /\ d \in Chat(n)
      /\ d.asked = Append(c.asked, [m EXCEPT !.key = c.key, !.fp = c.fp])
      /\ SameLife(c, d) /\ SameBook(c, d) /\ SameKeys(c, d) /\ SameExchange(c, d)
      /\ d.inbox = c.inbox /\ d.out = c.out /\ d.ready = c.ready
  BY SayIs
<1> HIDE DEF d
<1>2. /\ e \in Chat(n)
      /\ e.key = d.exkey /\ e.fp = d.exkey /\ e.ex = "none"
      /\ SameLife(d, e) /\ SameBook(d, e)
      /\ e.inbox = d.inbox /\ e.asked = d.asked /\ e.out = d.out /\ e.ready = d.ready
  BY <1>1, ConfirmedIs
<1> HIDE DEF e
<1>3. Sent(c, m) = IF c.ex = "committed" THEN e ELSE d
  BY DEF Sent, e, d
<1>4. CASE c.ex = "committed"
  BY <1>1, <1>2, <1>3, <1>4 DEF IsSent, SameLife, SameBook, SameExchange
<1>5. CASE c.ex # "committed"
  BY <1>1, <1>3, <1>5 DEF IsSent
<1> QED
  BY <1>4, <1>5

\* What is parked.
IsParked(c, e, m) ==
    /\ SameLife(c, e) /\ SameBook(c, e) /\ SameKeys(c, e) /\ SameExchange(c, e)
    /\ e.inbox = c.inbox /\ e.asked = c.asked /\ e.ready = c.ready
    /\ e.out = Append(c.out, m)

\* What is refused, parked or sent.
IsPosted(c, e, m) ==
    /\ SameLife(c, e) /\ SameBook(c, e) /\ e.inbox = c.inbox /\ e.ready = c.ready
    /\ \/ c.chat # "ok" /\ e = c
       \/ c.chat = "ok" /\ ~c.ready /\ IsParked(c, e, m)
       \/ c.chat = "ok" /\ c.ready /\ IsSent(c, e, m)

\* Posting to the chat is the step of one side.
LEMMA Posted ==
    ASSUME NEW n \in Nat \ {0}, NEW s, Types(s, n), NEW x \in Side, NEW m \in Message(n),
           m.type \in InChat, NEW p, p = Post(s, x, m)
    PROVE  Types(p, n) /\ p[Other(x)] = s[Other(x)] /\ IsPosted(s[x], p[x], m)
<1>1. /\ Types(p, n) /\ p[Other(x)] = s[Other(x)]
      /\ \/ s[x].chat # "ok" /\ p = s
         \/ s[x].chat = "ok" /\ ~s[x].ready /\ p[x] = Park(s[x], m)
         \/ s[x].chat = "ok" /\ s[x].ready /\ p[x] = Sent(s[x], m)
      /\ SameLife(s[x], p[x]) /\ SameBook(s[x], p[x]) /\ p[x].inbox = s[x].inbox
      /\ p[x].ready = s[x].ready
  BY PostIs
<1>2. n \in Nat /\ s[x] \in Chat(n)
  BY DEF Types
<1>3. IsSent(s[x], Sent(s[x], m), m)
  BY <1>2, SentIs
<1>4. IsParked(s[x], Park(s[x], m), m)
  BY <1>2, ParkIs DEF IsParked
<1> QED
  BY <1>1, <1>3, <1>4 DEF IsPosted

\* The messages of the model have their types.
MsgOf(type, g) == [Msg(type) EXCEPT !.g = g]
\* A message that carries a number and a fingerprint.
MsgBy(type, g, f) == [Msg(type) EXCEPT !.g = g, !.fp = f]

\* A record of the fields of a message is a message, when its numbers are formed.
LEMMA MessageIs ==
    ASSUME NEW n \in Nat \ {0}, NEW type \in Updates \cup InChat, NEW g \in SUBSET (0..(n - 1)),
           NEW f \in SUBSET (0..(n - 1)), NEW id \in 0..(n - 1),
           NEW m, m = [type |-> type, key |-> {}, g |-> g, fp |-> f, id |-> id]
    PROVE  /\ m.type = type /\ m.g = g /\ m.fp = f /\ m.id = id
           /\ Formed(m) => m \in Message(n)
BY DEF Message

\* A message that carries nothing.
LEMMA MsgIs ==
    ASSUME NEW n \in Nat \ {0}, NEW type \in Updates \cup InChat, type \notin {"request", "accept"}
    PROVE  Msg(type) \in Message(n) /\ Msg(type).type = type
<1> DEFINE m == Msg(type)
<1>0. m = Msg(type)
  OBVIOUS
<1> HIDE DEF m
<1>1. m = [type |-> type, key |-> {}, g |-> {}, fp |-> {}, id |-> 0]
  BY <1>0 DEF Msg
<1>2. m.type = type /\ Formed(m)
  BY <1>1 DEF Formed
<1>3. {} \in SUBSET (0..(n - 1)) /\ 0 \in 0..(n - 1)
  OBVIOUS
<1> QED
  BY <1>1, <1>2, <1>3, MessageIs DEF m

\* A message that carries a number.
LEMMA MsgOfIs ==
    ASSUME NEW n \in Nat \ {0}, NEW type \in Updates, NEW g \in SUBSET (0..(n - 1))
    PROVE  /\ MsgOf(type, g) \in Message(n)
           /\ MsgOf(type, g).type = type /\ MsgOf(type, g).g = g
<1> DEFINE m == MsgOf(type, g)
<1>0. m = MsgOf(type, g)
  OBVIOUS
<1> HIDE DEF m
<1>1. m = [type |-> type, key |-> {}, g |-> g, fp |-> {}, id |-> 0]
  BY <1>0 DEF Msg, MsgOf
<1>2. type \notin {"request", "accept"} /\ type \in Updates \cup InChat
  BY DEF Updates
<1>3. Formed(m)
  BY <1>1, <1>2 DEF Formed
<1>4. {} \in SUBSET (0..(n - 1)) /\ 0 \in 0..(n - 1)
  OBVIOUS
<1> QED
  BY <1>1, <1>2, <1>3, <1>4, MessageIs DEF m

\* A message that carries a number and a fingerprint.
LEMMA MsgByIs ==
    ASSUME NEW n \in Nat \ {0}, NEW type \in Updates, NEW g \in SUBSET (0..(n - 1)),
           NEW f \in SUBSET (0..(n - 1))
    PROVE  /\ MsgBy(type, g, f) \in Message(n)
           /\ MsgBy(type, g, f).type = type /\ MsgBy(type, g, f).g = g /\ MsgBy(type, g, f).fp = f
<1> DEFINE m == MsgBy(type, g, f)
<1>0. m = MsgBy(type, g, f)
  OBVIOUS
<1> HIDE DEF m
<1>1. m = [type |-> type, key |-> {}, g |-> g, fp |-> f, id |-> 0]
  BY <1>0 DEF Msg, MsgBy
<1>2. type \notin {"request", "accept"} /\ type \in Updates \cup InChat
  BY DEF Updates
<1>3. Formed(m)
  BY <1>1, <1>2 DEF Formed
<1>4. 0 \in 0..(n - 1)
  OBVIOUS
<1> QED
  BY <1>1, <1>2, <1>3, <1>4, MessageIs DEF m

\* A message inside the chat.
LEMMA SecretIs ==
    ASSUME NEW n \in Nat \ {0}, NEW type \in InChat, NEW g \in SUBSET (0..(n - 1)),
           NEW id \in 0..(n - 1)
    PROVE  /\ Secret(type, g, id).type = type /\ Secret(type, g, id).g = g
           /\ Secret(type, g, id).id = id
           /\ Formed(Secret(type, g, id)) => Secret(type, g, id) \in Message(n)
<1> DEFINE m == Secret(type, g, id)
<1>1. m = Secret(type, g, id)
  OBVIOUS
<1> HIDE DEF m
<1>2. m = [type |-> type, key |-> {}, g |-> g, fp |-> {}, id |-> id]
  BY <1>1 DEF Secret, Msg
<1>3. {} \in SUBSET (0..(n - 1))
  OBVIOUS
<1> QED
  BY <1>2, <1>3, MessageIs DEF m

\* The key that two numbers make.
LEMMA SharedIs ==
    ASSUME NEW n \in Nat \ {0}, NEW k \in SUBSET (0..(n - 1)), NEW l \in SUBSET (0..(n - 1))
    PROVE  /\ Shared(k, l) \in SUBSET (0..(n - 1))
           /\ Single(k) => Shared(k, l) = k \cup l
<1>1. ASSUME Single(k)
      PROVE  Cardinality(k) = 1
  <2>1. PICK a \in k : k = {a}
    BY <1>1 DEF Single
  <2> QED
    BY <2>1, FS_Singleton
<1> QED
  BY <1>1 DEF Shared

\* A chat with another state and other keys.
Renew(c, chat, k, f) == [c EXCEPT !.chat = chat, !.key = k, !.fp = f]

\* c becomes e: its chat and keys are renewed, nothing else.
Renewed(c, e, chat, k, f) ==
    /\ e.chat = chat /\ e.key = k /\ e.fp = f
    /\ e.left = c.left /\ e.wait = c.wait
    /\ SameBook(c, e) /\ SameExchange(c, e) /\ SameWay(c, e)

\* Renew() renews a side.
LEMMA RenewedIs ==
    ASSUME NEW n \in Nat, NEW c \in Chat(n), NEW chat \in States,
           NEW k \in SUBSET (0..(n - 1)), NEW f \in SUBSET (0..(n - 1))
    PROVE  /\ Renew(c, chat, k, f) \in Chat(n)
           /\ Renewed(c, Renew(c, chat, k, f), chat, k, f)
<1> DEFINE e == Renew(c, chat, k, f)
<1>0. e = [c EXCEPT !.chat = chat, !.key = k, !.fp = f]
  BY DEF Renew
<1> HIDE DEF e
<1>1. Renewed(c, e, chat, k, f)
  BY <1>0 DEF Renewed, Chat, SameBook, SameExchange, SameWay
<1>2. Exchanging(e)
  BY <1>1, ChatFields DEF Exchanging, SameExchange, Renewed
<1>3. e \in Chat(n)
  BY <1>0, <1>2 DEF Chat
<1> QED
  BY <1>1, <1>3 DEF e

\* What an update makes of a chat, field by field.
IsUpdated(c, e, m) ==
    /\ e.left = c.left /\ e.wait = c.wait /\ SameBook(c, e) /\ SameExchange(c, e) /\ SameWay(c, e)
    /\ m.type = "discarded" => /\ SameKeys(c, e)
                               /\ c.chat = "absent" => e.chat = "absent"
                               /\ c.chat # "absent" => e.chat = "deleted"
    /\ m.type = "requested" => /\ e.fp = c.fp
                               /\ c.chat = "absent" => e.chat = "request" /\ e.key = m.g
                               /\ c.chat # "absent" => e.chat = "deleted" /\ e.key = c.key
    /\ m.type = "waiting" => SameKeys(c, e) /\ e.chat = "waiting"
    /\ m.type = "chat" /\ c.chat = "waiting" =>
          LET k == Shared(c.key, m.g) IN
          e.key = k /\ e.fp = k /\ e.chat = IF k = m.fp THEN "ok" ELSE "deleted"
    /\ m.type = "chat" /\ c.chat # "waiting" => SameKeys(c, e) /\ e.chat = "ok"

\* An update of the chat, as a function of the side.
LEMMA UpdatedIs ==
    ASSUME NEW n \in Nat \ {0}, NEW c \in Chat(n), NEW m \in Message(n),
           m.type \in {"discarded", "requested", "waiting", "chat"}
    PROVE  Updated(c, m) \in Chat(n) /\ IsUpdated(c, Updated(c, m), m)
<1>1. m.g \in SUBSET (0..(n - 1)) /\ c.key \in SUBSET (0..(n - 1)) /\ n \in Nat
  BY Fields, ChatFields
<1>3. c.fp \in SUBSET (0..(n - 1)) /\ c.chat \in States
  BY <1>1, ChatFields
<1>4. c = Renew(c, c.chat, c.key, c.fp)
  BY DEF Chat, Renew
<1>5. \A chat : [c EXCEPT !.chat = chat] = Renew(c, chat, c.key, c.fp)
  BY DEF Chat, Renew
<1>6. \A chat, k : [c EXCEPT !.chat = chat, !.key = k] = Renew(c, chat, k, c.fp)
  BY DEF Chat, Renew
<1> DEFINE e == Updated(c, m)
<1>7. CASE m.type = "discarded"
  <2>1. e = IF c.chat = "absent" THEN c ELSE [c EXCEPT !.chat = "deleted"]
    BY <1>7 DEF Updated
  <2> HIDE DEF e
  <2> DEFINE chat == IF c.chat = "absent" THEN c.chat ELSE "deleted"
  <2>2. e = Renew(c, chat, c.key, c.fp)
    BY <2>1, <1>4, <1>5
  <2>3. chat \in States /\ (c.chat = "absent" => chat = "absent")
        /\ (c.chat # "absent" => chat = "deleted")
    BY <1>3 DEF States
  <2> HIDE DEF chat
  <2>4. e \in Chat(n) /\ Renewed(c, e, chat, c.key, c.fp)
    BY <1>1, <1>3, <2>2, <2>3, RenewedIs
  <2>5. IsUpdated(c, e, m)
    BY <1>7, <2>3, <2>4 DEF Renewed, IsUpdated, SameKeys
  <2> QED
    BY <2>4, <2>5 DEF e
<1>8. CASE m.type = "requested"
  <2> DEFINE chat == IF c.chat = "absent" THEN "request" ELSE "deleted"
             k == IF c.chat = "absent" THEN m.g ELSE c.key
  <2>1. e = IF c.chat = "absent" THEN [c EXCEPT !.chat = "request", !.key = m.g]
            ELSE [c EXCEPT !.chat = "deleted"]
    BY <1>8 DEF Updated
  <2> HIDE DEF e
  <2>2. e = Renew(c, chat, k, c.fp)
    BY <2>1, <1>5, <1>6
  <2>3. /\ chat \in States /\ k \in SUBSET (0..(n - 1))
        /\ c.chat = "absent" => chat = "request" /\ k = m.g
        /\ c.chat # "absent" => chat = "deleted" /\ k = c.key
    BY <1>1 DEF States
  <2> HIDE DEF chat, k
  <2>4. e \in Chat(n) /\ Renewed(c, e, chat, k, c.fp)
    BY <1>1, <1>3, <2>2, <2>3, RenewedIs
  <2>5. IsUpdated(c, e, m)
    BY <1>8, <2>3, <2>4 DEF Renewed, IsUpdated
  <2> QED
    BY <2>4, <2>5 DEF e
<1>9. CASE m.type = "waiting"
  <2>1. e = [c EXCEPT !.chat = "waiting"] /\ "waiting" \in States
    BY <1>9 DEF Updated, States
  <2> HIDE DEF e
  <2>2. e = Renew(c, "waiting", c.key, c.fp)
    BY <2>1, <1>5
  <2>4. e \in Chat(n) /\ Renewed(c, e, "waiting", c.key, c.fp)
    BY <1>1, <1>3, <2>1, <2>2, RenewedIs
  <2>5. IsUpdated(c, e, m)
    BY <1>9, <2>4 DEF Renewed, IsUpdated, SameKeys
  <2> QED
    BY <2>4, <2>5 DEF e
<1>10. CASE m.type = "chat" /\ c.chat # "waiting"
  <2>1. e = [c EXCEPT !.chat = "ok"] /\ "ok" \in States
    BY <1>10 DEF Updated, States
  <2> HIDE DEF e
  <2>2. e = Renew(c, "ok", c.key, c.fp)
    BY <2>1, <1>5
  <2>4. e \in Chat(n) /\ Renewed(c, e, "ok", c.key, c.fp)
    BY <1>1, <1>3, <2>1, <2>2, RenewedIs
  <2>5. IsUpdated(c, e, m)
    BY <1>10, <2>4 DEF Renewed, IsUpdated, SameKeys
  <2> QED
    BY <2>4, <2>5 DEF e
<1>11. CASE m.type = "chat" /\ c.chat = "waiting"
  <2> DEFINE k == Shared(c.key, m.g)
             chat == IF k = m.fp THEN "ok" ELSE "deleted"
  <2>1. e = Renew(c, chat, k, k)
    <3>1. e = KeysEnd(c, m)
      BY <1>11 DEF Updated
    <3>2. KeysEnd(c, m) = [c EXCEPT !.key = k, !.fp = k, !.chat = chat]
      BY DEF KeysEnd
    <3> QED
      BY <3>1, <3>2 DEF Chat, Renew
  <2>2. k \in SUBSET (0..(n - 1)) /\ chat \in States
    BY <1>1, SharedIs DEF States
  <2> HIDE DEF e
  <2>4. e \in Chat(n) /\ Renewed(c, e, chat, k, k)
    BY <1>1, <1>3, <2>1, <2>2, RenewedIs
  <2>5. IsUpdated(c, e, m)
    BY <1>11, <2>4 DEF Renewed, IsUpdated
  <2> QED
    BY <2>4, <2>5 DEF e
<1> QED
  BY <1>7, <1>8, <1>9, <1>10, <1>11

\* The chat is asked for: the own number is its key until it is accepted.
Creates(c, e, a) ==
    /\ e.chat = "waiting" /\ e.key = {a} /\ e.fp = c.fp /\ e.left = c.left
    /\ e.wait = [c.wait EXCEPT !.request = @ + 1]
    /\ \E m : /\ e.asked = Append(c.asked, m) /\ m.type = "request_chat" /\ m.g = {a}
    /\ SameBook(c, e) /\ SameExchange(c, e)
    /\ e.inbox = c.inbox /\ e.out = c.out /\ e.ready = c.ready

\* The request for a chat is the step of one side.
LEMMA SendCreateIs ==
    ASSUME NEW n \in Nat \ {0}, NEW s, Types(s, n), NEW x \in Side, NEW a \in 0..(n - 1)
    PROVE  LET t == SendCreate(s, x, a) IN
           Types(t, n) /\ t[Other(x)] = s[Other(x)] /\ Creates(s[x], t[x], a)
<1> DEFINE m == [Msg("request_chat") EXCEPT !.g = {a}]
           w == [s[x].wait EXCEPT !.request = @ + 1]
           q == Append(s[x].asked, m)
           e == [s[x] EXCEPT !.chat = "waiting", !.key = {a}, !.wait = w, !.asked = q]
           t == SendCreate(s, x, a)
<1>1. /\ s[x] \in Chat(n) /\ (\A k \in ToSet(s[x].out) : k.type \in InChat)
      /\ {a} \in SUBSET (0..(n - 1)) /\ n \in Nat /\ "request_chat" \in Updates
      /\ "waiting" \in States
  BY DEF Types, Updates, States
<1>2. m \in Message(n) /\ m.type = "request_chat" /\ m.g = {a}
  <2>1. m = MsgOf("request_chat", {a})
    BY DEF MsgOf
  <2> HIDE DEF m
  <2> QED
    BY <1>1, <2>1, MsgOfIs
<1>3. t = With(s, x, e)
  BY <1>1 DEF SendCreate, With, Types, Chat
<1> HIDE DEF m
<1>4. q \in Seq(Message(n))
  BY <1>1, <1>2, ChatFields
<1>5. w \in [dh : Nat, request : Nat, accept : Nat, discard : Nat]
  <2>1. s[x].wait \in [dh : Nat, request : Nat, accept : Nat, discard : Nat]
    BY <1>1, ChatFields
  <2>2. s[x].wait.request + 1 \in Nat
    BY <2>1
  <2> QED
    BY <2>1, <2>2
<1>6. q = Append(s[x].asked, m) /\ w = [s[x].wait EXCEPT !.request = @ + 1]
  OBVIOUS
<1> HIDE DEF w, q
<1>7. /\ e.chat = "waiting" /\ e.key = {a} /\ e.fp = s[x].fp /\ e.left = s[x].left
      /\ e.wait = w /\ e.asked = q
      /\ SameBook(s[x], e) /\ SameExchange(s[x], e)
      /\ e.inbox = s[x].inbox /\ e.out = s[x].out /\ e.ready = s[x].ready
  BY <1>1 DEF Chat, SameBook, SameExchange
<1>8. Exchanging(e)
  BY <1>1, <1>7, ChatFields DEF Exchanging, SameExchange
<1>9. e \in Chat(n)
  BY <1>1, <1>4, <1>5, <1>8 DEF Chat
<1> HIDE DEF e, t
<1>10. Types(t, n) /\ t[Other(x)] = s[Other(x)] /\ t[x] = e
  BY <1>1, <1>3, <1>7, <1>9, WithIs
<1> QED
  BY <1>2, <1>6, <1>7, <1>10 DEF Creates, t

\* The chat is accepted: it has its key.
Accepts(c, e, b) ==
    /\ e.chat = "ok" /\ e.key = Shared(c.key, {b}) /\ e.fp = e.key /\ e.left = c.left
    /\ e.wait = [c.wait EXCEPT !.accept = @ + 1]
    /\ \E m : /\ e.asked = Append(c.asked, m) /\ m.type = "accept_chat" /\ m.g = {b}
              /\ m.fp = e.key
    /\ SameBook(c, e) /\ SameExchange(c, e)
    /\ e.inbox = c.inbox /\ e.out = c.out /\ e.ready = c.ready

\* The accept of a chat is the step of one side.
LEMMA SendAcceptIs ==
    ASSUME NEW n \in Nat \ {0}, NEW s, Types(s, n), NEW x \in Side, NEW b \in 0..(n - 1)
    PROVE  LET t == SendAccept(s, x, b) IN
           Types(t, n) /\ t[Other(x)] = s[Other(x)] /\ Accepts(s[x], t[x], b)
<1> DEFINE k == Shared(s[x].key, {b})
           m == [Msg("accept_chat") EXCEPT !.g = {b}, !.fp = k]
           w == [s[x].wait EXCEPT !.accept = @ + 1]
           q == Append(s[x].asked, m)
           e == [s[x] EXCEPT !.chat = "ok", !.key = k, !.fp = k, !.wait = w, !.asked = q]
           t == SendAccept(s, x, b)
<1>1. /\ s[x] \in Chat(n) /\ (\A l \in ToSet(s[x].out) : l.type \in InChat)
      /\ {b} \in SUBSET (0..(n - 1)) /\ n \in Nat /\ "accept_chat" \in Updates
      /\ "ok" \in States
  BY DEF Types, Updates, States
<1>2. k \in SUBSET (0..(n - 1))
  BY <1>1, ChatFields, SharedIs
<1>3. t = With(s, x, e)
  BY <1>1 DEF SendAccept, With, Types, Chat
<1>4. k = Shared(s[x].key, {b})
  OBVIOUS
<1> HIDE DEF k
<1>5. m \in Message(n) /\ m.type = "accept_chat" /\ m.g = {b} /\ m.fp = k
  <2>1. m = MsgBy("accept_chat", {b}, k)
    BY DEF MsgBy
  <2> HIDE DEF m
  <2> QED
    BY <1>1, <1>2, <2>1, MsgByIs
<1> HIDE DEF m
<1>6. q \in Seq(Message(n))
  BY <1>1, <1>5, ChatFields
<1>7. w \in [dh : Nat, request : Nat, accept : Nat, discard : Nat]
  <2>1. s[x].wait \in [dh : Nat, request : Nat, accept : Nat, discard : Nat]
    BY <1>1, ChatFields
  <2>2. s[x].wait.accept + 1 \in Nat
    BY <2>1
  <2> QED
    BY <2>1, <2>2
<1>8. q = Append(s[x].asked, m) /\ w = [s[x].wait EXCEPT !.accept = @ + 1]
  OBVIOUS
<1> HIDE DEF w, q
<1>9. /\ e.chat = "ok" /\ e.key = k /\ e.fp = k /\ e.left = s[x].left
      /\ e.wait = w /\ e.asked = q
      /\ SameBook(s[x], e) /\ SameExchange(s[x], e)
      /\ e.inbox = s[x].inbox /\ e.out = s[x].out /\ e.ready = s[x].ready
  BY <1>1 DEF Chat, SameBook, SameExchange
<1>10. Exchanging(e)
  BY <1>1, <1>9, ChatFields DEF Exchanging, SameExchange
<1>11. e \in Chat(n)
  BY <1>1, <1>2, <1>6, <1>7, <1>10 DEF Chat
<1> HIDE DEF e, t
<1>12. Types(t, n) /\ t[Other(x)] = s[Other(x)] /\ t[x] = e
  BY <1>1, <1>3, <1>9, <1>11, WithIs
<1> QED
  BY <1>4, <1>5, <1>8, <1>9, <1>12 DEF Accepts, t

\* The state of the chat changes, or what an update makes of it.
LEMMA Deleted ==
    ASSUME NEW n \in Nat \ {0}, NEW s, Types(s, n), NEW x \in Side
    PROVE  LET t == [s EXCEPT ![x].chat = "deleted"] IN
           Types(t, n) /\ t[Other(x)] = s[Other(x)]
           /\ Renewed(s[x], t[x], "deleted", s[x].key, s[x].fp)
<1> DEFINE t == [s EXCEPT ![x].chat = "deleted"]
           e == Renew(s[x], "deleted", s[x].key, s[x].fp)
<1>1. /\ s[x] \in Chat(n) /\ (\A l \in ToSet(s[x].out) : l.type \in InChat)
      /\ "deleted" \in States /\ n \in Nat
  BY DEF Types, States
<1>2. t = With(s, x, e)
  BY <1>1 DEF With, Renew, Types, Chat
<1>3. e \in Chat(n) /\ Renewed(s[x], e, "deleted", s[x].key, s[x].fp)
  BY <1>1, ChatFields, RenewedIs
<1>4. e.out = s[x].out
  BY <1>3 DEF Renewed, SameWay
<1> HIDE DEF t, e
<1>5. Types(t, n) /\ t[Other(x)] = s[Other(x)] /\ t[x] = e
  BY <1>1, <1>2, <1>3, <1>4, WithIs
<1> QED
  BY <1>3, <1>5 DEF t

\* An update of the chat is the step of one side.
LEMMA UpdateIs ==
    ASSUME NEW n \in Nat \ {0}, NEW s, Types(s, n), NEW x \in Side, NEW m \in Message(n),
           m.type \in {"discarded", "requested", "waiting", "chat"}
    PROVE  LET t == [s EXCEPT ![x] = Updated(@, m)] IN
           Types(t, n) /\ t[Other(x)] = s[Other(x)] /\ IsUpdated(s[x], t[x], m)
<1> DEFINE t == [s EXCEPT ![x] = Updated(@, m)]
           e == Updated(s[x], m)
<1>1. s[x] \in Chat(n) /\ (\A l \in ToSet(s[x].out) : l.type \in InChat) /\ n \in Nat
  BY DEF Types
<1>2. t = With(s, x, e)
  BY <1>1 DEF With, Types
<1>3. e \in Chat(n) /\ IsUpdated(s[x], e, m)
  BY <1>1, UpdatedIs
<1>4. e.out = s[x].out
  BY <1>3 DEF IsUpdated, SameWay
<1> HIDE DEF t, e
<1>5. Types(t, n) /\ t[Other(x)] = s[Other(x)] /\ t[x] = e
  BY <1>1, <1>2, <1>3, <1>4, WithIs
<1> QED
  BY <1>3, <1>5 DEF t

\* The layer is told, when the chat is ok.
LEMMA NoticedIs ==
    ASSUME NEW n \in Nat \ {0}, NEW s, Types(s, n), NEW x \in Side
    PROVE  LET t == Noticed(s, x)  m == Secret("layer", {}, 0) IN
           /\ Types(t, n) /\ t[Other(x)] = s[Other(x)]
           /\ m \in Message(n) /\ m.type = "layer"
           /\ s[x].chat = "ok" => t = Post(s, x, m) /\ IsPosted(s[x], t[x], m)
           /\ s[x].chat # "ok" => t = s
<1> DEFINE t == Noticed(s, x)  m == Secret("layer", {}, 0)
<1>1. m \in Message(n) /\ m.type = "layer" /\ m.type \in InChat
  <2>1. {} \in SUBSET (0..(n - 1)) /\ 0 \in 0..(n - 1) /\ "layer" \in InChat
    BY DEF InChat
  <2>2. m.type = "layer" /\ (Formed(m) => m \in Message(n))
    BY <2>1, SecretIs
  <2> QED
    BY <2>1, <2>2 DEF Formed
<1>2. t = IF s[x].chat = "ok" THEN Post(s, x, m) ELSE s
  BY DEF Noticed
<1> HIDE DEF t, m
<1>3. CASE s[x].chat = "ok"
  BY <1>1, <1>2, <1>3, Posted DEF t, m
<1>4. CASE s[x].chat # "ok"
  BY <1>1, <1>2, <1>4 DEF t, m
<1> QED
  BY <1>3, <1>4 DEF t, m

-----------------------------------------------------------------------------
(* What a side does with an update or an answer                            *)

\* A query has ended: the call is told, and the chat is in another state.
Ended(c, e, kind, chat) ==
    /\ \A k \in Kinds : e.wait[k] = IF k = kind THEN c.wait[k] - 1 ELSE c.wait[k]
    /\ e.told = c.told + 1 /\ e.called = c.called
    /\ e.chat = chat /\ e.left = c.left
    /\ SameKeys(c, e) /\ SameExchange(c, e) /\ SameWay(c, e)

\* A call that ends is told, and its query no longer waits.
LEMMA EndedIs ==
    ASSUME NEW n \in Nat \ {0}, NEW s, Types(s, n), NEW x \in Side, NEW kind \in Kinds,
           s[x].wait[kind] > 0,
           NEW p, Types(p, n), NEW chat, p[Other(x)] = s[Other(x)],
           Renewed(Done(s, x, kind)[x], p[x], chat, s[x].key, s[x].fp)
    PROVE  LET t == Told(p, x) IN
           Types(t, n) /\ t[Other(x)] = s[Other(x)] /\ Ended(s[x], t[x], kind, chat)
<1> DEFINE d == Done(s, x, kind)  t == Told(p, x)
<1>0. d = Done(s, x, kind) /\ t = Told(p, x) /\ n \in Nat /\ s[x] \in Chat(n)
  BY DEF Types
<1> HIDE DEF d, t
<1>1. IsDone(s[x], d[x], kind)
  BY <1>0, DoneIs
<1>2. /\ Types(t, n) /\ t[Other(x)] = p[Other(x)]
      /\ t[x].told = p[x].told + 1 /\ t[x].called = p[x].called
      /\ SameLife(p[x], t[x])
      /\ SameKeys(p[x], t[x]) /\ SameExchange(p[x], t[x]) /\ SameWay(p[x], t[x])
  BY <1>0, ToldIs
<1>5. /\ p[x].chat = chat /\ p[x].key = s[x].key /\ p[x].fp = s[x].fp
      /\ p[x].left = d[x].left /\ p[x].wait = d[x].wait
      /\ SameBook(d[x], p[x]) /\ SameExchange(d[x], p[x]) /\ SameWay(d[x], p[x])
  BY <1>0 DEF Renewed
<1>6. Ended(s[x], t[x], kind, chat)
  BY <1>1, <1>2, <1>5 DEF Ended, IsDone, SameLife, SameBook, SameKeys, SameExchange, SameWay
<1> QED
  BY <1>0, <1>2, <1>6

\* The same when the chat is left as it is.
LEMMA EndedAsIs ==
    ASSUME NEW n \in Nat \ {0}, NEW s, Types(s, n), NEW x \in Side, NEW kind \in Kinds,
           s[x].wait[kind] > 0
    PROVE  LET t == Told(Done(s, x, kind), x) IN
           Types(t, n) /\ t[Other(x)] = s[Other(x)] /\ Ended(s[x], t[x], kind, s[x].chat)
<1> DEFINE d == Done(s, x, kind)
<1>0. d = Done(s, x, kind)
  OBVIOUS
<1> HIDE DEF d
<1>1. Types(d, n) /\ d[Other(x)] = s[Other(x)] /\ IsDone(s[x], d[x], kind)
  BY <1>0, DoneIs
<1>2. Renewed(d[x], d[x], s[x].chat, s[x].key, s[x].fp)
  BY <1>1 DEF Renewed, IsDone, SameBook, SameKeys, SameExchange, SameWay
<1> QED
  BY <1>0, <1>1, <1>2, EndedIs

\* The same when it is deleted.
LEMMA EndedDeleted ==
    ASSUME NEW n \in Nat \ {0}, NEW s, Types(s, n), NEW x \in Side, NEW kind \in Kinds,
           s[x].wait[kind] > 0
    PROVE  LET t == Told([Done(s, x, kind) EXCEPT ![x].chat = "deleted"], x) IN
           Types(t, n) /\ t[Other(x)] = s[Other(x)] /\ Ended(s[x], t[x], kind, "deleted")
<1> DEFINE d == Done(s, x, kind)  p == [d EXCEPT ![x].chat = "deleted"]
<1>0. d = Done(s, x, kind)
  OBVIOUS
<1> HIDE DEF d
<1>1. Types(d, n) /\ d[Other(x)] = s[Other(x)] /\ IsDone(s[x], d[x], kind)
  BY <1>0, DoneIs
<1>2. Types(p, n) /\ p[Other(x)] = d[Other(x)] /\ Renewed(d[x], p[x], "deleted", d[x].key, d[x].fp)
  BY <1>1, Deleted
<1>3. d[x].key = s[x].key /\ d[x].fp = s[x].fp
  BY <1>1 DEF IsDone, SameKeys
<1>4. p = [Done(s, x, kind) EXCEPT ![x].chat = "deleted"]
  BY <1>0
<1> HIDE DEF p
<1> QED
  BY <1>0, <1>1, <1>2, <1>3, <1>4, EndedIs

\* A call is told, and nothing else.
IsTold(c, e) ==
    /\ e.told = c.told + 1 /\ e.called = c.called
    /\ SameLife(c, e) /\ SameKeys(c, e) /\ SameExchange(c, e) /\ SameWay(c, e)

\* The answers that end a call, the query they answer and the state they leave.
Replies(type, kind, c, chat) ==
    \/ type = "dh_error" /\ kind = "dh" /\ chat = "deleted"
    \/ type = "waiting" /\ kind = "request" /\ chat = "waiting"
    \/ type = "request_error" /\ kind = "request" /\ chat = c.chat
    \/ type = "accept_error" /\ kind = "accept" /\ chat = c.chat
    \/ type = "declined" /\ kind = "accept" /\ chat = "deleted"
    \/ type = "discard_done" /\ kind = "discard" /\ chat = c.chat

\* A step of x from s to t.
Step(n, s, t, x) == Types(t, n) /\ t[Other(x)] = s[Other(x)]

\* The chat is told to be ok: the other side is told of the layer.
Layered(n, s, t, x) ==
    /\ Step(n, s, t, x)
    /\ \/ s[x].chat # "ok" /\ t = s
       \/ \E m \in Message(n) : m.type = "layer" /\ IsPosted(s[x], t[x], m)

\* The ways to live on.
LivesByDh(n, s, t, x, m, a) ==
    /\ m.type = "dh" /\ s[x].wait.dh > 0
    /\ \E d : /\ Step(n, s, d, x) /\ IsDone(s[x], d[x], "dh")
              /\ x = "alice" => Creates(d[x], t[x], a)
              /\ x = "bob" => Accepts(d[x], t[x], a)

\* The answers after which a call is told: chat is what becomes of the chat.
LivesByReply(s, t, x, m) ==
    \E kind \in Kinds, chat \in States :
        /\ Replies(m.type, kind, s[x], chat) /\ s[x].wait[kind] > 0
        /\ Ended(s[x], t[x], kind, chat)

\* The answer to an accept: the chat opens, and the layer is noticed.
LivesByAnswer(n, s, t, x, m) ==
    /\ m.type = "accepted" /\ s[x].wait.accept > 0
    /\ \E d, p, q : /\ Step(n, s, d, x) /\ IsDone(s[x], d[x], "accept")
                    /\ Step(n, d, p, x) /\ IsUpdated(d[x], p[x], [m EXCEPT !.type = "chat"])
                    /\ Layered(n, p, q, x)
                    /\ IsTold(q[x], t[x])

\* The updates that no call waits for.
LivesByUpdate(n, s, t, x, m) ==
    \/ m.type \in {"requested", "discarded"} /\ IsUpdated(s[x], t[x], m)
    \/ /\ m.type = "chat"
       /\ \E p : Step(n, s, p, x) /\ IsUpdated(s[x], p[x], m) /\ Layered(n, p, t, x)

\* The helpers of the handlers are steps of one side.
LEMMA StepsAre ==
    ASSUME NEW n \in Nat \ {0}, NEW s, Types(s, n), NEW x \in Side
    PROVE  /\ LET t == Told(s, x) IN Step(n, s, t, x) /\ IsTold(s[x], t[x])
           /\ Layered(n, s, Noticed(s, x), x)
           /\ \A kind \in Kinds : s[x].wait[kind] > 0 =>
                 Step(n, s, Done(s, x, kind), x) /\ IsDone(s[x], Done(s, x, kind)[x], kind)
<1>0. n \in Nat
  OBVIOUS
<1>1. LET t == Told(s, x) IN Step(n, s, t, x) /\ IsTold(s[x], t[x])
  <2> DEFINE t == Told(s, x)
  <2>1. /\ Types(t, n) /\ t[Other(x)] = s[Other(x)]
        /\ t[x].told = s[x].told + 1 /\ t[x].called = s[x].called
        /\ SameLife(s[x], t[x])
        /\ SameKeys(s[x], t[x]) /\ SameExchange(s[x], t[x]) /\ SameWay(s[x], t[x])
    BY <1>0, ToldIs
  <2> HIDE DEF t
  <2> QED
    BY <2>1 DEF Step, IsTold, t
<1>2. Layered(n, s, Noticed(s, x), x)
  <2> DEFINE t == Noticed(s, x)  m == Secret("layer", {}, 0)
  <2>1. /\ Types(t, n) /\ t[Other(x)] = s[Other(x)]
        /\ m \in Message(n) /\ m.type = "layer"
        /\ s[x].chat = "ok" => IsPosted(s[x], t[x], m)
        /\ s[x].chat # "ok" => t = s
    BY NoticedIs
  <2> HIDE DEF t, m
  <2> QED
    BY <2>1 DEF Layered, Step, t
<1>3. ASSUME NEW kind \in Kinds, s[x].wait[kind] > 0
      PROVE  Step(n, s, Done(s, x, kind), x) /\ IsDone(s[x], Done(s, x, kind)[x], kind)
  BY <1>0, <1>3, DoneIs DEF Step
<1> QED
  BY <1>1, <1>2, <1>3

\* What a handler of the life of the chat does is one of these.
LEMMA LivedIs ==
    ASSUME NEW n \in Nat \ {0}, NEW s, Types(s, n), NEW x \in Side, s[x].wait = st[x].wait,
           NEW m \in Message(n), m.type = "dh" => fresh \in 0..(n - 1)
    PROVE  LET t == Lived(s, x, m) IN
           /\ Step(n, s, t, x)
           /\ \/ LivesByDh(n, s, t, x, m, fresh)
              \/ LivesByReply(s, t, x, m)
              \/ LivesByAnswer(n, s, t, x, m)
              \/ LivesByUpdate(n, s, t, x, m)
              \/ /\ t = s /\ m.type \notin {"requested", "discarded", "chat"}
                 /\ m.type = "declined" => s[x].wait.accept = 0
<1> DEFINE t == Lived(s, x, m)
<1>0. t = Lived(s, x, m) /\ s[x] \in Chat(n) /\ n \in Nat
  BY DEF Types
<1> HIDE DEF t
<1>1. /\ s[x].wait.dh \in Nat /\ s[x].wait.request \in Nat
      /\ s[x].wait.accept \in Nat /\ s[x].wait.discard \in Nat
      /\ s[x].chat \in States /\ "deleted" \in States /\ "waiting" \in States
  <2>1. s[x].wait \in [dh : Nat, request : Nat, accept : Nat, discard : Nat] /\ s[x].chat \in States
    BY <1>0, ChatFields
  <2> QED
    BY <2>1 DEF States
<1>2. \A kind \in Kinds : Waits(x, kind) <=> s[x].wait[kind] > 0
  BY DEF Waits
<1>3. "dh" \in Kinds /\ "request" \in Kinds /\ "accept" \in Kinds /\ "discard" \in Kinds
  BY DEF Kinds
<1>4. Step(n, s, s, x)
  BY DEF Step
<1>5. ASSUME NEW kind \in Kinds, s[x].wait[kind] > 0
      PROVE  Step(n, s, Done(s, x, kind), x) /\ IsDone(s[x], Done(s, x, kind)[x], kind)
  BY <1>5, StepsAre
<1>6. ASSUME NEW kind \in Kinds, NEW chat \in States, Replies(m.type, kind, s[x], chat), s[x].wait[kind] > 0,
             Types(t, n) /\ t[Other(x)] = s[Other(x)] /\ Ended(s[x], t[x], kind, chat)
      PROVE  Step(n, s, t, x) /\ LivesByReply(s, t, x, m)
  BY <1>6 DEF LivesByReply, Step
<1>7. CASE m.type = "dh" /\ Waits(x, "dh")
  <2> DEFINE d == Done(s, x, "dh")
  <2>1. d = Done(s, x, "dh") /\ s[x].wait.dh > 0 /\ fresh \in 0..(n - 1)
    BY <1>2, <1>3, <1>7
  <2>2. Step(n, s, d, x) /\ IsDone(s[x], d[x], "dh")
    BY <1>3, <1>5, <2>1
  <2>3. t = IF x = "alice" THEN SendCreate(d, x, fresh) ELSE SendAccept(d, x, fresh)
    BY <1>0, <1>7 DEF Lived
  <2> HIDE DEF d
  <2>4. CASE x = "alice"
    <3>1. Types(t, n) /\ t[Other(x)] = d[Other(x)] /\ Creates(d[x], t[x], fresh)
      BY <2>1, <2>2, <2>3, <2>4, SendCreateIs DEF Step
    <3>2. Step(n, s, t, x)
      BY <2>2, <3>1 DEF Step
    <3>3. /\ Step(n, s, d, x) /\ IsDone(s[x], d[x], "dh")
          /\ x = "alice" => Creates(d[x], t[x], fresh)
          /\ x = "bob" => Accepts(d[x], t[x], fresh)
      BY <2>2, <2>4, <3>1
    <3>4. LivesByDh(n, s, t, x, m, fresh)
      BY <1>7, <2>1, <3>3 DEF LivesByDh
    <3> QED
      BY <3>2, <3>4 DEF t
  <2>5. CASE x # "alice"
    <3>1. Types(t, n) /\ t[Other(x)] = d[Other(x)] /\ Accepts(d[x], t[x], fresh)
      BY <2>1, <2>2, <2>3, <2>5, SendAcceptIs DEF Step
    <3>2. Step(n, s, t, x)
      BY <2>2, <3>1 DEF Step
    <3>3. /\ Step(n, s, d, x) /\ IsDone(s[x], d[x], "dh")
          /\ x = "alice" => Creates(d[x], t[x], fresh)
          /\ x = "bob" => Accepts(d[x], t[x], fresh)
      BY <2>2, <2>5, <3>1
    <3>4. LivesByDh(n, s, t, x, m, fresh)
      BY <1>7, <2>1, <3>3 DEF LivesByDh
    <3> QED
      BY <3>2, <3>4 DEF t
  <2> QED
    BY <2>4, <2>5 DEF t
<1>8. CASE m.type = "dh_error" /\ Waits(x, "dh")
  <2>1. t = Told([Done(s, x, "dh") EXCEPT ![x].chat = "deleted"], x)
    BY <1>0, <1>8 DEF Lived
  <2>2. Types(t, n) /\ t[Other(x)] = s[Other(x)] /\ Ended(s[x], t[x], "dh", "deleted")
    BY <1>2, <1>3, <1>8, <2>1, EndedDeleted
  <2>3. Replies(m.type, "dh", s[x], "deleted") /\ s[x].wait["dh"] > 0
    BY <1>2, <1>3, <1>8 DEF Replies
  <2> QED
    BY <1>1, <1>3, <1>6, <2>2, <2>3 DEF t
<1>9. CASE m.type = "waiting" /\ Waits(x, "request")
  <2> DEFINE d == Done(s, x, "request")  p == [d EXCEPT ![x] = Updated(@, m)]
  <2>1. d = Done(s, x, "request")
    OBVIOUS
  <2>2. t = Told(p, x)
    BY <1>0, <1>9 DEF Lived
  <2> HIDE DEF d
  <2>3. s[x].wait["request"] > 0 /\ Step(n, s, d, x) /\ IsDone(s[x], d[x], "request")
    BY <1>2, <1>3, <1>5, <1>9, <2>1
  <2>4. Types(p, n) /\ p[Other(x)] = d[Other(x)] /\ IsUpdated(d[x], p[x], m)
    BY <1>9, <2>3, UpdateIs DEF Step
  <2> HIDE DEF p
  <2>5. Renewed(d[x], p[x], "waiting", s[x].key, s[x].fp)
    BY <1>9, <2>3, <2>4 DEF Renewed, IsUpdated, IsDone, SameKeys
  <2>6. Types(t, n) /\ t[Other(x)] = s[Other(x)] /\ Ended(s[x], t[x], "request", "waiting")
    BY <1>3, <2>1, <2>2, <2>3, <2>4, <2>5, EndedIs DEF Step
  <2>7. Replies(m.type, "request", s[x], "waiting")
    BY <1>9 DEF Replies
  <2> QED
    BY <1>1, <1>3, <1>6, <2>3, <2>6, <2>7 DEF t
<1>10. CASE m.type = "request_error" /\ Waits(x, "request")
  <2>1. t = Told(Done(s, x, "request"), x)
    BY <1>0, <1>10 DEF Lived
  <2>2. Types(t, n) /\ t[Other(x)] = s[Other(x)] /\ Ended(s[x], t[x], "request", s[x].chat)
    BY <1>2, <1>3, <1>10, <2>1, EndedAsIs
  <2>3. Replies(m.type, "request", s[x], s[x].chat) /\ s[x].wait["request"] > 0
    BY <1>2, <1>3, <1>10 DEF Replies
  <2> QED
    BY <1>1, <1>3, <1>6, <2>2, <2>3 DEF t
<1>11. CASE m.type = "accept_error" /\ Waits(x, "accept")
  <2>1. t = Told(Done(s, x, "accept"), x)
    BY <1>0, <1>11 DEF Lived
  <2>2. Types(t, n) /\ t[Other(x)] = s[Other(x)] /\ Ended(s[x], t[x], "accept", s[x].chat)
    BY <1>2, <1>3, <1>11, <2>1, EndedAsIs
  <2>3. Replies(m.type, "accept", s[x], s[x].chat) /\ s[x].wait["accept"] > 0
    BY <1>2, <1>3, <1>11 DEF Replies
  <2> QED
    BY <1>1, <1>3, <1>6, <2>2, <2>3 DEF t
<1>12. CASE m.type = "declined" /\ Waits(x, "accept")
  <2>1. t = Told([Done(s, x, "accept") EXCEPT ![x].chat = "deleted"], x)
    BY <1>0, <1>12 DEF Lived, Declined
  <2>2. Types(t, n) /\ t[Other(x)] = s[Other(x)] /\ Ended(s[x], t[x], "accept", "deleted")
    BY <1>2, <1>3, <1>12, <2>1, EndedDeleted
  <2>3. Replies(m.type, "accept", s[x], "deleted") /\ s[x].wait["accept"] > 0
    BY <1>2, <1>3, <1>12 DEF Replies
  <2> QED
    BY <1>1, <1>3, <1>6, <2>2, <2>3 DEF t
<1>13. CASE m.type = "discard_done" /\ Waits(x, "discard")
  <2>1. t = Told(Done(s, x, "discard"), x)
    BY <1>0, <1>13 DEF Lived
  <2>2. Types(t, n) /\ t[Other(x)] = s[Other(x)] /\ Ended(s[x], t[x], "discard", s[x].chat)
    BY <1>2, <1>3, <1>13, <2>1, EndedAsIs
  <2>3. Replies(m.type, "discard", s[x], s[x].chat) /\ s[x].wait["discard"] > 0
    BY <1>2, <1>3, <1>13 DEF Replies
  <2> QED
    BY <1>1, <1>3, <1>6, <2>2, <2>3 DEF t
<1>14. CASE m.type = "accepted" /\ Waits(x, "accept")
  <2> DEFINE d == Done(s, x, "accept")  k == [m EXCEPT !.type = "chat"]
             p == [d EXCEPT ![x] = Updated(@, k)]  q == Noticed(p, x)
  <2>1. d = Done(s, x, "accept") /\ q = Noticed(p, x) /\ k = [m EXCEPT !.type = "chat"]
    OBVIOUS
  <2>2. t = Told(q, x)
    BY <1>0, <1>14 DEF Lived
  <2> HIDE DEF d, q
  <2>3. s[x].wait.accept > 0 /\ Step(n, s, d, x) /\ IsDone(s[x], d[x], "accept")
    BY <1>2, <1>3, <1>5, <1>14, <2>1
  <2>4. k \in Message(n) /\ k.type = "chat"
    BY <1>14, <2>1 DEF Message, Updates, Formed
  <2> HIDE DEF k
  <2>5. Types(p, n) /\ p[Other(x)] = d[Other(x)] /\ IsUpdated(d[x], p[x], k)
    BY <2>3, <2>4, UpdateIs DEF Step
  <2> HIDE DEF p
  <2>6. Layered(n, p, q, x)
    BY <2>1, <2>5, StepsAre
  <2>7. Types(q, n) /\ q[Other(x)] = p[Other(x)]
    BY <2>6 DEF Layered, Step
  <2>8. Step(n, q, t, x) /\ IsTold(q[x], t[x])
    BY <2>2, <2>7, StepsAre
  <2>9. Step(n, s, t, x)
    BY <2>3, <2>5, <2>7, <2>8 DEF Step
  <2>10. Step(n, d, p, x)
    BY <2>5 DEF Step
  <2>11. LivesByAnswer(n, s, t, x, m)
    BY <1>14, <2>1, <2>3, <2>5, <2>6, <2>8, <2>10 DEF LivesByAnswer
  <2> QED
    BY <2>9, <2>11 DEF t
<1>15. CASE m.type \in {"requested", "discarded"}
  <2> DEFINE p == [s EXCEPT ![x] = Updated(@, m)]
  <2>1. t = p
    BY <1>0, <1>15 DEF Lived
  <2>2. Types(p, n) /\ p[Other(x)] = s[Other(x)] /\ IsUpdated(s[x], p[x], m)
    BY <1>15, UpdateIs
  <2> HIDE DEF p
  <2> QED
    BY <1>15, <2>1, <2>2 DEF t, Step, LivesByUpdate
<1>16. CASE m.type = "chat"
  <2> DEFINE p == [s EXCEPT ![x] = Updated(@, m)]
  <2>1. t = Noticed(p, x)
    BY <1>0, <1>16 DEF Lived
  <2>2. Types(p, n) /\ p[Other(x)] = s[Other(x)] /\ IsUpdated(s[x], p[x], m)
    BY <1>16, UpdateIs
  <2> HIDE DEF p
  <2>3. Layered(n, p, t, x)
    BY <2>1, <2>2, StepsAre
  <2>4. Step(n, s, p, x) /\ Step(n, s, t, x)
    BY <2>2, <2>3 DEF Step, Layered
  <2> QED
    BY <1>16, <2>2, <2>3, <2>4 DEF t, LivesByUpdate
<1>17. CASE /\ ~(m.type = "dh" /\ Waits(x, "dh")) /\ ~(m.type = "dh_error" /\ Waits(x, "dh"))
            /\ ~(m.type = "waiting" /\ Waits(x, "request"))
            /\ ~(m.type = "request_error" /\ Waits(x, "request"))
            /\ ~(m.type = "accepted" /\ Waits(x, "accept"))
            /\ ~(m.type = "accept_error" /\ Waits(x, "accept"))
            /\ ~(m.type = "declined" /\ Waits(x, "accept"))
            /\ ~(m.type = "discard_done" /\ Waits(x, "discard"))
            /\ m.type \notin {"requested", "discarded"} /\ m.type # "chat"
  <2>1. t = s
    BY <1>0, <1>17 DEF Lived
  <2>2. m.type = "declined" => s[x].wait.accept = 0
    BY <1>1, <1>2, <1>3, <1>17
  <2> QED
    BY <1>4, <1>17, <2>1, <2>2 DEF t
<1> QED
  BY <1>7, <1>8, <1>9, <1>10, <1>11, <1>12, <1>13, <1>14, <1>15, <1>16, <1>17

-----------------------------------------------------------------------------
(* Every call is told                                                      *)

\* The calls of which the application knows, or whose query has not ended.
Open(c) == c.told + c.wait.dh + c.wait.request + c.wait.accept + c.wait.discard

\* A chat that has begun does not begin again.
Begun(c, e) ==
    /\ e.chat = "absent" => c.chat = "absent" /\ e.wait.dh = c.wait.dh
    /\ e.chat \in {"absent", "request"} /\ e.wait.dh = 0 =>
          c.chat \in {"absent", "request"} /\ (c.chat = "request" => c.wait.dh = 0)

\* The counts hold when the queries that are open stay as many.
LEMMA CountedStep ==
    ASSUME NEW n \in Nat, NEW s, NEW t, Types(s, n), Types(t, n), NEW x \in Side, NEW f \in Nat,
           Counted(s, f), t[Other(x)] = s[Other(x)],
           t[x].called = s[x].called, Open(t[x]) = Open(s[x]), Begun(s[x], t[x])
    PROVE  Counted(t, f)
<1> DEFINE a == s["alice"]  b == s["bob"]  e == t["alice"]  g == t["bob"]
<1>1. /\ a = s["alice"] /\ b = s["bob"] /\ e = t["alice"] /\ g = t["bob"]
      /\ e.called = a.called /\ Open(e) = Open(a) /\ (e = a \/ Begun(a, e))
      /\ g.called = b.called /\ Open(g) = Open(b) /\ (g = b \/ Begun(b, g))
  <2>1. \A y \in Side : /\ t[y].called = s[y].called /\ Open(t[y]) = Open(s[y])
                        /\ t[y] = s[y] \/ Begun(s[y], t[y])
    BY Sides
  <2> QED
    BY <2>1 DEF Side
<1> HIDE DEF a, b, e, g
<1>2. /\ a.called = Open(a) /\ b.called = Open(b)
      /\ a.chat = "absent" => a.called = 0
      /\ a.called <= f + 1
      /\ b.called <= f + IF b.chat \in {"absent", "request"} /\ b.wait.dh = 0 THEN 0 ELSE 1
      /\ b.chat = "absent" => b.wait.dh = 0
  BY <1>1 DEF Counted, Side, Open
<1>3. e.called = Open(e) /\ g.called = Open(g) /\ (e.chat = "absent" => e.called = 0) /\ e.called <= f + 1
  BY <1>1, <1>2 DEF Begun
<1>4. g.chat = "absent" => g.wait.dh = 0
  BY <1>1, <1>2 DEF Begun
<1>5. g.called <= f + IF g.chat \in {"absent", "request"} /\ g.wait.dh = 0 THEN 0 ELSE 1
  <2>1. b \in Chat(n) /\ b.called \in Nat
    BY <1>1, ChatFields DEF Types, Side
  <2>2. CASE g.chat \in {"absent", "request"} /\ g.wait.dh = 0
    BY <1>1, <1>2, <2>2 DEF Begun
  <2>3. CASE ~(g.chat \in {"absent", "request"} /\ g.wait.dh = 0)
    BY <1>1, <1>2, <2>1, <2>3
  <2> QED
    BY <2>2, <2>3
<1> QED
  BY <1>1, <1>3, <1>4, <1>5 DEF Counted, Side, Open

\* Nothing of it changes.
SameCount(c, e) == SameLife(c, e) /\ e.called = c.called /\ e.told = c.told

\* The counts hold when nothing that is counted changes.
LEMMA CountedSame ==
    ASSUME NEW s, NEW t, NEW f, Counted(s, f), \A x \in Side : SameCount(s[x], t[x])
    PROVE  Counted(t, f)
BY DEF Counted, SameCount, SameLife, Side

\* The types of what is counted.
LEMMA WaitFields ==
    ASSUME NEW n \in Nat, NEW c \in Chat(n)
    PROVE  /\ c.wait.dh \in Nat /\ c.wait.request \in Nat
           /\ c.wait.accept \in Nat /\ c.wait.discard \in Nat
           /\ c.told \in Nat /\ c.called \in Nat
<1>1. c.wait \in [dh : Nat, request : Nat, accept : Nat, discard : Nat]
  BY ChatFields
<1> QED
  BY <1>1, ChatFields

\* The handlers of the life of the chat keep the counts.
LEMMA CountedLived ==
    ASSUME NEW n \in Nat \ {0}, NEW s, NEW t, Types(s, n), NEW x \in Side, NEW f \in Nat,
           Counted(s, f), NEW m \in Message(n), NEW a, Step(n, s, t, x),
           \/ LivesByDh(n, s, t, x, m, a)
           \/ LivesByReply(s, t, x, m)
           \/ LivesByAnswer(n, s, t, x, m)
           \/ LivesByUpdate(n, s, t, x, m)
    PROVE  Counted(t, f)
<1> DEFINE c == s[x]  e == t[x]
<1>0. /\ n \in Nat /\ s[x] \in Chat(n) /\ t[x] \in Chat(n) /\ c = s[x] /\ e = t[x]
      /\ Types(t, n) /\ t[Other(x)] = s[Other(x)]
  BY DEF Types, Step
<1> HIDE DEF c, e
<1>1. /\ c.wait.dh \in Nat /\ c.wait.request \in Nat /\ c.wait.accept \in Nat
      /\ c.wait.discard \in Nat /\ c.told \in Nat /\ c.called \in Nat
  BY <1>0, WaitFields
<1>2. "dh" \in Kinds /\ "request" \in Kinds /\ "accept" \in Kinds /\ "discard" \in Kinds
  BY DEF Kinds
<1>3. SUFFICES e.called = c.called /\ Open(e) = Open(c) /\ Begun(c, e)
  <2>1. ASSUME e.called = c.called /\ Open(e) = Open(c) /\ Begun(c, e)
        PROVE  Counted(t, f)
    BY <1>0, <2>1, CountedStep
  <2> QED
    BY <2>1
<1>4. CASE LivesByDh(n, s, t, x, m, a)
  <2>1. PICK d : /\ Step(n, s, d, x) /\ IsDone(c, d[x], "dh")
                 /\ x = "alice" => Creates(d[x], e, a)
                 /\ x = "bob" => Accepts(d[x], e, a)
    BY <1>0, <1>4 DEF LivesByDh
  <2>2. d[x] \in Chat(n)
    BY <2>1 DEF Step, Types
  <2>3. d[x].wait \in [dh : Nat, request : Nat, accept : Nat, discard : Nat]
    BY <1>0, <2>2, ChatFields
  <2> DEFINE g == d[x]
  <2> HIDE DEF g
  <2>4. /\ g.wait.dh = c.wait.dh - 1 /\ g.wait.request = c.wait.request
        /\ g.wait.accept = c.wait.accept /\ g.wait.discard = c.wait.discard
        /\ g.told = c.told /\ g.called = c.called
    BY <1>2, <2>1 DEF IsDone, SameBook, g
  <2>5. CASE x = "alice"
    <3>1. /\ e.wait.dh = g.wait.dh /\ e.wait.request = g.wait.request + 1
          /\ e.wait.accept = g.wait.accept /\ e.wait.discard = g.wait.discard
          /\ e.told = g.told /\ e.called = g.called /\ e.chat = "waiting"
      BY <2>1, <2>3, <2>5 DEF Creates, SameBook, g
    <3> QED
      BY <1>1, <2>4, <3>1 DEF Open, Begun
  <2>6. CASE x = "bob"
    <3>1. /\ e.wait.dh = g.wait.dh /\ e.wait.request = g.wait.request
          /\ e.wait.accept = g.wait.accept + 1 /\ e.wait.discard = g.wait.discard
          /\ e.told = g.told /\ e.called = g.called /\ e.chat = "ok"
      BY <2>1, <2>3, <2>6 DEF Accepts, SameBook, g
    <3> QED
      BY <1>1, <2>4, <3>1 DEF Open, Begun
  <2> QED
    BY <2>5, <2>6 DEF Side
<1>5. CASE LivesByReply(s, t, x, m)
  <2>1. PICK kind \in Kinds, chat \in States :
            Replies(m.type, kind, c, chat) /\ Ended(c, e, kind, chat)
    BY <1>0, <1>5 DEF LivesByReply
  <2>2. /\ e.wait.dh = IF kind = "dh" THEN c.wait.dh - 1 ELSE c.wait.dh
        /\ e.wait.request = IF kind = "request" THEN c.wait.request - 1 ELSE c.wait.request
        /\ e.wait.accept = IF kind = "accept" THEN c.wait.accept - 1 ELSE c.wait.accept
        /\ e.wait.discard = IF kind = "discard" THEN c.wait.discard - 1 ELSE c.wait.discard
        /\ e.told = c.told + 1 /\ e.called = c.called /\ e.chat = chat
    BY <1>2, <2>1 DEF Ended
  <2>3. Open(e) = Open(c)
    BY <1>1, <2>2 DEF Open, Kinds
  <2>4. Begun(c, e)
    BY <1>1, <2>1, <2>2 DEF Replies, Begun, Kinds
  <2> QED
    BY <2>2, <2>3, <2>4
<1>6. CASE LivesByAnswer(n, s, t, x, m)
  <2>1. PICK d, p, q : /\ Step(n, s, d, x) /\ IsDone(c, d[x], "accept")
                       /\ Step(n, d, p, x) /\ IsUpdated(d[x], p[x], [m EXCEPT !.type = "chat"])
                       /\ Layered(n, p, q, x)
                       /\ IsTold(q[x], e)
    BY <1>0, <1>6 DEF LivesByAnswer
  <2> DEFINE g == d[x]  h == p[x]
  <2>2. /\ g.wait.dh = c.wait.dh /\ g.wait.request = c.wait.request
        /\ g.wait.accept = c.wait.accept - 1 /\ g.wait.discard = c.wait.discard
        /\ g.told = c.told /\ g.called = c.called
    BY <1>2, <2>1 DEF IsDone, SameBook
  <2>3. h.wait = g.wait /\ h.told = g.told /\ h.called = g.called
        /\ h.chat \in {"ok", "deleted"}
    <3>1. [m EXCEPT !.type = "chat"].type = "chat"
      BY DEF Message
    <3> QED
      BY <2>1, <3>1 DEF IsUpdated, SameBook
  <2>4. q[x].chat = h.chat /\ q[x].wait = h.wait /\ q[x].told = h.told /\ q[x].called = h.called
    BY <2>1 DEF Layered, IsPosted, SameLife, SameBook
  <2>5. e.wait = h.wait /\ e.told = h.told + 1 /\ e.called = h.called /\ e.chat = h.chat
    BY <2>1, <2>4 DEF IsTold, SameLife
  <2> HIDE DEF g, h
  <2> QED
    BY <1>1, <2>2, <2>3, <2>5 DEF Open, Begun
<1>7. CASE LivesByUpdate(n, s, t, x, m)
  <2>1. CASE m.type \in {"requested", "discarded"} /\ IsUpdated(c, e, m)
    BY <1>1, <2>1 DEF IsUpdated, SameBook, Open, Begun
  <2>2. CASE m.type = "chat" /\ \E p : Step(n, s, p, x) /\ IsUpdated(c, p[x], m) /\ Layered(n, p, t, x)
    <3>1. PICK p : Step(n, s, p, x) /\ IsUpdated(c, p[x], m) /\ Layered(n, p, t, x)
      BY <2>2
    <3> DEFINE h == p[x]
    <3>2. h.wait = c.wait /\ h.told = c.told /\ h.called = c.called /\ h.chat \in {"ok", "deleted"}
      BY <2>2, <3>1 DEF IsUpdated, SameBook
    <3>3. e.chat = h.chat /\ e.wait = h.wait /\ e.told = h.told /\ e.called = h.called
      BY <1>0, <3>1 DEF Layered, IsPosted, SameLife, SameBook
    <3> HIDE DEF h
    <3> QED
      BY <1>1, <3>2, <3>3 DEF Open, Begun
  <2> QED
    BY <1>0, <1>7, <2>1, <2>2 DEF LivesByUpdate
<1> QED
  BY <1>4, <1>5, <1>6, <1>7

-----------------------------------------------------------------------------
(* The life of the chat: updates and answers                               *)

\* What can still be behind the head of an inbox.
LEMMA HeadIs ==
    ASSUME NEW n \in Nat, NEW q \in Seq(Message(n)), q # <<>>, Sorted(q)
    PROVE  /\ Rank(Head(q)) >= 2 => ~Has(Tail(q), Reopeners)
           /\ Rank(Head(q)) = 1 => ~Has(Tail(q), {"waiting", "requested"})
<1> DEFINE m == Head(q)  r == Tail(q)
<1>1. \A l \in ToSet(r) : Before(m, l)
  BY SortedRest
<1> HIDE DEF m, r
<1>2. Rank(m) \in 0..4
  BY DEF Rank
<1>3. ASSUME Rank(m) >= 2, NEW l \in ToSet(r), l.type \in Reopeners
      PROVE  FALSE
  <2>1. Rank(l) \in {1, 2}
    BY <1>3 DEF Reopeners, Rank
  <2> QED
    BY <1>1, <1>2, <1>3, <2>1 DEF Before
<1>4. ASSUME Rank(m) = 1, NEW l \in ToSet(r), l.type \in {"waiting", "requested"}
      PROVE  FALSE
  <2>1. Rank(l) = 1
    BY <1>4 DEF Rank
  <2> QED
    BY <1>1, <1>4, <2>1 DEF Before
<1> QED
  BY <1>3, <1>4 DEF Has, m, r

\* The answers to an accept.
Answers == {"accepted", "accept_error", "declined"}

\* The chat of the creator, or of the other side, is deleted, or goes on.
MovedCreator(a, e, v) ==
    \/ e.chat = a.chat /\ e.wait.dh \in {0, a.wait.dh}
    \/ /\ a.chat # "absent" /\ e.chat = "deleted" /\ e.wait.dh = 0
       /\ ~Has(a.asked, {"request_chat"}) /\ ~Has(a.inbox, {"waiting", "chat"})
       /\ v.chat # "requested"

\* What a handler may do to the side that accepts.
MovedAcceptor(b, f) ==
    /\ \/ f.chat = b.chat
       \/ b.chat # "absent" /\ f.chat = "deleted"
       \/ b.chat # "absent" /\ f.chat = "ok" /\ b.fp # {}
    /\ \/ f.wait.accept = b.wait.accept
       \/ b.fp # {} /\ ~Has(b.asked, {"accept_chat"}) /\ ~Has(b.inbox, Answers)

\* Nothing changes in what is said and queued.
SameTalk(c, e) ==
    /\ e.left = c.left /\ SameKeys(c, e) /\ SameExchange(c, e) /\ SameWay(c, e)

\* The life of the chat holds over what a handler may do to each side.
LEMMA LifeMoved ==
    ASSUME NEW s, NEW t, NEW v, Life(s, v), \A x \in Side : SameTalk(s[x], t[x]),
           MovedCreator(s["alice"], t["alice"], v), MovedAcceptor(s["bob"], t["bob"])
    PROVE  Life(t, v)
<1> DEFINE a == s["alice"]  b == s["bob"]  e == t["alice"]  f == t["bob"]
<1>1. /\ a = s["alice"] /\ b = s["bob"] /\ e = t["alice"] /\ f = t["bob"]
      /\ MovedCreator(a, e, v) /\ MovedAcceptor(b, f) /\ SameTalk(a, e) /\ SameTalk(b, f)
  BY DEF Side
<1> HIDE DEF a, b, e, f
<1>2. /\ e.left = a.left /\ e.key = a.key /\ e.fp = a.fp /\ e.ex = a.ex /\ e.out = a.out
      /\ e.asked = a.asked /\ e.inbox = a.inbox
      /\ f.left = b.left /\ f.key = b.key /\ f.fp = b.fp /\ f.ex = b.ex /\ f.out = b.out
      /\ f.asked = b.asked /\ f.inbox = b.inbox
  BY <1>1 DEF SameTalk, SameKeys, SameExchange, SameWay
<1>3. Ordered(t, v)
  BY <1>1, <1>2 DEF Life, Ordered, Side
<1>4. (e.chat = "absent" => a.chat = "absent") /\ (f.chat = "absent" <=> b.chat = "absent")
  BY <1>1 DEF MovedCreator, MovedAcceptor
<1>5. Roles(t, v)
  <2>1. f.chat # "waiting"
    BY <1>1 DEF Life, Roles, MovedAcceptor
  <2> QED
    BY <1>1, <1>2, <1>4, <2>1 DEF Life, Roles, Side
<1>6. Creator(t, v)
  <2>1. CASE e.chat = a.chat /\ e.wait.dh \in {0, a.wait.dh}
    BY <1>1, <1>2, <2>1 DEF Life, Creator
  <2>2. CASE /\ a.chat # "absent" /\ e.chat = "deleted" /\ e.wait.dh = 0
             /\ ~Has(a.asked, {"request_chat"}) /\ ~Has(a.inbox, {"waiting", "chat"})
             /\ v.chat # "requested"
    BY <1>1, <1>2, <2>2 DEF Life, Creator
  <2> QED
    BY <1>1, <2>1, <2>2 DEF MovedCreator
<1>7. Acceptor(t, v)
  <2>1. v.chat = "no" => f.chat = "absent" /\ f.inbox = <<>>
    BY <1>1, <1>2, <1>4 DEF Life, Acceptor
  <2>2. /\ Has(f.inbox, {"requested"}) => f.chat = "absent"
        /\ f.chat # "absent" /\ f.fp = {} => f.key = v.ga
    BY <1>1, <1>2, <1>4 DEF Life, Acceptor
  <2>3. f.fp = {} => f.wait.accept = 0
    BY <1>1, <1>2 DEF Life, Acceptor, MovedAcceptor
  <2>4. Has(f.asked, {"accept_chat"}) => f.wait.accept = 1
    BY <1>1, <1>2 DEF Life, Acceptor, MovedAcceptor
  <2>5. Has(f.inbox, {"accepted", "accept_error", "declined"}) => f.wait.accept = 1
    BY <1>1, <1>2 DEF Life, Acceptor, MovedAcceptor, Answers
  <2> QED
    BY <1>1, <1>2, <2>1, <2>2, <2>3, <2>4, <2>5 DEF Life, Acceptor
<1>8. Keyed(t, v)
  <2>1. (e.chat = "ok" => e.fp # {}) /\ (f.chat = "ok" => f.fp # {})
    BY <1>1, <1>2 DEF Life, Keyed, Side, MovedCreator, MovedAcceptor
  <2> QED
    BY <1>1, <1>2, <2>1 DEF Life, Keyed, Side
<1> QED
  BY <1>3, <1>5, <1>6, <1>7, <1>8 DEF Life

\* x reads m: what it knows of it.
Reading(n, s, u, x, v, m) ==
    /\ Types(s, n) /\ Types(u, n) /\ Life(s, v) /\ Life(u, v)
    /\ Heard(s[x], u[x]) /\ u[Other(x)] = s[Other(x)] /\ m = Head(s[x].inbox)

\* What x reads tells it of the server, and is not there to be read again.
LEMMA ReadingIs ==
    ASSUME NEW n \in Nat, NEW s, NEW u, NEW x \in Side, NEW v, NEW m, Reading(n, s, u, x, v, m)
    PROVE  /\ m \in Message(n)
           /\ \A T : m.type \in T => Has(s[x].inbox, T)
           /\ \A T : m.type \in T /\ Once(s[x].inbox, T) => ~Has(u[x].inbox, T)
           /\ m \in ToSet(s[x].inbox) /\ Rank(m) <= Level(v)
           /\ Rank(m) >= 2 => ~Has(u[x].inbox, Reopeners)
           /\ Rank(m) = 1 => ~Has(u[x].inbox, {"waiting", "requested"})
           /\ \A T : Has(u[x].inbox, T) => Has(s[x].inbox, T)
           /\ \A y \in Side : SameLife(s[y], u[y]) /\ SameKeys(s[y], u[y]) /\ u[y].asked = s[y].asked
<1> DEFINE q == s[x].inbox
<1>1. /\ q \in Seq(Message(n)) /\ q # <<>> /\ u[x].inbox = Tail(q) /\ q = s[x].inbox
      /\ m = Head(q) /\ Sorted(q) /\ \A l \in ToSet(q) : Rank(l) <= Level(v)
  BY ChatFields DEF Reading, Types, Heard, Life, Ordered
<1> HIDE DEF q
<1>2. m \in Message(n) /\ m \in ToSet(q)
  BY <1>1, Rest
<1>3. \A T : m.type \in T => Has(q, T)
  BY <1>2 DEF Has
<1>4. \A T : m.type \in T /\ Once(q, T) => ~Has(Tail(q), T)
  BY <1>1, OnceRest
<1>5. /\ Rank(m) >= 2 => ~Has(Tail(q), Reopeners)
      /\ Rank(m) = 1 => ~Has(Tail(q), {"waiting", "requested"})
  BY <1>1, HeadIs
<1>6. \A T : Has(q, T) <=> Has(Tail(q), T) \/ m.type \in T
  BY <1>1, HasRest
<1>7. \A y \in Side : SameLife(s[y], u[y]) /\ SameKeys(s[y], u[y]) /\ u[y].asked = s[y].asked
  <2>1. ASSUME NEW y \in Side
        PROVE  SameLife(s[y], u[y]) /\ SameKeys(s[y], u[y]) /\ u[y].asked = s[y].asked
    <3>1. CASE y = x
      BY <3>1 DEF Reading, Heard
    <3>2. CASE y # x
      <4>1. u[y] = s[y]
        BY <3>2, Sides DEF Reading
      <4> QED
        BY <4>1 DEF SameLife, SameKeys
    <3> QED
      BY <3>1, <3>2
  <2> QED
    BY <2>1
<1> QED
  BY <1>1, <1>2, <1>3, <1>4, <1>5, <1>6, <1>7

\* An answer that ends a call.
LEMMA LifeReply ==
    ASSUME NEW n \in Nat, NEW s, NEW u, NEW t, NEW x \in Side, NEW v, NEW m, NEW f,
           Reading(n, s, u, x, v, m), Counted(s, f), LivesByReply(u, t, x, m),
           t[Other(x)] = u[Other(x)]
    PROVE  Life(t, v)
<1>1. Life(s, v) /\ Life(u, v)
  BY DEF Reading
<1>2. /\ \A T : m.type \in T => Has(s[x].inbox, T)
      /\ \A T : m.type \in T /\ Once(s[x].inbox, T) => ~Has(u[x].inbox, T)
      /\ \A y \in Side : SameLife(s[y], u[y]) /\ SameKeys(s[y], u[y]) /\ u[y].asked = s[y].asked
  BY ReadingIs
<1>3. PICK kind \in Kinds, chat \in States :
          Replies(m.type, kind, u[x], chat) /\ u[x].wait[kind] > 0 /\ Ended(u[x], t[x], kind, chat)
  BY DEF LivesByReply
<1>4. "dh" \in Kinds /\ "accept" \in Kinds
  BY DEF Kinds
<1>5. /\ t[x].wait.dh = IF kind = "dh" THEN u[x].wait.dh - 1 ELSE u[x].wait.dh
      /\ t[x].wait.accept = IF kind = "accept" THEN u[x].wait.accept - 1 ELSE u[x].wait.accept
      /\ t[x].chat = chat /\ SameTalk(u[x], t[x])
  BY <1>3, <1>4 DEF Ended, SameTalk
<1>6. \A y \in Side : SameTalk(u[y], t[y])
  <2>1. SameTalk(u[Other(x)], t[Other(x)])
    BY DEF SameTalk, SameKeys, SameExchange, SameWay
  <2> QED
    BY <1>5, <2>1, Sides
<1>7. CASE x = "alice"
  <2> DEFINE a == u["alice"]  e == t["alice"]
  <2>1. ~Has(s["alice"].inbox, {"requested", "accepted", "accept_error", "declined"})
    BY <1>1 DEF Life, Roles
  <2>2. m.type \notin {"accept_error", "declined"}
    BY <1>2, <1>7, <2>1
  <2>3. MovedCreator(a, e, v)
    <3>1. CASE m.type = "dh_error"
      <4>1. kind = "dh" /\ chat = "deleted" /\ a.wait.dh > 0
        BY <1>3, <1>7, <3>1 DEF Replies
      <4>2. a.chat = "none" /\ a.wait.dh = 1
        BY <1>1, <4>1 DEF Life, Creator
      <4>3. ~Has(a.asked, {"request_chat"}) /\ ~Has(a.inbox, {"waiting", "chat"}) /\ v.chat # "requested"
        BY <1>1, <4>2 DEF Life, Creator
      <4> QED
        BY <1>5, <1>7, <4>1, <4>2, <4>3 DEF MovedCreator
    <3>2. CASE m.type = "waiting"
      <4>1. a.chat = "waiting"
        <5>1. Has(s["alice"].inbox, {"waiting", "chat"})
          BY <1>2, <1>7, <3>2
        <5>2. s["alice"].chat = "waiting"
          BY <1>1, <5>1 DEF Life, Creator
        <5> QED
          BY <1>2, <1>7, <5>2 DEF SameLife
      <4>2. kind = "request" /\ chat = "waiting"
        BY <1>3, <3>2 DEF Replies
      <4> QED
        BY <1>5, <1>7, <4>1, <4>2 DEF MovedCreator
    <3>3. CASE m.type \notin {"dh_error", "waiting"}
      <4>1. kind \notin {"dh"} /\ chat = a.chat
        BY <1>3, <1>7, <2>2, <3>3 DEF Replies
      <4> QED
        BY <1>5, <1>7, <4>1 DEF MovedCreator
    <3> QED
      BY <3>1, <3>2, <3>3
  <2>4. t["bob"] = u["bob"]
    BY <1>7 DEF Other
  <2>5. MovedAcceptor(u["bob"], t["bob"])
    BY <2>4 DEF MovedAcceptor
  <2> QED
    BY <1>1, <1>6, <2>3, <2>5, LifeMoved
<1>8. CASE x = "bob"
  <2> DEFINE b == u["bob"]  g == t["bob"]
  <2>1. ~Has(s["bob"].inbox, {"waiting", "chat", "request_error"})
    BY <1>1 DEF Life, Roles
  <2>2. m.type \notin {"waiting", "request_error"}
    BY <1>2, <1>8, <2>1
  <2>3. MovedAcceptor(b, g)
    <3>1. CASE m.type = "dh_error"
      <4>1. kind = "dh" /\ chat = "deleted" /\ b.wait.dh > 0
        BY <1>3, <1>8, <3>1 DEF Replies
      <4>2. s["bob"].chat = b.chat /\ s["bob"].wait.dh = b.wait.dh
        BY <1>2, <1>8 DEF SameLife
      <4>3. b.chat # "absent"
        BY <4>1, <4>2 DEF Counted
      <4> QED
        BY <1>5, <1>8, <4>1, <4>3 DEF MovedAcceptor
    <3>2. CASE m.type \in {"accept_error", "declined"}
      <4>1. kind = "accept" /\ (chat = b.chat \/ chat = "deleted")
        BY <1>3, <1>8, <3>2 DEF Replies
      <4>2. Has(s["bob"].inbox, Answers)
        BY <1>2, <1>8, <3>2 DEF Answers
      <4>3. s["bob"].fp # {} /\ ~Has(s["bob"].asked, {"accept_chat"}) /\ Once(s["bob"].inbox, Answers)
        BY <1>1, <4>2 DEF Life, Acceptor, Answers
      <4>4. b.fp # {} /\ ~Has(b.asked, {"accept_chat"}) /\ ~Has(b.inbox, Answers)
        BY <1>2, <1>8, <3>2, <4>3 DEF SameKeys, Answers
      <4>5. b.chat # "absent"
        BY <1>1, <4>4 DEF Life, Roles
      <4> QED
        BY <1>5, <1>8, <4>1, <4>4, <4>5 DEF MovedAcceptor
    <3>3. CASE m.type \notin {"dh_error", "accept_error", "declined"}
      <4>1. kind \notin {"accept"} /\ chat = b.chat
        BY <1>3, <1>8, <2>2, <3>3 DEF Replies
      <4> QED
        BY <1>5, <1>8, <4>1 DEF MovedAcceptor
    <3> QED
      BY <3>1, <3>2, <3>3
  <2>4. t["alice"] = u["alice"]
    BY <1>8 DEF Other
  <2>5. MovedCreator(u["alice"], t["alice"], v)
    BY <2>4 DEF MovedCreator
  <2> QED
    BY <1>1, <1>6, <2>3, <2>5, LifeMoved
<1> QED
  BY <1>7, <1>8 DEF Side

\* The chat is discarded by the other side.
LEMMA LifeDiscarded ==
    ASSUME NEW n \in Nat, NEW s, NEW u, NEW t, NEW x \in Side, NEW v, NEW m,
           Reading(n, s, u, x, v, m), m.type = "discarded", IsUpdated(u[x], t[x], m),
           t[Other(x)] = u[Other(x)]
    PROVE  Life(t, v)
<1>1. Life(s, v) /\ Life(u, v)
  BY DEF Reading
<1>2. /\ \A T : m.type \in T => Has(s[x].inbox, T)
      /\ Rank(m) <= Level(v) /\ (Rank(m) >= 2 => ~Has(u[x].inbox, Reopeners))
      /\ \A y \in Side : SameLife(s[y], u[y]) /\ SameKeys(s[y], u[y]) /\ u[y].asked = s[y].asked
  BY ReadingIs
<1>3. v.chat = "gone" /\ ~Has(u[x].inbox, Reopeners)
  <2>1. Rank(m) = 4
    BY DEF Rank, InChat
  <2>2. v.chat \in {"no", "requested", "ok", "gone"}
    BY <1>1 DEF Life, Roles
  <2> QED
    BY <1>2, <2>1, <2>2 DEF Level
<1>4. /\ SameTalk(u[x], t[x]) /\ t[x].wait = u[x].wait
      /\ u[x].chat = "absent" => t[x].chat = "absent"
      /\ u[x].chat # "absent" => t[x].chat = "deleted"
  BY DEF IsUpdated, SameTalk
<1>5. \A y \in Side : SameTalk(u[y], t[y])
  <2>1. SameTalk(u[Other(x)], t[Other(x)])
    BY DEF SameTalk, SameKeys, SameExchange, SameWay
  <2> QED
    BY <1>4, <2>1, Sides
<1>6. CASE x = "alice"
  <2> DEFINE a == u["alice"]  e == t["alice"]
  <2>1. ~Has(a.inbox, {"waiting", "chat"})
    BY <1>3, <1>6 DEF Has, Reopeners
  <2>2. ~Has(a.asked, {"request_chat"})
    BY <1>1, <1>3 DEF Life, Creator
  <2>3. a.wait.dh \in Nat
    BY <1>6, WaitFields DEF Reading, Types
  <2>4. a.wait.dh = 0
    BY <1>1, <1>3, <2>3 DEF Life, Creator
  <2>5. MovedCreator(a, e, v)
    BY <1>3, <1>4, <1>6, <2>1, <2>2, <2>4 DEF MovedCreator
  <2>6. MovedAcceptor(u["bob"], t["bob"])
    <3>1. t["bob"] = u["bob"]
      BY <1>6 DEF Other
    <3> QED
      BY <3>1 DEF MovedAcceptor
  <2> QED
    BY <1>1, <1>5, <2>5, <2>6, LifeMoved
<1>7. CASE x = "bob"
  <2>1. MovedAcceptor(u["bob"], t["bob"])
    BY <1>4, <1>7 DEF MovedAcceptor
  <2>2. MovedCreator(u["alice"], t["alice"], v)
    <3>1. t["alice"] = u["alice"]
      BY <1>7 DEF Other
    <3> QED
      BY <3>1 DEF MovedCreator
  <2> QED
    BY <1>1, <1>5, <2>1, <2>2, LifeMoved
<1> QED
  BY <1>6, <1>7 DEF Side

\* Its acceptance is confirmed: the chat is ok.
LEMMA LifeConfirmed ==
    ASSUME NEW n \in Nat, NEW s, NEW u, NEW d, NEW t, NEW x \in Side, NEW v, NEW m, NEW k,
           Reading(n, s, u, x, v, m), m.type = "accepted", IsDone(u[x], d[x], "accept"),
           k.type = "chat", IsUpdated(d[x], t[x], k), t[Other(x)] = u[Other(x)]
    PROVE  Life(t, v) /\ x = "bob" /\ t["bob"].chat = "ok"
<1>1. Life(s, v) /\ Life(u, v)
  BY DEF Reading
<1>2. /\ \A T : m.type \in T => Has(s[x].inbox, T)
      /\ \A T : m.type \in T /\ Once(s[x].inbox, T) => ~Has(u[x].inbox, T)
      /\ \A y \in Side : SameLife(s[y], u[y]) /\ SameKeys(s[y], u[y]) /\ u[y].asked = s[y].asked
  BY ReadingIs
<1>3. x = "bob"
  <2>1. ~Has(s["alice"].inbox, {"requested", "accepted", "accept_error", "declined"})
    BY <1>1 DEF Life, Roles
  <2> QED
    BY <1>2, <2>1 DEF Side
<1> DEFINE b == u["bob"]  g == t["bob"]
<1>4. Has(s["bob"].inbox, Answers)
  BY <1>2, <1>3 DEF Answers
<1>5. s["bob"].fp # {} /\ ~Has(s["bob"].asked, {"accept_chat"}) /\ Once(s["bob"].inbox, Answers)
  BY <1>1, <1>4 DEF Life, Acceptor, Answers
<1>6. b.fp # {} /\ ~Has(b.asked, {"accept_chat"}) /\ ~Has(b.inbox, Answers)
  BY <1>2, <1>3, <1>5 DEF SameKeys, Answers
<1>7. b.chat # "absent" /\ b.chat # "waiting"
  BY <1>1, <1>6 DEF Life, Roles
<1>8. d[x].chat # "waiting"
  BY <1>3, <1>7 DEF IsDone
<1>9. g.chat = "ok" /\ SameTalk(b, g)
  BY <1>3, <1>8 DEF IsUpdated, IsDone, SameTalk, SameKeys, SameExchange, SameWay
<1>10. t["alice"] = u["alice"]
  BY <1>3 DEF Other
<1>11. SameTalk(u["alice"], t["alice"]) /\ MovedCreator(u["alice"], t["alice"], v)
  BY <1>10 DEF SameTalk, SameKeys, SameExchange, SameWay, MovedCreator
<1>12. MovedAcceptor(b, g)
  BY <1>6, <1>7, <1>9 DEF MovedAcceptor
<1>13. \A y \in Side : SameTalk(u[y], t[y])
  BY <1>9, <1>11 DEF Side
<1> QED
  BY <1>1, <1>3, <1>9, <1>11, <1>12, <1>13, LifeMoved

\* The chat is requested: it is there.
LEMMA LifeAppears ==
    ASSUME NEW n \in Nat, NEW s, NEW u, NEW t, NEW x \in Side, NEW v, NEW m,
           Reading(n, s, u, x, v, m), m.type = "requested", IsUpdated(u[x], t[x], m),
           t[Other(x)] = u[Other(x)]
    PROVE  Life(t, v) /\ x = "bob" /\ u["bob"].chat = "absent" /\ t["bob"].chat = "request"
<1>1. Life(s, v) /\ Life(u, v)
  BY DEF Reading
<1>2a. /\ m \in ToSet(s[x].inbox) /\ Rank(m) <= Level(v)
       /\ Rank(m) = 1 => ~Has(u[x].inbox, {"waiting", "requested"})
  BY ReadingIs
<1>2. /\ \A T : m.type \in T => Has(s[x].inbox, T)
      /\ \A y \in Side : SameLife(s[y], u[y]) /\ SameKeys(s[y], u[y]) /\ u[y].asked = s[y].asked
  BY ReadingIs
<1>3. x = "bob"
  <2>1. ~Has(s["alice"].inbox, {"requested", "accepted", "accept_error", "declined"})
    BY <1>1 DEF Life, Roles
  <2> QED
    BY <1>2, <2>1 DEF Side
<1>4. s["bob"].chat = "absent" /\ m.g = v.ga
  <2>1. Has(s["bob"].inbox, {"requested"})
    BY <1>2, <1>3
  <2> QED
    BY <1>1, <1>2a, <1>3, <2>1 DEF Life, Acceptor
<1> DEFINE a == u["alice"]  b == u["bob"]  g == t["bob"]
<1>5. b.chat = "absent"
  BY <1>2, <1>3, <1>4 DEF SameLife
<1>6. /\ g.chat = "request" /\ g.key = v.ga /\ g.fp = b.fp /\ g.left = b.left /\ g.wait = b.wait
      /\ g.ex = b.ex /\ g.out = b.out /\ g.asked = b.asked /\ g.inbox = b.inbox
  BY <1>3, <1>4, <1>5 DEF IsUpdated, SameExchange, SameWay
<1>7. t["alice"] = a
  BY <1>3 DEF Other
<1>8. b.fp = {} /\ b.asked = <<>>
  BY <1>1, <1>5 DEF Life, Roles
<1>9. ~Has(b.inbox, {"requested"})
  <2>1. Rank(m) = 1
    BY DEF Rank
  <2> QED
    BY <1>2a, <1>3, <2>1 DEF Has
<1>10. v.chat # "no"
  <2>1. Rank(m) = 1
    BY DEF Rank
  <2> QED
    BY <1>2a, <2>1 DEF Level
<1> HIDE DEF a, b, g
<1>11. a = u["alice"] /\ b = u["bob"] /\ g = t["bob"]
  BY DEF a, b, g
<1>12. Ordered(t, v)
  BY <1>1, <1>6, <1>7, <1>11 DEF Life, Ordered, Side
<1>13. Roles(t, v)
  BY <1>1, <1>6, <1>7, <1>11 DEF Life, Roles, Side
<1>14. Creator(t, v)
  BY <1>1, <1>7, <1>11 DEF Life, Creator
<1>15. Acceptor(t, v)
  <2>1. \A l \in ToSet(g.inbox) : l.type = "requested" => l.g = v.ga
    BY <1>1, <1>6, <1>11 DEF Life, Acceptor
  <2>2. /\ v.chat # "ok" /\ g.wait.accept = 0
        /\ ~Has(g.asked, {"accept_chat"} \cup InChat)
        /\ ~Has(g.inbox, {"accepted", "accept_error", "declined"})
        /\ g.ex = "none" /\ g.out = <<>>
        /\ ~Has(a.inbox, {"chat"} \cup InChat)
    BY <1>1, <1>6, <1>8, <1>11 DEF Life, Acceptor
  <2>3. /\ ~Has(g.asked, {"accept_chat"}) /\ ~Has(a.inbox, {"chat"})
        /\ \A l \in ToSet(g.asked) : l.type # "accept_chat"
        /\ \A l \in ToSet(a.inbox) : l.type # "chat"
    BY <2>2 DEF Has
  <2>4. Once(g.asked, {"accept_chat"}) /\ Once(g.inbox, {"accepted", "accept_error", "declined"})
    BY <1>1, <1>6, <1>11 DEF Life, Acceptor
  <2> QED
    BY <1>6, <1>7, <1>8, <1>9, <1>10, <1>11, <2>1, <2>2, <2>3, <2>4 DEF Acceptor
<1>16. Keyed(t, v)
  BY <1>1, <1>6, <1>7, <1>8, <1>11 DEF Life, Keyed, Side
<1> QED
  BY <1>3, <1>5, <1>6, <1>11, <1>12, <1>13, <1>14, <1>15, <1>16 DEF Life

\* The creator makes the key of the chat.
LEMMA LifeOpens ==
    ASSUME NEW n \in Nat \ {0}, NEW s, NEW u, NEW t, NEW x \in Side, NEW v, NEW m,
           Reading(n, s, u, x, v, m), m.type = "chat", IsUpdated(u[x], t[x], m),
           t[Other(x)] = u[Other(x)]
    PROVE  /\ Life(t, v) /\ x = "alice" /\ u["alice"].fp = {} /\ t["alice"].chat = "ok"
           /\ t["alice"].key = u["bob"].key /\ t["alice"].fp = u["bob"].key /\ u["bob"].fp # {}
<1>1. Life(s, v) /\ Life(u, v) /\ Types(u, n)
  BY DEF Reading
<1>2. /\ \A T : m.type \in T => Has(s[x].inbox, T)
      /\ m \in ToSet(s[x].inbox) /\ Rank(m) <= Level(v) /\ m \in Message(n)
      /\ Rank(m) >= 2 => ~Has(u[x].inbox, Reopeners)
      /\ \A y \in Side : SameLife(s[y], u[y]) /\ SameKeys(s[y], u[y]) /\ u[y].asked = s[y].asked
  BY ReadingIs
<1>3. x = "alice"
  <2>1. ~Has(s["bob"].inbox, {"waiting", "chat", "request_error"})
    BY <1>1 DEF Life, Roles
  <2> QED
    BY <1>2, <2>1 DEF Side
<1>4. Rank(m) = 2 /\ v.chat \in {"ok", "gone"}
  <2>1. Rank(m) = 2
    BY DEF Rank
  <2>2. v.chat \in {"no", "requested", "ok", "gone"}
    BY <1>1 DEF Life, Roles
  <2> QED
    BY <1>2, <2>1, <2>2 DEF Level
<1> DEFINE a == u["alice"]  b == u["bob"]  e == t["alice"]
<1>5. a.chat = "waiting" /\ a.fp = {}
  <2>1. Has(s["alice"].inbox, {"waiting", "chat"})
    BY <1>2, <1>3
  <2>2. s["alice"].chat = "waiting" /\ s["alice"].fp = {}
    BY <1>1, <2>1 DEF Life, Creator
  <2> QED
    BY <1>2, <1>3, <2>2 DEF SameLife, SameKeys
<1>6. m.fp = b.key /\ b.key = v.ga \cup m.g /\ b.fp # {}
  <2>1. Has(s["alice"].inbox, {"chat"} \cup InChat)
    BY <1>2, <1>3
  <2>2. m.fp = s["bob"].key /\ s["bob"].key = v.ga \cup m.g /\ s["bob"].fp # {}
    BY <1>1, <1>2, <1>3, <2>1 DEF Life, Acceptor
  <2> QED
    BY <1>2, <2>2 DEF SameKeys, Side
<1>7. a.key = v.ga /\ Single(v.ga)
  BY <1>1, <1>4, <1>5 DEF Life, Creator
<1>8. Shared(a.key, m.g) = b.key
  <2>1. a.key \in SUBSET (0..(n - 1)) /\ m.g \in SUBSET (0..(n - 1))
    BY <1>1, <1>2, ChatFields, Fields DEF Types, Side
  <2> HIDE DEF a
  <2> QED
    BY <1>6, <1>7, <2>1, SharedIs
<1>9. /\ e.chat = "ok" /\ e.key = b.key /\ e.fp = b.key
      /\ e.left = a.left /\ e.wait = a.wait
      /\ e.ex = a.ex /\ e.out = a.out /\ e.asked = a.asked /\ e.inbox = a.inbox
  BY <1>3, <1>5, <1>6, <1>8 DEF IsUpdated, SameExchange, SameWay
<1>10. t["bob"] = b
  BY <1>3 DEF Other
<1>11. ~Has(a.inbox, {"waiting", "chat"}) /\ ~Has(a.inbox, {"chat"}) /\ \A l \in ToSet(a.inbox) : l.type # "chat"
  BY <1>2, <1>3, <1>4 DEF Has, Reopeners
<1>12. b.fp = b.key /\ Pair(b.key) /\ b.key # {} /\ Pair(b.fp)
  BY <1>1, <1>6 DEF Life, Keyed, Side
<1> HIDE DEF a, b, e
<1>13. a = u["alice"] /\ b = u["bob"] /\ e = t["alice"]
  BY DEF a, b, e
<1>14. Ordered(t, v)
  BY <1>1, <1>9, <1>10, <1>13 DEF Life, Ordered, Side
<1>15. Roles(t, v)
  BY <1>1, <1>9, <1>10, <1>13 DEF Life, Roles, Side
<1>16. Creator(t, v)
  <2>1. ~Has(a.asked, {"request_chat"})
    BY <1>1, <1>4, <1>13 DEF Life, Creator
  <2>2. \A l \in ToSet(a.asked) : l.type # "request_chat"
    BY <2>1 DEF Has
  <2>3. ~(a.wait.dh > 0)
    BY <1>1, <1>5, <1>13 DEF Life, Creator
  <2> QED
    BY <1>4, <1>7, <1>9, <1>11, <1>12, <1>13, <2>1, <2>2, <2>3 DEF Creator
<1>17. Acceptor(t, v)
  <2>1. ~Has(b.asked, {"accept_chat"})
    <3>1. Has(s["bob"].asked, {"accept_chat"}) => ~Has(s["alice"].inbox, {"chat"})
      BY <1>1 DEF Life, Acceptor
    <3>2. Has(s["alice"].inbox, {"chat"})
      BY <1>2, <1>3
    <3> QED
      BY <1>2, <1>13, <3>1, <3>2 DEF Side
  <2>2. \A l \in ToSet(b.asked) : l.type # "accept_chat"
    BY <2>1 DEF Has
  <2>3. /\ v.chat = "no" => b.chat = "absent" /\ b.inbox = <<>>
        /\ Has(b.inbox, {"requested"}) => b.chat = "absent"
        /\ \A l \in ToSet(b.inbox) : l.type = "requested" => l.g = v.ga
        /\ Once(b.asked, {"accept_chat"})
        /\ Once(b.inbox, {"accepted", "accept_error", "declined"})
        /\ Has(b.inbox, {"accepted", "accept_error", "declined"}) => b.wait.accept = 1
    BY <1>1, <1>13 DEF Life, Acceptor
  <2> QED
    BY <1>6, <1>9, <1>10, <1>11, <1>12, <1>13, <2>1, <2>2, <2>3 DEF Acceptor
<1>18. Keyed(t, v)
  <2>1. v.chat \in {"ok", "gone"}
    BY <1>4
  <2>2. /\ t["bob"].fp # {} /\ t["bob"].fp = t["bob"].key /\ Pair(t["bob"].key)
        /\ t["alice"].fp # {} /\ t["alice"].fp = t["alice"].key /\ Pair(t["alice"].key)
    BY <1>9, <1>10, <1>12, <1>13
  <2> QED
    BY <2>1, <2>2 DEF Keyed, Side
<1> QED
  BY <1>3, <1>5, <1>6, <1>9, <1>13, <1>14, <1>15, <1>16, <1>17, <1>18 DEF Life

\* q is what c asks, and then m.
AskedFor(c, q, m) ==
    /\ ToSet(q) = ToSet(c.asked) \cup {m}
    /\ \A T : Has(q, T) <=> Has(c.asked, T) \/ m.type \in T
    /\ \A T : Once(c.asked, T) /\ (m.type \in T => ~Has(c.asked, T)) => Once(q, T)

\* What is asked last.
LEMMA AskedLast ==
    ASSUME NEW n \in Nat, NEW c \in Chat(n), NEW q, NEW m \in Message(n), q = Append(c.asked, m)
    PROVE  AskedFor(c, q, m)
<1>1. c.asked \in Seq(Message(n))
  BY ChatFields
<1> DEFINE p == c.asked
<1>2. p \in Seq(Message(n)) /\ q = Append(p, m) /\ p = c.asked
  BY <1>1
<1> HIDE DEF p
<1>3. ToSet(Append(p, m)) = ToSet(p) \cup {m}
  BY <1>2, Grown
<1>4. \A T : Has(Append(p, m), T) <=> Has(p, T) \/ m.type \in T
  BY <1>2, HasGrows
<1>5. \A T : Once(p, T) /\ (m.type \in T => ~Has(p, T)) => Once(Append(p, m), T)
  BY <1>2, OnceGrows
<1> QED
  BY <1>2, <1>3, <1>4, <1>5 DEF AskedFor

\* The message that is asked is one of those a chat may hold.
LEMMA LastIs ==
    ASSUME NEW n \in Nat, NEW c \in Chat(n), NEW e \in Chat(n), NEW m, e.asked = Append(c.asked, m)
    PROVE  m \in Message(n)
<1>1. c.asked \in Seq(Message(n)) /\ e.asked \in Seq(Message(n))
  BY ChatFields
<1> DEFINE p == c.asked  q == e.asked
<1>2. p \in Seq(Message(n)) /\ q \in Seq(Message(n)) /\ q = Append(p, m)
  BY <1>1
<1> HIDE DEF p, q
<1>3. Len(q) = Len(p) + 1 /\ q[Len(p) + 1] = m /\ Len(p) \in Nat
  BY <1>2
<1>4. q[Len(q)] \in Message(n)
  BY <1>2, <1>3
<1> QED
  BY <1>3, <1>4

\* One thing more is asked.
Asks(n, c, e, type) == \E m \in Message(n) : e.asked = Append(c.asked, m) /\ m.type = type

\* The parameters have come: the chat is asked for.
LEMMA LifeCreates ==
    ASSUME NEW n \in Nat \ {0}, NEW u, NEW d, NEW t, NEW v, NEW a \in Nat,
           Types(u, n), Types(t, n), Life(u, v), u["alice"].wait.dh > 0,
           IsDone(u["alice"], d["alice"], "dh"), Creates(d["alice"], t["alice"], a),
           d["alice"] \in Chat(n), t["bob"] = u["bob"]
    PROVE  /\ Life(t, v) /\ v.chat = "no" /\ u["alice"].fp = {}
           /\ Asks(n, u["alice"], t["alice"], "request_chat")
<1> DEFINE c == u["alice"]  g == d["alice"]  e == t["alice"]  b == u["bob"]
<1>1. /\ c = u["alice"] /\ g = d["alice"] /\ e = t["alice"] /\ b = u["bob"]
      /\ c \in Chat(n) /\ e \in Chat(n) /\ g \in Chat(n) /\ n \in Nat
  BY DEF Types, Side
<1> HIDE DEF c, g, e, b
<1>2. PICK m : /\ e.asked = Append(g.asked, m) /\ m.type = "request_chat" /\ m.g = {a}
  BY <1>1 DEF Creates
<1>3. g.asked = c.asked /\ g.wait.dh = c.wait.dh - 1
      /\ g.fp = c.fp /\ g.left = c.left /\ g.ex = c.ex /\ g.out = c.out /\ g.inbox = c.inbox
  BY <1>1 DEF IsDone, SameKeys, SameExchange, SameWay, Kinds
<1>4. m \in Message(n)
  BY <1>1, <1>2, LastIs
<1>5. /\ ToSet(e.asked) = ToSet(c.asked) \cup {m}
      /\ \A T : Has(e.asked, T) <=> Has(c.asked, T) \/ m.type \in T
      /\ \A T : Once(c.asked, T) /\ (m.type \in T => ~Has(c.asked, T)) => Once(e.asked, T)
  <2>1. e.asked = Append(c.asked, m)
    BY <1>2, <1>3
  <2>2. AskedFor(c, e.asked, m)
    BY <1>1, <1>4, <2>1, AskedLast
  <2> QED
    BY <2>2 DEF AskedFor
<1>6. /\ e.chat = "waiting" /\ e.key = {a} /\ e.fp = c.fp /\ e.left = c.left
      /\ e.wait.dh = g.wait.dh /\ e.ex = c.ex /\ e.out = c.out /\ e.inbox = c.inbox
  <2>1. g.wait \in [dh : Nat, request : Nat, accept : Nat, discard : Nat]
    BY <1>1, ChatFields
  <2>2. /\ e.chat = "waiting" /\ e.key = {a} /\ e.fp = g.fp /\ e.left = g.left
        /\ e.wait = [g.wait EXCEPT !.request = @ + 1] /\ e.ex = g.ex
        /\ e.inbox = g.inbox /\ e.out = g.out
    BY <1>1 DEF Creates, SameExchange
  <2>3. e.wait.dh = g.wait.dh
    BY <2>1, <2>2
  <2> QED
    BY <1>3, <2>2, <2>3
<1>7. /\ c.chat = "none" /\ c.wait.dh = 1 /\ v.chat = "no" /\ c.key = {} /\ c.fp = {}
      /\ ~Has(c.asked, {"request_chat"})
  BY <1>1 DEF Life, Creator
<1>8. Ordered(t, v)
  BY <1>1, <1>6 DEF Life, Ordered, Side
<1>9. Roles(t, v)
  BY <1>1, <1>2, <1>5, <1>6 DEF Life, Roles, Side
<1>10. Creator(t, v)
  <2>1. \A l \in ToSet(e.asked) : l.type = "request_chat" => l.g = e.key /\ Single(l.g)
    <3>1. ASSUME NEW l \in ToSet(e.asked), l.type = "request_chat"
          PROVE  l = m
      BY <1>5, <1>7, <3>1 DEF Has
    <3> QED
      BY <1>2, <1>6, <3>1 DEF Single
  <2>2. Once(e.asked, {"request_chat"})
    <3>1. Once(c.asked, {"request_chat"})
      BY <1>7 DEF Once, Has, ToSet
    <3> QED
      BY <1>5, <1>7, <3>1
  <2>3. e.wait.dh = 0
    BY <1>3, <1>6, <1>7
  <2> QED
    BY <1>1, <1>6, <1>7, <2>1, <2>2, <2>3 DEF Creator
<1>11. Acceptor(t, v)
  BY <1>1, <1>6 DEF Life, Acceptor
<1>12. Keyed(t, v)
  BY <1>1, <1>6, <1>7 DEF Life, Keyed, Side
<1> QED
  BY <1>1, <1>2, <1>3, <1>4, <1>7, <1>8, <1>9, <1>10, <1>11, <1>12 DEF Life, Asks

\* The parameters have come: the chat is accepted.
LEMMA LifeAccepts ==
    ASSUME NEW n \in Nat \ {0}, NEW u, NEW d, NEW t, NEW v, NEW a \in Nat, NEW f,
           Types(u, n + 1), Types(t, n + 1), Life(u, v), Counted(u, f), u["bob"].wait.dh > 0,
           u["bob"] \in Chat(n), a = n, u["bob"].fp = {},
           IsDone(u["bob"], d["bob"], "dh"), Accepts(d["bob"], t["bob"], a),
           d["bob"] \in Chat(n + 1), t["alice"] = u["alice"]
    PROVE  /\ Life(t, v) /\ u["alice"].fp = {} /\ u["bob"].ex = "none"
           /\ Asks(n + 1, u["bob"], t["bob"], "accept_chat")
<1> DEFINE c == u["bob"]  g == d["bob"]  e == t["bob"]  b == u["alice"]  k == c.key \cup {a}
<1>1. /\ c = u["bob"] /\ g = d["bob"] /\ e = t["bob"] /\ b = u["alice"]
      /\ c \in Chat(n + 1) /\ e \in Chat(n + 1) /\ g \in Chat(n + 1) /\ n \in Nat /\ n + 1 \in Nat \ {0}
      /\ c \in Chat(n) /\ n + 1 \in Nat
  BY DEF Types, Side
<1> HIDE DEF c, g, e, b
<1>2. PICK m : /\ e.asked = Append(g.asked, m) /\ m.type = "accept_chat" /\ m.g = {a} /\ m.fp = e.key
  BY <1>1 DEF Accepts
<1>3. g.asked = c.asked /\ g.wait.accept = c.wait.accept
      /\ g.key = c.key /\ g.fp = c.fp /\ g.left = c.left /\ g.ex = c.ex /\ g.out = c.out /\ g.inbox = c.inbox
  BY <1>1 DEF IsDone, SameKeys, SameExchange, SameWay, Kinds
<1>4. m \in Message(n + 1)
  BY <1>1, <1>2, LastIs
<1>5. /\ ToSet(e.asked) = ToSet(c.asked) \cup {m}
      /\ \A T : Has(e.asked, T) <=> Has(c.asked, T) \/ m.type \in T
      /\ \A T : Once(c.asked, T) /\ (m.type \in T => ~Has(c.asked, T)) => Once(e.asked, T)
  <2>1. e.asked = Append(c.asked, m)
    BY <1>2, <1>3
  <2>2. AskedFor(c, e.asked, m)
    BY <1>1, <1>4, <2>1, AskedLast
  <2> QED
    BY <2>2 DEF AskedFor
<1>6. /\ e.chat = "ok" /\ e.key = Shared(c.key, {a}) /\ e.fp = e.key /\ e.left = c.left
      /\ e.wait.accept = c.wait.accept + 1 /\ e.ex = c.ex /\ e.out = c.out /\ e.inbox = c.inbox
  <2>1. g.wait \in [dh : Nat, request : Nat, accept : Nat, discard : Nat]
    BY <1>1, ChatFields
  <2>2. /\ e.chat = "ok" /\ e.key = Shared(g.key, {a}) /\ e.fp = e.key /\ e.left = g.left
        /\ e.wait = [g.wait EXCEPT !.accept = @ + 1] /\ e.ex = g.ex
        /\ e.inbox = g.inbox /\ e.out = g.out
    BY <1>1 DEF Accepts, SameExchange
  <2>3. e.wait.accept = g.wait.accept + 1
    BY <2>1, <2>2
  <2> QED
    BY <1>3, <2>2, <2>3
<1>7. c.chat # "absent" /\ v.chat # "no"
  <2>1. c.chat # "absent"
    BY <1>1 DEF Counted
  <2> QED
    BY <1>1, <2>1 DEF Life, Acceptor
<1>8. c.fp = {} /\ c.key = v.ga /\ Single(v.ga)
  BY <1>1, <1>7 DEF Life, Acceptor, Creator
<1>9. /\ v.chat # "ok" /\ c.wait.accept = 0
      /\ ~Has(c.asked, {"accept_chat"} \cup InChat)
      /\ ~Has(c.inbox, {"accepted", "accept_error", "declined"})
      /\ c.ex = "none" /\ c.out = <<>>
      /\ ~Has(b.inbox, {"chat"} \cup InChat)
  BY <1>1, <1>8 DEF Life, Acceptor
<1>10. /\ ~Has(c.asked, {"accept_chat"}) /\ ~Has(b.inbox, {"chat"})
       /\ \A l \in ToSet(c.asked) : l.type # "accept_chat"
       /\ \A l \in ToSet(b.inbox) : l.type # "chat"
  BY <1>9 DEF Has
<1>11. e.key = k /\ Pair(e.key) /\ e.key # {}
  <2>1. c.key \in SUBSET (0..(n - 1)) /\ c.key \in SUBSET (0..(n + 1 - 1)) /\ {a} \in SUBSET (0..(n + 1 - 1))
    <3>1. c.key \in SUBSET (0..(n - 1))
      BY <1>1, ChatFields
    <3>1a. c.key \in SUBSET (0..(n + 1 - 1))
      BY <3>1
    <3>2. a \in 0..(n + 1 - 1)
      OBVIOUS
    <3> QED
      BY <3>1, <3>1a, <3>2
  <2>2. e.key = k
    <3> DEFINE h == c.key
    <3>1. h \in SUBSET (0..(n + 1 - 1)) /\ Single(h)
      BY <1>8, <2>1
    <3> HIDE DEF h
    <3>2. Shared(h, {a}) = h \cup {a}
      BY <1>1, <2>1, <3>1, SharedIs
    <3> QED
      BY <1>6, <3>2 DEF h
  <2>3. PICK i \in c.key : c.key = {i}
    BY <1>8 DEF Single
  <2>4. i # a
    BY <2>1, <2>3
  <2> QED
    BY <2>2, <2>3, <2>4 DEF Pair
<1>12. b.fp = {}
  BY <1>1, <1>8 DEF Life, Keyed
<1>13. Ordered(t, v)
  BY <1>1, <1>6 DEF Life, Ordered, Side
<1>14. Roles(t, v)
  BY <1>1, <1>2, <1>5, <1>6 DEF Life, Roles, Side
<1>15. Creator(t, v)
  BY <1>1 DEF Life, Creator
<1>16. Acceptor(t, v)
  <2>1. \A l \in ToSet(e.asked) : l.type = "accept_chat" => l.fp = e.key /\ e.key = v.ga \cup l.g /\ Single(l.g)
    <3>1. ASSUME NEW l \in ToSet(e.asked), l.type = "accept_chat"
          PROVE  l = m
      BY <1>5, <1>10, <3>1
    <3> QED
      BY <1>2, <1>8, <1>11, <3>1 DEF Single
  <2>2. Once(e.asked, {"accept_chat"})
    <3>1. Once(c.asked, {"accept_chat"})
      BY <1>1 DEF Life, Acceptor
    <3> QED
      BY <1>5, <1>10, <3>1
  <2>3. v.chat \in {"requested", "gone"}
    BY <1>1, <1>7, <1>9 DEF Life, Roles
  <2>4. e.wait.accept = 1
    BY <1>6, <1>9
  <2>5. ~Has(c.inbox, {"requested"})
    BY <1>1, <1>7 DEF Life, Acceptor
  <2>6. Once(c.inbox, {"accepted", "accept_error", "declined"})
        /\ \A l \in ToSet(c.inbox) : l.type = "requested" => l.g = v.ga
    BY <1>1 DEF Life, Acceptor
  <2> QED
    BY <1>1, <1>6, <1>7, <1>9, <1>10, <1>11, <1>12, <2>1, <2>2, <2>3, <2>4, <2>5, <2>6 DEF Acceptor
<1>17. Keyed(t, v)
  BY <1>1, <1>6, <1>11, <1>12 DEF Life, Keyed, Side
<1> QED
  BY <1>1, <1>2, <1>3, <1>4, <1>9, <1>12, <1>13, <1>14, <1>15, <1>16, <1>17 DEF Life, Asks

-----------------------------------------------------------------------------
(* What has been given up is given up by each side                         *)

\* The creator has said nothing before it has its key, nor has it been heard.
Silent(s) ==
    LET a == s["alice"]  b == s["bob"] IN
    a.fp = {} => /\ a.ex = "none" /\ a.out = <<>> /\ ~Has(a.asked, InChat)
                 /\ ~Has(b.inbox, InChat) /\ b.ex \in {"none", "requested"}

\* What holds of the life of the chat as long as nothing has spoiled it.
Living(s, v) == Life(s, v) /\ Closing(s, v) /\ Silent(s)

\* What holds in every state.
Holds(s, v, n, f, p) ==
    /\ n \in Nat \ {0} /\ Types(s, n)
    /\ f \in 0..MaxFaults /\ Counted(s, f)
    /\ p = {} => Living(s, v)

\* The part of the inductive invariant that does not need the server's answers.
Lasting == Holds(st, srv, fresh, faults, spoiled)

\* A side that has given the chat up, or will.
Closed(c, x) ==
    \/ c.left
    \/ Has(c.inbox, {"discarded"})
    \/ c.chat \in {"absent", "deleted"} /\ ~Has(c.inbox, Reopeners)
    \/ x = "bob" /\ ~Has(c.inbox, Reopeners)
       /\ (Has(c.asked, {"accept_chat"}) \/ Has(c.inbox, {"declined"}))

\* What holds once the chat has ended, side by side.
LEMMA ClosingIs ==
    ASSUME NEW s, NEW v
    PROVE  Closing(s, v) <=> (v.chat = "gone" => \A x \in Side : Closed(s[x], x))
BY DEF Closing, Closed

\* A side reads m and the chat is in another state, e, than before, c.
LEMMA ClosedStep ==
    ASSUME NEW c, NEW d, NEW e, NEW x, NEW m, Closed(c, x),
           \A T : Has(d.inbox, T) => Has(c.inbox, T),
           \A T : Has(c.inbox, T) /\ m.type \notin T => Has(d.inbox, T),
           \A T : m.type \in T => Has(c.inbox, T),
           e.left = c.left, e.inbox = d.inbox,
           Has(c.asked, {"accept_chat"}) => Has(e.asked, {"accept_chat"}),
           m.type \in {"discarded", "declined"} =>
              e.chat \in {"absent", "deleted"} /\ ~Has(d.inbox, Reopeners),
           \/ m.type \in Reopeners
           \/ e.chat = c.chat
           \/ e.chat \in {"absent", "deleted"}
           \/ x = "bob" /\ Has(e.asked, {"accept_chat"})
    PROVE  Closed(e, x)
<1>1. CASE c.left
  BY <1>1 DEF Closed
<1>2. CASE m.type \in {"discarded", "declined"}
  BY <1>2 DEF Closed
<1>3. CASE m.type \notin {"discarded", "declined"} /\ Has(c.inbox, {"discarded"})
  <2>1. m.type \notin {"discarded"}
    BY <1>3
  <2>2. Has(d.inbox, {"discarded"})
    BY <1>3, <2>1
  <2> QED
    BY <2>2 DEF Closed
<1>4. CASE m.type \notin {"discarded", "declined"} /\ ~c.left /\ ~Has(c.inbox, {"discarded"})
  <2>1. ~Has(c.inbox, Reopeners) /\ ~Has(d.inbox, Reopeners) /\ m.type \notin Reopeners
    BY <1>4 DEF Closed
  <2>2. m.type \notin {"declined"}
    BY <1>4
  <2>3. Has(c.inbox, {"declined"}) => Has(d.inbox, {"declined"})
    BY <2>2
  <2>4. \/ c.chat \in {"absent", "deleted"}
        \/ x = "bob" /\ (Has(c.asked, {"accept_chat"}) \/ Has(c.inbox, {"declined"}))
    BY <1>4 DEF Closed
  <2> QED
    BY <2>1, <2>3, <2>4 DEF Closed
<1> QED
  BY <1>1, <1>2, <1>3, <1>4

\* One step in the chat after the other.
LEMMA TalkedTwice ==
    ASSUME NEW c, NEW d, NEW e, Talked(c, d), Talked(d, e)
    PROVE  Talked(c, e)
<1>1. AskedMore(c.asked, d.asked) /\ AskedMore(d.asked, e.asked)
  BY DEF Talked
<1>2. AskedMore(c.asked, e.asked)
  <2> DEFINE p == c.asked  q == d.asked  r == e.asked
  <2>1. AskedMore(p, q) /\ AskedMore(q, r)
    BY <1>1
  <2> HIDE DEF p, q, r
  <2>2. \A T : T \cap InChat = {} => (Has(r, T) <=> Has(p, T)) /\ (Once(p, T) => Once(r, T))
    BY <2>1 DEF AskedMore
  <2> QED
    BY <2>1, <2>2 DEF AskedMore, p, q, r
<1>3. SameKeys(d, e) \/ (d.fp # {} /\ e.fp = e.key /\ Pair(e.key))
  BY DEF Talked
<1>4. SameKeys(c, d) \/ (c.fp # {} /\ d.fp = d.key /\ Pair(d.key))
  BY DEF Talked
<1>5. c.fp = {} <=> d.fp = {}
  BY <1>4 DEF SameKeys, Pair
<1>6. SameKeys(c, e) \/ (c.fp # {} /\ e.fp = e.key /\ Pair(e.key))
  BY <1>3, <1>4, <1>5 DEF SameKeys
<1> QED
  BY <1>2, <1>5, <1>6 DEF Talked

\* What changes at most the exchange, or what waits, of a side that has its key.
LEMMA TalkedSame ==
    ASSUME NEW c, NEW e, SameLife(c, e), SameKeys(c, e), e.asked = c.asked, e.inbox = c.inbox,
           c.fp = {} => e.ex = c.ex /\ e.out = c.out
    PROVE  Talked(c, e)
<1>1. AskedMore(c.asked, c.asked)
  BY DEF AskedMore
<1> QED
  BY <1>1 DEF Talked, SameLife

\* A message under a key.
Sealed(m, k, f) == [m EXCEPT !.key = k, !.fp = f]

\* Sealing a message under a key changes only the key it goes under.
LEMMA SealedIs ==
    ASSUME NEW n \in Nat, NEW m \in Message(n), NEW k \in SUBSET (0..(n - 1)),
           NEW f \in SUBSET (0..(n - 1))
    PROVE  LET l == Sealed(m, k, f) IN
           l \in Message(n) /\ l.type = m.type /\ l.g = m.g /\ l.id = m.id /\ l.key = k /\ l.fp = f
<1>1. [m EXCEPT !.key = k, !.fp = f] \in Message(n)
  BY Fields
<1>2. LET l == [m EXCEPT !.key = k, !.fp = f] IN
      l.type = m.type /\ l.g = m.g /\ l.id = m.id /\ l.key = k /\ l.fp = f
  BY DEF Message
<1> QED
  BY <1>1, <1>2 DEF Sealed

\* What is sent.
LEMMA TalkedSent ==
    ASSUME NEW n \in Nat, NEW c \in Chat(n), NEW e, NEW m \in Message(n), m.type \in InChat,
           IsSent(c, e, m), c.fp # {}
    PROVE  /\ Talked(c, e)
           /\ c.ex # "committed" => SameKeys(c, e) /\ SameExchange(c, e)
<1> DEFINE q == c.asked  l == [m EXCEPT !.key = c.key, !.fp = c.fp]
<1>2. q \in Seq(Message(n)) /\ l \in Message(n) /\ l.type = m.type
  <2>1. q \in Seq(Message(n)) /\ c.key \in SUBSET (0..(n - 1)) /\ c.fp \in SUBSET (0..(n - 1))
    BY ChatFields
  <2>2. l = Sealed(m, c.key, c.fp)
    BY DEF Sealed
  <2> HIDE DEF l
  <2>3. l \in Message(n) /\ l.type = m.type
    BY <2>1, <2>2, SealedIs
  <2> QED
    BY <2>1, <2>3
<1>3. e.asked = Append(q, l) /\ q = c.asked
  BY DEF IsSent
<1> HIDE DEF q, l
<1>4. AskedMore(q, Append(q, l))
  BY <1>2, AskedGrows
<1>5. AskedMore(c.asked, e.asked)
  BY <1>3, <1>4
<1>6. c.ex = "committed" => Pair(c.exkey)
  BY ChatFields DEF Exchanging
<1> QED
  BY <1>5, <1>6 DEF IsSent, Talked, SameLife, SameExchange, SameKeys

\* What is posted.
LEMMA TalkedPosted ==
    ASSUME NEW n \in Nat, NEW c \in Chat(n), NEW e, NEW m \in Message(n), m.type \in InChat,
           IsPosted(c, e, m), c.chat = "ok" => c.fp # {}
    PROVE  /\ Talked(c, e)
           /\ c.ex # "committed" => SameKeys(c, e) /\ SameExchange(c, e)
<1>1. CASE c.chat # "ok"
  <2>1. e = c
    BY <1>1 DEF IsPosted
  <2> QED
    BY <2>1, TalkedSame DEF SameLife, SameKeys, SameExchange
<1>2. CASE c.chat = "ok" /\ ~c.ready
  <2>1. IsParked(c, e, m) /\ c.fp # {}
    BY <1>2 DEF IsPosted
  <2> QED
    BY <2>1, TalkedSame DEF IsParked
<1>3. CASE c.chat = "ok" /\ c.ready
  <2>1. IsSent(c, e, m) /\ c.fp # {}
    BY <1>3 DEF IsPosted
  <2> QED
    BY <2>1, TalkedSent
<1> QED
  BY <1>1, <1>2, <1>3

\* Steps in the chat leave its life as it is.
LEMMA LivingTalked ==
    ASSUME NEW n \in Nat \ {0}, NEW s, NEW t, NEW v, Types(s, n), Types(t, n), Living(s, v),
           \A x \in Side : Talked(s[x], t[x]),
           \/ s["alice"].fp # {}
           \/ (\A x \in Side : SameKeys(s[x], t[x])) /\ t["bob"].ex \in {"none", "requested"}
    PROVE  Living(t, v)
<1>1. Life(t, v) /\ Closing(t, v)
  <2>1. Life(s, v) /\ Closing(s, v)
    BY DEF Living
  <2>2. \A x \in Side : SameKeys(s[x], t[x]) \/ s["alice"].fp # {}
    OBVIOUS
  <2> QED
    BY <2>1, <2>2, LifeTalked
<1>2. Silent(t)
  <2> DEFINE a == s["alice"]  b == s["bob"]  e == t["alice"]  f == t["bob"]
  <2>1. /\ Talked(a, e) /\ Talked(b, f)
        /\ a.fp # {} \/ (SameKeys(a, e) /\ f.ex \in {"none", "requested"})
        /\ a = s["alice"] /\ b = s["bob"] /\ e = t["alice"] /\ f = t["bob"]
    BY DEF Side
  <2> HIDE DEF a, b, e, f
  <2>2. e.fp = {} => a.fp = {}
    BY <2>1 DEF Talked, SameKeys, Pair
  <2>3. Silent(s)
    BY DEF Living
  <2>4. CASE e.fp = {}
    <3>1. e.asked = a.asked /\ e.ex = a.ex /\ e.out = a.out /\ f.inbox = b.inbox
      BY <2>1, <2>2, <2>4 DEF Talked
    <3> QED
      BY <2>1, <2>2, <2>3, <2>4, <3>1 DEF Silent
  <2> QED
    BY <2>1, <2>4 DEF Silent
<1> QED
  BY <1>1, <1>2 DEF Living

\* A post when the chat is told to be ok.
LEMMA LivingLayered ==
    ASSUME NEW n \in Nat \ {0}, NEW s, NEW t, NEW x \in Side, NEW v, Types(s, n), Living(s, v),
           Layered(n, s, t, x)
    PROVE  Living(t, v) /\ Types(t, n) /\ t[Other(x)] = s[Other(x)]
<1>1. n \in Nat /\ Types(t, n) /\ t[Other(x)] = s[Other(x)] /\ s[x] \in Chat(n) /\ s[Other(x)] \in Chat(n)
  BY Sides DEF Layered, Step, Types
<1>2. CASE t = s
  BY <1>1, <1>2
<1>3. CASE \E m \in Message(n) : m.type = "layer" /\ IsPosted(s[x], t[x], m)
  <2>1. PICK m \in Message(n) : m.type = "layer" /\ IsPosted(s[x], t[x], m)
    BY <1>3
  <2>2. m.type \in InChat
    BY <2>1 DEF InChat
  <2>3. s[x].chat = "ok" => s[x].fp # {}
    BY DEF Living, Life, Keyed
  <2>4. /\ Talked(s[x], t[x])
        /\ s[x].ex # "committed" => SameKeys(s[x], t[x]) /\ SameExchange(s[x], t[x])
    BY <1>1, <2>1, <2>2, <2>3, TalkedPosted
  <2>5. Talked(s[Other(x)], t[Other(x)]) /\ SameKeys(s[Other(x)], t[Other(x)])
    BY <1>1, TalkedSame DEF SameLife, SameKeys, SameWay
  <2>6. \A y \in Side : Talked(s[y], t[y])
    BY <2>4, <2>5, Sides
  <2>7. CASE s["alice"].fp # {}
    BY <1>1, <2>6, <2>7, LivingTalked
  <2>8. CASE s["alice"].fp = {}
    <3>1. s["alice"].ex = "none" /\ s["bob"].ex \in {"none", "requested"}
      BY <2>8 DEF Living, Silent
    <3>2. \A y \in Side : s[y].ex # "committed"
      BY <3>1 DEF Side
    <3>3. SameKeys(s[x], t[x]) /\ SameExchange(s[x], t[x])
      BY <2>4, <3>2
    <3>4. \A y \in Side : SameKeys(s[y], t[y]) /\ t[y].ex = s[y].ex
      BY <1>1, <2>5, <3>3, Sides DEF SameExchange
    <3>5. t["bob"].ex \in {"none", "requested"}
      BY <3>1, <3>4 DEF Side
    <3> QED
      BY <1>1, <2>6, <3>4, <3>5, LivingTalked
  <2> QED
    BY <2>7, <2>8
<1> QED
  BY <1>1, <1>2, <1>3 DEF Layered

\* What the creator has not said is not said when something else is read.
LEMMA SilentStep ==
    ASSUME NEW s, NEW t, Silent(s),
           t["alice"].fp = {} =>
               /\ s["alice"].fp = {}
               /\ t["alice"].ex = s["alice"].ex /\ t["alice"].out = s["alice"].out
               /\ Has(t["alice"].asked, InChat) => Has(s["alice"].asked, InChat)
               /\ Has(t["bob"].inbox, InChat) => Has(s["bob"].inbox, InChat)
               /\ t["bob"].ex = s["bob"].ex
    PROVE  Silent(t)
BY DEF Silent

\* x reads an update or an answer, and is at once where it leads.
LEMMA LivingRead ==
    ASSUME NEW n \in Nat \ {0}, NEW s, NEW u, NEW t, NEW x \in Side, NEW v, NEW m,
           Reading(n, s, u, x, v, m), Living(s, v), Life(t, v), t[Other(x)] = u[Other(x)],
           t[x].left = u[x].left, t[x].inbox = u[x].inbox, t[x].ex = u[x].ex, t[x].out = u[x].out,
           \A T : {"request_chat", "accept_chat"} \cap T = {} => (Has(t[x].asked, T) => Has(u[x].asked, T)),
           Has(u[x].asked, {"accept_chat"}) => Has(t[x].asked, {"accept_chat"}),
           t[x].fp = {} => u[x].fp = {},
           m.type \in {"discarded", "declined"} => t[x].chat \in {"absent", "deleted"},
           \/ v.chat # "gone"
           \/ m.type \in Reopeners
           \/ t[x].chat = u[x].chat
           \/ t[x].chat \in {"absent", "deleted"}
           \/ x = "bob" /\ Has(t[x].asked, {"accept_chat"})
    PROVE  Living(t, v)
<1>1. /\ \A T : m.type \in T => Has(s[x].inbox, T)
      /\ m \in ToSet(s[x].inbox) /\ Rank(m) <= Level(v)
      /\ Rank(m) >= 2 => ~Has(u[x].inbox, Reopeners)
      /\ \A T : Has(u[x].inbox, T) => Has(s[x].inbox, T)
      /\ \A y \in Side : SameLife(s[y], u[y]) /\ SameKeys(s[y], u[y]) /\ u[y].asked = s[y].asked
  BY ReadingIs
<1>2. u[Other(x)] = s[Other(x)] /\ Heard(s[x], u[x]) /\ n \in Nat /\ s[x] \in Chat(n) /\ m = Head(s[x].inbox)
  BY DEF Reading, Types
<1>3. \A T : Has(s[x].inbox, T) /\ m.type \notin T => Has(u[x].inbox, T)
  <2> DEFINE q == s[x].inbox
  <2>1. q \in Seq(Message(n)) /\ q # <<>> /\ u[x].inbox = Tail(q) /\ m = Head(q) /\ q = s[x].inbox
    BY <1>2, ChatFields DEF Heard
  <2> HIDE DEF q
  <2>2. \A T : Has(q, T) <=> Has(Tail(q), T) \/ Head(q).type \in T
    BY <2>1, HasRest
  <2> QED
    BY <2>1, <2>2
<1>4. Closing(t, v)
  <2>1. CASE v.chat # "gone"
    BY <2>1 DEF Closing
  <2>2. CASE v.chat = "gone"
    <3>1. \A y \in Side : Closed(s[y], y)
      BY <2>2, ClosingIs DEF Living
    <3>2. m.type \in {"discarded", "declined"} =>
             t[x].chat \in {"absent", "deleted"} /\ ~Has(u[x].inbox, Reopeners)
      <4>1. m.type \in {"discarded", "declined"} => Rank(m) = 4
        BY DEF Rank, InChat
      <4> QED
        BY <1>1, <4>1
    <3>3. t[x].left = s[x].left /\ u[x].chat = s[x].chat
          /\ (Has(s[x].asked, {"accept_chat"}) => Has(t[x].asked, {"accept_chat"}))
      BY <1>1 DEF SameLife
    <3> DEFINE c == s[x]  d == u[x]  e == t[x]
    <3>4. /\ Closed(c, x)
          /\ \A T : Has(d.inbox, T) => Has(c.inbox, T)
          /\ \A T : Has(c.inbox, T) /\ m.type \notin T => Has(d.inbox, T)
          /\ \A T : m.type \in T => Has(c.inbox, T)
          /\ e.left = c.left /\ e.inbox = d.inbox
          /\ Has(c.asked, {"accept_chat"}) => Has(e.asked, {"accept_chat"})
          /\ m.type \in {"discarded", "declined"} =>
                e.chat \in {"absent", "deleted"} /\ ~Has(d.inbox, Reopeners)
          /\ \/ m.type \in Reopeners
             \/ e.chat = c.chat
             \/ e.chat \in {"absent", "deleted"}
             \/ x = "bob" /\ Has(e.asked, {"accept_chat"})
      BY <1>1, <1>3, <2>2, <3>1, <3>2, <3>3
    <3>4a. e = t[x]
      OBVIOUS
    <3> HIDE DEF c, d, e
    <3>5. Closed(e, x)
      BY <3>4, ClosedStep
    <3>6. Closed(t[Other(x)], Other(x))
      BY <1>2, <3>1, Sides
    <3>7. \A y \in Side : Closed(t[y], y)
      BY <3>4a, <3>5, <3>6, Sides
    <3> QED
      BY <3>7, ClosingIs
  <2> QED
    BY <2>1, <2>2
<1>5. Silent(t)
  <2>0. Silent(s)
    BY DEF Living
  <2>1. /\ t[x].ex = s[x].ex /\ t[x].out = s[x].out
        /\ t[x].fp = {} => s[x].fp = {}
        /\ Has(t[x].asked, InChat) => Has(s[x].asked, InChat)
        /\ Has(t[x].inbox, InChat) => Has(s[x].inbox, InChat)
    <3>1. {"request_chat", "accept_chat"} \cap InChat = {}
      BY DEF InChat
    <3>2. u[x].ex = s[x].ex /\ u[x].out = s[x].out /\ u[x].fp = s[x].fp
      BY <1>2 DEF Heard, SameExchange, SameKeys
    <3> QED
      BY <1>1, <3>1, <3>2
  <2>2. t[Other(x)] = s[Other(x)]
    BY <1>2
  <2>3. \A y \in Side :
           /\ t[y].ex = s[y].ex /\ t[y].out = s[y].out
           /\ t[y].fp = {} => s[y].fp = {}
           /\ Has(t[y].asked, InChat) => Has(s[y].asked, InChat)
           /\ Has(t[y].inbox, InChat) => Has(s[y].inbox, InChat)
    BY <2>1, <2>2, Sides
  <2> QED
    BY <2>0, <2>3, SilentStep DEF Side
<1> QED
  BY <1>4, <1>5 DEF Living

\* What changes none of this.
LEMMA LivingSame ==
    ASSUME NEW n \in Nat \ {0}, NEW s, NEW t, NEW v, Types(s, n), Types(t, n), Living(s, v),
           \A x \in Side : /\ SameLife(s[x], t[x]) /\ SameKeys(s[x], t[x])
                           /\ SameExchange(s[x], t[x]) /\ SameWay(s[x], t[x])
    PROVE  Living(t, v)
<1>1. n \in Nat /\ \A x \in Side : s[x] \in Chat(n) /\ t[x].ex = s[x].ex
  BY DEF Types, SameExchange
<1>2. \A x \in Side : Talked(s[x], t[x])
  BY <1>1, TalkedSame DEF SameWay
<1>3. s["alice"].fp = {} => t["bob"].ex \in {"none", "requested"}
  BY <1>1 DEF Living, Silent, Side
<1> QED
  BY <1>2, <1>3, LivingTalked

\* The parameters have come.
LEMMA LivingByDh ==
    ASSUME NEW n \in Nat \ {0}, NEW s, NEW u, NEW t, NEW x \in Side, NEW v, NEW m, NEW f, NEW a \in Nat,
           Reading(n, s, u, x, v, m), Living(s, v), Counted(u, f), Step(n, u, t, x),
           LivesByDh(n, u, t, x, m, a), n = a + 1, a \in Nat \ {0}, u["bob"] \in Chat(a),
           x = "bob" => u["bob"].fp = {}
    PROVE  Living(t, v)
<1>1. /\ Types(u, n) /\ Types(t, n) /\ Life(u, v) /\ t[Other(x)] = u[Other(x)] /\ n \in Nat
      /\ u[x] \in Chat(n)
  BY DEF Reading, Step, Types
<1>2. PICK d : /\ m.type = "dh" /\ u[x].wait.dh > 0
               /\ Step(n, u, d, x) /\ IsDone(u[x], d[x], "dh")
               /\ x = "alice" => Creates(d[x], t[x], a)
               /\ x = "bob" => Accepts(d[x], t[x], a)
  BY DEF LivesByDh
<1>3. d[x] \in Chat(n)
  BY <1>2 DEF Step, Types
<1>4. /\ d[x].left = u[x].left /\ d[x].inbox = u[x].inbox /\ d[x].ex = u[x].ex /\ d[x].out = u[x].out
      /\ d[x].fp = u[x].fp
  BY <1>2 DEF IsDone, SameKeys, SameExchange, SameWay
<1>5. m.type \notin {"discarded", "declined"}
  BY <1>2
<1>6. ASSUME NEW k \in Message(n), t[x].asked = Append(u[x].asked, k), k.type \in {"request_chat", "accept_chat"}
      PROVE  /\ \A T : {"request_chat", "accept_chat"} \cap T = {} => (Has(t[x].asked, T) => Has(u[x].asked, T))
             /\ Has(u[x].asked, {"accept_chat"}) => Has(t[x].asked, {"accept_chat"})
             /\ k.type = "accept_chat" => Has(t[x].asked, {"accept_chat"})
  <2> DEFINE q == t[x].asked  c == u[x]
  <2>1. q = Append(c.asked, k) /\ c \in Chat(n)
    BY <1>1, <1>6
  <2> HIDE DEF q, c
  <2>2. AskedFor(c, q, k)
    BY <1>1, <2>1, AskedLast
  <2>3. \A T : Has(q, T) <=> Has(c.asked, T) \/ k.type \in T
    BY <2>2 DEF AskedFor
  <2>4. \A T : {"request_chat", "accept_chat"} \cap T = {} => k.type \notin T
    BY <1>6
  <2> QED
    BY <2>3, <2>4 DEF q, c
<1>7. CASE x = "alice"
  <2>1. t["bob"] = u["bob"]
    BY <1>1, <1>7 DEF Other
  <2>1a. u["alice"].wait.dh > 0 /\ IsDone(u["alice"], d["alice"], "dh") /\ Creates(d["alice"], t["alice"], a)
         /\ d["alice"] \in Chat(n)
    BY <1>1, <1>2, <1>3, <1>7
  <2>2. /\ Life(t, v) /\ v.chat = "no" /\ u["alice"].fp = {}
        /\ Asks(n, u["alice"], t["alice"], "request_chat")
    BY <1>1, <2>1, <2>1a, LifeCreates
  <2>3. /\ t[x].left = u[x].left /\ t[x].inbox = u[x].inbox /\ t[x].ex = u[x].ex /\ t[x].out = u[x].out
        /\ t[x].fp = u[x].fp
    BY <1>2, <1>4, <1>7 DEF Creates, SameExchange
  <2>4. PICK k \in Message(n) : t["alice"].asked = Append(u["alice"].asked, k) /\ k.type = "request_chat"
    BY <2>2 DEF Asks
  <2>5. /\ \A T : {"request_chat", "accept_chat"} \cap T = {} => (Has(t[x].asked, T) => Has(u[x].asked, T))
        /\ Has(u[x].asked, {"accept_chat"}) => Has(t[x].asked, {"accept_chat"})
    BY <1>6, <1>7, <2>4
  <2>6. v.chat # "gone"
    BY <2>2
  <2> QED
    BY <1>1, <1>5, <2>2, <2>3, <2>5, <2>6, LivingRead
<1>8. CASE x = "bob"
  <2>1. t["alice"] = u["alice"]
    BY <1>1, <1>8 DEF Other
  <2>1a. u["bob"].wait.dh > 0 /\ IsDone(u["bob"], d["bob"], "dh") /\ Accepts(d["bob"], t["bob"], a)
         /\ d["bob"] \in Chat(a + 1) /\ Types(u, a + 1) /\ Types(t, a + 1) /\ u["bob"].fp = {}
    BY <1>1, <1>2, <1>3, <1>8
  <2>2. /\ Life(t, v)
        /\ Asks(a + 1, u["bob"], t["bob"], "accept_chat")
    BY <1>1, <2>1, <2>1a, LifeAccepts
  <2>3. /\ t[x].left = u[x].left /\ t[x].inbox = u[x].inbox /\ t[x].ex = u[x].ex /\ t[x].out = u[x].out
    BY <1>2, <1>4, <1>8 DEF Accepts, SameExchange
  <2>4. PICK k \in Message(n) : t["bob"].asked = Append(u["bob"].asked, k) /\ k.type = "accept_chat"
    BY <2>2 DEF Asks
  <2>5. /\ \A T : {"request_chat", "accept_chat"} \cap T = {} => (Has(t[x].asked, T) => Has(u[x].asked, T))
        /\ Has(u[x].asked, {"accept_chat"}) => Has(t[x].asked, {"accept_chat"})
        /\ Has(t[x].asked, {"accept_chat"})
    BY <1>6, <1>8, <2>4
  <2>6. u[x].fp = {}
    BY <1>8
  <2> QED
    BY <1>1, <1>5, <1>8, <2>2, <2>3, <2>5, <2>6, LivingRead
<1> QED
  BY <1>7, <1>8 DEF Side

\* An answer ends a call.
LEMMA LivingByReply ==
    ASSUME NEW n \in Nat \ {0}, NEW s, NEW u, NEW t, NEW x \in Side, NEW v, NEW m, NEW f,
           Reading(n, s, u, x, v, m), Living(s, v), Counted(s, f), Step(n, u, t, x),
           LivesByReply(u, t, x, m)
    PROVE  Living(t, v)
<1>1. Life(t, v) /\ t[Other(x)] = u[Other(x)]
  BY LifeReply DEF Step
<1>2. PICK kind \in Kinds, chat \in States :
          Replies(m.type, kind, u[x], chat) /\ Ended(u[x], t[x], kind, chat)
  BY DEF LivesByReply
<1>3. /\ t[x].left = u[x].left /\ t[x].inbox = u[x].inbox /\ t[x].ex = u[x].ex /\ t[x].out = u[x].out
      /\ t[x].fp = u[x].fp /\ t[x].asked = u[x].asked /\ t[x].chat = chat
  BY <1>2 DEF Ended, SameKeys, SameExchange, SameWay
<1>4. /\ m.type \in {"discarded", "declined"} => t[x].chat \in {"absent", "deleted"}
      /\ \/ m.type \in Reopeners
         \/ t[x].chat = u[x].chat
         \/ t[x].chat \in {"absent", "deleted"}
  BY <1>2, <1>3 DEF Replies, Reopeners
<1> QED
  BY <1>1, <1>3, <1>4, LivingRead

\* The acceptance is confirmed.
LEMMA LivingByAnswer ==
    ASSUME NEW n \in Nat \ {0}, NEW s, NEW u, NEW t, NEW x \in Side, NEW v, NEW m,
           Reading(n, s, u, x, v, m), Living(s, v), Step(n, u, t, x),
           LivesByAnswer(n, u, t, x, m)
    PROVE  Living(t, v)
<1>1. PICK d, p, q : /\ m.type = "accepted"
                     /\ Step(n, u, d, x) /\ IsDone(u[x], d[x], "accept")
                     /\ Step(n, d, p, x) /\ IsUpdated(d[x], p[x], [m EXCEPT !.type = "chat"])
                     /\ Layered(n, p, q, x)
                     /\ IsTold(q[x], t[x])
  BY DEF LivesByAnswer
<1>2. n \in Nat /\ m \in Message(n) /\ Life(u, v)
  BY ReadingIs DEF Reading
<1> DEFINE k == [m EXCEPT !.type = "chat"]
<1>3. k.type = "chat"
  BY <1>2 DEF Message
<1>3a. IsUpdated(d[x], p[x], k)
  BY <1>1
<1> HIDE DEF k
<1>4. p[Other(x)] = u[Other(x)] /\ Types(p, n)
  BY <1>1 DEF Step
<1>5. Life(p, v) /\ x = "bob"
  BY <1>1, <1>2, <1>3, <1>3a, <1>4, LifeConfirmed
<1>6. u["bob"].chat # "waiting"
  BY <1>2 DEF Life, Roles
<1>7. /\ p[x].left = u[x].left /\ p[x].inbox = u[x].inbox /\ p[x].ex = u[x].ex /\ p[x].out = u[x].out
      /\ p[x].fp = u[x].fp /\ p[x].asked = u[x].asked
  BY <1>1, <1>3, <1>3a, <1>5, <1>6 DEF IsUpdated, IsDone, SameKeys, SameExchange, SameWay
<1>8. m.type \in Reopeners /\ m.type \notin {"discarded", "declined"}
  BY <1>1 DEF Reopeners
<1>9. Living(p, v)
  BY <1>4, <1>5, <1>7, <1>8, LivingRead
<1>10. Living(q, v) /\ Types(q, n) /\ q[Other(x)] = p[Other(x)]
  BY <1>1, <1>4, <1>9, LivingLayered
<1>11. Types(t, n) /\ t[Other(x)] = q[Other(x)]
  BY <1>4, <1>10 DEF Step
<1>12. \A y \in Side : /\ SameLife(q[y], t[y]) /\ SameKeys(q[y], t[y])
                       /\ SameExchange(q[y], t[y]) /\ SameWay(q[y], t[y])
  <2>1. ASSUME NEW y \in Side
        PROVE  /\ SameLife(q[y], t[y]) /\ SameKeys(q[y], t[y])
               /\ SameExchange(q[y], t[y]) /\ SameWay(q[y], t[y])
    <3>1. CASE y = x
      BY <1>1, <3>1 DEF IsTold
    <3>2. CASE y # x
      <4>1. t[y] = q[y]
        BY <1>11, <3>2, Sides
      <4> QED
        BY <4>1 DEF SameLife, SameKeys, SameExchange, SameWay
    <3> QED
      BY <3>1, <3>2
  <2> QED
    BY <2>1
<1> QED
  BY <1>10, <1>11, <1>12, LivingSame

\* The server tells of the chat.
LEMMA LivingByUpdate ==
    ASSUME NEW n \in Nat \ {0}, NEW s, NEW u, NEW t, NEW x \in Side, NEW v, NEW m,
           Reading(n, s, u, x, v, m), Living(s, v), Step(n, u, t, x),
           LivesByUpdate(n, u, t, x, m)
    PROVE  Living(t, v)
<1>0. n \in Nat /\ t[Other(x)] = u[Other(x)]
  BY DEF Step
<1>1. CASE m.type = "requested" /\ IsUpdated(u[x], t[x], m)
  <2>1. Life(t, v)
    BY <1>0, <1>1, LifeAppears
  <2>2. /\ t[x].left = u[x].left /\ t[x].inbox = u[x].inbox /\ t[x].ex = u[x].ex /\ t[x].out = u[x].out
        /\ t[x].fp = u[x].fp /\ t[x].asked = u[x].asked
    BY <1>1 DEF IsUpdated, SameExchange, SameWay
  <2>3. m.type \in Reopeners /\ m.type \notin {"discarded", "declined"}
    BY <1>1 DEF Reopeners
  <2> QED
    BY <1>0, <2>1, <2>2, <2>3, LivingRead
<1>2. CASE m.type = "discarded" /\ IsUpdated(u[x], t[x], m)
  <2>1. Life(t, v)
    BY <1>0, <1>2, LifeDiscarded
  <2>2. /\ t[x].left = u[x].left /\ t[x].inbox = u[x].inbox /\ t[x].ex = u[x].ex /\ t[x].out = u[x].out
        /\ t[x].fp = u[x].fp /\ t[x].asked = u[x].asked /\ t[x].chat \in {"absent", "deleted"}
    BY <1>2 DEF IsUpdated, SameExchange, SameKeys, SameWay
  <2> QED
    BY <1>0, <2>1, <2>2, LivingRead
<1>3. CASE /\ m.type = "chat"
           /\ \E p : Step(n, u, p, x) /\ IsUpdated(u[x], p[x], m) /\ Layered(n, p, t, x)
  <2>1. PICK p : Step(n, u, p, x) /\ IsUpdated(u[x], p[x], m) /\ Layered(n, p, t, x)
    BY <1>3
  <2>2. p[Other(x)] = u[Other(x)] /\ Types(p, n)
    BY <2>1 DEF Step
  <2>3. Life(p, v) /\ x = "alice" /\ u["alice"].fp = {}
    <3>1. Life(p, v)
      BY <1>3, <2>1, <2>2, LifeOpens
    <3>2. x = "alice" /\ u["alice"].fp = {}
      BY <1>3, <2>1, <2>2, LifeOpens
    <3> QED
      BY <3>1, <3>2
  <2>4. /\ p[x].left = u[x].left /\ p[x].inbox = u[x].inbox /\ p[x].ex = u[x].ex /\ p[x].out = u[x].out
        /\ p[x].asked = u[x].asked
    BY <2>1 DEF IsUpdated, SameExchange, SameWay
  <2>5. m.type \in Reopeners /\ m.type \notin {"discarded", "declined"} /\ u[x].fp = {}
    BY <1>3, <2>3 DEF Reopeners
  <2>6. Living(p, v)
    BY <2>2, <2>3, <2>4, <2>5, LivingRead
  <2> QED
    BY <2>1, <2>2, <2>6, LivingLayered
<1> QED
  BY <1>1, <1>2, <1>3 DEF LivesByUpdate

\* An answer that nothing waits for.
LEMMA LivingByNothing ==
    ASSUME NEW n \in Nat \ {0}, NEW s, NEW u, NEW x \in Side, NEW v, NEW m,
           Reading(n, s, u, x, v, m), Living(s, v),
           m.type \notin {"requested", "discarded", "chat"},
           m.type = "declined" => u[x].wait.accept = 0
    PROVE  Living(u, v)
<1>1. n \in Nat /\ Life(u, v) /\ Life(s, v)
  BY DEF Reading
<1>2. /\ \A T : m.type \in T => Has(s[x].inbox, T)
      /\ \A y \in Side : SameLife(s[y], u[y])
  BY ReadingIs
<1>3. m.type # "declined"
  <2>1. CASE m.type = "declined"
    <3>1. ~Has(s["alice"].inbox, {"requested", "accepted", "accept_error", "declined"})
      BY <1>1 DEF Life, Roles
    <3>2. x = "bob"
      BY <1>2, <2>1, <3>1 DEF Side
    <3>3. Has(s["bob"].inbox, {"accepted", "accept_error", "declined"})
      BY <1>2, <2>1, <3>2
    <3>4. s["bob"].wait.accept = 1
      BY <1>1, <3>3 DEF Life, Acceptor
    <3> QED
      BY <1>2, <2>1, <3>2, <3>4 DEF SameLife
  <2> QED
    BY <2>1
<1>4. m.type \notin {"discarded", "declined"}
  BY <1>3
<1> QED
  BY <1>1, <1>4, LivingRead

-----------------------------------------------------------------------------
(* What comes and goes                                                     *)

\* A chat with other queues.
Queued(c, ready, out, asked, inbox) ==
    [c EXCEPT !.ready = ready, !.out = out, !.asked = asked, !.inbox = inbox]

\* c becomes e: its queues change, nothing else.
IsQueued(c, e, ready, out, asked, inbox) ==
    /\ SameLife(c, e) /\ SameBook(c, e) /\ SameKeys(c, e) /\ SameExchange(c, e)
    /\ e.ready = ready /\ e.out = out /\ e.asked = asked /\ e.inbox = inbox

\* What the queues may be.
Fit(n, ready, out, asked, inbox) ==
    /\ ready \in BOOLEAN /\ out \in Seq(Message(n)) /\ asked \in Seq(Message(n))
    /\ inbox \in Seq(Message(n)) /\ \A m \in ToSet(out) : m.type \in InChat

\* A change of the queues is the step of one side.
LEMMA QueuedIs ==
    ASSUME NEW n \in Nat, NEW s, Types(s, n), NEW x \in Side, NEW ready, NEW out, NEW asked,
           NEW inbox, Fit(n, ready, out, asked, inbox),
           NEW t, t = With(s, x, Queued(s[x], ready, out, asked, inbox))
    PROVE  Step(n, s, t, x) /\ IsQueued(s[x], t[x], ready, out, asked, inbox)
<1> DEFINE c == s[x]  e == Queued(c, ready, out, asked, inbox)
<1>1. c \in Chat(n) /\ c = s[x]
  BY DEF Types
<1> HIDE DEF c
<1>2. IsQueued(c, e, ready, out, asked, inbox)
  BY <1>1 DEF Chat, Queued, IsQueued, SameLife, SameBook, SameKeys, SameExchange
<1>3. Exchanging(e)
  BY <1>1, <1>2, ChatFields DEF IsQueued, Exchanging, SameExchange
<1>4. e \in Chat(n)
  BY <1>1, <1>3 DEF Chat, Queued, Fit
<1>5. t = With(s, x, e) /\ e.out = out /\ \A m \in ToSet(out) : m.type \in InChat
  BY <1>1, <1>2 DEF IsQueued, Fit
<1> HIDE DEF e
<1>6. Types(t, n) /\ t[x] = e /\ t[Other(x)] = s[Other(x)]
  BY <1>4, <1>5, WithIs
<1> QED
  BY <1>1, <1>2, <1>6 DEF Step

\* The queues of a side.
QueuesOf(c, n) == Fit(n, c.ready, c.out, c.asked, c.inbox)

\* The queues of a side have their types.
LEMMA QueuesAre ==
    ASSUME NEW n \in Nat, NEW s, Types(s, n), NEW x \in Side
    PROVE  s[x] \in Chat(n) /\ QueuesOf(s[x], n)
<1>1. s[x] \in Chat(n) /\ \A m \in ToSet(s[x].out) : m.type \in InChat
  BY DEF Types
<1> QED
  BY <1>1, ChatFields DEF QueuesOf, Fit

\* A new inbox is the step of one side.
LEMMA InboxIs ==
    ASSUME NEW n \in Nat, NEW s, Types(s, n), NEW x \in Side, NEW q \in Seq(Message(n)),
           NEW t, t = [s EXCEPT ![x].inbox = q]
    PROVE  Step(n, s, t, x) /\ IsQueued(s[x], t[x], s[x].ready, s[x].out, s[x].asked, q)
<1> DEFINE c == s[x]
<1>1. c \in Chat(n) /\ QueuesOf(c, n) /\ c = s[x]
  BY QueuesAre
<1>2. t = [s EXCEPT ![x] = [c EXCEPT !.inbox = q]]
  OBVIOUS
<1> HIDE DEF c
<1>3. [c EXCEPT !.inbox = q] = Queued(c, c.ready, c.out, c.asked, q)
  BY <1>1 DEF Chat, Queued
<1>4. t = With(s, x, Queued(s[x], s[x].ready, s[x].out, s[x].asked, q))
  BY <1>1, <1>2, <1>3 DEF With
<1>5. QueuesOf(s[x], n)
  BY <1>1
<1>6. Fit(n, s[x].ready, s[x].out, s[x].asked, q)
  BY <1>5 DEF QueuesOf, Fit
<1> QED
  BY <1>4, <1>6, QueuedIs

\* A new queue to the server is the step of one side.
LEMMA AskedIs ==
    ASSUME NEW n \in Nat, NEW s, Types(s, n), NEW x \in Side, NEW q \in Seq(Message(n)),
           NEW t, t = [s EXCEPT ![x].asked = q]
    PROVE  Step(n, s, t, x) /\ IsQueued(s[x], t[x], s[x].ready, s[x].out, q, s[x].inbox)
<1> DEFINE c == s[x]
<1>1. c \in Chat(n) /\ QueuesOf(c, n) /\ c = s[x]
  BY QueuesAre
<1>2. t = [s EXCEPT ![x] = [c EXCEPT !.asked = q]]
  OBVIOUS
<1> HIDE DEF c
<1>3. [c EXCEPT !.asked = q] = Queued(c, c.ready, c.out, q, c.inbox)
  BY <1>1 DEF Chat, Queued
<1>4. t = With(s, x, Queued(s[x], s[x].ready, s[x].out, q, s[x].inbox))
  BY <1>1, <1>2, <1>3 DEF With
<1>5. QueuesOf(s[x], n)
  BY <1>1
<1>6. Fit(n, s[x].ready, s[x].out, q, s[x].inbox)
  BY <1>5 DEF QueuesOf, Fit
<1> QED
  BY <1>4, <1>6, QueuedIs

\* A new queue of what is parked is the step of one side.
LEMMA OutIs ==
    ASSUME NEW n \in Nat, NEW s, Types(s, n), NEW x \in Side, NEW q \in Seq(Message(n)),
           \A m \in ToSet(q) : m.type \in InChat,
           NEW t, t = [s EXCEPT ![x].out = q]
    PROVE  Step(n, s, t, x) /\ IsQueued(s[x], t[x], s[x].ready, q, s[x].asked, s[x].inbox)
<1> DEFINE c == s[x]
<1>1. c \in Chat(n) /\ QueuesOf(c, n) /\ c = s[x]
  BY QueuesAre
<1>2. t = [s EXCEPT ![x] = [c EXCEPT !.out = q]]
  OBVIOUS
<1> HIDE DEF c
<1>3. [c EXCEPT !.out = q] = Queued(c, c.ready, q, c.asked, c.inbox)
  BY <1>1 DEF Chat, Queued
<1>4. t = With(s, x, Queued(s[x], s[x].ready, q, s[x].asked, s[x].inbox))
  BY <1>1, <1>2, <1>3 DEF With
<1>5. QueuesOf(s[x], n)
  BY <1>1
<1>6. Fit(n, s[x].ready, q, s[x].asked, s[x].inbox)
  BY <1>5 DEF QueuesOf, Fit
<1> QED
  BY <1>4, <1>6, QueuedIs

\* A change of readiness is the step of one side.
LEMMA ReadyIs ==
    ASSUME NEW n \in Nat, NEW s, Types(s, n), NEW x \in Side, NEW q \in BOOLEAN,
           NEW t, t = [s EXCEPT ![x].ready = q]
    PROVE  Step(n, s, t, x) /\ IsQueued(s[x], t[x], q, s[x].out, s[x].asked, s[x].inbox)
<1> DEFINE c == s[x]
<1>1. c \in Chat(n) /\ QueuesOf(c, n) /\ c = s[x]
  BY QueuesAre
<1>2. t = [s EXCEPT ![x] = [c EXCEPT !.ready = q]]
  OBVIOUS
<1> HIDE DEF c
<1>3. [c EXCEPT !.ready = q] = Queued(c, q, c.out, c.asked, c.inbox)
  BY <1>1 DEF Chat, Queued
<1>4. t = With(s, x, Queued(s[x], q, s[x].out, s[x].asked, s[x].inbox))
  BY <1>1, <1>2, <1>3 DEF With
<1>5. QueuesOf(s[x], n)
  BY <1>1
<1>6. Fit(n, q, s[x].out, s[x].asked, s[x].inbox)
  BY <1>5 DEF QueuesOf, Fit
<1> QED
  BY <1>4, <1>6, QueuedIs

\* The next message is taken from the inbox.
LEMMA TakenIs ==
    ASSUME NEW n \in Nat, NEW x \in Side, Types(st, n), st[x].inbox # <<>>,
           NEW u, u = Taken(x)
    PROVE  /\ Step(n, st, u, x) /\ SameBook(st[x], u[x]) /\ Heard(st[x], u[x])
           /\ First(x) \in Message(n)
<1> DEFINE q == st[x].inbox
<1>1. q \in Seq(Message(n)) /\ q # <<>> /\ First(x) = Head(q) /\ q = st[x].inbox
      /\ u = [st EXCEPT ![x].inbox = Tail(q)]
  BY QueuesAre DEF QueuesOf, Fit, First, Taken
<1> HIDE DEF q
<1>2. Tail(q) \in Seq(Message(n)) /\ Head(q) \in Message(n)
  BY <1>1, Rest
<1>3. Step(n, st, u, x) /\ IsQueued(st[x], u[x], st[x].ready, st[x].out, st[x].asked, Tail(q))
  BY <1>1, <1>2, InboxIs
<1> QED
  BY <1>1, <1>2, <1>3 DEF IsQueued, Heard

\* What a side reads is what it knows.
LEMMA TakenReads ==
    ASSUME NEW n \in Nat \ {0}, NEW x \in Side, Types(st, n), st[x].inbox # <<>>, Living(st, srv),
           NEW u, u = Taken(x)
    PROVE  Reading(n, st, u, x, srv, First(x))
<1>1. Step(n, st, u, x) /\ Heard(st[x], u[x]) /\ n \in Nat
  BY TakenIs
<1>2. Types(u, n) /\ u[Other(x)] = st[Other(x)]
  BY <1>1 DEF Step
<1>3. Life(st, srv) /\ LifeHolds(st, srv)
  BY DEF Living, LifeHolds
<1>4. Life(u, srv)
  BY <1>1, <1>2, <1>3, LifeHeard
<1> QED
  BY <1>1, <1>2, <1>3, <1>4 DEF Reading, First

\* Reading an update from the server keeps the invariant.
LEMMA ReadUpdateHolds ==
    ASSUME Lasting, NEW x \in Side, st[x].inbox # <<>>, ReadUpdate(x), UNCHANGED srv
    PROVE  Lasting'
<1> DEFINE m == First(x)  u == Taken(x)  t == Lived(u, x, m)
           n == IF m.type = "dh" THEN fresh + 1 ELSE fresh
<1>1. /\ fresh \in Nat \ {0} /\ Types(st, fresh) /\ faults \in 0..MaxFaults /\ faults \in Nat
      /\ Counted(st, faults) /\ (spoiled = {} => Living(st, srv)) /\ fresh \in Nat
  BY SecretChatsAssumption DEF Lasting, Holds
<1>2. /\ st' = t /\ fresh' = n /\ srv' = srv /\ faults' = faults
      /\ spoiled' = {} => /\ spoiled = {}
                          /\ m.type = "dh" /\ x = "bob" /\ st[x].wait.dh > 0 => st[x].fp = {}
  BY DEF ReadUpdate, Waits
<1>3. n \in Nat \ {0} /\ n \in Nat /\ Types(st, n) /\ (m.type = "dh" => fresh \in 0..(n - 1))
  BY <1>1, MoreNumbers
<1> DEFINE c == u[x]
<1>4. m = First(x) /\ u = Taken(x) /\ t = Lived(u, x, m)
  OBVIOUS
<1>4a. m.type = "dh" => n = fresh + 1
  OBVIOUS
<1> HIDE DEF m, u, t, n
<1>5. Step(n, st, u, x) /\ SameBook(st[x], u[x]) /\ Heard(st[x], u[x]) /\ m \in Message(n)
  BY <1>3, <1>4, TakenIs
<1>6. Types(u, n) /\ u[Other(x)] = st[Other(x)] /\ u[x].wait = st[x].wait /\ u[x].fp = st[x].fp
  BY <1>5 DEF Step, Heard, SameLife, SameKeys
<1>7. /\ Step(n, u, t, x)
      /\ \/ LivesByDh(n, u, t, x, m, fresh)
         \/ LivesByReply(u, t, x, m)
         \/ LivesByAnswer(n, u, t, x, m)
         \/ LivesByUpdate(n, u, t, x, m)
         \/ /\ t = u /\ m.type \notin {"requested", "discarded", "chat"}
            /\ m.type = "declined" => u[x].wait.accept = 0
  BY <1>3, <1>4, <1>5, <1>6, LivedIs
<1>8. Counted(u, faults)
  <2>1. \A y \in Side : SameCount(st[y], u[y])
    <3>1. SameCount(st[x], u[x])
      BY <1>5 DEF Heard, SameBook, SameCount
    <3>2. SameCount(st[Other(x)], u[Other(x)])
      BY <1>6 DEF SameCount, SameLife
    <3> QED
      BY <3>1, <3>2, Sides
  <2> QED
    BY <1>1, <2>1, CountedSame
<1>9. Counted(t, faults)
  <2>1. CASE t = u
    BY <1>8, <2>1
  <2>2. CASE \/ LivesByDh(n, u, t, x, m, fresh)
             \/ LivesByReply(u, t, x, m)
             \/ LivesByAnswer(n, u, t, x, m)
             \/ LivesByUpdate(n, u, t, x, m)
    BY <1>1, <1>3, <1>5, <1>6, <1>7, <1>8, <2>2, CountedLived
  <2> QED
    BY <1>7, <2>1, <2>2
<1>10. ASSUME spoiled' = {}
       PROVE  Living(t, srv)
  <2>1. Living(st, srv) /\ (m.type = "dh" /\ x = "bob" /\ u[x].wait.dh > 0 => u[x].fp = {})
    BY <1>1, <1>2, <1>6, <1>10
  <2>2. Reading(n, st, u, x, srv, m)
    BY <1>3, <1>4, <2>1, TakenReads
  <2>3. CASE LivesByDh(n, u, t, x, m, fresh)
    <3>1. m.type = "dh" /\ u[x].wait.dh > 0
      BY <2>3 DEF LivesByDh
    <3>2. n = fresh + 1 /\ (x = "bob" => u["bob"].fp = {})
      BY <1>4a, <2>1, <3>1
    <3>3. u["bob"] \in Chat(fresh)
      <4>1. Step(fresh, st, u, x)
        BY <1>1, <1>4, TakenIs
      <4> QED
        BY <4>1 DEF Step, Types, Side
    <3> QED
      BY <1>1, <1>3, <1>7, <1>8, <2>1, <2>2, <2>3, <3>2, <3>3, LivingByDh
  <2>4. CASE LivesByReply(u, t, x, m)
    BY <1>1, <1>3, <1>7, <2>1, <2>2, <2>4, LivingByReply
  <2>5. CASE LivesByAnswer(n, u, t, x, m)
    BY <1>3, <1>7, <2>1, <2>2, <2>5, LivingByAnswer
  <2>6. CASE LivesByUpdate(n, u, t, x, m)
    BY <1>3, <1>7, <2>1, <2>2, <2>6, LivingByUpdate
  <2>7. CASE /\ t = u /\ m.type \notin {"requested", "discarded", "chat"}
             /\ m.type = "declined" => u[x].wait.accept = 0
    BY <1>3, <2>1, <2>2, <2>7, LivingByNothing
  <2> QED
    BY <1>7, <2>3, <2>4, <2>5, <2>6, <2>7
<1>11. Types(t, n)
  BY <1>7 DEF Step
<1> QED
  BY <1>1, <1>2, <1>3, <1>9, <1>10, <1>11 DEF Lasting, Holds

-----------------------------------------------------------------------------
(* Steps in the chat                                                       *)

\* x takes a step in the chat, which it has a key for.
Moves(n, s, t, x) ==
    /\ Step(n, s, t, x) /\ SameCount(s[x], t[x])
    /\ s[x].fp # {} => Talked(s[x], t[x])

\* Two moves inside the chat make one.
LEMMA MovesTwice ==
    ASSUME NEW n, NEW s, NEW t, NEW r, NEW x, Moves(n, s, t, x), Moves(n, t, r, x)
    PROVE  Moves(n, s, r, x)
<1>1. Step(n, s, r, x) /\ SameCount(s[x], r[x])
  BY DEF Moves, Step, SameCount, SameLife
<1>2. ASSUME s[x].fp # {}
      PROVE  Talked(s[x], r[x])
  <2>1. Talked(s[x], t[x])
    BY <1>2 DEF Moves
  <2>2. t[x].fp # {}
    BY <1>2, <2>1 DEF Talked, SameKeys, Pair
  <2>3. Talked(t[x], r[x])
    BY <2>2 DEF Moves
  <2> QED
    BY <2>1, <2>3, TalkedTwice
<1> QED
  BY <1>1, <1>2 DEF Moves

\* Posting is a move inside the chat.
LEMMA MovesPost ==
    ASSUME NEW n \in Nat \ {0}, NEW s, Types(s, n), NEW x \in Side, NEW m \in Message(n),
           m.type \in InChat, NEW t, t = Post(s, x, m)
    PROVE  /\ Moves(n, s, t, x) /\ SameBook(s[x], t[x])
           /\ s[x].ex # "committed" => SameExchange(s[x], t[x])
           /\ s[x].ex # "committed" /\ s[x].fp # {} => SameKeys(s[x], t[x])
<1>1. Types(t, n) /\ t[Other(x)] = s[Other(x)] /\ IsPosted(s[x], t[x], m)
  BY Posted
<1>2. n \in Nat /\ s[x] \in Chat(n)
  BY DEF Types
<1>3. SameCount(s[x], t[x]) /\ SameBook(s[x], t[x])
  BY <1>1 DEF IsPosted, SameCount, SameBook
<1>4. s[x].ex # "committed" => SameExchange(s[x], t[x])
  BY <1>1 DEF IsPosted, IsSent, IsParked, SameExchange
<1>5. ASSUME s[x].fp # {}
      PROVE  Talked(s[x], t[x]) /\ (s[x].ex # "committed" => SameKeys(s[x], t[x]))
  BY <1>1, <1>2, <1>5, TalkedPosted
<1> QED
  BY <1>1, <1>3, <1>4, <1>5 DEF Moves, Step

\* The exchange and the counters of a side are others.
Noted(c, k, j) == [c EXCEPT !.texts = k, !.requests = j]

\* A move of the exchange is a move inside the chat.
LEMMA MovesExchanged ==
    ASSUME NEW n \in Nat, NEW s, Types(s, n), NEW x \in Side, NEW ex \in Exchanges, NEW id \in 0..(n - 1),
           NEW k \in SUBSET (0..(n - 1)),
           ex = "requested" => k = {id},
           ex \in {"accepted", "committed"} => id \in k /\ Pair(k),
           NEW t, t = With(s, x, Exchanged(s[x], ex, id, k))
    PROVE  /\ Moves(n, s, t, x) /\ SameKeys(s[x], t[x]) /\ SameBook(s[x], t[x]) /\ SameWay(s[x], t[x])
           /\ t[x].ex = ex /\ t[x].id = id /\ t[x].exkey = k /\ t[x].chat = s[x].chat
<1> DEFINE c == s[x]  e == Exchanged(c, ex, id, k)
<1>1. c \in Chat(n) /\ c = s[x] /\ \A m \in ToSet(c.out) : m.type \in InChat
  BY DEF Types
<1> HIDE DEF c
<1>2. /\ e \in Chat(n)
      /\ e.ex = ex /\ e.id = id /\ e.exkey = k
      /\ SameLife(c, e) /\ SameBook(c, e) /\ SameKeys(c, e) /\ SameWay(c, e)
  BY <1>1, ExchangedIs
<1>3. t = With(s, x, e)
  BY <1>1
<1> HIDE DEF e
<1>4. \A m \in ToSet(e.out) : m.type \in InChat
  BY <1>1, <1>2 DEF SameWay
<1>5. Types(t, n) /\ t[x] = e /\ t[Other(x)] = s[Other(x)]
  BY <1>2, <1>3, <1>4, WithIs
<1>6. c.fp # {} => Talked(c, e)
  BY <1>2, TalkedSame DEF SameWay
<1> QED
  BY <1>1, <1>2, <1>5, <1>6 DEF Moves, Step, SameCount, SameBook, SameLife

\* Adopting the key of an exchange is a move inside the chat.
LEMMA MovesConfirmed ==
    ASSUME NEW n \in Nat \ {0}, NEW s, Types(s, n), NEW x \in Side, s[x].ex \in {"accepted", "committed"},
           NEW t, t = With(s, x, Confirmed(s[x]))
    PROVE  /\ Moves(n, s, t, x) /\ SameBook(s[x], t[x])
           /\ t[x].ex = "none" /\ t[x].chat = s[x].chat
<1> DEFINE c == s[x]  e == Confirmed(c)
<1>1. c \in Chat(n) /\ c = s[x] /\ n \in Nat /\ \A m \in ToSet(c.out) : m.type \in InChat
  BY DEF Types
<1> HIDE DEF c
<1>2. /\ e \in Chat(n)
      /\ e.key = c.exkey /\ e.fp = c.exkey /\ e.ex = "none"
      /\ SameLife(c, e) /\ SameBook(c, e)
      /\ e.inbox = c.inbox /\ e.asked = c.asked /\ e.out = c.out
  BY <1>1, ConfirmedIs
<1>3. t = With(s, x, e)
  BY <1>1
<1> HIDE DEF e
<1>4. \A m \in ToSet(e.out) : m.type \in InChat
  BY <1>1, <1>2
<1>5. Types(t, n) /\ t[x] = e /\ t[Other(x)] = s[Other(x)]
  BY <1>1, <1>2, <1>3, <1>4, WithIs
<1>6. Pair(c.exkey)
  BY <1>1, ChatFields DEF Exchanging
<1>7. c.fp # {} => Talked(c, e)
  <2>1. AskedMore(c.asked, c.asked)
    BY DEF AskedMore
  <2> QED
    BY <1>2, <1>6, <2>1 DEF Talked, SameLife
<1> QED
  BY <1>1, <1>2, <1>5, <1>7 DEF Moves, Step, SameCount, SameBook, SameLife

\* Counting texts and requests is a move inside the chat.
LEMMA MovesNoted ==
    ASSUME NEW n \in Nat, NEW s, Types(s, n), NEW x \in Side, NEW k \in Nat, NEW j \in Nat,
           NEW t, t = With(s, x, Noted(s[x], k, j))
    PROVE  Moves(n, s, t, x) /\ SameKeys(s[x], t[x]) /\ SameExchange(s[x], t[x]) /\ SameWay(s[x], t[x])
<1> DEFINE c == s[x]  e == Noted(c, k, j)
<1>1. c \in Chat(n) /\ c = s[x] /\ \A m \in ToSet(c.out) : m.type \in InChat
  BY DEF Types
<1> HIDE DEF c
<1>2. /\ SameLife(c, e) /\ e.called = c.called /\ e.told = c.told
      /\ SameKeys(c, e) /\ SameExchange(c, e) /\ SameWay(c, e)
  BY <1>1 DEF Chat, Noted, SameLife, SameKeys, SameExchange, SameWay
<1>2a. Exchanging(e)
  BY <1>1, <1>2, ChatFields DEF SameExchange, Exchanging
<1>2b. e \in Chat(n)
  BY <1>1, <1>2a DEF Chat, Noted
<1>3. t = With(s, x, e)
  BY <1>1
<1> HIDE DEF e
<1>4. \A m \in ToSet(e.out) : m.type \in InChat
  BY <1>1, <1>2 DEF SameWay
<1>5. Types(t, n) /\ t[x] = e /\ t[Other(x)] = s[Other(x)]
  BY <1>2b, <1>3, <1>4, WithIs
<1>6. c.fp # {} => Talked(c, e)
  BY <1>2, TalkedSame DEF SameWay
<1> QED
  BY <1>1, <1>2, <1>5, <1>6 DEF Moves, Step, SameCount

\* An abort: the other side is told.
LEMMA MovesAborted ==
    ASSUME NEW n \in Nat \ {0}, NEW s, Types(s, n), NEW x \in Side, NEW t, t = Aborted(s, x)
    PROVE  Moves(n, s, t, x) /\ SameBook(s[x], t[x])
<1> DEFINE m == Secret("abort", {}, s[x].id)  p == Post(s, x, m)
<1>1. m \in Message(n) /\ m.type \in InChat
  <2>1. s[x].id \in 0..(n - 1) /\ {} \in SUBSET (0..(n - 1)) /\ "abort" \in InChat
    BY ChatFields DEF Types, InChat
  <2>2. m.type = "abort" /\ (Formed(m) => m \in Message(n))
    BY <2>1, SecretIs
  <2> QED
    BY <2>1, <2>2 DEF Formed
<1>2. p = Post(s, x, m) /\ t = [p EXCEPT ![x].ex = "aborted"]
  BY DEF Aborted
<1> HIDE DEF m, p
<1>3. Moves(n, s, p, x) /\ SameBook(s[x], p[x])
  BY <1>1, <1>2, MovesPost
<1>4. Types(p, n) /\ p[x] \in Chat(n)
  BY <1>3 DEF Moves, Step, Types
<1> DEFINE c == p[x]
<1>5. c \in Chat(n) /\ c = p[x]
  BY <1>4
<1>6. t = [p EXCEPT ![x] = [c EXCEPT !.ex = "aborted"]]
  BY <1>2
<1> HIDE DEF c
<1>7. [c EXCEPT !.ex = "aborted"] = Exchanged(c, "aborted", c.id, c.exkey)
  BY <1>5 DEF Chat, Exchanged
<1>8. t = With(p, x, Exchanged(p[x], "aborted", p[x].id, p[x].exkey))
  BY <1>5, <1>6, <1>7 DEF With
<1>9. p[x].id \in 0..(n - 1) /\ p[x].exkey \in SUBSET (0..(n - 1)) /\ "aborted" \in Exchanges /\ n \in Nat
  BY <1>4, ChatFields DEF Exchanges
<1>10. Moves(n, p, t, x) /\ SameBook(p[x], t[x])
  BY <1>4, <1>8, <1>9, MovesExchanged, SMTT(30)
<1> QED
  BY <1>3, <1>10, MovesTwice DEF SameBook

\* Two chats that differ in the state of the exchange are one when it is aborted.
LEMMA OneWhenAborted ==
    ASSUME NEW s, s = [y \in Side |-> s[y]], NEW x \in Side, NEW c, NEW d,
           [c EXCEPT !.ex = "aborted"] = [d EXCEPT !.ex = "aborted"],
           NEW p, p = [s EXCEPT ![x] = c], NEW q, q = [s EXCEPT ![x] = d]
    PROVE  [p EXCEPT ![x].ex = "aborted"] = [q EXCEPT ![x].ex = "aborted"]
<1>1. p[x] = c /\ q[x] = d /\ \A y \in Side \ {x} : p[y] = q[y]
  OBVIOUS
<1>2. p = [y \in Side |-> p[y]] /\ q = [y \in Side |-> q[y]]
  OBVIOUS
<1>3. [p EXCEPT ![x].ex = "aborted"] = [p EXCEPT ![x] = [c EXCEPT !.ex = "aborted"]]
  BY <1>1
<1>4. [q EXCEPT ![x].ex = "aborted"] = [q EXCEPT ![x] = [d EXCEPT !.ex = "aborted"]]
  BY <1>1
<1> QED
  BY <1>1, <1>2, <1>3, <1>4

\* ... also after both have said something.
LEMMA OneWhenSaid ==
    ASSUME NEW c, c = [i \in DOMAIN c |-> c[i]], {"ex", "asked", "out"} \subseteq DOMAIN c,
           NEW d, d = [c EXCEPT !.ex = "aborted"], NEW v
    PROVE  /\ [c EXCEPT !.ex = "aborted"] = [d EXCEPT !.ex = "aborted"]
           /\ [[c EXCEPT !.asked = v] EXCEPT !.ex = "aborted"] = [[d EXCEPT !.asked = v] EXCEPT !.ex = "aborted"]
           /\ [[c EXCEPT !.out = v] EXCEPT !.ex = "aborted"] = [[d EXCEPT !.out = v] EXCEPT !.ex = "aborted"]
<1>1. [c EXCEPT !.ex = "aborted"] = [d EXCEPT !.ex = "aborted"]
  OBVIOUS
<1>2. ASSUME NEW e, e = [c EXCEPT !.asked = v], NEW f, f = [d EXCEPT !.asked = v]
      PROVE  [e EXCEPT !.ex = "aborted"] = [f EXCEPT !.ex = "aborted"]
  BY <1>2
<1>3. ASSUME NEW e, e = [c EXCEPT !.out = v], NEW f, f = [d EXCEPT !.out = v]
      PROVE  [e EXCEPT !.ex = "aborted"] = [f EXCEPT !.ex = "aborted"]
  BY <1>3
<1> QED
  BY <1>1, <1>2, <1>3

\* A weak number: the exchange of the other side is aborted at once, whether or
\* not the own one was requested.
LEMMA AbortedAtOnce ==
    ASSUME NEW n, NEW s, s \in [Side -> Chat(n)], NEW x \in Side, s[x].ex # "committed",
           NEW id, NEW p, p = [s EXCEPT ![x].id = id],
           NEW q, q = With(s, x, Exchanged(s[x], "aborted", id, s[x].exkey))
    PROVE  Aborted(p, x) = Aborted(q, x)
<1> DEFINE c == p[x]  d == q[x]  m == Secret("abort", {}, id)
           sealed == [m EXCEPT !.key = c.key, !.fp = c.fp]
           said == Append(c.asked, sealed)  waiting == Append(c.out, m)
<1>1. /\ c = [s[x] EXCEPT !.id = id] /\ p = [s EXCEPT ![x] = c]
      /\ d = [c EXCEPT !.ex = "aborted"] /\ q = [s EXCEPT ![x] = d]
  BY DEF With, Exchanged, Chat
<1>a. /\ s[x] = [i \in DOMAIN s[x] |-> s[x][i]]
      /\ {"id", "chat", "ready", "out", "asked", "key", "fp", "ex"} \subseteq DOMAIN s[x]
  <2>1. s[x] \in Chat(n)
    OBVIOUS
  <2> QED
    BY <2>1 DEF Chat
<1>b. /\ c.id = id /\ c.chat = s[x].chat /\ c.ready = s[x].ready /\ c.out = s[x].out
      /\ c.asked = s[x].asked /\ c.key = s[x].key /\ c.fp = s[x].fp /\ c.ex = s[x].ex
      /\ c = [i \in DOMAIN c |-> c[i]]
      /\ {"id", "chat", "ready", "out", "asked", "key", "fp", "ex"} \subseteq DOMAIN c
  <2> DEFINE o == s[x]
  <2>1. c = [o EXCEPT !.id = id]
    BY <1>1
  <2> HIDE DEF c
  <2> QED
    BY <1>a, <2>1
<1>c. /\ d.id = c.id /\ d.chat = c.chat /\ d.ready = c.ready /\ d.out = c.out
      /\ d.asked = c.asked /\ d.key = c.key /\ d.fp = c.fp /\ d.ex = "aborted"
      /\ d = [i \in DOMAIN d |-> d[i]]
      /\ {"id", "chat", "ready", "out", "asked", "key", "fp", "ex"} \subseteq DOMAIN d
  <2>1. d = [c EXCEPT !.ex = "aborted"]
    BY <1>1
  <2> HIDE DEF c, d
  <2> QED
    BY <1>b, <2>1
<1>2. /\ c.id = id /\ d.id = id /\ c.chat = d.chat /\ c.ready = d.ready /\ c.out = d.out
      /\ c.asked = d.asked /\ c.key = d.key /\ c.fp = d.fp
      /\ c.ex # "committed" /\ d.ex # "committed"
  <2> HIDE DEF c, d
  <2> QED
    BY <1>b, <1>c
<1>3. /\ c = [i \in DOMAIN c |-> c[i]] /\ {"ex", "asked", "out"} \subseteq DOMAIN c
      /\ d = [i \in DOMAIN d |-> d[i]] /\ {"ex", "asked", "out"} \subseteq DOMAIN d
  <2> HIDE DEF c, d
  <2> QED
    BY <1>b, <1>c
<1>4. /\ c = p[x] /\ d = q[x] /\ sealed = [m EXCEPT !.key = d.key, !.fp = d.fp]
      /\ said = Append(d.asked, sealed) /\ waiting = Append(d.out, m)
      /\ s = [y \in Side |-> s[y]]
  BY <1>2
<1> HIDE DEF c, d, sealed, said, waiting
<1>5. /\ [c EXCEPT !.ex = "aborted"] = [d EXCEPT !.ex = "aborted"]
      /\ [[c EXCEPT !.asked = said] EXCEPT !.ex = "aborted"] = [[d EXCEPT !.asked = said] EXCEPT !.ex = "aborted"]
      /\ [[c EXCEPT !.out = waiting] EXCEPT !.ex = "aborted"] = [[d EXCEPT !.out = waiting] EXCEPT !.ex = "aborted"]
  BY <1>1, <1>3, OneWhenSaid
<1>e. /\ Aborted(p, x) = [Post(p, x, m) EXCEPT ![x].ex = "aborted"]
      /\ Aborted(q, x) = [Post(q, x, m) EXCEPT ![x].ex = "aborted"]
  <2>1. p[x].id = id /\ q[x].id = id
    BY <1>2, <1>4
  <2> QED
    BY <2>1 DEF Aborted
<1> HIDE DEF m
<1>6. CASE c.chat # "ok"
  <2>1. Post(p, x, m) = p /\ Post(q, x, m) = q
    BY <1>2, <1>4, <1>6 DEF Post
  <2>2. [p EXCEPT ![x].ex = "aborted"] = [q EXCEPT ![x].ex = "aborted"]
    BY <1>1, <1>4, <1>5, OneWhenAborted
  <2> QED
    BY <1>e, <2>1, <2>2
<1>7. CASE c.chat = "ok" /\ ~c.ready
  <2> DEFINE a == [s EXCEPT ![x] = [c EXCEPT !.out = waiting]]
             b == [s EXCEPT ![x] = [d EXCEPT !.out = waiting]]
  <2>1. Post(p, x, m) = a /\ Post(q, x, m) = b
    BY <1>1, <1>2, <1>4, <1>7 DEF Post, waiting
  <2>2. [a EXCEPT ![x].ex = "aborted"] = [b EXCEPT ![x].ex = "aborted"]
    BY <1>4, <1>5, OneWhenAborted
  <2> HIDE DEF a, b
  <2> QED
    BY <1>e, <2>1, <2>2
<1>8. CASE c.chat = "ok" /\ c.ready
  <2> DEFINE a == [s EXCEPT ![x] = [c EXCEPT !.asked = said]]
             b == [s EXCEPT ![x] = [d EXCEPT !.asked = said]]
  <2>1. Post(p, x, m) = WillSend(p, x, m) /\ Post(q, x, m) = WillSend(q, x, m)
    BY <1>2, <1>4, <1>8 DEF Post
  <2>2. [c EXCEPT !.asked = said].ex # "committed" /\ [d EXCEPT !.asked = said].ex # "committed"
    BY <1>2, <1>3
  <2>3. /\ WillSend(p, x, m) = [p EXCEPT ![x] = [c EXCEPT !.asked = said]]
        /\ WillSend(q, x, m) = [q EXCEPT ![x] = [d EXCEPT !.asked = said]]
    <3>1. [p[x] EXCEPT !.asked = Append(@, [m EXCEPT !.key = p[x].key, !.fp = p[x].fp])]
            = [c EXCEPT !.asked = said]
      BY <1>4 DEF said, sealed
    <3>2. [q[x] EXCEPT !.asked = Append(@, [m EXCEPT !.key = q[x].key, !.fp = q[x].fp])]
            = [d EXCEPT !.asked = said]
      BY <1>4
    <3> QED
      BY <2>2, <3>1, <3>2 DEF WillSend
  <2>4. [p EXCEPT ![x] = [c EXCEPT !.asked = said]] = a /\ [q EXCEPT ![x] = [d EXCEPT !.asked = said]] = b
    BY <1>1
  <2>5. [a EXCEPT ![x].ex = "aborted"] = [b EXCEPT ![x].ex = "aborted"]
    BY <1>4, <1>5, OneWhenAborted
  <2>6. Post(p, x, m) = a /\ Post(q, x, m) = b
    BY <2>1, <2>3, <2>4
  <2> HIDE DEF a, b
  <2> QED
    BY <1>e, <2>5, <2>6
<1> QED
  BY <1>6, <1>7, <1>8

\* What the messages of the exchange are.
LEMMA TalkIs ==
    ASSUME NEW n \in Nat \ {0}, NEW id \in 0..(n - 1), NEW b \in 0..(n - 1)
    PROVE  /\ Secret("request", {b}, b) \in Message(n) /\ Secret("request", {b}, b).type \in InChat
           /\ b > id => Secret("accept", {b}, id) \in Message(n) /\ Secret("accept", {b}, id).type \in InChat
           /\ Secret("commit", {}, id) \in Message(n) /\ Secret("commit", {}, id).type \in InChat
           /\ Secret("noop", {}, 0) \in Message(n) /\ Secret("noop", {}, 0).type \in InChat
           /\ Secret("text", {}, 0) \in Message(n) /\ Secret("text", {}, 0).type \in InChat
<1>1. /\ "request" \in InChat /\ "accept" \in InChat /\ "commit" \in InChat /\ "noop" \in InChat
      /\ "text" \in InChat /\ 0 \in 0..(n - 1) /\ {} \in SUBSET (0..(n - 1)) /\ {b} \in SUBSET (0..(n - 1))
  BY DEF InChat
<1>2. Secret("request", {b}, b) \in Message(n) /\ Secret("request", {b}, b).type \in InChat
  <2> DEFINE m == Secret("request", {b}, b)
  <2>1. m.type = "request" /\ m.g = {b} /\ m.id = b /\ (Formed(m) => m \in Message(n))
    BY <1>1, SecretIs
  <2> HIDE DEF m
  <2> QED
    BY <1>1, <2>1 DEF Formed, m
<1>3. ASSUME b > id
      PROVE  Secret("accept", {b}, id) \in Message(n) /\ Secret("accept", {b}, id).type \in InChat
  <2> DEFINE m == Secret("accept", {b}, id)
  <2>1. m.type = "accept" /\ m.g = {b} /\ m.id = id /\ (Formed(m) => m \in Message(n))
    BY <1>1, SecretIs
  <2> HIDE DEF m
  <2> QED
    BY <1>1, <1>3, <2>1 DEF Formed, m
<1>4. Secret("commit", {}, id) \in Message(n) /\ Secret("commit", {}, id).type \in InChat
  <2> DEFINE m == Secret("commit", {}, id)
  <2>1. m.type = "commit" /\ (Formed(m) => m \in Message(n))
    BY <1>1, SecretIs
  <2> HIDE DEF m
  <2> QED
    BY <1>1, <2>1 DEF Formed, m
<1>5. Secret("noop", {}, 0) \in Message(n) /\ Secret("noop", {}, 0).type \in InChat
  <2> DEFINE m == Secret("noop", {}, 0)
  <2>1. m.type = "noop" /\ (Formed(m) => m \in Message(n))
    BY <1>1, SecretIs
  <2> HIDE DEF m
  <2> QED
    BY <1>1, <2>1 DEF Formed, m
<1>6. Secret("text", {}, 0) \in Message(n) /\ Secret("text", {}, 0).type \in InChat
  <2> DEFINE m == Secret("text", {}, 0)
  <2>1. m.type = "text" /\ (Formed(m) => m \in Message(n))
    BY <1>1, SecretIs
  <2> HIDE DEF m
  <2> QED
    BY <1>1, <2>1 DEF Formed, m
<1> QED
  BY <1>2, <1>3, <1>4, <1>5, <1>6

\* The key of the other side is accepted.
LEMMA MovesAccepted ==
    ASSUME NEW n \in Nat \ {0}, NEW s, Types(s, n), NEW x \in Side, NEW m \in Message(n),
           m.type = "request", NEW b \in 0..(n - 1), b > m.id, NEW t, t = Accepted(s, x, m, b)
    PROVE  Moves(n, s, t, x) /\ SameBook(s[x], t[x])
<1> DEFINE k == m.g \cup {b}
           p == With(s, x, Exchanged(s[x], "accepted", m.id, k))
           l == Secret("accept", {b}, m.id)
<1>1. m.id \in 0..(n - 1) /\ m.g = {m.id} /\ m.g \in SUBSET (0..(n - 1)) /\ n \in Nat
  BY Fields DEF Formed
<1>2. k \in SUBSET (0..(n - 1)) /\ m.id \in k /\ Pair(k)
  BY <1>1 DEF Pair
<1>3. t = Post(p, x, l)
  BY DEF Accepted, With, Exchanged
<1>4. l \in Message(n) /\ l.type \in InChat
  BY <1>1, TalkIs
<1>5. "accepted" \in Exchanges /\ p = With(s, x, Exchanged(s[x], "accepted", m.id, k))
  BY DEF Exchanges
<1> HIDE DEF k, p, l
<1>6. Moves(n, s, p, x) /\ SameBook(s[x], p[x])
  BY <1>1, <1>2, <1>5, MovesExchanged
<1>7. Moves(n, p, t, x) /\ SameBook(p[x], t[x])
  BY <1>3, <1>4, <1>6, MovesPost DEF Moves, Step
<1> QED
  BY <1>6, <1>7, MovesTwice DEF SameBook

\* The own request is accepted: the key is committed.
LEMMA MovesCommitted ==
    ASSUME NEW n \in Nat \ {0}, NEW s, Types(s, n), NEW x \in Side, NEW m \in Message(n),
           m.type = "accept", s[x].ex = "requested", s[x].id = m.id, NEW t, t = Committed(s, x, m)
    PROVE  Moves(n, s, t, x) /\ SameBook(s[x], t[x])
<1> DEFINE c == s[x]  k == c.exkey \cup m.g
           p == With(s, x, Exchanged(c, "committed", c.id, k))
           l == Secret("commit", {}, m.id)
<1>1. /\ m.id \in 0..(n - 1) /\ m.g \in SUBSET (0..(n - 1)) /\ n \in Nat
      /\ \E b \in m.g : b > m.id /\ m.g = {b}
  BY Fields DEF Formed
<1>2. /\ c \in Chat(n) /\ c.exkey = {c.id} /\ c.id = m.id /\ c = s[x]
      /\ c.exkey \in SUBSET (0..(n - 1)) /\ c.id \in 0..(n - 1)
  BY ChatFields DEF Types, Exchanging
<1> HIDE DEF c
<1>3. k \in SUBSET (0..(n - 1)) /\ c.id \in k /\ Pair(k)
  <2>1. PICK b \in m.g : b > m.id /\ m.g = {b}
    BY <1>1
  <2>2. k = {c.id, b} /\ c.id # b /\ c.id \in k /\ b \in k
    BY <1>1, <1>2, <2>1
  <2> QED
    BY <1>1, <1>2, <2>2 DEF Pair
<1>4. t = Post(p, x, l)
  <2>1. [c EXCEPT !.exkey = @ \cup m.g, !.ex = "committed"] = Exchanged(c, "committed", c.id, k)
    BY <1>2 DEF Chat, Exchanged
  <2>2. [s EXCEPT ![x].exkey = @ \cup m.g, ![x].ex = "committed"]
            = [s EXCEPT ![x] = [c EXCEPT !.exkey = @ \cup m.g, !.ex = "committed"]]
    BY <1>2 DEF Types
  <2> QED
    BY <2>1, <2>2 DEF Committed, With
<1>5. "committed" \in Exchanges /\ p = With(s, x, Exchanged(s[x], "committed", c.id, k))
  BY <1>2 DEF Exchanges
<1>6. l \in Message(n) /\ l.type \in InChat
  BY <1>1, TalkIs
<1> HIDE DEF k, p, l
<1>7. Moves(n, s, p, x) /\ SameBook(s[x], p[x])
  BY <1>1, <1>2, <1>3, <1>5, MovesExchanged
<1>8. Moves(n, p, t, x) /\ SameBook(p[x], t[x])
  BY <1>4, <1>6, <1>7, MovesPost DEF Moves, Step
<1> QED
  BY <1>7, <1>8, MovesTwice DEF SameBook

\* What a message makes of the exchange.
LEMMA MovesExchange ==
    ASSUME NEW n \in Nat \ {0}, NEW s, Types(s, n), NEW x \in Side, NEW m \in Message(n),
           NEW b, m.type = "request" => b \in 0..(n - 1) /\ b > m.id,
           NEW t, t = Exchange(s, x, m, b)
    PROVE  Moves(n, s, t, x) /\ SameBook(s[x], t[x])
<1>1. \/ m.type = "request" /\ t = Accepted(s, x, m, b)
      \/ m.type = "accept" /\ s[x].ex = "requested" /\ s[x].id = m.id /\ t = Committed(s, x, m)
      \/ /\ m.type = "commit" /\ s[x].ex = "accepted"
         /\ t = Post([s EXCEPT ![x] = Confirmed(s[x])], x, Secret("noop", {}, 0))
      \/ t = Aborted(s, x)
      \/ t = s
  BY DEF Exchange
<1>2. CASE m.type = "request" /\ t = Accepted(s, x, m, b)
  BY <1>2, MovesAccepted
<1>3. CASE m.type = "accept" /\ s[x].ex = "requested" /\ s[x].id = m.id /\ t = Committed(s, x, m)
  BY <1>3, MovesCommitted
<1>4. CASE /\ m.type = "commit" /\ s[x].ex = "accepted"
           /\ t = Post([s EXCEPT ![x] = Confirmed(s[x])], x, Secret("noop", {}, 0))
  <2> DEFINE p == With(s, x, Confirmed(s[x]))  l == Secret("noop", {}, 0)
  <2>1. p = With(s, x, Confirmed(s[x])) /\ t = Post(p, x, l)
    BY <1>4 DEF With
  <2>2. l \in Message(n) /\ l.type \in InChat
    <3>1. 0 \in 0..(n - 1)
      OBVIOUS
    <3> QED
      BY <3>1, TalkIs
  <2> HIDE DEF p, l
  <2>3. Moves(n, s, p, x) /\ SameBook(s[x], p[x])
    BY <1>4, <2>1, MovesConfirmed
  <2>4. Moves(n, p, t, x) /\ SameBook(p[x], t[x])
    BY <2>1, <2>2, <2>3, MovesPost DEF Moves, Step
  <2> QED
    BY <2>3, <2>4, MovesTwice DEF SameBook
<1>5. CASE t = Aborted(s, x)
  BY <1>5, MovesAborted
<1>6. CASE t = s
  <2>1. Talked(s[x], t[x])
    BY <1>6, TalkedSame DEF SameLife, SameKeys
  <2> QED
    BY <1>6, <2>1 DEF Moves, Step, SameCount, SameLife, SameBook
<1> QED
  BY <1>1, <1>2, <1>3, <1>4, <1>5, <1>6

\* A side that has its key, and the other has it too, takes a step in the chat.
LEMMA LivingMoves ==
    ASSUME NEW n \in Nat \ {0}, NEW s, NEW t, NEW x \in Side, NEW v, Types(s, n), Living(s, v),
           Moves(n, s, t, x), s[x].fp # {},
           \/ s["alice"].fp # {}
           \/ SameKeys(s[x], t[x]) /\ t["bob"].ex \in {"none", "requested"}
    PROVE  Living(t, v)
<1>1. Types(t, n) /\ t[Other(x)] = s[Other(x)] /\ Talked(s[x], t[x])
  BY DEF Moves, Step
<1>2. Talked(s[Other(x)], t[Other(x)]) /\ SameKeys(s[Other(x)], t[Other(x)])
  BY <1>1, TalkedSame DEF SameLife, SameKeys
<1>3. /\ \A y \in Side : Talked(s[y], t[y])
      /\ SameKeys(s[x], t[x]) => \A y \in Side : SameKeys(s[y], t[y])
  BY <1>1, <1>2, Sides
<1> QED
  BY <1>1, <1>3, LivingTalked

\* Moves inside the chat keep the counts.
LEMMA CountedMoves ==
    ASSUME NEW n, NEW s, NEW t, NEW x \in Side, NEW f, Moves(n, s, t, x), Counted(s, f)
    PROVE  Counted(t, f)
<1>1. SameCount(s[x], t[x]) /\ t[Other(x)] = s[Other(x)]
  BY DEF Moves, Step
<1>2. SameCount(s[Other(x)], t[Other(x)])
  BY <1>1 DEF SameCount, SameLife
<1>3. \A y \in Side : SameCount(s[y], t[y])
  BY <1>1, <1>2, Sides
<1> QED
  BY <1>3, CountedSame

\* The counts allow for one more fault.
LEMMA CountedMore ==
    ASSUME NEW s, NEW f \in Nat, NEW n \in Nat, Types(s, n), Counted(s, f)
    PROVE  Counted(s, f + 1)
<1>1. s["alice"].called \in Nat /\ s["bob"].called \in Nat
  BY ChatFields DEF Types, Side
<1> QED
  BY <1>1 DEF Counted

\* A fault is one of those there may be.
LEMMA FaultIs ==
    ASSUME NEW kind, faults \in 0..MaxFaults, Fault(kind)
    PROVE  faults' = faults + 1 /\ faults' \in 0..MaxFaults /\ faults \in Nat
BY SecretChatsAssumption DEF Fault

\* Dropping what cannot be read keeps the invariant.
LEMMA DropHolds ==
    ASSUME Lasting, NEW x \in Side, st[x].inbox # <<>>, Drop(x), UNCHANGED srv
    PROVE  Lasting'
<1> DEFINE m == First(x)  u == Taken(x)
<1>1. /\ fresh \in Nat \ {0} /\ Types(st, fresh) /\ faults \in 0..MaxFaults
      /\ Counted(st, faults) /\ (spoiled = {} => Living(st, srv)) /\ fresh \in Nat
  BY DEF Lasting, Holds
<1>2. /\ st' = u /\ fresh' = fresh /\ srv' = srv /\ faults' = faults /\ spoiled' = spoiled
      /\ m.type \in InChat
  BY DEF Drop, Taken
<1>3. m = First(x) /\ u = Taken(x)
  OBVIOUS
<1> HIDE DEF m, u
<1>4. Step(fresh, st, u, x) /\ SameBook(st[x], u[x]) /\ Heard(st[x], u[x])
  BY <1>1, <1>3, TakenIs
<1>5. Counted(u, faults)
  <2>1. SameCount(st[x], u[x])
    BY <1>4 DEF Heard, SameBook, SameCount
  <2>2. SameCount(st[Other(x)], u[Other(x)])
    BY <1>4 DEF Step, SameCount, SameLife
  <2>3. \A y \in Side : SameCount(st[y], u[y])
    BY <2>1, <2>2, Sides
  <2> QED
    BY <1>1, <2>3, CountedSame
<1>6. ASSUME spoiled = {}
      PROVE  Living(u, srv)
  <2>1. Living(st, srv)
    BY <1>1, <1>6
  <2>2. Reading(fresh, st, u, x, srv, m)
    BY <1>1, <1>3, <2>1, TakenReads
  <2>3. m.type \notin {"requested", "discarded", "chat"} /\ m.type # "declined"
    BY <1>2 DEF InChat
  <2> QED
    BY <1>1, <2>1, <2>2, <2>3, LivingByNothing
<1> QED
  BY <1>1, <1>2, <1>4, <1>5, <1>6 DEF Lasting, Holds, Step

\* Reading a message of the chat keeps the invariant.
LEMMA ReadMessageHolds ==
    ASSUME Lasting, NEW x \in Side, st[x].inbox # <<>>, ReadMessage(x), UNCHANGED srv
    PROVE  Lasting'
<1> DEFINE m == First(x)  u == Taken(x)  c == Adopted(st[x], m)
           s == [u EXCEPT ![x] = [c EXCEPT !.inbox = Tail(@)]]
           n == IF m.type = "request" THEN fresh + 1 ELSE fresh
           p == [s EXCEPT ![x].id = m.id]
<1>1. /\ fresh \in Nat \ {0} /\ Types(st, fresh) /\ faults \in 0..MaxFaults
      /\ Counted(st, faults) /\ (spoiled = {} => Living(st, srv)) /\ fresh \in Nat
  BY DEF Lasting, Holds
<1>2. /\ fresh' = n /\ srv' = srv /\ spoiled' = spoiled
      /\ m.type \in InChat /\ st[x].chat = "ok"
      /\ \/ st' = Exchange(s, x, m, fresh) /\ faults' = faults
         \/ c.ex \in {"none", "requested"} /\ Fault("weak") /\ st' = Aborted(p, x)
  BY DEF ReadMessage, Examined
<1>3. n \in Nat \ {0} /\ n \in Nat /\ Types(st, n) /\ (m.type = "request" => fresh \in 0..(n - 1))
  BY <1>1, MoreNumbers
<1>4. m = First(x) /\ u = Taken(x)
  OBVIOUS
<1>5. Step(n, st, u, x) /\ SameBook(st[x], u[x]) /\ Heard(st[x], u[x]) /\ m \in Message(n)
      /\ m \in Message(fresh)
  BY <1>1, <1>3, TakenIs
<1>6. m.type = "request" => fresh \in 0..(n - 1) /\ fresh > m.id
  <2> HIDE DEF m, n
  <2>1. m.id \in 0..(fresh - 1)
    BY <1>1, <1>5, Fields
  <2> QED
    BY <1>1, <1>3, <2>1
<1>7. s = u \/ (u[x].ex = "committed" /\ s = With(u, x, Confirmed(u[x])))
  <2>1. st[x] \in Chat(n) /\ u = [st EXCEPT ![x] = [st[x] EXCEPT !.inbox = Tail(@)]]
    BY <1>3 DEF Types, Taken
  <2>2. u[x] = [st[x] EXCEPT !.inbox = Tail(@)]
    BY <1>3, <2>1 DEF Types
  <2>3. CASE c = st[x]
    BY <2>1, <2>2, <2>3
  <2>4. CASE st[x].ex = "committed" /\ c = Confirmed(st[x])
    <3> DEFINE d == st[x]  q == Tail(d.inbox)
    <3>1. c.inbox = d.inbox /\ c = Confirmed(d)
      BY <2>1, <2>4, <1>3, ConfirmedIs
    <3>2. [c EXCEPT !.inbox = q] = Confirmed([d EXCEPT !.inbox = q])
      BY <2>1, <3>1 DEF Chat, Confirmed
    <3>3. [c EXCEPT !.inbox = Tail(@)] = Confirmed(u[x])
      BY <2>2, <3>1, <3>2
    <3>4. u[x].ex = "committed"
      BY <2>1, <2>2, <2>4 DEF Chat
    <3> HIDE DEF c, d, q, u
    <3> QED
      BY <3>3, <3>4 DEF With
  <2> QED
    BY <2>3, <2>4 DEF Adopted
<1> DEFINE ex == c.ex
<1>8. s[x].ex = ex /\ s[x].id = c.id
  <2>1. st[x] \in Chat(n) /\ c \in Chat(n)
    BY <1>3, ConfirmedIs DEF Types, Adopted
  <2>2. s[x] = [c EXCEPT !.inbox = Tail(@)]
    BY <1>3 DEF Types, Taken
  <2> HIDE DEF c, s
  <2> QED
    BY <2>1, <2>2 DEF Chat
<1> HIDE DEF m, u, c, s, n, p, ex
<1>9. Moves(n, u, s, x)
  <2>0. Types(u, n)
    BY <1>5 DEF Step
  <2>1. CASE s = u
    <3>1. Talked(u[x], s[x])
      BY <2>1, TalkedSame DEF SameLife, SameKeys
    <3> QED
      BY <2>0, <2>1, <3>1 DEF Moves, Step, SameCount, SameLife
  <2>2. CASE u[x].ex = "committed" /\ s = With(u, x, Confirmed(u[x]))
    BY <1>3, <2>0, <2>2, MovesConfirmed
  <2> QED
    BY <1>7, <2>1, <2>2
<1>10. Types(s, n)
  BY <1>9 DEF Moves, Step
<1>11. Moves(n, s, st', x) /\ (faults' = faults \/ (faults' = faults + 1 /\ faults' \in 0..MaxFaults))
  <2>1. CASE st' = Exchange(s, x, m, fresh) /\ faults' = faults
    BY <1>3, <1>5, <1>6, <1>10, <2>1, MovesExchange
  <2>2. CASE ex \in {"none", "requested"} /\ Fault("weak") /\ st' = Aborted(p, x)
    <3> DEFINE k == s[x].exkey  id == m.id  q == With(s, x, Exchanged(s[x], "aborted", id, k))
    <3>1. s \in [Side -> Chat(n)] /\ s[x] \in Chat(n) /\ s[x].ex # "committed"
      BY <1>8, <1>10, <2>2 DEF Types
    <3>2. p = [s EXCEPT ![x].id = id]
      BY DEF p
    <3>3. k \in SUBSET (0..(n - 1)) /\ id \in 0..(n - 1) /\ "aborted" \in Exchanges
      BY <1>3, <1>5, <3>1, ChatFields, Fields DEF Exchanges
    <3>4. q = With(s, x, Exchanged(s[x], "aborted", id, k)) /\ k = s[x].exkey
      OBVIOUS
    <3> HIDE DEF k, id, q
    <3>5. st' = Aborted(q, x)
      BY <2>2, <3>1, <3>2, <3>4, AbortedAtOnce
    <3>6. Moves(n, s, q, x)
      <4> DEFINE ex2 == "aborted"
      <4>1. /\ ex2 \in Exchanges /\ q = With(s, x, Exchanged(s[x], ex2, id, k))
            /\ ex2 = "requested" => k = {id}
            /\ ex2 \in {"accepted", "committed"} => id \in k /\ Pair(k)
        BY <3>3, <3>4
      <4>2. n \in Nat /\ Types(s, n)
        BY <1>3, <1>10
      <4> HIDE DEF ex2
      <4> QED
        BY <3>3, <4>1, <4>2, MovesExchanged
    <3>7. Types(q, n)
      BY <3>6 DEF Moves, Step
    <3>8. Moves(n, q, st', x)
      BY <1>3, <3>5, <3>7, MovesAborted
    <3> QED
      BY <1>1, <2>2, <3>6, <3>8, MovesTwice, FaultIs
  <2> QED
    BY <1>2, <1>8, <2>1, <2>2 DEF ex
<1>12. Moves(n, u, st', x)
  BY <1>9, <1>11, MovesTwice
<1>13. Counted(st', faults')
  <2>1. Counted(u, faults)
    <3>1. SameCount(st[x], u[x])
      BY <1>5 DEF Heard, SameBook, SameCount
    <3>2. SameCount(st[Other(x)], u[Other(x)])
      BY <1>5 DEF Step, SameCount, SameLife
    <3>3. \A y \in Side : SameCount(st[y], u[y])
      BY <3>1, <3>2, Sides
    <3> QED
      BY <1>1, <3>3, CountedSame
  <2>2. Counted(st', faults)
    BY <1>12, <2>1, CountedMoves
  <2>3. Types(st', n) /\ faults \in Nat
    BY <1>1, <1>12, SecretChatsAssumption DEF Moves, Step
  <2> QED
    BY <1>3, <1>11, <2>2, <2>3, CountedMore
<1>14. ASSUME spoiled = {}
       PROVE  Living(st', srv)
  <2>1. Living(st, srv)
    BY <1>1, <1>14
  <2>2. Reading(n, st, u, x, srv, m)
    BY <1>3, <1>4, <2>1, TakenReads
  <2>3. m.type \notin {"requested", "discarded", "chat"} /\ m.type # "declined"
    BY <1>2 DEF InChat
  <2>4. Living(u, srv) /\ Types(u, n)
    BY <1>3, <2>1, <2>2, <2>3, LivingByNothing DEF Reading
  <2>5. u[x].fp # {}
    <3>1. u[x].chat = "ok"
      BY <1>2, <1>5 DEF Heard, SameLife
    <3> QED
      BY <2>4, <3>1 DEF Living, Life, Keyed
  <2>6. u["alice"].fp # {}
    <3>1. CASE x = "alice"
      BY <2>5, <3>1
    <3>2. CASE x = "bob"
      <4>1. Has(st["bob"].inbox, InChat)
        <5>1. \A T : m.type \in T => Has(st[x].inbox, T)
          BY <1>3, <2>2, ReadingIs
        <5> QED
          BY <1>2, <3>2, <5>1
      <4>2. st["alice"].fp # {}
        BY <2>1, <4>1 DEF Living, Silent
      <4>3. u["alice"] = st["alice"]
        BY <1>5, <3>2 DEF Step, Other
      <4> QED
        BY <4>2, <4>3
    <3> QED
      BY <3>1, <3>2 DEF Side
  <2> QED
    BY <1>3, <1>12, <2>4, <2>5, <2>6, LivingMoves
<1> QED
  BY <1>1, <1>2, <1>3, <1>11, <1>12, <1>13, <1>14 DEF Lasting, Holds, Moves, Step

\* What a side that has no key committed says leaves its life as it is.
LEMMA LivingSaid ==
    ASSUME NEW n \in Nat \ {0}, NEW s, NEW t, NEW x \in Side, NEW v, Types(s, n), Living(s, v),
           Moves(n, s, t, x), s[x].fp # {},
           s[x].ex # "committed" => SameKeys(s[x], t[x]) /\ t[x].ex \in {s[x].ex, "requested"}
    PROVE  Living(t, v)
<1>1. CASE s["alice"].fp # {}
  BY <1>1, LivingMoves
<1>2. CASE s["alice"].fp = {}
  <2>1. x = "bob" /\ s["bob"].ex \in {"none", "requested"}
    BY <1>2 DEF Living, Silent, Side
  <2>2. SameKeys(s[x], t[x]) /\ t["bob"].ex \in {"none", "requested"}
    BY <2>1
  <2> QED
    BY <2>2, LivingMoves
<1> QED
  BY <1>1, <1>2

\* Saying something keeps the invariant.
LEMMA TextHolds ==
    ASSUME Lasting, NEW x \in Side, Text(x)
    PROVE  Lasting'
<1> DEFINE m == Secret("text", {}, 0)  p == Post(st, x, m)
<1>1. /\ fresh \in Nat \ {0} /\ Types(st, fresh) /\ faults \in 0..MaxFaults
      /\ Counted(st, faults) /\ (spoiled = {} => Living(st, srv)) /\ fresh \in Nat
  BY DEF Lasting, Holds
<1>2. /\ st' = [p EXCEPT ![x].texts = @ + 1] /\ st[x].chat = "ok"
      /\ fresh' = fresh /\ srv' = srv /\ faults' = faults /\ spoiled' = spoiled
  BY DEF Text
<1>3. m \in Message(fresh) /\ m.type \in InChat
  <2>1. 0 \in 0..(fresh - 1)
    BY <1>1
  <2> QED
    BY <1>1, <2>1, TalkIs
<1>4. p = Post(st, x, m)
  OBVIOUS
<1> HIDE DEF m, p
<1>5. /\ Moves(fresh, st, p, x)
      /\ st[x].ex # "committed" => SameExchange(st[x], p[x])
      /\ st[x].ex # "committed" /\ st[x].fp # {} => SameKeys(st[x], p[x])
  BY <1>1, <1>3, <1>4, MovesPost
<1> DEFINE c == p[x]
<1>6. c \in Chat(fresh) /\ c = p[x] /\ Types(p, fresh)
  BY <1>5 DEF Moves, Step, Types
<1>7. st' = [p EXCEPT ![x] = [c EXCEPT !.texts = c.texts + 1]]
  BY <1>2
<1> HIDE DEF c
<1>8. [c EXCEPT !.texts = c.texts + 1] = Noted(c, c.texts + 1, c.requests)
  BY <1>6 DEF Chat, Noted
<1>9. c.texts + 1 \in Nat /\ c.requests \in Nat
  BY <1>1, <1>6, ChatFields
<1>10. st' = With(p, x, Noted(p[x], c.texts + 1, c.requests))
  BY <1>6, <1>7, <1>8 DEF With
<1>11. Moves(fresh, p, st', x) /\ SameKeys(p[x], st'[x]) /\ SameExchange(p[x], st'[x])
  BY <1>1, <1>6, <1>9, <1>10, MovesNoted
<1>12. Moves(fresh, st, st', x)
  BY <1>5, <1>11, MovesTwice
<1>13. Counted(st', faults)
  BY <1>1, <1>12, CountedMoves
<1>14. ASSUME spoiled = {}
       PROVE  Living(st', srv)
  <2>1. Living(st, srv)
    BY <1>1, <1>14
  <2>2. st[x].fp # {}
    BY <1>2, <2>1 DEF Living, Life, Keyed
  <2>3. st[x].ex # "committed" => SameKeys(st[x], st'[x]) /\ st'[x].ex \in {st[x].ex, "requested"}
    BY <1>5, <1>11, <2>2 DEF SameKeys, SameExchange
  <2> QED
    BY <1>1, <1>12, <2>1, <2>2, <2>3, LivingSaid
<1> QED
  BY <1>1, <1>2, <1>12, <1>13, <1>14 DEF Lasting, Holds, Moves, Step

\* Asking for a new key keeps the invariant.
LEMMA RequestKeyHolds ==
    ASSUME Lasting, NEW x \in Side, RequestKey(x)
    PROVE  Lasting'
<1> DEFINE m == Secret("request", {fresh}, fresh)  p == Post(st, x, m)  n == fresh + 1
<1>1. /\ fresh \in Nat \ {0} /\ Types(st, fresh) /\ faults \in 0..MaxFaults
      /\ Counted(st, faults) /\ (spoiled = {} => Living(st, srv)) /\ fresh \in Nat
  BY DEF Lasting, Holds
<1>2. /\ st' = [p EXCEPT ![x].ex = "requested", ![x].id = fresh, ![x].exkey = {fresh},
                         ![x].requests = @ + 1]
      /\ st[x].chat = "ok" /\ st[x].ex = "none"
      /\ fresh' = n /\ srv' = srv /\ faults' = faults /\ spoiled' = spoiled
  BY DEF RequestKey
<1>3. n \in Nat \ {0} /\ n \in Nat /\ Types(st, n) /\ fresh \in 0..(n - 1) /\ {fresh} \in SUBSET (0..(n - 1))
  BY <1>1, MoreNumbers
<1>4. m \in Message(n) /\ m.type \in InChat
  BY <1>3, TalkIs
<1>5. p = Post(st, x, m)
  OBVIOUS
<1> HIDE DEF m, p, n
<1>6. /\ Moves(n, st, p, x)
      /\ st[x].fp # {} => SameKeys(st[x], p[x])
  BY <1>2, <1>3, <1>4, <1>5, MovesPost
<1> DEFINE c == p[x]  d == Exchanged(c, "requested", fresh, {fresh})  q == With(p, x, d)
<1>7. c \in Chat(n) /\ c = p[x] /\ Types(p, n)
  BY <1>6 DEF Moves, Step, Types
<1>8. st' = [p EXCEPT ![x] = [c EXCEPT !.ex = "requested", !.id = fresh, !.exkey = {fresh},
                                       !.requests = c.requests + 1]]
  BY <1>2
<1> HIDE DEF c
<1>9. [c EXCEPT !.ex = "requested", !.id = fresh, !.exkey = {fresh}, !.requests = c.requests + 1]
         = Noted(d, c.texts, c.requests + 1)
  BY <1>7 DEF Chat, Exchanged, Noted
<1>10. c.texts \in Nat /\ c.requests + 1 \in Nat
  BY <1>3, <1>7, ChatFields
<1>11. q[x] = d /\ st' = With(q, x, Noted(d, c.texts, c.requests + 1))
  BY <1>7, <1>8, <1>9 DEF With, Types
<1>12. q = With(p, x, Exchanged(p[x], "requested", fresh, {fresh})) /\ "requested" \in Exchanges
  BY <1>7 DEF Exchanges
<1> HIDE DEF d, q
<1>13. Moves(n, p, q, x) /\ SameKeys(p[x], q[x]) /\ q[x].ex = "requested"
  BY <1>3, <1>7, <1>12, MovesExchanged
<1>14. Moves(n, q, st', x) /\ SameKeys(q[x], st'[x]) /\ SameExchange(q[x], st'[x])
  <2>1. Types(q, n) /\ st' = With(q, x, Noted(q[x], c.texts, c.requests + 1))
    BY <1>11, <1>13 DEF Moves, Step
  <2> QED
    BY <1>3, <1>10, <2>1, MovesNoted
<1>15. Moves(n, st, st', x)
  BY <1>6, <1>13, <1>14, MovesTwice
<1>16. Counted(st', faults)
  BY <1>1, <1>15, CountedMoves
<1>17. ASSUME spoiled = {}
       PROVE  Living(st', srv)
  <2>1. Living(st, srv)
    BY <1>1, <1>17
  <2>2. st[x].fp # {}
    BY <1>2, <2>1 DEF Living, Life, Keyed
  <2>3. SameKeys(st[x], st'[x]) /\ st'[x].ex \in {st[x].ex, "requested"}
    BY <1>6, <1>13, <1>14, <2>2 DEF SameKeys, SameExchange
  <2> QED
    BY <1>3, <1>15, <2>1, <2>2, <2>3, LivingSaid
<1> QED
  BY <1>1, <1>2, <1>3, <1>15, <1>16, <1>17 DEF Lasting, Holds, Moves, Step

\* Losing or regaining readiness keeps the invariant.
LEMMA UnreadyHolds ==
    ASSUME Lasting, NEW x \in Side, NEW q \in BOOLEAN, st' = [st EXCEPT ![x].ready = q],
           faults' = faults \/ (faults' = faults + 1 /\ faults' \in 0..MaxFaults),
           UNCHANGED <<srv, fresh, spoiled>>
    PROVE  Lasting'
<1>1. /\ fresh \in Nat \ {0} /\ Types(st, fresh) /\ faults \in 0..MaxFaults /\ faults \in Nat
      /\ Counted(st, faults) /\ (spoiled = {} => Living(st, srv)) /\ fresh \in Nat
  BY SecretChatsAssumption DEF Lasting, Holds
<1>2. Step(fresh, st, st', x) /\ IsQueued(st[x], st'[x], q, st[x].out, st[x].asked, st[x].inbox)
  BY <1>1, ReadyIs
<1>3. Talked(st[x], st'[x])
  BY <1>2, TalkedSame DEF IsQueued, SameExchange
<1>4. Moves(fresh, st, st', x)
  BY <1>2, <1>3 DEF Moves, IsQueued, SameCount, SameBook
<1>5. Counted(st', faults')
  <2>1. Counted(st', faults)
    BY <1>1, <1>4, CountedMoves
  <2>2. Types(st', fresh)
    BY <1>2 DEF Step
  <2> QED
    BY <1>1, <2>1, <2>2, CountedMore
<1>6. ASSUME spoiled = {}
      PROVE  Living(st', srv)
  <2>1. Living(st, srv)
    BY <1>1, <1>6
  <2>2. Types(st', fresh) /\ st'[Other(x)] = st[Other(x)]
    BY <1>2 DEF Step
  <2>3. Talked(st[Other(x)], st'[Other(x)]) /\ SameKeys(st[Other(x)], st'[Other(x)])
        /\ st'[Other(x)].ex = st[Other(x)].ex
    BY <2>2, TalkedSame DEF SameLife, SameKeys
  <2>4. \A y \in Side : Talked(st[y], st'[y]) /\ SameKeys(st[y], st'[y]) /\ st'[y].ex = st[y].ex
    BY <1>2, <1>3, <2>3, Sides DEF IsQueued, SameExchange
  <2>5. st["alice"].fp = {} => st'["bob"].ex \in {"none", "requested"}
    BY <2>1, <2>4 DEF Living, Silent, Side
  <2> QED
    BY <1>1, <2>1, <2>2, <2>4, <2>5, LivingTalked
<1> QED
  BY <1>1, <1>2, <1>5, <1>6 DEF Lasting, Holds, Step

-----------------------------------------------------------------------------
(* What waits, and what is lost                                            *)

\* The next of the queries that wait is sent.
LEMMA FlushedHolds ==
    ASSUME Lasting, NEW x \in Side, st[x].out # <<>>,
           st' = WillSend([st EXCEPT ![x].out = Tail(@)], x, Head(st[x].out)),
           spoiled' = {} => spoiled = {}, UNCHANGED <<srv, fresh, faults>>
    PROVE  Lasting'
<1> DEFINE q == st[x].out  m == Head(q)  p == [st EXCEPT ![x].out = Tail(q)]
<1>1. /\ fresh \in Nat \ {0} /\ Types(st, fresh) /\ faults \in 0..MaxFaults
      /\ Counted(st, faults) /\ (spoiled = {} => Living(st, srv)) /\ fresh \in Nat
  BY DEF Lasting, Holds
<1>2. /\ q \in Seq(Message(fresh)) /\ q # <<>> /\ q = st[x].out
      /\ \A l \in ToSet(q) : l.type \in InChat
      /\ p = [st EXCEPT ![x].out = Tail(q)] /\ st' = WillSend(p, x, m) /\ m = Head(q)
  BY <1>1, QueuesAre DEF QueuesOf, Fit
<1> HIDE DEF q, m, p
<1>3. Tail(q) \in Seq(Message(fresh)) /\ m \in Message(fresh) /\ ToSet(q) = {m} \cup ToSet(Tail(q))
  BY <1>2, Rest
<1>4. m.type \in InChat /\ \A l \in ToSet(Tail(q)) : l.type \in InChat
  BY <1>2, <1>3
<1>5. Step(fresh, st, p, x) /\ IsQueued(st[x], p[x], st[x].ready, Tail(q), st[x].asked, st[x].inbox)
  BY <1>1, <1>2, <1>3, <1>4, OutIs
<1>6. Types(p, fresh) /\ p[Other(x)] = st[Other(x)] /\ p[x] \in Chat(fresh)
  BY <1>5 DEF Step, Types
<1>7. Types(st', fresh) /\ st'[Other(x)] = p[Other(x)] /\ st'[x] = Sent(p[x], m)
  <2> DEFINE t == st'
  <2>1. /\ fresh \in Nat \ {0} /\ Types(p, fresh) /\ x \in Side /\ m \in Message(fresh)
        /\ t = WillSend(p, x, m)
    BY <1>1, <1>2, <1>3, <1>6
  <2> HIDE DEF t
  <2>2. Types(t, fresh) /\ t[Other(x)] = p[Other(x)] /\ t[x] = Sent(p[x], m)
    BY <2>1, WillSendIs
  <2> QED
    BY <2>2 DEF t
<1>8. IsSent(p[x], st'[x], m)
  BY <1>1, <1>3, <1>6, <1>7, SentIs
<1>9. /\ Moves(fresh, st, st', x)
      /\ st[x].fp # {} /\ st[x].ex # "committed" =>
            SameKeys(st[x], st'[x]) /\ SameExchange(st[x], st'[x])
  <2>1. SameCount(st[x], st'[x]) /\ Step(fresh, st, st', x)
    BY <1>5, <1>6, <1>7, <1>8 DEF IsQueued, IsSent, SameCount, SameLife, SameBook, Step
  <2>2. ASSUME st[x].fp # {}
        PROVE  /\ Talked(st[x], st'[x])
               /\ st[x].ex # "committed" => SameKeys(st[x], st'[x]) /\ SameExchange(st[x], st'[x])
    <3>1. Talked(st[x], p[x])
      BY <1>5, <2>2, TalkedSame DEF IsQueued
    <3>2. p[x].fp # {} /\ SameKeys(st[x], p[x]) /\ SameExchange(st[x], p[x])
      BY <1>5, <2>2 DEF IsQueued, SameKeys
    <3>3. /\ Talked(p[x], st'[x])
          /\ p[x].ex # "committed" => SameKeys(p[x], st'[x]) /\ SameExchange(p[x], st'[x])
      BY <1>1, <1>3, <1>4, <1>6, <1>8, <3>2, TalkedSent
    <3>4. Talked(st[x], st'[x])
      BY <3>1, <3>3, TalkedTwice
    <3> QED
      BY <3>2, <3>3, <3>4 DEF SameKeys, SameExchange
  <2> QED
    BY <2>1, <2>2 DEF Moves
<1>10. Counted(st', faults)
  BY <1>1, <1>9, CountedMoves
<1>11. ASSUME spoiled' = {}
       PROVE  Living(st', srv)
  <2>1. Living(st, srv)
    BY <1>1, <1>11
  <2>2. st[x].fp # {}
    <3>1. CASE x = "alice"
      BY <1>2, <2>1, <3>1 DEF Living, Silent
    <3>2. CASE x = "bob"
      BY <1>2, <2>1, <3>2 DEF Living, Life, Acceptor
    <3> QED
      BY <3>1, <3>2 DEF Side
  <2>3. st[x].ex # "committed" => SameKeys(st[x], st'[x]) /\ st'[x].ex \in {st[x].ex, "requested"}
    BY <1>9, <2>2 DEF SameExchange
  <2> QED
    BY <1>1, <1>9, <2>1, <2>2, <2>3, LivingSaid
<1> QED
  BY <1>1, <1>7, <1>10, <1>11 DEF Lasting, Holds

\* Sending what is parked keeps the invariant.
LEMMA FlushHolds ==
    ASSUME Lasting, NEW x \in Side, Flush(x)
    PROVE  Lasting'
<1>1. CASE st[x].out = <<>>
  BY <1>1, UnreadyHolds DEF Flush
<1>2. CASE st[x].out # <<>>
  BY <1>2, FlushedHolds DEF Flush
<1> QED
  BY <1>1, <1>2

\* What has spoiled the chat leaves the types and the counts.
LEMMA SpoiledHolds ==
    ASSUME Lasting, NEW x \in Side, Step(fresh, st, st', x), SameCount(st[x], st'[x]),
           faults' = faults \/ (faults' = faults + 1 /\ faults' \in 0..MaxFaults),
           spoiled' # {}, UNCHANGED fresh
    PROVE  Lasting'
<1>1. /\ fresh \in Nat \ {0} /\ Types(st, fresh) /\ faults \in 0..MaxFaults /\ faults \in Nat
      /\ Counted(st, faults) /\ fresh \in Nat
  BY SecretChatsAssumption DEF Lasting, Holds
<1>2. Types(st', fresh) /\ st'[Other(x)] = st[Other(x)]
  BY DEF Step
<1>3. Counted(st', faults)
  <2>1. SameCount(st[Other(x)], st'[Other(x)])
    BY <1>2 DEF SameCount, SameLife
  <2>2. \A y \in Side : SameCount(st[y], st'[y])
    BY <2>1, Sides
  <2> QED
    BY <1>1, <2>2, CountedSame
<1>4. Counted(st', faults')
  BY <1>1, <1>2, <1>3, CountedMore
<1> QED
  BY <1>1, <1>2, <1>4 DEF Lasting, Holds

\* A crash and restart keeps the invariant.
LEMMA CrashHolds ==
    ASSUME Lasting, NEW x \in Side, Crash(x)
    PROVE  Lasting'
<1>1. fresh \in Nat /\ Types(st, fresh)
  BY DEF Lasting, Holds
<1>2. st' = [st EXCEPT ![x].out = <<>>] /\ spoiled' # {} /\ UNCHANGED <<fresh, faults>>
  BY DEF Crash
<1>3. <<>> \in Seq(Message(fresh)) /\ \A m \in ToSet(<<>>) : m.type \in InChat
  BY DEF ToSet
<1>4. Step(fresh, st, st', x) /\ IsQueued(st[x], st'[x], st[x].ready, <<>>, st[x].asked, st[x].inbox)
  BY <1>1, <1>2, <1>3, OutIs
<1>5. SameCount(st[x], st'[x])
  BY <1>4 DEF IsQueued, SameCount, SameBook
<1> QED
  BY <1>2, <1>4, <1>5, SpoiledHolds

\* Two messages that arrive out of order keep the invariant.
LEMMA LateHolds ==
    ASSUME Lasting, NEW x \in Side, Late(x)
    PROVE  Lasting'
<1> DEFINE q == st[x].inbox  r == <<q[2], q[1]>> \o SubSeq(q, 3, Len(q))
<1>1. fresh \in Nat /\ Types(st, fresh) /\ faults \in 0..MaxFaults
  BY DEF Lasting, Holds
<1>2. st' = [st EXCEPT ![x].inbox = r] /\ spoiled' # {} /\ UNCHANGED fresh
  BY DEF Late
<1>3. faults' = faults + 1 /\ faults' \in 0..MaxFaults
  BY <1>1, FaultIs DEF Late
<1>4. q \in Seq(Message(fresh)) /\ Len(q) > 1
  BY <1>1, QueuesAre DEF QueuesOf, Fit, Late
<1> HIDE DEF q
<1>5. r \in Seq(Message(fresh))
  <2>1. q[1] \in Message(fresh) /\ q[2] \in Message(fresh)
    BY <1>4
  <2>2. SubSeq(q, 3, Len(q)) \in Seq(Message(fresh))
    BY <1>4
  <2>3. <<q[2], q[1]>> \in Seq(Message(fresh))
    BY <2>1
  <2> QED
    BY <2>2, <2>3
<1> HIDE DEF r
<1>6. Step(fresh, st, st', x) /\ IsQueued(st[x], st'[x], st[x].ready, st[x].out, st[x].asked, r)
  BY <1>1, <1>2, <1>5, InboxIs
<1>7. SameCount(st[x], st'[x])
  BY <1>6 DEF IsQueued, SameCount, SameBook
<1> QED
  BY <1>2, <1>3, <1>6, <1>7, SpoiledHolds

-----------------------------------------------------------------------------
(* The calls of the application                                            *)

\* A call of the creator has timed out.
LEMMA TimeoutHolds ==
    ASSUME Lasting, NEW kind, Timeout(kind)
    PROVE  Lasting'
<1> DEFINE t == st'  a == st["alice"]  e == t["alice"]
<1>1. /\ fresh \in Nat \ {0} /\ Types(st, fresh) /\ faults \in 0..MaxFaults
      /\ Counted(st, faults) /\ (spoiled = {} => Living(st, srv)) /\ fresh \in Nat
  BY DEF Lasting, Holds
<1>2. /\ kind \in Kinds /\ kind \in {"dh", "request"} /\ st["alice"].wait[kind] > 0 /\ "alice" \in Side
      /\ t = Told(Done(st, "alice", kind), "alice") /\ UNCHANGED <<srv, fresh, spoiled>>
      /\ faults' = faults + 1 /\ faults' \in 0..MaxFaults /\ faults \in Nat
  BY <1>1, FaultIs DEF Timeout, Waits, GivenUp, Kinds, Side
<1>2a. t = st' /\ a = st["alice"] /\ e = t["alice"]
  OBVIOUS
<1> HIDE DEF t, a, e
<1>3. Types(t, fresh) /\ t["bob"] = st["bob"] /\ Ended(a, e, kind, a.chat)
  <2>1. /\ Types(t, fresh) /\ t[Other("alice")] = st[Other("alice")]
        /\ Ended(st["alice"], t["alice"], kind, st["alice"].chat)
    BY <1>1, <1>2, EndedAsIs
  <2> QED
    BY <1>2a, <2>1 DEF Other
<1>4. /\ e.told = a.told + 1 /\ e.called = a.called /\ e.chat = a.chat /\ e.left = a.left
      /\ e.wait[kind] = a.wait[kind] - 1
      /\ \A k \in Kinds : k # kind => e.wait[k] = a.wait[k]
      /\ SameKeys(a, e) /\ SameExchange(a, e) /\ SameWay(a, e)
  BY <1>2, <1>3 DEF Ended
<1>5. /\ a.wait.dh \in Nat /\ a.wait.request \in Nat /\ a.wait.accept \in Nat /\ a.wait.discard \in Nat
      /\ a.told \in Nat /\ a.called \in Nat
  <2>1. a \in Chat(fresh)
    BY <1>1, <1>2, <1>2a DEF Types
  <2> QED
    BY <1>1, <2>1, WaitFields
<1>6. Counted(t, faults)
  <2>1. /\ kind = "dh" => e.wait.dh = a.wait.dh - 1 /\ e.wait.request = a.wait.request
        /\ kind = "request" => e.wait.request = a.wait.request - 1 /\ e.wait.dh = a.wait.dh
        /\ e.wait.accept = a.wait.accept /\ e.wait.discard = a.wait.discard
    BY <1>2, <1>4 DEF Kinds
  <2>2. Open(e) = Open(a) /\ a.called = Open(a)
    <3>1. a.called = Open(a)
      BY <1>1, <1>2a DEF Counted, Open, Side
    <3> QED
      BY <1>2, <1>4, <1>5, <2>1, <3>1 DEF Open
  <2>3. /\ a.chat = "absent" => a.called = 0
        /\ a.called <= faults + 1
    BY <1>1, <1>2a DEF Counted
  <2> QED
    BY <1>1, <1>2a, <1>3, <1>4, <2>2, <2>3 DEF Counted, Open, Side
<1>7. Counted(t, faults')
  BY <1>1, <1>2, <1>3, <1>6, CountedMore
<1>8. ASSUME spoiled = {}
      PROVE  Living(t, srv)
  <2>1. Living(st, srv)
    BY <1>1, <1>8
  <2>2. \A y \in Side : t[y] = st[y] \/ (t[y].chat = st[y].chat /\ SameTalk(st[y], t[y]))
    BY <1>2a, <1>3, <1>4 DEF Side, SameTalk
  <2>3. Life(t, srv)
    <3>1. e.wait.dh \in {0, a.wait.dh}
      <4>1. CASE kind = "dh"
        <5>1. a.wait.dh = 1
          BY <1>2, <1>2a, <1>5, <2>1, <4>1 DEF Living, Life, Creator
        <5> QED
          BY <1>4, <4>1, <5>1
      <4>2. CASE kind # "dh"
        BY <1>4, <4>2 DEF Kinds
      <4> QED
        BY <4>1, <4>2
    <3>2. MovedCreator(a, e, srv) /\ MovedAcceptor(st["bob"], t["bob"])
      BY <1>3, <1>4, <3>1 DEF MovedCreator, MovedAcceptor
    <3>3. \A y \in Side : SameTalk(st[y], t[y])
      BY <2>2 DEF SameTalk, SameKeys, SameExchange, SameWay
    <3> QED
      BY <1>2a, <2>1, <3>2, <3>3, LifeMoved DEF Living
  <2>4. Closing(t, srv)
    <3>1. \A y \in Side : Closed(st[y], y) => Closed(t[y], y)
      BY <2>2 DEF Closed, SameTalk, SameWay
    <3> QED
      BY <2>1, <3>1, ClosingIs DEF Living
  <2>5. Silent(t)
    <3>1. \A y \in Side : /\ t[y].fp = st[y].fp /\ t[y].ex = st[y].ex /\ t[y].out = st[y].out
                          /\ t[y].asked = st[y].asked /\ t[y].inbox = st[y].inbox
      BY <2>2 DEF SameTalk, SameKeys, SameExchange, SameWay
    <3> QED
      BY <2>1, <3>1, SilentStep DEF Living, Side
  <2> QED
    BY <2>3, <2>4, <2>5 DEF Living
<1> QED
  BY <1>1, <1>2, <1>2a, <1>3, <1>7, <1>8 DEF Lasting, Holds

\* The application calls: more waits, more is asked.
Called(c, chat, called, wait, asked, left) ==
    [c EXCEPT !.chat = chat, !.called = called, !.wait = wait, !.asked = asked, !.left = left]

\* c becomes e by a call: its chat, its queries and what it asks.
IsCalled(c, e, chat, called, wait, asked, left) ==
    /\ e.chat = chat /\ e.called = called /\ e.wait = wait /\ e.asked = asked /\ e.left = left
    /\ e.told = c.told /\ e.inbox = c.inbox /\ e.out = c.out /\ e.ready = c.ready
    /\ SameKeys(c, e) /\ SameExchange(c, e)

\* A call is the step of one side.
LEMMA CalledIs ==
    ASSUME NEW n \in Nat, NEW s, Types(s, n), NEW x \in Side, NEW chat \in States,
           NEW called \in Nat, NEW wait \in [dh : Nat, request : Nat, accept : Nat, discard : Nat],
           NEW asked \in Seq(Message(n)), NEW left \in BOOLEAN,
           NEW t, t = With(s, x, Called(s[x], chat, called, wait, asked, left))
    PROVE  Step(n, s, t, x) /\ IsCalled(s[x], t[x], chat, called, wait, asked, left)
<1> DEFINE c == s[x]  e == Called(c, chat, called, wait, asked, left)
<1>1. c \in Chat(n) /\ c = s[x] /\ \A m \in ToSet(c.out) : m.type \in InChat
  BY DEF Types
<1> HIDE DEF c
<1>2. IsCalled(c, e, chat, called, wait, asked, left)
  BY <1>1 DEF Chat, Called, IsCalled, SameKeys, SameExchange
<1>3. Exchanging(e)
  BY <1>1, <1>2, ChatFields DEF IsCalled, Exchanging, SameExchange
<1>4. e \in Chat(n)
  BY <1>1, <1>3 DEF Chat, Called
<1>5. t = With(s, x, e) /\ \A m \in ToSet(e.out) : m.type \in InChat
  BY <1>1, <1>2 DEF IsCalled
<1> HIDE DEF e
<1>6. Types(t, n) /\ t[x] = e /\ t[Other(x)] = s[Other(x)]
  BY <1>4, <1>5, WithIs
<1> QED
  BY <1>1, <1>2, <1>6 DEF Step

\* A call asks the server for the parameters, or to give the chat up.
Calling(c, e, x, m) ==
    /\ AskedFor(c, e.asked, m) /\ m.type \in {"dh", "discard"}
    /\ e.left = (c.left \/ m.type = "discard")
    /\ e.inbox = c.inbox /\ e.out = c.out /\ SameKeys(c, e) /\ SameExchange(c, e)
    /\ e.wait.accept = c.wait.accept
    /\ \/ e.chat = c.chat /\ c.chat # "absent" /\ (x = "alice" => e.wait.dh = c.wait.dh)
       \/ x = "alice" /\ c.chat = "absent" /\ e.chat = "none" /\ e.wait.dh = 1

\* A call keeps the life of the chat.
LEMMA LivingCalled ==
    ASSUME NEW s, NEW t, NEW x \in Side, NEW v, NEW m, Living(s, v), Calling(s[x], t[x], x, m),
           s[x].left \in BOOLEAN, t[Other(x)] = s[Other(x)]
    PROVE  Living(t, v)
<1> DEFINE a == s["alice"]  b == s["bob"]  e == t["alice"]  f == t["bob"]
<1>1. /\ Life(s, v) /\ Closing(s, v) /\ Silent(s)
      /\ a = s["alice"] /\ b = s["bob"] /\ e = t["alice"] /\ f = t["bob"]
  BY DEF Living
<1> HIDE DEF a, b, e, f
<1>2. ASSUME NEW y \in Side
      PROVE  /\ t[y].inbox = s[y].inbox /\ t[y].out = s[y].out /\ t[y].key = s[y].key
             /\ t[y].fp = s[y].fp /\ t[y].ex = s[y].ex
             /\ t[y].wait.accept = s[y].wait.accept /\ (s[y].left => t[y].left)
             /\ \A T : Has(s[y].asked, T) => Has(t[y].asked, T)
             /\ \A T : Has(t[y].asked, T) /\ T \cap {"dh", "discard"} = {} => Has(s[y].asked, T)
             /\ \A T : Once(s[y].asked, T) /\ T \cap {"dh", "discard"} = {} => Once(t[y].asked, T)
             /\ \A k \in ToSet(t[y].asked) : k \in ToSet(s[y].asked) \/ k.type \in {"dh", "discard"}
             /\ (Has(s[y].asked, {"discard"}) => s[y].left) => (Has(t[y].asked, {"discard"}) => t[y].left)
             /\ s[y].chat = "absent" /\ t[y].chat = s[y].chat => t[y] = s[y]
             /\ \/ t[y].chat = s[y].chat /\ (y = "alice" => t[y].wait.dh = s[y].wait.dh)
                \/ y = "alice" /\ s[y].chat = "absent" /\ t[y].chat = "none" /\ t[y].wait.dh = 1
  <2>1. CASE y # x
    <3>1. t[y] = s[y]
      BY <2>1, Sides
    <3> QED
      BY <3>1
  <2>2. CASE y = x
    <3> DEFINE c == s[x]  d == t[x]
    <3>1. Calling(c, d, x, m) /\ c = s[x] /\ d = t[x] /\ c.left \in BOOLEAN
      OBVIOUS
    <3> HIDE DEF c, d
    <3>2. /\ ToSet(d.asked) = ToSet(c.asked) \cup {m}
          /\ \A T : Has(d.asked, T) <=> Has(c.asked, T) \/ m.type \in T
          /\ \A T : Once(c.asked, T) /\ (m.type \in T => ~Has(c.asked, T)) => Once(d.asked, T)
          /\ m.type \in {"dh", "discard"}
      BY <3>1 DEF Calling, AskedFor
    <3>3. \A T : T \cap {"dh", "discard"} = {} => m.type \notin T
      BY <3>2
    <3>4. /\ d.inbox = c.inbox /\ d.out = c.out /\ d.key = c.key /\ d.fp = c.fp /\ d.ex = c.ex
          /\ d.wait.accept = c.wait.accept /\ (c.left => d.left)
          /\ m.type = "discard" => d.left
      BY <3>1 DEF Calling, SameKeys, SameExchange
    <3>5. (Has(c.asked, {"discard"}) => c.left) => (Has(d.asked, {"discard"}) => d.left)
      BY <3>2, <3>4
    <3>6. /\ c.chat = "absent" => d.chat # c.chat
          /\ \/ d.chat = c.chat /\ (x = "alice" => d.wait.dh = c.wait.dh)
             \/ x = "alice" /\ c.chat = "absent" /\ d.chat = "none" /\ d.wait.dh = 1
      BY <3>1 DEF Calling
    <3>7. /\ \A T : Has(c.asked, T) => Has(d.asked, T)
          /\ \A T : Has(d.asked, T) /\ T \cap {"dh", "discard"} = {} => Has(c.asked, T)
          /\ \A T : Once(c.asked, T) /\ T \cap {"dh", "discard"} = {} => Once(d.asked, T)
          /\ \A k \in ToSet(d.asked) : k \in ToSet(c.asked) \/ k.type \in {"dh", "discard"}
      BY <3>2, <3>3
    <3> QED
      BY <2>2, <3>1, <3>4, <3>5, <3>6, <3>7
  <2> QED
    BY <2>1, <2>2
<1>3. Ordered(t, v)
  BY <1>1, <1>2 DEF Life, Ordered
<1>4. /\ e.chat = a.chat \/ (a.chat = "absent" /\ e.chat = "none")
      /\ f.chat = b.chat
      /\ a.chat = "absent" /\ e.chat = a.chat => e = a
      /\ b.chat = "absent" => f = b
  BY <1>1, <1>2 DEF Side
<1>5. Roles(t, v)
  <2>1. /\ ~Has(e.asked, {"accept_chat"}) /\ ~Has(f.asked, {"request_chat"})
        /\ ~Has(e.inbox, {"requested", "accepted", "accept_error", "declined"})
        /\ ~Has(f.inbox, {"waiting", "chat", "request_error"})
    BY <1>1, <1>2 DEF Life, Roles, Side
  <2>2. \A y \in Side : Has(t[y].asked, {"discard"}) => t[y].left
    BY <1>1, <1>2 DEF Life, Roles
  <2>3. /\ e.chat = "absent" => e.asked = <<>> /\ e.inbox = <<>>
        /\ f.chat = "absent" => f.asked = <<>> /\ f.key = {} /\ f.fp = {}
        /\ f.chat # "waiting"
    BY <1>1, <1>4 DEF Life, Roles
  <2>4. v \in [chat : {"no", "requested", "ok", "gone"}, ga : SUBSET Nat]
    BY <1>1 DEF Life, Roles
  <2> QED
    BY <1>1, <2>1, <2>2, <2>3, <2>4 DEF Roles
<1>6. /\ e.inbox = a.inbox /\ e.key = a.key /\ e.fp = a.fp /\ e.ex = a.ex /\ e.out = a.out
      /\ f.inbox = b.inbox /\ f.key = b.key /\ f.fp = b.fp /\ f.ex = b.ex /\ f.out = b.out
      /\ f.wait.accept = b.wait.accept
      /\ \/ e.chat = a.chat /\ e.wait.dh = a.wait.dh
         \/ a.chat = "absent" /\ e.chat = "none" /\ e.wait.dh = 1
  BY <1>1, <1>2 DEF Side
<1>7. /\ \A T : T \cap {"dh", "discard"} = {} =>
            /\ Has(e.asked, T) <=> Has(a.asked, T)
            /\ Has(f.asked, T) <=> Has(b.asked, T)
            /\ Once(a.asked, T) => Once(e.asked, T)
            /\ Once(b.asked, T) => Once(f.asked, T)
      /\ \A k \in ToSet(e.asked) : k \in ToSet(a.asked) \/ k.type \in {"dh", "discard"}
      /\ \A k \in ToSet(f.asked) : k \in ToSet(b.asked) \/ k.type \in {"dh", "discard"}
  BY <1>1, <1>2 DEF Side
<1>8. /\ Has(e.asked, {"request_chat"}) <=> Has(a.asked, {"request_chat"})
      /\ Has(e.asked, InChat) <=> Has(a.asked, InChat)
      /\ Has(f.asked, {"accept_chat"}) <=> Has(b.asked, {"accept_chat"})
      /\ Has(f.asked, {"accept_chat"} \cup InChat) <=> Has(b.asked, {"accept_chat"} \cup InChat)
      /\ Once(a.asked, {"request_chat"}) => Once(e.asked, {"request_chat"})
      /\ Once(b.asked, {"accept_chat"}) => Once(f.asked, {"accept_chat"})
  <2>1. /\ {"request_chat"} \cap {"dh", "discard"} = {} /\ {"accept_chat"} \cap {"dh", "discard"} = {}
        /\ InChat \cap {"dh", "discard"} = {} /\ ({"accept_chat"} \cup InChat) \cap {"dh", "discard"} = {}
    BY DEF InChat
  <2> QED
    BY <1>7, <2>1
<1>9. Creator(t, v)
  <2>1. \A k \in ToSet(e.asked) : k.type = "request_chat" => k.g = e.key /\ Single(k.g)
    BY <1>1, <1>6, <1>7 DEF Life, Creator
  <2> QED
    BY <1>1, <1>6, <1>8, <2>1 DEF Life, Creator
<1>10. Acceptor(t, v)
  <2>1. \A k \in ToSet(f.asked) : k.type = "accept_chat" =>
           k.fp = f.key /\ f.key = v.ga \cup k.g /\ Single(k.g)
    BY <1>1, <1>6, <1>7 DEF Life, Acceptor
  <2> QED
    BY <1>1, <1>4, <1>6, <1>8, <2>1 DEF Life, Acceptor
<1>11. Keyed(t, v)
  BY <1>1, <1>4, <1>6 DEF Life, Keyed, Side
<1>12. Closing(t, v)
  <2>1. CASE e.chat = a.chat
    <3>1. \A y \in Side : Closed(s[y], y) => Closed(t[y], y)
      <4>1. \A y \in Side : t[y].chat = s[y].chat
        BY <1>1, <1>4, <2>1 DEF Side
      <4> QED
        BY <1>2, <4>1 DEF Closed
    <3> QED
      BY <1>1, <3>1, ClosingIs
  <2>2. CASE e.chat # a.chat
    <3>1. v.chat = "no"
      BY <1>1, <1>4, <2>2 DEF Life, Creator
    <3> QED
      BY <3>1 DEF Closing
  <2> QED
    BY <2>1, <2>2
<1>13. Silent(t)
  BY <1>1, <1>6, <1>8 DEF Silent
<1> QED
  BY <1>3, <1>5, <1>9, <1>10, <1>11, <1>12, <1>13 DEF Life, Living

\* A call more is counted: one of its queries has not ended.
LEMMA CountedCalled ==
    ASSUME NEW n \in Nat, NEW s, NEW t, Types(s, n), Types(t, n), NEW x \in Side, NEW f \in Nat, NEW g \in Nat,
           Counted(s, f), t[Other(x)] = s[Other(x)], g \in {f, f + 1},
           t[x].called = s[x].called + 1, Open(t[x]) = Open(s[x]) + 1, t[x].chat # "absent",
           x = "alice" => s[x].chat = "absent" \/ g = f + 1,
           x = "bob" => /\ t[x].chat \in {"absent", "request"} /\ t[x].wait.dh = 0 =>
                              g = f + 1 /\ s[x].chat \in {"absent", "request"} /\ s[x].wait.dh = 0
                        /\ (s[x].chat = "request" /\ s[x].wait.dh = 0) \/ g = f + 1
    PROVE  Counted(t, g)
<1> DEFINE a == s["alice"]  b == s["bob"]  e == t["alice"]  h == t["bob"]
<1>1. /\ a = s["alice"] /\ b = s["bob"] /\ e = t["alice"] /\ h = t["bob"]
      /\ x = "alice" => h = b /\ e.called = a.called + 1 /\ Open(e) = Open(a) + 1 /\ e.chat # "absent"
      /\ x = "bob" => e = a /\ h.called = b.called + 1 /\ Open(h) = Open(b) + 1 /\ h.chat # "absent"
      /\ x \in {"alice", "bob"}
  BY DEF Side, Other
<1>2. a.called \in Nat /\ b.called \in Nat
  BY ChatFields DEF Types, Side
<1> HIDE DEF a, b, e, h
<1>3. /\ a.called = Open(a) /\ b.called = Open(b)
      /\ a.chat = "absent" => a.called = 0
      /\ a.called <= f + 1
      /\ b.called <= f + IF b.chat \in {"absent", "request"} /\ b.wait.dh = 0 THEN 0 ELSE 1
      /\ b.chat = "absent" => b.wait.dh = 0
  BY <1>1 DEF Counted, Side, Open
<1>4. CASE x = "alice"
  <2>1. e.called <= g + 1
    BY <1>1, <1>2, <1>3, <1>4
  <2>2. h.called <= g + IF h.chat \in {"absent", "request"} /\ h.wait.dh = 0 THEN 0 ELSE 1
    BY <1>1, <1>2, <1>3, <1>4
  <2> QED
    BY <1>1, <1>3, <1>4, <2>1, <2>2 DEF Counted, Side, Open
<1>5. CASE x = "bob"
  <2>1. e.called <= g + 1
    BY <1>1, <1>2, <1>3, <1>5
  <2>2. h.called <= g + IF h.chat \in {"absent", "request"} /\ h.wait.dh = 0 THEN 0 ELSE 1
    BY <1>1, <1>2, <1>3, <1>5
  <2> QED
    BY <1>1, <1>3, <1>5, <2>1, <2>2 DEF Counted, Side, Open
<1> QED
  BY <1>1, <1>4, <1>5

\* Of nothing, every part is nothing.
LEMMA NoneOpen ==
    ASSUME NEW i \in Nat, NEW j \in Nat, NEW k \in Nat, NEW l \in Nat, NEW m \in Nat,
           i + j + k + l + m = 0
    PROVE  j = 0
OBVIOUS

\* Creating the chat keeps the invariant.
LEMMA CreateHolds ==
    ASSUME Lasting, Create
    PROVE  Lasting'
<1> DEFINE c == st["alice"]  m == Msg("dh")  t == st'
           w == [c.wait EXCEPT !.dh = 1]  q == <<m>>  l == c.left
<1>0. PICK x \in Side : x = "alice"
  BY DEF Side
<1>1. /\ fresh \in Nat \ {0} /\ Types(st, fresh) /\ faults \in 0..MaxFaults /\ faults \in Nat
      /\ Counted(st, faults) /\ (spoiled = {} => Living(st, srv)) /\ fresh \in Nat
  BY SecretChatsAssumption DEF Lasting, Holds
<1>2. /\ c.chat = "absent" /\ c = st["alice"] /\ c \in Chat(fresh) /\ "alice" \in Side
      /\ t = [st EXCEPT !["alice"].chat = "none", !["alice"].called = 1,
                        !["alice"].wait.dh = 1, !["alice"].asked = q]
      /\ UNCHANGED <<srv, fresh, spoiled, faults>>
  BY <1>1 DEF Create, Types, Side
<1>3. m \in Message(fresh) /\ m.type = "dh"
  BY <1>1, MsgIs DEF Updates
<1>3a. q = <<m>>
  OBVIOUS
<1>4. /\ c.wait \in [dh : Nat, request : Nat, accept : Nat, discard : Nat]
      /\ w \in [dh : Nat, request : Nat, accept : Nat, discard : Nat]
      /\ w.dh = 1 /\ w.request = c.wait.request /\ w.accept = c.wait.accept /\ w.discard = c.wait.discard
      /\ c.left \in BOOLEAN /\ l = c.left
  <2>1. /\ c.wait \in [dh : Nat, request : Nat, accept : Nat, discard : Nat]
        /\ c.left \in BOOLEAN
    BY <1>1, <1>2, ChatFields
  <2> HIDE DEF c
  <2> QED
    BY <2>1
<1>5. t = With(st, "alice", Called(c, "none", 1, w, q, l))
  <2>1. t = [st EXCEPT !["alice"] = [c EXCEPT !.chat = "none", !.called = 1, !.wait = w, !.asked = q]]
    <3> DEFINE e == [c EXCEPT !.chat = "none", !.called = 1, !.wait.dh = 1, !.asked = q]
    <3>1. [st EXCEPT !["alice"].chat = "none", !["alice"].called = 1,
                     !["alice"].wait.dh = 1, !["alice"].asked = q]
            = [st EXCEPT !["alice"] = e]
      <4> HIDE DEF q
      <4> QED
        OBVIOUS
    <3>2. e = [c EXCEPT !.chat = "none", !.called = 1, !.wait = w, !.asked = q]
      OBVIOUS
    <3> HIDE DEF e, t, q, w
    <3> QED
      BY <1>2, <3>1, <3>2
  <2>2. [c EXCEPT !.chat = "none", !.called = 1, !.wait = w, !.asked = q]
          = Called(c, "none", 1, w, q, l)
    <3> HIDE DEF w, m, c, q
    <3> QED
      BY <1>2 DEF Chat, Called
  <2> QED
    BY <2>1, <2>2 DEF With
<1>5a. c = st[x] /\ t = With(st, x, Called(c, "none", 1, w, q, l)) /\ 1 \in Nat
  BY <1>0, <1>2, <1>5
<1> HIDE DEF c, m, t, w, q, l
<1>6. Step(fresh, st, t, x) /\ IsCalled(c, t[x], "none", 1, w, q, l)
  <2>1. "none" \in States /\ 1 \in Nat /\ q \in Seq(Message(fresh))
    BY <1>3, <1>3a DEF States
  <2>2. t = With(st, x, Called(st[x], "none", 1, w, q, l))
    BY <1>5a
  <2>3. /\ Step(fresh, st, t, x)
        /\ IsCalled(st[x], t[x], "none", 1, w, q, l)
    BY <1>1, <1>4, <1>5a, <2>1, <2>2, CalledIs
  <2> QED
    BY <1>5a, <2>3
<1>7. Types(t, fresh) /\ t[Other(x)] = st[Other(x)]
  BY <1>6 DEF Step
<1>8. Counted(t, faults)
  <2> DEFINE e == t[x]
  <2>1. c.called = 0 /\ c.called = Open(c)
    BY <1>0, <1>1, <1>2 DEF Counted, Open, Side
  <2>2. /\ c.wait.dh \in Nat /\ c.wait.request \in Nat /\ c.wait.accept \in Nat /\ c.wait.discard \in Nat
        /\ c.told \in Nat
    BY <1>1, <1>2, WaitFields
  <2>3. c.wait.dh = 0 /\ Open(c) = 0
    <3>1. c.told + c.wait.dh + c.wait.request + c.wait.accept + c.wait.discard = 0
      BY <2>1 DEF Open
    <3>2. c.wait.dh = 0
      BY <2>2, <3>1, NoneOpen
    <3> QED
      BY <2>1, <3>2
  <2>4. e.called = 1 /\ e.wait = w /\ e.told = c.told /\ e.chat = "none"
    BY <1>6 DEF IsCalled
  <2>5. Open(e) = Open(c) + 1
    BY <1>4, <2>2, <2>3, <2>4 DEF Open
  <2>6. /\ t[x].called = st[x].called + 1 /\ Open(t[x]) = Open(st[x]) + 1
        /\ t[x].chat # "absent" /\ st[x].chat = "absent"
    BY <1>2, <1>5a, <2>1, <2>4, <2>5
  <2> QED
    BY <1>0, <1>1, <1>7, <2>6, CountedCalled
<1>9. ASSUME spoiled = {}
      PROVE  Living(t, srv)
  <2>1. Living(st, srv)
    BY <1>1, <1>9
  <2>2. AskedFor(c, q, m)
    <3>1. c.asked = <<>>
      BY <1>2, <2>1 DEF Living, Life, Roles
    <3>2. q = Append(c.asked, m)
      BY <1>3a, <3>1
    <3> QED
      BY <1>1, <1>2, <1>3, <3>2, AskedLast
  <2>3. Calling(c, t[x], x, m)
    BY <1>0, <1>2, <1>3, <1>4, <1>6, <2>2 DEF Calling, IsCalled
  <2>4. Calling(st[x], t[x], x, m) /\ st[x].left \in BOOLEAN
    BY <1>4, <1>5a, <2>3
  <2> QED
    BY <1>2, <1>7, <2>1, <2>4, LivingCalled
<1> QED
  BY <1>1, <1>2, <1>7, <1>8, <1>9 DEF Lasting, Holds, t

\* A side that has the chat asks for one thing more.
LEMMA CallHolds ==
    ASSUME Lasting, NEW x \in Side, NEW kind \in {"dh", "discard"}, NEW g \in 0..MaxFaults,
           st[x].chat # "absent", g \in {faults, faults + 1},
           kind = "dh" => x = "bob" /\ st[x].chat = "request"
                          /\ (st[x].wait.dh = 0 \/ g = faults + 1),
           kind = "discard" => g = faults + 1,
           st' = With(st, x, Called(st[x], st[x].chat, st[x].called + 1,
                                    [st[x].wait EXCEPT ![kind] = @ + 1],
                                    Append(st[x].asked, Msg(kind)),
                                    st[x].left \/ kind = "discard")),
           faults' = g, UNCHANGED <<srv, fresh, spoiled>>
    PROVE  Lasting'
<1> DEFINE c == st[x]  m == Msg(kind)  t == st'  e == t[x]
           w == [c.wait EXCEPT ![kind] = @ + 1]  l == (c.left \/ kind = "discard")
           q == Append(c.asked, m)
<1>1. /\ fresh \in Nat \ {0} /\ Types(st, fresh) /\ faults \in 0..MaxFaults /\ faults \in Nat /\ g \in Nat
      /\ Counted(st, faults) /\ (spoiled = {} => Living(st, srv)) /\ fresh \in Nat
  BY SecretChatsAssumption DEF Lasting, Holds
<1>2. c = st[x] /\ c \in Chat(fresh) /\ t = With(st, x, Called(c, c.chat, c.called + 1, w, q, l))
      /\ q = Append(c.asked, m) /\ t = st' /\ e = t[x]
  BY <1>1 DEF Types
<1>3. m \in Message(fresh) /\ m.type = kind
  BY <1>1, MsgIs DEF Updates
<1>4. /\ c.wait \in [dh : Nat, request : Nat, accept : Nat, discard : Nat]
      /\ w \in [dh : Nat, request : Nat, accept : Nat, discard : Nat]
      /\ w.request = c.wait.request /\ w.accept = c.wait.accept
      /\ kind = "dh" => w.dh = c.wait.dh + 1 /\ w.discard = c.wait.discard
      /\ kind = "discard" => w.dh = c.wait.dh /\ w.discard = c.wait.discard + 1
      /\ l \in BOOLEAN /\ c.left \in BOOLEAN /\ (l <=> c.left \/ kind = "discard")
      /\ c.called + 1 \in Nat /\ c.chat \in States
  <2>1. /\ c.wait \in [dh : Nat, request : Nat, accept : Nat, discard : Nat]
        /\ c.left \in BOOLEAN /\ c.called \in Nat /\ c.chat \in States
    BY <1>1, <1>2, ChatFields
  <2> QED
    BY <2>1
<1> HIDE DEF c, m, t, w, l, e, q
<1>5. Step(fresh, st, t, x) /\ IsCalled(c, e, c.chat, c.called + 1, w, q, l)
  <2>1. q \in Seq(Message(fresh))
    <3>1. c.asked \in Seq(Message(fresh))
      BY <1>1, <1>2, ChatFields
    <3> QED
      BY <1>2, <1>3, <3>1
  <2>2. t = With(st, x, Called(st[x], c.chat, c.called + 1, w, q, l))
    BY <1>2
  <2>3. /\ Step(fresh, st, t, x)
        /\ IsCalled(st[x], t[x], c.chat, c.called + 1, w, q, l)
    BY <1>1, <1>4, <2>1, <2>2, CalledIs
  <2> QED
    BY <1>2, <2>3
<1>6. Types(t, fresh) /\ t[Other(x)] = st[Other(x)]
  BY <1>5 DEF Step
<1>7. /\ e.called = c.called + 1 /\ e.wait = w /\ e.told = c.told /\ e.chat = c.chat
      /\ e.asked = q /\ e.inbox = c.inbox /\ e.out = c.out /\ e.left = l
      /\ SameKeys(c, e) /\ SameExchange(c, e)
  BY <1>5 DEF IsCalled
<1>8. Counted(t, g)
  <2>1. /\ c.wait.dh \in Nat /\ c.wait.request \in Nat /\ c.wait.accept \in Nat /\ c.wait.discard \in Nat
        /\ c.told \in Nat
    BY <1>1, <1>2, WaitFields
  <2>2. Open(e) = Open(c) + 1
    BY <1>4, <1>7, <2>1 DEF Open
  <2>3. t[x].called = st[x].called + 1 /\ Open(t[x]) = Open(st[x]) + 1 /\ t[x].chat # "absent"
    BY <1>2, <1>7, <2>2
  <2>4. x = "alice" => st[x].chat = "absent" \/ g = faults + 1
    OBVIOUS
  <2>5. x = "bob" => /\ t[x].chat \in {"absent", "request"} /\ t[x].wait.dh = 0 =>
                           g = faults + 1 /\ st[x].chat \in {"absent", "request"} /\ st[x].wait.dh = 0
                     /\ (st[x].chat = "request" /\ st[x].wait.dh = 0) \/ g = faults + 1
    <3>1. CASE kind = "dh"
      <4>1. t[x].wait.dh = c.wait.dh + 1
        BY <1>2, <1>4, <1>7, <3>1
      <4>2. c.wait.dh + 1 # 0
        BY <2>1
      <4> QED
        BY <3>1, <4>1, <4>2
    <3>2. CASE kind = "discard"
      BY <1>2, <1>4, <1>7, <3>2
    <3> QED
      BY <3>1, <3>2
  <2> QED
    BY <1>1, <1>6, <2>3, <2>4, <2>5, CountedCalled
<1>9. ASSUME spoiled = {}
      PROVE  Living(t, srv)
  <2>1. Living(st, srv)
    BY <1>1, <1>9
  <2>2. AskedFor(c, q, m)
    BY <1>1, <1>2, <1>3, AskedLast
  <2>3. Calling(c, e, x, m)
    BY <1>2, <1>3, <1>4, <1>7, <2>2 DEF Calling
  <2> QED
    BY <1>2, <1>4, <1>6, <2>1, <2>3, LivingCalled
<1> QED
  BY <1>1, <1>2, <1>6, <1>8, <1>9 DEF Lasting, Holds

\* Accepting the chat keeps the invariant.
LEMMA AcceptHolds ==
    ASSUME Lasting, Accept
    PROVE  Lasting'
<1> DEFINE c == st["bob"]  q == Append(c.asked, Msg("dh"))
<1>0. PICK x \in Side : x = "bob"
  BY DEF Side
<1>1. fresh \in Nat /\ Types(st, fresh) /\ faults \in 0..MaxFaults /\ faults \in Nat
  BY SecretChatsAssumption DEF Lasting, Holds
<1>2. /\ c = st["bob"] /\ c \in Chat(fresh) /\ c.chat = "request"
      /\ st' = [st EXCEPT !["bob"].called = @ + 1, !["bob"].wait.dh = @ + 1, !["bob"].asked = q]
      /\ UNCHANGED <<srv, fresh, spoiled>>
  BY <1>1 DEF Accept, Types, Side
<1>3. /\ faults' \in 0..MaxFaults /\ faults' \in {faults, faults + 1}
      /\ c.wait.dh = 0 \/ faults' = faults + 1
  <2>1. CASE c.wait.dh > 0
    <3>1. Fault("twice")
      BY <2>1 DEF Accept, Waits
    <3> QED
      BY <1>1, <3>1, FaultIs
  <2>2. CASE ~(c.wait.dh > 0)
    <3>1. faults' = faults
      BY <2>2 DEF Accept, Waits
    <3>2. c.wait.dh \in Nat
      BY <1>1, <1>2, WaitFields
    <3> QED
      BY <1>1, <2>2, <3>1, <3>2
  <2> QED
    BY <2>1, <2>2
<1> DEFINE w == [c.wait EXCEPT !["dh"] = @ + 1]  l == (c.left \/ "dh" = "discard")
<1>4. c.left \in BOOLEAN /\ l = c.left
  BY <1>1, <1>2, ChatFields
<1>5. st' = With(st, "bob", Called(c, c.chat, c.called + 1, w, q, l))
  <2>1. st' = [st EXCEPT !["bob"] = [c EXCEPT !.called = c.called + 1, !.wait = w, !.asked = q]]
    BY <1>2
  <2>2. [c EXCEPT !.called = c.called + 1, !.wait = w, !.asked = q]
          = Called(c, c.chat, c.called + 1, w, q, l)
    <3> HIDE DEF c, w, q, l
    <3> QED
      BY <1>2, <1>4 DEF Chat, Called
  <2> QED
    BY <2>1, <2>2 DEF With
<1>6. st' = With(st, x, Called(st[x], st[x].chat, st[x].called + 1, [st[x].wait EXCEPT !["dh"] = @ + 1],
                               Append(st[x].asked, Msg("dh")), st[x].left \/ "dh" = "discard"))
  BY <1>0, <1>5
<1>7. st[x].chat = "request" /\ (st[x].wait.dh = 0 \/ faults' = faults + 1)
  BY <1>0, <1>2, <1>3
<1> HIDE DEF c, q, w, l
<1> QED
  BY <1>0, <1>1, <1>2, <1>3, <1>6, <1>7, CallHolds

\* Giving up the chat keeps the invariant.
LEMMA DiscardHolds ==
    ASSUME Lasting, NEW x \in Side, Discard(x)
    PROVE  Lasting'
<1> DEFINE c == st[x]  q == Append(c.asked, Msg("discard"))
<1>1. fresh \in Nat /\ Types(st, fresh) /\ faults \in 0..MaxFaults /\ faults \in Nat
  BY SecretChatsAssumption DEF Lasting, Holds
<1>2. /\ c = st[x] /\ c \in Chat(fresh) /\ c.chat # "absent"
      /\ st' = [st EXCEPT ![x].called = @ + 1, ![x].wait.discard = @ + 1, ![x].left = TRUE,
                          ![x].asked = q]
      /\ UNCHANGED <<srv, fresh, spoiled>>
  BY <1>1 DEF Discard, Types, Side
<1>3. faults' = faults + 1 /\ faults' \in 0..MaxFaults
  BY <1>1, FaultIs DEF Discard
<1> DEFINE w == [c.wait EXCEPT !["discard"] = @ + 1]  l == (c.left \/ "discard" = "discard")
<1>4. l = TRUE
  OBVIOUS
<1>5. st' = With(st, x, Called(c, c.chat, c.called + 1, w, q, l))
  <2>1. st' = [st EXCEPT ![x] = [c EXCEPT !.called = c.called + 1, !.wait = w, !.asked = q, !.left = TRUE]]
    BY <1>2
  <2>2. [c EXCEPT !.called = c.called + 1, !.wait = w, !.asked = q, !.left = TRUE]
          = Called(c, c.chat, c.called + 1, w, q, l)
    <3> HIDE DEF c, w, q, l
    <3> QED
      BY <1>2, <1>4 DEF Chat, Called
  <2> QED
    BY <2>1, <2>2 DEF With
<1>6. st' = With(st, x, Called(st[x], st[x].chat, st[x].called + 1, [st[x].wait EXCEPT !["discard"] = @ + 1],
                               Append(st[x].asked, Msg("discard")), st[x].left \/ "discard" = "discard"))
  BY <1>5
<1>7. st[x].chat # "absent"
  BY <1>2
<1> HIDE DEF c, q, w, l
<1> QED
  BY <1>1, <1>2, <1>3, <1>6, <1>7, CallHolds

-----------------------------------------------------------------------------
(* The server                                                              *)

\* What x has asked is taken from its queue.
Unasked(x) == [st EXCEPT ![x].asked = Tail(@)]

\* It is m that x asked; u is the state without it.
Asking(n, u, x, m) ==
    /\ Step(n, st, u, x) /\ SameCount(st[x], u[x]) /\ Asked(st[x], u[x]) /\ m = Head(st[x].asked)
    /\ m \in Message(n) /\ m \in ToSet(st[x].asked)

\* The head of what x asks is what the server takes.
LEMMA AskingIs ==
    ASSUME NEW n \in Nat, Types(st, n), NEW x \in Side, st[x].asked # <<>>
    PROVE  Asking(n, Unasked(x), x, Head(st[x].asked))
<1> DEFINE q == st[x].asked  u == Unasked(x)
<1>1. q \in Seq(Message(n)) /\ q # <<>> /\ q = st[x].asked /\ u = [st EXCEPT ![x].asked = Tail(q)]
  BY QueuesAre DEF QueuesOf, Fit, Unasked
<1>1a. u = Unasked(x)
  OBVIOUS
<1> HIDE DEF q, u
<1>2. Tail(q) \in Seq(Message(n)) /\ Head(q) \in Message(n) /\ ToSet(q) = {Head(q)} \cup ToSet(Tail(q))
  BY <1>1, Rest
<1>3. Step(n, st, u, x) /\ IsQueued(st[x], u[x], st[x].ready, st[x].out, Tail(q), st[x].inbox)
  BY <1>1, <1>2, AskedIs
<1>4. SameCount(st[x], u[x]) /\ Asked(st[x], u[x])
  BY <1>1, <1>3 DEF IsQueued, SameCount, SameBook, Asked
<1> QED
  BY <1>1, <1>1a, <1>2, <1>3, <1>4 DEF Asking

\* What the server knows of the one that asked, and what is left of its questions.
LEMMA AskingLives ==
    ASSUME NEW n \in Nat \ {0}, Types(st, n), Living(st, srv), NEW u, NEW x \in Side, NEW m,
           Asking(n, u, x, m)
    PROVE  /\ Types(u, n) /\ Life(u, srv) /\ Silent(u)
           /\ m.type # "accept_chat" => Living(u, srv)
           /\ u[Other(x)] = st[Other(x)] /\ Life(st, srv)
           /\ u[x].chat # "absent" /\ (x = "bob" => srv.chat # "no")
           /\ \A T : m.type \in T => Has(st[x].asked, T)
           /\ \A T : m.type \in T /\ Once(st[x].asked, T) => ~Has(u[x].asked, T)
<1>1. /\ Types(u, n) /\ u[Other(x)] = st[Other(x)] /\ Asked(st[x], u[x])
      /\ Life(st, srv) /\ LifeHolds(st, srv) /\ Silent(st) /\ n \in Nat /\ st[x] \in Chat(n)
  BY DEF Asking, Step, Living, LifeHolds, Types
<1>2. Life(u, srv) /\ (m.type # "accept_chat" => LifeHolds(u, srv))
  BY <1>1, LifeAsked DEF Asking
<1> DEFINE q == st[x].asked
<1>3. q \in Seq(Message(n)) /\ q # <<>> /\ q = st[x].asked /\ m = Head(q) /\ u[x].asked = Tail(q)
  BY <1>1, ChatFields DEF Asking, Asked
<1> HIDE DEF q
<1>4. \A T : Has(q, T) <=> Has(Tail(q), T) \/ Head(q).type \in T
  BY <1>3, HasRest
<1>5. \A T : Once(q, T) => (Head(q).type \in T => ~Has(Tail(q), T))
  BY <1>3, OnceRest
<1>6. Silent(u)
  <2>1. \A y \in Side : /\ u[y].fp = st[y].fp /\ u[y].ex = st[y].ex /\ u[y].out = st[y].out
                        /\ u[y].inbox = st[y].inbox
                        /\ Has(u[y].asked, InChat) => Has(st[y].asked, InChat)
    <3>1. /\ u[x].fp = st[x].fp /\ u[x].ex = st[x].ex /\ u[x].out = st[x].out
          /\ u[x].inbox = st[x].inbox
      BY <1>1 DEF Asked, SameKeys, SameExchange
    <3>2. Has(u[x].asked, InChat) => Has(st[x].asked, InChat)
      BY <1>3, <1>4
    <3> QED
      BY <1>1, <3>1, <3>2, Sides
  <2> QED
    BY <1>1, <2>1, SilentStep DEF Side
<1>7. u[x].chat # "absent" /\ (x = "bob" => srv.chat # "no")
  <2>1. st[x].asked # <<>> /\ u[x].chat = st[x].chat
    BY <1>1 DEF Asked, SameLife
  <2>2. st[x].chat # "absent"
    BY <1>1, <2>1 DEF Life, Roles, Side
  <2>3. x = "bob" => srv.chat # "no"
    BY <1>1, <2>2 DEF Life, Acceptor
  <2> QED
    BY <2>1, <2>2, <2>3
<1> QED
  BY <1>1, <1>2, <1>3, <1>4, <1>5, <1>6, <1>7 DEF Living, LifeHolds

\* A message comes.
LEMMA ToIs ==
    ASSUME NEW n \in Nat, NEW s, Types(s, n), NEW y \in Side, NEW l \in Message(n), NEW t, t = To(s, y, l)
    PROVE  Step(n, s, t, y) /\ Reached(s[y], t[y], l) /\ SameCount(s[y], t[y])
<1> DEFINE q == s[y].inbox  r == Append(q, l)
<1>1. q \in Seq(Message(n)) /\ q = s[y].inbox /\ t = [s EXCEPT ![y].inbox = r] /\ r = Append(q, l)
  BY QueuesAre DEF QueuesOf, Fit, To
<1> HIDE DEF q, r
<1>2. r \in Seq(Message(n))
  BY <1>1
<1>3. Step(n, s, t, y) /\ IsQueued(s[y], t[y], s[y].ready, s[y].out, s[y].asked, r)
  BY <1>1, <1>2, InboxIs
<1> QED
  BY <1>1, <1>3 DEF IsQueued, Reached, SameCount, SameBook

\* What the server tells of its own, or passes on, keeps the life of the chat.
LEMMA LivingReached ==
    ASSUME NEW n \in Nat \ {0}, NEW s, Types(s, n), NEW y \in Side, NEW l \in Message(n), NEW v,
           Living(s, v), NEW t, t = To(s, y, l),
           y = "alice" => s[y].chat # "absent", y = "bob" => v.chat # "no",
           \/ l.type \in {"dh", "dh_error", "discard_done"}
           \/ l.type = "request_error" /\ y = "alice"
           \/ l.type \in InChat /\ v.chat = "ok" /\ (y = "bob" => s["alice"].fp # {})
    PROVE  Living(t, v)
<1>1. Types(t, n) /\ t[Other(y)] = s[Other(y)] /\ Reached(s[y], t[y], l) /\ n \in Nat
  BY ToIs DEF Step
<1>2. Life(s, v) /\ Closing(s, v) /\ Silent(s)
  BY DEF Living
<1>3. Life(t, v) /\ Closing(t, v)
  BY <1>1, <1>2, LifeReached
<1>4. Silent(t)
  <2>1. Arrived(s[y], t[y], l)
    BY <1>1, ReachedIs DEF Types
  <2>2. /\ t[y].fp = s[y].fp /\ t[y].ex = s[y].ex /\ t[y].out = s[y].out /\ t[y].asked = s[y].asked
        /\ \A T : Has(t[y].inbox, T) <=> Has(s[y].inbox, T) \/ l.type \in T
    BY <2>1 DEF Arrived
  <2>3. CASE y = "alice"
    <3>1. t["bob"] = s["bob"]
      BY <1>1, <2>3 DEF Other
    <3> QED
      BY <1>2, <2>2, <2>3, <3>1, SilentStep
  <2>4. CASE y = "bob"
    <3>1. t["alice"] = s["alice"]
      BY <1>1, <2>4 DEF Other
    <3>2. l.type \in InChat => s["alice"].fp # {}
      BY <2>4 DEF InChat
    <3> QED
      BY <1>2, <2>2, <2>4, <3>1, <3>2, SilentStep
  <2> QED
    BY <2>3, <2>4 DEF Side
<1> QED
  BY <1>3, <1>4 DEF Living

\* An update or an answer has come, or nothing.
Hears(n, c, e) == e = c \/ \E l \in Message(n) : l.type \notin InChat /\ Reached(c, e, l)

\* What the sides hear from the server does not break their silence.
LEMMA SilentHears ==
    ASSUME NEW n \in Nat, NEW s, Types(s, n), Silent(s), NEW t, \A y \in Side : Hears(n, s[y], t[y])
    PROVE  Silent(t)
<1>1. ASSUME NEW y \in Side
      PROVE  /\ t[y].fp = s[y].fp /\ t[y].ex = s[y].ex /\ t[y].out = s[y].out
             /\ t[y].asked = s[y].asked
             /\ Has(t[y].inbox, InChat) => Has(s[y].inbox, InChat)
  <2>1. CASE t[y] = s[y]
    BY <2>1
  <2>2. CASE \E l \in Message(n) : l.type \notin InChat /\ Reached(s[y], t[y], l)
    <3>1. PICK l \in Message(n) : l.type \notin InChat /\ Reached(s[y], t[y], l)
      BY <2>2
    <3>2. Arrived(s[y], t[y], l)
      BY <3>1, ReachedIs DEF Types
    <3> QED
      BY <3>1, <3>2 DEF Arrived
  <2> QED
    BY <2>1, <2>2 DEF Hears
<1> QED
  BY <1>1, SilentStep DEF Side

\* The chat is requested.
LEMMA LivingRequested ==
    ASSUME NEW n \in Nat \ {0}, Types(st, n), Living(st, srv), NEW u, NEW x \in Side, NEW m,
           Asking(n, u, x, m), m.type = "request_chat",
           NEW k \in Message(n), NEW l \in Message(n), k.type = "waiting", l.type = "requested", l.g = m.g,
           NEW t, t = To(To(u, x, k), Other(x), l)
    PROVE  Living(t, [chat |-> "requested", ga |-> m.g])
<1>1. /\ Types(u, n) /\ Life(u, srv) /\ Silent(u) /\ u[Other(x)] = st[Other(x)] /\ Life(st, srv)
      /\ Has(st[x].asked, {"request_chat"})
      /\ Once(st[x].asked, {"request_chat"}) => ~Has(u[x].asked, {"request_chat"})
  <2>1. m.type \in {"request_chat"}
    OBVIOUS
  <2> QED
    BY <2>1, AskingLives
<1>2. x = "alice"
  BY <1>1 DEF Life, Roles, Side
<1>3. Asked(st[x], u[x]) /\ m \in ToSet(st[x].asked) /\ m \in Message(n) /\ n \in Nat
  BY DEF Asking
<1>4. /\ srv.chat = "no" /\ Once(st["alice"].asked, {"request_chat"})
      /\ st["alice"].chat = "waiting" /\ st["alice"].fp = {}
      /\ m.g = st["alice"].key /\ Single(m.g)
  BY <1>1, <1>2, <1>3 DEF Life, Creator
<1>5. /\ u["alice"].chat = "waiting" /\ u["alice"].fp = {} /\ u["alice"].key = m.g
      /\ ~Has(u["alice"].asked, {"request_chat"})
  BY <1>1, <1>2, <1>3, <1>4 DEF Asked, SameLife, SameKeys
<1> DEFINE p == To(u, x, k)
<1>6. Step(n, u, p, x) /\ Reached(u[x], p[x], k) /\ p = To(u, x, k)
  BY <1>1, <1>3, ToIs
<1> HIDE DEF p
<1>7. Types(p, n) /\ p[Other(x)] = u[Other(x)] /\ Other(x) = "bob" /\ Other(x) \in Side /\ Other(Other(x)) = x
  BY <1>2, <1>6 DEF Step, Other, Side
<1>8. Step(n, p, t, Other(x)) /\ Reached(p[Other(x)], t[Other(x)], l)
  <2>1. t = To(p, Other(x), l)
    BY <1>6
  <2> QED
    BY <1>3, <1>7, <2>1, ToIs
<1>9. Types(t, n) /\ t[x] = p[x]
  BY <1>7, <1>8 DEF Step
<1>10. Reached(u["alice"], t["alice"], k) /\ Reached(u["bob"], t["bob"], l)
  BY <1>2, <1>6, <1>7, <1>8, <1>9
<1>11. LifeHolds(t, [chat |-> "requested", ga |-> m.g])
  <2>1. m.g \in SUBSET Nat
    BY <1>3 DEF Message
  <2> QED
    BY <1>1, <1>4, <1>5, <1>9, <1>10, <2>1, LifeRequested
<1>12. Silent(t)
  <2>1. k.type \notin InChat /\ l.type \notin InChat
    BY DEF InChat
  <2>2. Hears(n, u["alice"], t["alice"]) /\ Hears(n, u["bob"], t["bob"])
    BY <1>10, <2>1 DEF Hears
  <2> QED
    BY <1>1, <1>3, <2>2, SilentHears DEF Side
<1> QED
  BY <1>11, <1>12 DEF LifeHolds, Living

\* The chat is accepted, before the server has given it up.
LEMMA LivingAccepted ==
    ASSUME NEW n \in Nat \ {0}, Types(st, n), Living(st, srv), NEW u, NEW x \in Side, NEW m,
           Asking(n, u, x, m), m.type = "accept_chat", srv.chat = "requested",
           NEW k \in Message(n), NEW l \in Message(n), k.type = "accepted", l.type = "chat",
           l.g = m.g, l.fp = m.fp,
           NEW t, t = To(To(u, x, k), Other(x), l)
    PROVE  Living(t, [srv EXCEPT !.chat = "ok"])
<1>1. /\ Types(u, n) /\ Life(u, srv) /\ Silent(u) /\ u[Other(x)] = st[Other(x)] /\ Life(st, srv)
      /\ Has(st[x].asked, {"accept_chat"})
      /\ Once(st[x].asked, {"accept_chat"}) => ~Has(u[x].asked, {"accept_chat"})
  <2>1. m.type \in {"accept_chat"}
    OBVIOUS
  <2> QED
    BY <2>1, AskingLives
<1>2. x = "bob" /\ Other(x) = "alice" /\ Other(x) \in Side /\ Other(Other(x)) = x
  BY <1>1 DEF Life, Roles, Side, Other
<1>3. Asked(st[x], u[x]) /\ m \in ToSet(st[x].asked) /\ m \in Message(n) /\ n \in Nat
  BY DEF Asking
<1>4. /\ Once(st["bob"].asked, {"accept_chat"}) /\ st["bob"].wait.accept = 1 /\ st["alice"].fp = {}
      /\ ~Has(st["bob"].inbox, {"accepted", "accept_error", "declined"})
      /\ m.fp = st["bob"].key /\ st["bob"].key = srv.ga \cup m.g /\ Single(m.g)
  BY <1>1, <1>2, <1>3 DEF Life, Acceptor
<1>4a. st["bob"].fp # {}
  <2>1. ASSUME st["bob"].fp = {}
        PROVE  FALSE
    <3>1. ~Has(st["bob"].asked, {"accept_chat"} \cup InChat)
      BY <1>1, <2>1 DEF Life, Acceptor
    <3> QED
      BY <1>1, <1>2, <3>1 DEF Has
  <2> QED
    BY <2>1
<1>5. /\ u["bob"].fp # {} /\ u["bob"].wait.accept = 1 /\ u["alice"].fp = {}
      /\ ~Has(u["bob"].asked, {"accept_chat"})
      /\ ~Has(u["bob"].inbox, {"accepted", "accept_error", "declined"})
      /\ l.fp = u["bob"].key /\ u["bob"].key = srv.ga \cup l.g /\ Single(l.g)
  BY <1>1, <1>2, <1>3, <1>4, <1>4a DEF Asked, SameLife, SameKeys
<1> DEFINE p == To(u, x, k)
<1>6. Step(n, u, p, x) /\ Reached(u[x], p[x], k) /\ p = To(u, x, k)
  BY <1>1, <1>3, ToIs
<1> HIDE DEF p
<1>7. Types(p, n) /\ p[Other(x)] = u[Other(x)]
  BY <1>6 DEF Step
<1>8. Step(n, p, t, Other(x)) /\ Reached(p[Other(x)], t[Other(x)], l)
  <2>1. t = To(p, Other(x), l)
    BY <1>6
  <2> QED
    BY <1>2, <1>3, <1>7, <2>1, ToIs
<1>9. Types(t, n) /\ t[x] = p[x]
  BY <1>2, <1>8 DEF Step
<1>10. Reached(u["bob"], t["bob"], k) /\ Reached(u["alice"], t["alice"], l)
  BY <1>2, <1>6, <1>7, <1>8, <1>9
<1>11. LifeHolds(t, [srv EXCEPT !.chat = "ok"])
  BY <1>1, <1>5, <1>9, <1>10, LifeAccepted
<1>12. Silent(t)
  <2>1. k.type \notin InChat /\ l.type \notin InChat
    BY DEF InChat
  <2>2. Hears(n, u["alice"], t["alice"]) /\ Hears(n, u["bob"], t["bob"])
    BY <1>10, <2>1 DEF Hears
  <2> QED
    BY <1>1, <1>3, <2>2, SilentHears DEF Side
<1> QED
  BY <1>11, <1>12 DEF LifeHolds, Living

\* The chat is accepted, but the server has given it up.
LEMMA LivingDeclined ==
    ASSUME NEW n \in Nat \ {0}, Types(st, n), Living(st, srv), NEW u, NEW x \in Side, NEW m,
           Asking(n, u, x, m), m.type = "accept_chat", srv.chat # "requested",
           NEW k \in Message(n), srv.chat = "gone" => k.type = "declined",
           NEW t, t = To(u, x, k)
    PROVE  Living(t, srv)
<1>1. /\ Types(u, n) /\ Life(u, srv) /\ Silent(u) /\ u[Other(x)] = st[Other(x)] /\ Life(st, srv)
      /\ Has(st[x].asked, {"accept_chat"})
      /\ Once(st[x].asked, {"accept_chat"}) => ~Has(u[x].asked, {"accept_chat"})
  <2>1. m.type \in {"accept_chat"}
    OBVIOUS
  <2> QED
    BY <2>1, AskingLives
<1>2. x = "bob" /\ Other(x) = "alice" /\ Other(x) \in Side
  BY <1>1 DEF Life, Roles, Side, Other
<1>3. Asked(st[x], u[x]) /\ n \in Nat
  BY DEF Asking
<1>4. /\ Once(st["bob"].asked, {"accept_chat"}) /\ st["bob"].wait.accept = 1
      /\ srv.chat = "gone"
      /\ ~Has(st["bob"].inbox, {"accepted", "accept_error", "declined"})
  BY <1>1, <1>2 DEF Life, Acceptor
<1>4a. st["bob"].fp # {}
  <2>1. ASSUME st["bob"].fp = {}
        PROVE  FALSE
    <3>1. ~Has(st["bob"].asked, {"accept_chat"} \cup InChat)
      BY <1>1, <2>1 DEF Life, Acceptor
    <3> QED
      BY <1>1, <1>2, <3>1 DEF Has
  <2> QED
    BY <2>1
<1>5. /\ u["bob"].fp # {} /\ u["bob"].wait.accept = 1
      /\ ~Has(u["bob"].asked, {"accept_chat"})
      /\ ~Has(u["bob"].inbox, {"accepted", "accept_error", "declined"})
  BY <1>1, <1>2, <1>3, <1>4, <1>4a DEF Asked, SameLife, SameKeys
<1>6. Step(n, u, t, x) /\ Reached(u[x], t[x], k)
  BY <1>1, <1>3, ToIs
<1>7. Types(t, n) /\ t["alice"] = u["alice"] /\ Reached(u["bob"], t["bob"], k)
  BY <1>2, <1>6 DEF Step
<1>8. Life(t, srv)
  BY <1>1, <1>4, <1>5, <1>7, LifeDeclined
<1>9. Closing(t, srv)
  <2>1. \A y \in Side : Closed(st[y], y)
    BY <1>4, ClosingIs DEF Living
  <2>2. Closed(t["alice"], "alice")
    BY <1>1, <1>2, <1>7, <2>1 DEF Side
  <2>3. Closed(t["bob"], "bob")
    <3> DEFINE b == st["bob"]  c == u["bob"]  f == t["bob"]
    <3>1. Closed(b, "bob") /\ Arrived(c, f, k) /\ Asked(b, c) /\ f = t["bob"]
      BY <1>1, <1>2, <1>3, <1>7, <2>1, ReachedIs DEF Types, Side
    <3> HIDE DEF b, c, f
    <3>2. /\ f.left = b.left /\ f.chat = b.chat
          /\ \A T : Has(f.inbox, T) <=> Has(b.inbox, T) \/ k.type \in T
      BY <3>1 DEF Arrived, Asked, SameLife
    <3>3. Has(f.inbox, {"declined"}) /\ (Has(f.inbox, Reopeners) => Has(b.inbox, Reopeners))
          /\ (Has(b.inbox, {"discarded"}) => Has(f.inbox, {"discarded"}))
      BY <1>4, <3>2 DEF Reopeners
    <3> QED
      BY <3>1, <3>2, <3>3 DEF Closed
  <2> QED
    BY <2>2, <2>3, ClosingIs DEF Side
<1>10. Silent(t)
  <2>1. k.type \notin InChat
    BY <1>4 DEF InChat
  <2>2. Hears(n, u["alice"], t["alice"]) /\ Hears(n, u["bob"], t["bob"])
    BY <1>7, <2>1 DEF Hears
  <2> QED
    BY <1>1, <1>3, <2>2, SilentHears DEF Side
<1> QED
  BY <1>8, <1>9, <1>10 DEF Living

\* The chat is given up: the other side, if there is one, will know.
LEMMA LivingGivenUp ==
    ASSUME NEW n \in Nat \ {0}, Types(st, n), Living(st, srv), NEW u, NEW x \in Side, NEW m,
           Asking(n, u, x, m), m.type = "discard",
           NEW k \in Message(n), NEW l \in Message(n), k.type = "discard_done", l.type = "discarded",
           NEW p, p = To(u, x, k), NEW t, t = To(p, Other(x), l)
    PROVE  Living(p, srv) /\ (srv.chat # "no" => Living(t, [srv EXCEPT !.chat = "gone"]))
<1>1. /\ Types(u, n) /\ Living(u, srv) /\ u[Other(x)] = st[Other(x)] /\ Life(st, srv)
      /\ u[x].chat # "absent" /\ (x = "bob" => srv.chat # "no")
      /\ Has(st[x].asked, {"discard"})
  <2>1. m.type \in {"discard"} /\ m.type # "accept_chat"
    OBVIOUS
  <2> QED
    BY <2>1, AskingLives
<1>2. Asked(st[x], u[x]) /\ n \in Nat /\ Other(x) \in Side /\ Other(Other(x)) = x /\ Other(x) # x
  BY Sides DEF Asking
<1>3. st[x].left
  BY <1>1 DEF Life, Roles
<1>4. Living(p, srv)
  BY <1>1, LivingReached
<1>5. Types(p, n) /\ p[Other(x)] = u[Other(x)] /\ Reached(u[x], p[x], k)
  BY <1>1, <1>2, ToIs DEF Step
<1>6. Types(t, n) /\ t[x] = p[x] /\ Reached(p[Other(x)], t[Other(x)], l)
  BY <1>2, <1>5, ToIs DEF Step
<1> DEFINE w == [srv EXCEPT !.chat = "gone"]
<1>7. ASSUME srv.chat # "no"
      PROVE  Living(t, w)
  <2>1. w.chat = "gone"
    BY <1>1 DEF Life, Roles
  <2>2. Life(p, w)
    BY <1>4, <1>7, LifeGone DEF Living
  <2> HIDE DEF w
  <2>3. Life(t, w)
    <3>1. Other(x) = "alice" => p[Other(x)].chat # "absent"
      <4>1. p["alice"].chat = "absent" => srv.chat = "no"
        BY <1>4 DEF Living, Life, Creator
      <4> QED
        BY <1>7, <4>1
    <3>2. t[Other(Other(x))] = p[Other(Other(x))] /\ w.chat # "no"
      BY <1>2, <1>6, <2>1
    <3> QED
      BY <1>2, <1>5, <1>6, <2>1, <2>2, <3>1, <3>2, LifeReached
  <2>4. Closing(t, w)
    <3>1. t[x].left
      BY <1>2, <1>3, <1>5, <1>6 DEF Asked, Reached, SameLife
    <3>2. Has(t[Other(x)].inbox, {"discarded"})
      <4>1. Arrived(p[Other(x)], t[Other(x)], l)
        BY <1>2, <1>5, <1>6, ReachedIs DEF Types
      <4> QED
        BY <4>1 DEF Arrived
    <3>3. \A y \in Side : Closed(t[y], y)
      BY <3>1, <3>2, Sides DEF Closed
    <3> QED
      BY <3>3, ClosingIs
  <2>5. Silent(t)
    <3>1. l.type \notin InChat
      BY DEF InChat
    <3>2. Hears(n, p[x], t[x]) /\ Hears(n, p[Other(x)], t[Other(x)])
      BY <1>6, <3>1 DEF Hears
    <3>3. \A y \in Side : Hears(n, p[y], t[y])
      BY <3>2, Sides
    <3>4. Silent(p)
      BY <1>4 DEF Living
    <3> QED
      BY <1>2, <1>5, <3>3, <3>4, SilentHears
  <2> QED
    BY <2>3, <2>4, <2>5 DEF Living
<1> QED
  BY <1>4, <1>7

\* What is said in the chat is passed on.
LEMMA LivingPassed ==
    ASSUME NEW n \in Nat \ {0}, Types(st, n), Living(st, srv), NEW u, NEW x \in Side, NEW m,
           Asking(n, u, x, m), m.type \in InChat, srv.chat = "ok",
           NEW t, t = To(u, Other(x), m)
    PROVE  Living(t, srv)
<1>1. /\ Types(u, n) /\ Living(u, srv) /\ u[Other(x)] = st[Other(x)]
      /\ Has(st[x].asked, InChat)
  <2>1. m.type # "accept_chat"
    BY DEF InChat
  <2> QED
    BY <2>1, AskingLives
<1>2. m \in Message(n) /\ Other(x) \in Side /\ Asked(st[x], u[x])
  BY Sides DEF Asking
<1>3. Other(x) = "alice" => u[Other(x)].chat # "absent"
  <2>1. u["alice"].chat = "absent" => srv.chat = "no"
    BY <1>1 DEF Living, Life, Creator
  <2> QED
    BY <2>1
<1>4. Other(x) = "bob" => u["alice"].fp # {}
  <2>1. ASSUME Other(x) = "bob", u["alice"].fp = {}
        PROVE  FALSE
    <3>1. x = "alice"
      BY <2>1 DEF Side, Other
    <3>2. st["alice"].fp = {} /\ Has(st["alice"].asked, InChat)
      BY <1>1, <1>2, <2>1, <3>1 DEF Asked, SameKeys
    <3> QED
      BY <3>2 DEF Living, Silent
  <2> QED
    BY <2>1
<1> QED
  BY <1>1, <1>2, <1>3, <1>4, LivingReached

\* What the server has is of the numbers there are.
Server(v, n) == v \in [chat : {"no", "requested", "ok", "gone"}, ga : SUBSET (0..(n - 1))]

\* The server has answered: s is the state without the question.
Answered(n, t) == Types(t, n) /\ \A y \in Side : SameCount(st[y], t[y])

\* One more answer keeps the types and the counts.
LEMMA AnsweredOnce ==
    ASSUME NEW n \in Nat, NEW s, Answered(n, s), NEW y \in Side, NEW l \in Message(n),
           NEW t, t = To(s, y, l)
    PROVE  Answered(n, t)
<1>1. Step(n, s, t, y) /\ SameCount(s[y], t[y])
  BY ToIs DEF Answered
<1>2. Types(t, n) /\ t[Other(y)] = s[Other(y)]
  BY <1>1 DEF Step
<1>3. SameCount(st[y], t[y]) /\ SameCount(st[Other(y)], t[Other(y)])
  BY <1>1, <1>2, Sides DEF Answered, SameCount, SameLife
<1>4. \A z \in Side : SameCount(st[z], t[z])
  BY <1>3, Sides
<1> QED
  BY <1>2, <1>4 DEF Answered

\* An answer of the server keeps the invariant when the life of the chat holds.
LEMMA AnsweredHolds ==
    ASSUME Lasting, Answered(fresh, st'), UNCHANGED <<fresh, spoiled>>,
           faults' = faults \/ (faults' = faults + 1 /\ faults' \in 0..MaxFaults),
           spoiled = {} => Living(st', srv')
    PROVE  Lasting'
<1>1. /\ fresh \in Nat \ {0} /\ Types(st, fresh) /\ faults \in 0..MaxFaults /\ faults \in Nat
      /\ Counted(st, faults) /\ fresh \in Nat
  BY SecretChatsAssumption DEF Lasting, Holds
<1>2. Types(st', fresh) /\ \A y \in Side : SameCount(st[y], st'[y])
  BY DEF Answered
<1>3. Counted(st', faults)
  BY <1>1, <1>2, CountedSame
<1>4. Counted(st', faults')
  BY <1>1, <1>2, <1>3, CountedMore
<1> QED
  BY <1>1, <1>2, <1>4 DEF Lasting, Holds

\* A question is answered.
LEMMA ServeHolds ==
    ASSUME Lasting, Server(srv, fresh), NEW x \in Side, Serve(x)
    PROVE  Lasting' /\ Server(srv', fresh')
<1> DEFINE n == fresh  u == Unasked(x)  m == Head(st[x].asked)
<1>1. /\ n \in Nat \ {0} /\ n \in Nat /\ Types(st, n) /\ faults \in 0..MaxFaults
      /\ (spoiled = {} => Living(st, srv)) /\ Other(x) \in Side /\ n = fresh
  BY Sides DEF Lasting, Holds
<1>2. st[x].asked # <<>> /\ Served(u, x, m) /\ fresh' = fresh /\ spoiled' = spoiled
  BY DEF Serve, Unasked
<1>3. u = Unasked(x) /\ m = Head(st[x].asked)
  OBVIOUS
<1> HIDE DEF n, u, m
<1>4. Asking(n, u, x, m)
  BY <1>1, <1>2, <1>3, AskingIs
<1>5. m \in Message(n) /\ m.g \in SUBSET (0..(n - 1)) /\ m.fp \in SUBSET (0..(n - 1))
      /\ srv.ga \in SUBSET (0..(n - 1))
      /\ srv \in [chat : {"no", "requested", "ok", "gone"}, ga : SUBSET (0..(n - 1))]
  BY <1>1, <1>4 DEF Asking, Message, Server
<1>6. Answered(n, u)
  <2>1. Types(u, n) /\ u[Other(x)] = st[Other(x)] /\ SameCount(st[x], u[x])
    BY <1>4 DEF Asking, Step
  <2>2. SameCount(st[Other(x)], u[Other(x)])
    BY <2>1 DEF SameCount, SameLife
  <2>3. \A y \in Side : SameCount(st[y], u[y])
    BY <2>1, <2>2, Sides
  <2> QED
    BY <2>1, <2>3 DEF Answered
<1>7. spoiled = {} =>
         /\ m.type # "accept_chat" => Living(u, srv)
         /\ u[x].chat # "absent" /\ (x = "bob" => srv.chat # "no")
         /\ Life(st, srv)
         /\ \A T : m.type \in T => Has(st[x].asked, T)
  BY <1>1, <1>4, AskingLives
<1> DEFINE Passed == /\ Answered(n, st') /\ Server(srv', n)
                     /\ faults' = faults \/ (faults' = faults + 1 /\ faults' \in 0..MaxFaults)
                     /\ spoiled = {} => Living(st', srv')
<1>8. ASSUME NEW type \in {"dh", "dh_error", "request_error", "accept_error", "declined", "discard_done"},
             st' = To(u, x, Msg(type)), UNCHANGED srv,
             faults' = faults \/ (faults' = faults + 1 /\ faults' \in 0..MaxFaults),
             spoiled = {} => Living(st', srv)
      PROVE  Passed
  <2> DEFINE k == Msg(type)
  <2>1. k \in Message(n) /\ k = Msg(type)
    BY <1>1, MsgIs DEF Updates
  <2> HIDE DEF k
  <2>2. Answered(n, st')
    BY <1>1, <1>6, <1>8, <2>1, AnsweredOnce
  <2> QED
    BY <1>5, <1>8, <2>2 DEF Server
<1>9. ASSUME m.type = "dh"
      PROVE  Passed
  <2>1. PICK type \in {"dh", "dh_error"} :
           /\ st' = To(u, x, Msg(type)) /\ UNCHANGED srv
           /\ faults' = faults \/ Fault("error")
    BY <1>2, <1>9 DEF Served, InChat
  <2>2. faults' = faults \/ (faults' = faults + 1 /\ faults' \in 0..MaxFaults)
    BY <1>1, <2>1, FaultIs
  <2>3. Msg(type) \in Message(n) /\ Msg(type).type = type
    BY <1>1, MsgIs DEF Updates
  <2>4. spoiled = {} => Living(st', srv)
    <3> DEFINE k == Msg(type)
    <3>1. k \in Message(n) /\ k.type \in {"dh", "dh_error", "discard_done"} /\ st' = To(u, x, k) /\ Types(u, n)
      BY <1>6, <2>1, <2>3 DEF Answered
    <3> HIDE DEF k
    <3> QED
      BY <1>1, <1>7, <1>9, <3>1, LivingReached
  <2> QED
    BY <1>8, <2>1, <2>2, <2>4
<1>10. ASSUME m.type = "request_chat"
      PROVE  Passed
  <2> DEFINE k == Msg("waiting")  l == MsgOf("requested", m.g)
  <2>1. \/ /\ st' = To(To(u, x, k), Other(x), l) /\ srv' = [chat |-> "requested", ga |-> m.g]
           /\ faults' = faults
        \/ st' = To(u, x, Msg("request_error")) /\ UNCHANGED srv /\ Fault("error")
    BY <1>2, <1>10 DEF Served, InChat, MsgOf
  <2>2. /\ k \in Message(n) /\ k.type = "waiting"
        /\ l \in Message(n) /\ l.type = "requested" /\ l.g = m.g
    BY <1>1, <1>5, MsgIs, MsgOfIs DEF Updates
  <2> HIDE DEF k, l
  <2>3. CASE /\ st' = To(To(u, x, k), Other(x), l) /\ srv' = [chat |-> "requested", ga |-> m.g]
             /\ faults' = faults
    <3>1. Answered(n, st')
      BY <1>1, <1>6, <2>2, <2>3, AnsweredOnce
    <3>2. Server(srv', n)
      BY <1>5, <2>3 DEF Server
    <3>3. spoiled = {} => Living(st', srv')
      BY <1>1, <1>4, <1>10, <2>2, <2>3, LivingRequested
    <3> QED
      BY <2>3, <3>1, <3>2, <3>3
  <2>4. CASE st' = To(u, x, Msg("request_error")) /\ UNCHANGED srv /\ Fault("error")
    <3>1. faults' = faults + 1 /\ faults' \in 0..MaxFaults
      BY <1>1, <2>4, FaultIs
    <3>2. spoiled = {} => Living(st', srv)
      <4> DEFINE h == Msg("request_error")
      <4>1. h \in Message(n) /\ h.type = "request_error" /\ st' = To(u, x, h) /\ Types(u, n)
        BY <1>1, <1>6, <2>4, MsgIs DEF Updates, Answered
      <4> HIDE DEF h
      <4>2. spoiled = {} => x = "alice" /\ Living(u, srv)
        BY <1>7, <1>10 DEF Life, Roles, Side
      <4> QED
        BY <1>1, <1>7, <4>1, <4>2, LivingReached
    <3> QED
      BY <1>8, <2>4, <3>1, <3>2
  <2> QED
    BY <2>1, <2>3, <2>4
<1>11. ASSUME m.type = "accept_chat" /\ srv.chat = "requested"
      PROVE  Passed
  <2> DEFINE k == MsgBy("accepted", srv.ga, m.fp)  l == MsgBy("chat", m.g, m.fp)
  <2>1. /\ st' = To(To(u, x, k), Other(x), l) /\ srv' = [srv EXCEPT !.chat = "ok"]
        /\ faults' = faults
    BY <1>2, <1>11 DEF Served, InChat, MsgBy
  <2>2. k \in Message(n) /\ k.type = "accepted"
    BY <1>1, <1>5, MsgByIs DEF Updates
  <2>3. l \in Message(n) /\ l.type = "chat" /\ l.g = m.g /\ l.fp = m.fp
    BY <1>1, <1>5, MsgByIs DEF Updates
  <2> HIDE DEF k, l
  <2>4. Answered(n, st')
    BY <1>1, <1>6, <2>1, <2>2, <2>3, AnsweredOnce
  <2>5. Server(srv', n)
    BY <1>5, <2>1 DEF Server
  <2>6. spoiled = {} => Living(st', srv')
    BY <1>1, <1>4, <1>11, <2>1, <2>2, <2>3, LivingAccepted
  <2> QED
    BY <2>1, <2>4, <2>5, <2>6
<1>12. ASSUME m.type = "accept_chat" /\ srv.chat # "requested"
      PROVE  Passed
  <2>1. PICK type \in {"declined", "accept_error"} :
           /\ st' = To(u, x, Msg(type)) /\ UNCHANGED <<srv, faults>>
           /\ srv.chat = "gone" => type = "declined"
    BY <1>2, <1>12 DEF Served, InChat
  <2>2. spoiled = {} => Living(st', srv)
    <3> DEFINE k == Msg(type)
    <3>1. k \in Message(n) /\ k.type = type /\ st' = To(u, x, k)
      BY <1>1, <2>1, MsgIs DEF Updates
    <3> HIDE DEF k
    <3> QED
      BY <1>1, <1>4, <1>12, <2>1, <3>1, LivingDeclined
  <2> QED
    BY <1>8, <2>1, <2>2
<1>13. ASSUME m.type = "discard"
      PROVE  Passed
  <2> DEFINE k == Msg("discard_done")  l == Msg("discarded")  p == To(u, x, k)
  <2>1. /\ IF srv.chat = "no" THEN st' = p ELSE st' = To(p, Other(x), l)
        /\ srv' = [srv EXCEPT !.chat = IF @ = "no" THEN @ ELSE "gone"]
        /\ faults' = faults
    BY <1>2, <1>13 DEF Served, InChat
  <2>2. /\ k \in Message(n) /\ k.type = "discard_done"
        /\ l \in Message(n) /\ l.type = "discarded" /\ p = To(u, x, k)
    BY <1>1, MsgIs DEF Updates
  <2> HIDE DEF k, l, p
  <2>3. Answered(n, st')
    BY <1>1, <1>6, <2>1, <2>2, AnsweredOnce
  <2>4. Server(srv', n) /\ (srv.chat = "no" => srv' = srv)
        /\ (srv.chat # "no" => srv' = [srv EXCEPT !.chat = "gone"])
    BY <1>5, <2>1 DEF Server
  <2>5. ASSUME spoiled = {}
        PROVE  Living(st', srv')
    <3> DEFINE t == To(p, Other(x), l)
    <3>1. Living(p, srv) /\ (srv.chat # "no" => Living(t, [srv EXCEPT !.chat = "gone"]))
      <4>1. t = To(p, Other(x), l)
        OBVIOUS
      <4> HIDE DEF t
      <4> QED
        BY <1>1, <1>4, <1>13, <2>2, <2>5, <4>1, LivingGivenUp
    <3> QED
      BY <2>1, <2>4, <3>1
  <2> QED
    BY <2>1, <2>3, <2>4, <2>5
<1>14. ASSUME m.type \in InChat
      PROVE  Passed
  <2>1. /\ st' = IF srv.chat = "ok" THEN To(u, Other(x), m) ELSE u
        /\ UNCHANGED <<srv, faults>>
    BY <1>2, <1>14 DEF Served, InChat
  <2>2. CASE srv.chat = "ok"
    <3>1. Answered(n, st')
      BY <1>1, <1>5, <1>6, <2>1, <2>2, AnsweredOnce
    <3>2. spoiled = {} => Living(st', srv)
      BY <1>1, <1>4, <1>14, <2>1, <2>2, LivingPassed
    <3> QED
      BY <1>5, <2>1, <3>1, <3>2 DEF Server
  <2>3. CASE srv.chat # "ok"
    <3>1. m.type # "accept_chat"
      BY <1>14 DEF InChat
    <3> QED
      BY <1>5, <1>6, <1>7, <2>1, <2>3, <3>1 DEF Server
  <2> QED
    BY <2>2, <2>3
<1>15. Passed
  <2>1. m.type \in {"dh", "request_chat", "accept_chat", "discard"} \cup InChat
    BY <1>2 DEF Served
  <2> HIDE DEF Passed
  <2> QED
    BY <1>9, <1>10, <1>11, <1>12, <1>13, <1>14, <2>1
<1>16. Lasting'
  BY <1>1, <1>2, <1>15, AnsweredHolds
<1> QED
  BY <1>1, <1>2, <1>15, <1>16

-----------------------------------------------------------------------------
(* The theorems                                                            *)

\* What holds in every state, of the server too.
Inductive == Lasting /\ Server(srv, fresh)

\* Nothing has begun.
LEMMA InitHolds == Init => Inductive
<1> SUFFICES ASSUME Init PROVE Inductive
  OBVIOUS
<1> DEFINE w == [dh |-> 0, request |-> 0, accept |-> 0, discard |-> 0]
           c == [chat |-> "absent", key |-> {}, fp |-> {},
                 ex |-> "none", id |-> 0, exkey |-> {}, ready |-> TRUE, out |-> <<>>,
                 asked |-> <<>>, inbox |-> <<>>, called |-> 0, told |-> 0,
                 texts |-> 0, requests |-> 0, left |-> FALSE, wait |-> w]
<1>1. /\ st = [x \in Side |-> c] /\ srv = [chat |-> "no", ga |-> {}]
      /\ fresh = 1 /\ spoiled = {} /\ faults = 0
  BY DEF Init
<1>2. fresh \in Nat \ {0} /\ faults \in 0..MaxFaults /\ Server(srv, fresh)
  BY <1>1, SecretChatsAssumption DEF Server
<1>3. /\ c.chat = "absent" /\ c.key = {} /\ c.fp = {} /\ c.ex = "none" /\ c.out = <<>>
      /\ c.asked = <<>> /\ c.inbox = <<>> /\ c.called = 0 /\ c.told = 0 /\ c.left = FALSE
      /\ c.wait = w
  OBVIOUS
<1>3a. w.dh = 0 /\ w.request = 0 /\ w.accept = 0 /\ w.discard = 0
  OBVIOUS
<1>4. c \in Chat(fresh)
  <2>1. /\ 0 \in 0..(fresh - 1) /\ {} \in SUBSET (0..(fresh - 1)) /\ <<>> \in Seq(Message(fresh))
        /\ w \in [dh : Nat, request : Nat, accept : Nat, discard : Nat]
    BY <1>1
  <2>2. Exchanging(c)
    BY DEF Exchanging
  <2> HIDE DEF w
  <2> QED
    BY <2>1, <2>2 DEF Chat, States, Exchanges
<1> HIDE DEF c
<1>5. st["alice"] = c /\ st["bob"] = c /\ \A x \in Side : st[x] = c
  BY <1>1 DEF Side
<1>6. ToSet(<<>>) = {} /\ Sorted(<<>>) /\ (\A T : ~Has(<<>>, T) /\ Once(<<>>, T))
  BY DEF ToSet, Sorted, Has, Once
<1>7. Types(st, fresh)
  BY <1>1, <1>3, <1>4, <1>5, <1>6 DEF Types
<1> HIDE DEF w
<1>8. Counted(st, faults)
  BY <1>1, <1>3, <1>3a, <1>5 DEF Counted, Side
<1>9. Living(st, srv)
  <2>1. srv.chat = "no" /\ srv.ga = {} /\ srv \in [chat : {"no", "requested", "ok", "gone"}, ga : SUBSET Nat]
    BY <1>1
  <2>2. Ordered(st, srv)
    BY <1>3, <1>5, <1>6 DEF Ordered
  <2>3. Roles(st, srv)
    BY <1>3, <1>5, <1>6, <2>1 DEF Roles
  <2>4. Creator(st, srv)
    BY <1>3, <1>3a, <1>5, <1>6, <2>1 DEF Creator
  <2>5. Acceptor(st, srv)
    BY <1>3, <1>3a, <1>5, <1>6, <2>1 DEF Acceptor
  <2>6. Keyed(st, srv)
    BY <1>3, <1>5 DEF Keyed
  <2>7. Closing(st, srv) /\ Silent(st)
    BY <1>3, <1>5, <1>6, <2>1 DEF Closing, Silent
  <2> QED
    BY <2>2, <2>3, <2>4, <2>5, <2>6, <2>7 DEF Living, Life
<1> QED
  BY <1>1, <1>2, <1>7, <1>8, <1>9 DEF Inductive, Lasting, Holds

\* What the server has stays of the numbers there are.
LEMMA ServerSame ==
    ASSUME Lasting, Server(srv, fresh), UNCHANGED srv, fresh' \in {fresh, fresh + 1}
    PROVE  Server(srv', fresh')
<1>1. fresh \in Nat
  BY DEF Lasting, Holds
<1> DEFINE n == fresh  k == fresh'
<1>2. n \in Nat /\ k \in {n, n + 1} /\ n = fresh /\ k = fresh'
  BY <1>1
<1> HIDE DEF n, k
<1>3. ASSUME NEW i \in 0..(n - 1)
      PROVE  i \in 0..(k - 1)
  <2>1. CASE k = n
    BY <2>1
  <2>2. CASE k = n + 1
    BY <1>2, <2>2
  <2> QED
    BY <1>2, <2>1, <2>2
<1> QED
  BY <1>2, <1>3 DEF Server

\* Every step keeps what holds.
LEMMA StepHolds == Inductive /\ [Next]_vars => Inductive'
<1> SUFFICES ASSUME Lasting, Server(srv, fresh), [Next]_vars PROVE Inductive'
  BY DEF Inductive
<1>1. ASSUME NEW x \in Side, Read(x)
      PROVE  Inductive'
  <2>1. st[x].inbox # <<>> /\ UNCHANGED srv
    BY <1>1 DEF Read
  <2>2. Lasting'
    BY <1>1, <2>1, ReadUpdateHolds, DropHolds, ReadMessageHolds DEF Read
  <2>3. fresh' \in {fresh, fresh + 1}
    BY <1>1 DEF Read, ReadUpdate, Drop, ReadMessage
  <2> QED
    BY <2>1, <2>2, <2>3, ServerSame DEF Inductive
<1>2. ASSUME NEW x \in Side, Flush(x)
      PROVE  Inductive'
  <2>1. Lasting' /\ UNCHANGED <<srv, fresh>>
    BY <1>2, FlushHolds DEF Flush
  <2> QED
    BY <2>1, ServerSame DEF Inductive
<1>3. ASSUME NEW x \in Side, Serve(x)
      PROVE  Inductive'
  BY <1>3, ServeHolds DEF Inductive
<1>4. CASE Create
  <2>1. Lasting' /\ UNCHANGED <<srv, fresh>>
    BY <1>4, CreateHolds DEF Create
  <2> QED
    BY <2>1, ServerSame DEF Inductive
<1>5. CASE Accept
  <2>1. Lasting' /\ UNCHANGED <<srv, fresh>>
    BY <1>5, AcceptHolds DEF Accept
  <2> QED
    BY <2>1, ServerSame DEF Inductive
<1>6. ASSUME NEW x \in Side, Discard(x)
      PROVE  Inductive'
  <2>1. Lasting' /\ UNCHANGED <<srv, fresh>>
    BY <1>6, DiscardHolds DEF Discard
  <2> QED
    BY <2>1, ServerSame DEF Inductive
<1>7. ASSUME NEW x \in Side, RequestKey(x)
      PROVE  Inductive'
  <2>1. Lasting' /\ UNCHANGED srv /\ fresh' = fresh + 1
    BY <1>7, RequestKeyHolds DEF RequestKey
  <2> QED
    BY <2>1, ServerSame DEF Inductive
<1>8. ASSUME NEW x \in Side, Text(x)
      PROVE  Inductive'
  <2>1. Lasting' /\ UNCHANGED <<srv, fresh>>
    BY <1>8, TextHolds DEF Text
  <2> QED
    BY <2>1, ServerSame DEF Inductive
<1>9. ASSUME NEW x \in Side, Unready(x)
      PROVE  Inductive'
  <2>1. st' = [st EXCEPT ![x].ready = FALSE] /\ UNCHANGED <<srv, fresh, spoiled>>
    BY <1>9 DEF Unready
  <2>2. faults' = faults + 1 /\ faults' \in 0..MaxFaults
    BY <1>9, FaultIs DEF Unready, Lasting, Holds
  <2>3. Lasting'
    BY <2>1, <2>2, UnreadyHolds
  <2> QED
    BY <2>1, <2>3, ServerSame DEF Inductive
<1>10. ASSUME NEW x \in Side, Crash(x)
       PROVE  Inductive'
  <2>1. Lasting' /\ UNCHANGED <<srv, fresh>>
    BY <1>10, CrashHolds DEF Crash
  <2> QED
    BY <2>1, ServerSame DEF Inductive
<1>11. ASSUME NEW x \in Side, Late(x)
       PROVE  Inductive'
  <2>1. Lasting' /\ UNCHANGED <<srv, fresh>>
    BY <1>11, LateHolds DEF Late
  <2> QED
    BY <2>1, ServerSame DEF Inductive
<1>12. ASSUME NEW kind \in {"dh", "request"}, Timeout(kind)
       PROVE  Inductive'
  <2>1. Lasting' /\ UNCHANGED <<srv, fresh>>
    BY <1>12, TimeoutHolds DEF Timeout
  <2> QED
    BY <2>1, ServerSame DEF Inductive
<1>13. CASE UNCHANGED vars
  BY <1>13 DEF vars, Inductive, Lasting
<1> QED
  BY <1>1, <1>2, <1>3, <1>4, <1>5, <1>6, <1>7, <1>8, <1>9, <1>10, <1>11, <1>12, <1>13 DEF Next, Progress

\* Of every state: the types of all there is, every call counted until it is
\* told, and, as long as nothing has spoiled it, the life of the chat.
THEOREM AlwaysLasting == Spec => []Inductive
<1>1. Init => Inductive
  BY InitHolds
<1>2. Inductive /\ [Next]_vars => Inductive'
  BY StepHolds
<1> QED
  BY <1>1, <1>2, PTL DEF Spec

\* Two numbers are two.
LEMMA PairIsTwo ==
    ASSUME NEW k, Pair(k)
    PROVE  Cardinality(k) = 2
<1>1. PICK i, j \in k : i # j /\ k = {i, j}
  BY DEF Pair
<1>2. Cardinality({i}) = 1 /\ IsFiniteSet({i})
  BY FS_Singleton
<1>3. j \notin {i} /\ k = {i} \cup {j}
  BY <1>1
<1>4. Cardinality({i} \cup {j}) = Cardinality({i}) + 1
  BY <1>2, <1>3, FS_AddElement
<1> QED
  BY <1>2, <1>3, <1>4

\* Of every state: no call is told twice, none of its queries waits twice, and a
\* key, of the chat or of an exchange, is made of two numbers.
THEOREM TypesHold == Spec => []TypeOK
<1>1. Inductive => TypeOK
  <2> SUFFICES ASSUME Lasting PROVE TypeOK
    BY DEF Inductive
  <2> SUFFICES ASSUME NEW x \in Side
               PROVE  /\ st[x].chat \in States /\ st[x].ex \in Exchanges
                      /\ \A kind \in DOMAIN st[x].wait : st[x].wait[kind] \in 0..(MaxFaults + 1)
                      /\ st[x].told <= st[x].called
                      /\ (spoiled = {} /\ st[x].chat = "ok") =>
                            Cardinality(st[x].key) = 2 /\ st[x].fp = st[x].key
                      /\ st[x].ex \in {"accepted", "committed"} => Cardinality(st[x].exkey) = 2
    BY DEF TypeOK, States, Exchanges
  <2> DEFINE c == st[x]  w == c.wait  f == faults
  <2>1. Types(st, fresh) /\ Counted(st, f) /\ f \in 0..MaxFaults /\ MaxFaults \in Nat
    BY SecretChatsAssumption DEF Lasting, Holds
  <2>2. c \in Chat(fresh)
    BY <2>1 DEF Types
  <2>3. /\ w \in [dh : Nat, request : Nat, accept : Nat, discard : Nat]
        /\ c.told \in Nat /\ c.called \in Nat
        /\ c.chat \in States /\ c.ex \in Exchanges /\ Exchanging(c)
    BY <2>2 DEF Chat
  <2>4. c.called = c.told + w.dh + w.request + w.accept + w.discard
    BY <2>1 DEF Counted
  <2>5. c.called <= f + 1
    <3>1. CASE x = "alice"
      BY <2>1, <3>1 DEF Counted
    <3>2. CASE x = "bob"
      BY <2>1, <2>3, <3>2 DEF Counted
    <3> QED
      BY <3>1, <3>2 DEF Side
  <2>6. spoiled = {} /\ c.chat = "ok" => Pair(c.key) /\ c.fp = c.key
    BY DEF Lasting, Holds, Living, Life, Keyed
  <2>7. c.ex \in {"accepted", "committed"} => Pair(c.exkey)
    BY <2>3 DEF Exchanging
  <2> HIDE DEF c, w, f
  <2>8. /\ w.dh \in Nat /\ w.request \in Nat /\ w.accept \in Nat /\ w.discard \in Nat
        /\ DOMAIN w = {"dh", "request", "accept", "discard"}
    BY <2>3
  <2>9. c.told <= c.called /\ \A kind \in DOMAIN w : w[kind] \in 0..(MaxFaults + 1)
    BY <2>1, <2>3, <2>4, <2>5, <2>8
  <2> QED
    BY <2>3, <2>6, <2>7, <2>9, PairIsTwo DEF c, w
<1> QED
  BY <1>1, AlwaysLasting, PTL

\* A chat that the server has given up is given up by the side that did not ask
\* for that, when nothing is under way (query_messages_accept_encryption and
\* the update of a discarded chat).
THEOREM GoneIsGone == Spec => []Gone
<1>1. Inductive => Gone
  <2> SUFFICES ASSUME Lasting, srv.chat = "gone", spoiled = {},
                      \A x \in Side : st[x].asked \o st[x].out = <<>> /\ st[x].inbox = <<>>
               PROVE  \A x \in Side : st[x].chat \in {"absent", "deleted"} \/ st[x].left
    BY DEF Inductive, Gone
  <2> TAKE x \in Side
  <2>1. Closed(st[x], x)
    BY ClosingIs DEF Lasting, Holds, Living
  <2>2. st[x].asked = <<>> /\ st[x].inbox = <<>>
    <3> DEFINE q == st[x].asked  r == st[x].out
    <3>1. q \in Seq(Message(fresh)) /\ r \in Seq(Message(fresh)) /\ q \o r = <<>> /\ q = st[x].asked
      BY QueuesAre DEF QueuesOf, Fit, Lasting, Holds
    <3> HIDE DEF q, r
    <3>2. q = <<>>
      BY <3>1
    <3> QED
      BY <3>1, <3>2
  <2>3. \A T : ~Has(<<>>, T)
    BY DEF Has, ToSet
  <2> QED
    BY <2>1, <2>2, <2>3 DEF Closed
<1> QED
  BY <1>1, AlwaysLasting, PTL

=============================================================================
