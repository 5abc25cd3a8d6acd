------------------------- MODULE SecretChatKeysProofs -------------------------
(***************************************************************************)
(* The keys of a secret chat, for any number of texts, requests, faults:   *)
(* which key each side holds and under which it speaks, whatever requests  *)
(* cross, are aborted or wait with the queries of a client that cannot     *)
(* send.  The invariant is added to that of SecretChatsProofs.             *)
(***************************************************************************)
EXTENDS SecretChatsProofs

-----------------------------------------------------------------------------
(* The exchange of keys                                                    *)

\* A commit is in q.
Commits(q) == Has(q, {"commit"})

\* All messages of the chat in q go under k, or under k or an older key.
Under(q, k) == \A m \in ToSet(q) : m.type \in InChat => m.key = k /\ m.fp = k
UpTo(q, k) == \A m \in ToSet(q) : m.type \in InChat => m.key = m.fp /\ (m.key = k \/ Newer(k, m.key))

\* The commit of the exchange id is in q: before it goes what is under k or an
\* older key, after it what is under l.
Turn(q, id, k, l) ==
    \E p \in DOMAIN q :
        /\ q[p].type = "commit" /\ q[p].id = id /\ q[p].key = k
        /\ \A i \in DOMAIN q : i # p => q[i].type # "commit"
        /\ \A i \in DOMAIN q : i <= p /\ q[i].type \in InChat =>
              q[i].key = q[i].fp /\ (q[i].key = k \/ Newer(k, q[i].key))
        /\ \A i \in DOMAIN q : i > p /\ q[i].type \in InChat => q[i].key = l /\ q[i].fp = l

\* c has said m in the chat to d, which has not read it.
Said(c, d, m) == m \in ToSet(d.inbox) \/ m \in ToSet(c.asked) \/ m \in ToSet(c.out)

\* An accept that is under way is of the exchange that its sender is in, an
\* abort is final, and a key that is accepted is newer than that of the chat.
Speaks(c, d) ==
    /\ \A m : (Said(c, d, m) /\ m.type = "accept" /\ d.ex = "requested" /\ d.id = m.id) =>
                 c.ex = "accepted" /\ c.id = m.id /\ c.exkey = {m.id} \cup m.g
    /\ \A m : (Said(c, d, m) /\ m.type = "abort") => c.ex = "aborted"
    /\ c.ex = "accepted" => Newer(c.exkey, c.key)

\* What each side has said of an exchange.
Words(s) == \A x \in Side : Speaks(s[x], s[Other(x)])

\* Before the creator has its key, the other side speaks under its own.
Alone(a, b) ==
    /\ Under(a.inbox, b.key) /\ Under(b.asked, b.key)
    /\ ~Commits(a.inbox) /\ ~Commits(b.asked) /\ ~Commits(b.out)

\* Nothing that would change a key is under way from or to c.
Clean(c, k) ==
    /\ UpTo(c.inbox, k) /\ UpTo(c.asked, k)
    /\ ~Commits(c.inbox) /\ ~Commits(c.asked) /\ ~Commits(c.out)

\* Both have the same key, and neither has committed another.
Even(c, d) ==
    /\ c.key = d.key /\ c.ex # "committed" /\ d.ex # "committed"
    /\ Clean(c, c.key) /\ Clean(d, d.key)

\* d has committed the key that c has accepted, but its commit waits.
Waiting(c, d) ==
    /\ d.ex = "committed" /\ d.key = c.key /\ d.exkey = c.exkey /\ ~d.ready
    /\ UpTo(c.inbox, c.key) /\ UpTo(d.asked, c.key) /\ ~Commits(c.inbox) /\ ~Commits(d.asked)
    /\ Commits(d.out) /\ Once(d.out, {"commit"})
    /\ \A m \in ToSet(d.out) : m.type = "commit" => m.id = c.id

\* d has sent its commit, which is with the server,
Sending(c, d) == UpTo(c.inbox, c.key) /\ ~Commits(c.inbox) /\ Turn(d.asked, c.id, c.key, c.exkey)
\* ... which has reached c,
Arriving(c, d) == Turn(c.inbox, c.id, c.key, c.exkey) /\ Under(d.asked, c.exkey) /\ ~Commits(d.asked)
\* ... or will not be passed on any more,
Lost(c, v) == v.chat = "gone" /\ UpTo(c.inbox, c.key) /\ ~Commits(c.inbox)
\* ... or will not be read by c.
Deaf(c) == c.chat # "ok" /\ ~Has(c.inbox, Reopeners)

\* d has gone over to the key that c has accepted, and c does not know it.
Switched(c, d, v) ==
    /\ d.key = c.exkey /\ d.ex \in {"none", "requested"} /\ (d.ex = "requested" => d.id # c.id)
    /\ ~Commits(d.out)
    /\ Sending(c, d) \/ Arriving(c, d) \/ Lost(c, v) \/ Deaf(c)

\* c has accepted a new key and keeps to the old one until it reads the commit
\* of d, which has switched or will when its commit goes out.
Turning(c, d, v) ==
    /\ c.ex = "accepted"
    /\ UpTo(d.inbox, c.key) /\ UpTo(c.asked, c.key)
    /\ ~Commits(d.inbox) /\ ~Commits(c.asked) /\ ~Commits(c.out)
    /\ Waiting(c, d) \/ Switched(c, d, v)

\* Where the two sides are, once both have a key.
Both(c, d, v) == Even(c, d) \/ Turning(c, d, v) \/ Turning(d, c, v)

\* The same, with the time before the creator has its key.
Phase(s, v) ==
    LET a == s["alice"]  b == s["bob"] IN IF a.fp = {} THEN Alone(a, b) ELSE Both(a, b, v)

\* What the sides say of keys and which they have.
Keys(s, v) == Words(s) /\ Phase(s, v)

\* What was dropped was said under an older key.
Older(d) == \A m \in d : Newer(m.mine, m.key)

-----------------------------------------------------------------------------
(* Queues                                                                  *)

\* r has of the talk of q no more than q has, and a commit where q has one.
Kin(q, r) ==
    /\ \A k : (Under(q, k) => Under(r, k)) /\ (UpTo(q, k) => UpTo(r, k))
    /\ \A id, k, l : Turn(q, id, k, l) => Turn(r, id, k, l)
    /\ Commits(r) => Commits(q)
    /\ \A m \in ToSet(r) : m.type \in InChat => m \in ToSet(q)

\* A number is newer than an older one.
LEMMA NewerOrders ==
    ASSUME NEW j \in SUBSET Nat, NEW k \in SUBSET Nat, NEW l \in SUBSET Nat, Newer(k, l)
    PROVE  /\ Newer(j, k) => Newer(j, l)
           /\ k # l
<1>1. ASSUME k = l
      PROVE  FALSE
  <2>1. PICK i \in k : \A h \in l : i > h
    BY DEF Newer
  <2> QED
    BY <1>1, <2>1
<1>2. ASSUME Newer(j, k)
      PROVE  Newer(j, l)
  <2>1. PICK i \in k : \A h \in l : i > h
    BY DEF Newer
  <2>2. PICK p \in j : \A h \in k : p > h
    BY <1>2 DEF Newer
  <2>3. \A h \in l : p > h
    BY <2>1, <2>2
  <2> QED
    BY <2>2, <2>3 DEF Newer
<1> QED
  BY <1>1, <1>2

\* A queue, when a message joins it.
LEMMA TalkGrows ==
    ASSUME NEW S, NEW q \in Seq(S), NEW m \in S, NEW k
    PROVE  /\ Under(Append(q, m), k) <=>
                  Under(q, k) /\ (m.type \in InChat => m.key = k /\ m.fp = k)
           /\ UpTo(Append(q, m), k) <=>
                  UpTo(q, k) /\ (m.type \in InChat => m.key = m.fp /\ (m.key = k \/ Newer(k, m.key)))
           /\ Commits(Append(q, m)) <=> Commits(q) \/ m.type = "commit"
           /\ ToSet(Append(q, m)) = ToSet(q) \cup {m}
<1>1. ToSet(Append(q, m)) = ToSet(q) \cup {m}
  BY Grown
<1> QED
  BY <1>1 DEF Under, UpTo, Has, Commits

\* A queue, when its head is read.
LEMMA TalkRest ==
    ASSUME NEW S, NEW q \in Seq(S), q # <<>>, NEW k
    PROVE  /\ Under(q, k) <=>
                  /\ Under(Tail(q), k)
                  /\ Head(q).type \in InChat => Head(q).key = k /\ Head(q).fp = k
           /\ UpTo(q, k) <=>
                  /\ UpTo(Tail(q), k)
                  /\ Head(q).type \in InChat =>
                        Head(q).key = Head(q).fp /\ (Head(q).key = k \/ Newer(k, Head(q).key))
           /\ Commits(q) <=> Commits(Tail(q)) \/ Head(q).type = "commit"
           /\ ToSet(q) = {Head(q)} \cup ToSet(Tail(q))
<1>1. ToSet(q) = {Head(q)} \cup ToSet(Tail(q))
  BY Rest
<1> QED
  BY <1>1 DEF Under, UpTo, Has, Commits

\* What is under way under a key is so for a newer one.
LEMMA UpToNewer ==
    ASSUME NEW n \in Nat, NEW q \in Seq(Message(n)), NEW k \in SUBSET Nat, NEW l \in SUBSET Nat
    PROVE  /\ Under(q, k) => UpTo(q, k)
           /\ UpTo(q, k) /\ Newer(l, k) =>
                 /\ UpTo(q, l)
                 /\ \A m \in ToSet(q) : m.type \in InChat => m.key = m.fp /\ Newer(l, m.key)
<1>1. \A m \in ToSet(q) : m.key \in SUBSET Nat
  BY Elements, Fields
<1>2. ASSUME UpTo(q, k), Newer(l, k), NEW m \in ToSet(q), m.type \in InChat
      PROVE  m.key = m.fp /\ Newer(l, m.key)
  <2>1. m.key = m.fp /\ (m.key = k \/ Newer(k, m.key))
    BY <1>2 DEF UpTo
  <2>2. m.key \in SUBSET Nat
    BY <1>1
  <2>3. Newer(l, m.key)
    BY <1>2, <2>1, <2>2, NewerOrders
  <2> QED
    BY <2>1, <2>3
<1> QED
  BY <1>2 DEF UpTo, Under

\* A commit on its way: it is the last under the old key.
LEMMA TurnBegins ==
    ASSUME NEW S, NEW q \in Seq(S), NEW m \in S, NEW k, NEW l, UpTo(q, k), ~Commits(q),
           m.type = "commit", m.key = k, m.fp = k
    PROVE  Turn(Append(q, m), m.id, k, l)
<1> DEFINE r == Append(q, m)  n == Len(q)
<1>1. /\ DOMAIN q = 1..n /\ n \in Nat /\ DOMAIN r = 1..(n + 1) /\ r[n + 1] = m
      /\ \A i \in 1..n : r[i] = q[i] /\ q[i] \in ToSet(q)
  BY Grown DEF ToSet
<1> HIDE DEF r, n
<1>2. /\ n + 1 \in DOMAIN r
      /\ r[n + 1].type = "commit" /\ r[n + 1].id = m.id /\ r[n + 1].key = k
      /\ \A i \in DOMAIN r : i # n + 1 => r[i].type # "commit"
      /\ \A i \in DOMAIN r : ~(i > n + 1)
  BY <1>1 DEF Commits, Has
<1>3. ASSUME NEW i \in DOMAIN r, r[i].type \in InChat
      PROVE  r[i].key = r[i].fp /\ (r[i].key = k \/ Newer(k, r[i].key))
  <2>1. CASE i = n + 1
    BY <1>1, <2>1
  <2>2. CASE i # n + 1
    BY <1>1, <1>3, <2>2 DEF UpTo
  <2> QED
    BY <2>1, <2>2
<1> QED
  BY <1>2, <1>3 DEF Turn, r

\* What is said after it goes under the new key.
LEMMA TurnGrows ==
    ASSUME NEW S, NEW q \in Seq(S), NEW m \in S, NEW id, NEW k, NEW l, Turn(q, id, k, l),
           m.type \in InChat => m.type # "commit" /\ m.key = l /\ m.fp = l
    PROVE  Turn(Append(q, m), id, k, l)
<1> DEFINE r == Append(q, m)  n == Len(q)
<1>1. /\ DOMAIN q = 1..n /\ n \in Nat /\ DOMAIN r = 1..(n + 1) /\ r[n + 1] = m
      /\ \A i \in 1..n : r[i] = q[i]
  BY Grown
<1> HIDE DEF r, n
<1>2. PICK p \in DOMAIN q :
        /\ q[p].type = "commit" /\ q[p].id = id /\ q[p].key = k
        /\ \A i \in DOMAIN q : i # p => q[i].type # "commit"
        /\ \A i \in DOMAIN q : i <= p /\ q[i].type \in InChat =>
              q[i].key = q[i].fp /\ (q[i].key = k \/ Newer(k, q[i].key))
        /\ \A i \in DOMAIN q : i > p /\ q[i].type \in InChat => q[i].key = l /\ q[i].fp = l
  BY DEF Turn
<1>3. m.type # "commit"
  BY DEF InChat
<1>4. /\ p \in DOMAIN r
      /\ r[p].type = "commit" /\ r[p].id = id /\ r[p].key = k
      /\ \A i \in DOMAIN r : i # p => r[i].type # "commit"
  BY <1>1, <1>2, <1>3
<1>5. \A i \in DOMAIN r : i <= p /\ r[i].type \in InChat =>
              r[i].key = r[i].fp /\ (r[i].key = k \/ Newer(k, r[i].key))
  BY <1>1, <1>2
<1>6. \A i \in DOMAIN r : i > p /\ r[i].type \in InChat => r[i].key = l /\ r[i].fp = l
  BY <1>1, <1>2
<1> QED
  BY <1>4, <1>5, <1>6 DEF Turn, r

\* What is read before it goes under an older key, and after it comes the new one.
LEMMA TurnRest ==
    ASSUME NEW S, NEW q \in Seq(S), NEW id, NEW k, NEW l, Turn(q, id, k, l)
    PROVE  /\ q # <<>>
           /\ Head(q).type = "commit" =>
                 /\ Head(q).id = id /\ Head(q).key = k /\ Head(q).fp = k
                 /\ Under(Tail(q), l) /\ ~Commits(Tail(q))
           /\ Head(q).type # "commit" =>
                 /\ Turn(Tail(q), id, k, l)
                 /\ Head(q).type \in InChat =>
                       Head(q).key = Head(q).fp /\ (Head(q).key = k \/ Newer(k, Head(q).key))
<1>1. q # <<>>
  BY DEF Turn
<1> DEFINE r == Tail(q)  n == Len(q)
<1>2. /\ DOMAIN q = 1..n /\ n \in Nat /\ n > 0 /\ DOMAIN r = 1..(n - 1) /\ Head(q) = q[1]
      /\ \A i \in 1..(n - 1) : r[i] = q[i + 1]
  BY <1>1, Rest
<1> HIDE DEF r, n
<1>3. PICK p \in 1..n :
        /\ q[p].type = "commit" /\ q[p].id = id /\ q[p].key = k
        /\ \A i \in 1..n : i # p => q[i].type # "commit"
        /\ \A i \in 1..n : i <= p /\ q[i].type \in InChat =>
              q[i].key = q[i].fp /\ (q[i].key = k \/ Newer(k, q[i].key))
        /\ \A i \in 1..n : i > p /\ q[i].type \in InChat => q[i].key = l /\ q[i].fp = l
  BY <1>2 DEF Turn
<1>4. ASSUME q[1].type = "commit"
      PROVE  /\ q[1].id = id /\ q[1].key = k /\ q[1].fp = k
             /\ Under(r, l) /\ ~Commits(r)
  <2>1. p = 1
    BY <1>2, <1>3, <1>4
  <2>2. q[1].id = id /\ q[1].key = k /\ q[1].fp = k
    BY <1>2, <1>3, <2>1 DEF InChat
  <2>3. ASSUME NEW i \in 1..(n - 1)
        PROVE  /\ r[i].type # "commit"
               /\ r[i].type \in InChat => r[i].key = l /\ r[i].fp = l
    <3>1. i + 1 \in 1..n /\ i + 1 > 1 /\ r[i] = q[i + 1]
      BY <1>2
    <3> QED
      BY <1>3, <2>1, <3>1
  <2> QED
    BY <1>2, <2>2, <2>3 DEF Under, Commits, Has, ToSet
<1>5. ASSUME q[1].type # "commit"
      PROVE  Turn(r, id, k, l)
  <2>1. p - 1 \in 1..(n - 1) /\ r[p - 1] = q[p]
    BY <1>2, <1>3, <1>5
  <2>2. ASSUME NEW i \in 1..(n - 1)
        PROVE  /\ i # p - 1 => r[i].type # "commit"
               /\ i <= p - 1 /\ r[i].type \in InChat =>
                     r[i].key = r[i].fp /\ (r[i].key = k \/ Newer(k, r[i].key))
               /\ i > p - 1 /\ r[i].type \in InChat => r[i].key = l /\ r[i].fp = l
    <3>1. i + 1 \in 1..n /\ r[i] = q[i + 1] /\ (i + 1 = p <=> i = p - 1)
          /\ (i + 1 <= p <=> i <= p - 1) /\ (i + 1 > p <=> i > p - 1)
      BY <1>2
    <3> QED
      BY <1>3, <3>1
  <2> QED
    BY <1>2, <1>3, <2>1, <2>2 DEF Turn
<1>6. 1 \in 1..n /\ 1 <= p
  BY <1>2
<1> QED
  BY <1>1, <1>2, <1>3, <1>4, <1>5, <1>6 DEF r

\* What is not said in the chat, or has been read of it, makes no difference.
LEMMA KinIs ==
    ASSUME NEW S, NEW q \in Seq(S)
    PROVE  /\ Kin(q, q)
           /\ \A m \in S : m.type \notin InChat => Kin(q, Append(q, m))
           /\ q # <<>> /\ Head(q).type # "commit" => Kin(q, Tail(q))
<1>1. ASSUME NEW m \in S, m.type \notin InChat
      PROVE  Kin(q, Append(q, m))
  <2>1. \A k : (Under(q, k) => Under(Append(q, m), k)) /\ (UpTo(q, k) => UpTo(Append(q, m), k))
    BY <1>1, TalkGrows
  <2>2. m.type # "commit"
    BY <1>1 DEF InChat
  <2>3. /\ Commits(Append(q, m)) => Commits(q)
        /\ \A l \in ToSet(Append(q, m)) : l.type \in InChat => l \in ToSet(q)
    BY <1>1, <2>2, TalkGrows
  <2>4. \A id, k, l : Turn(q, id, k, l) => Turn(Append(q, m), id, k, l)
    BY <1>1, TurnGrows
  <2> QED
    BY <2>1, <2>3, <2>4 DEF Kin
<1>2. ASSUME q # <<>>, Head(q).type # "commit"
      PROVE  Kin(q, Tail(q))
  <2>1. \A k : (Under(q, k) => Under(Tail(q), k)) /\ (UpTo(q, k) => UpTo(Tail(q), k))
    BY <1>2, TalkRest
  <2>2. /\ Commits(Tail(q)) => Commits(q)
        /\ \A l \in ToSet(Tail(q)) : l.type \in InChat => l \in ToSet(q)
    BY <1>2, TalkRest
  <2>3. \A id, k, l : Turn(q, id, k, l) => Turn(Tail(q), id, k, l)
    BY <1>2, TurnRest
  <2> QED
    BY <2>1, <2>2, <2>3 DEF Kin
<1>3. Kin(q, q)
  BY DEF Kin
<1> QED
  BY <1>1, <1>2, <1>3

-----------------------------------------------------------------------------
(* The exchange, when one side takes a step                                *)

\* c becomes e, and nothing that is said under a key is added.
Quiet(c, e) ==
    /\ e.key = c.key /\ SameExchange(c, e)
    /\ Kin(c.asked, e.asked) /\ Kin(c.inbox, e.inbox)
    /\ Deaf(c) => Deaf(e)
    /\ e.out = c.out
    /\ e.ready => c.ready \/ c.out = <<>>

\* What waits is never nothing.
LEMMA CommitsSome == ~Commits(<<>>) /\ \A T : ~Has(<<>>, T)
  BY DEF Commits, Has, ToSet

\* A silent step of either side changes nothing in the exchange.
LEMMA BothQuiet ==
    ASSUME NEW c, NEW d, NEW e, NEW v, NEW w, Both(c, d, v), Quiet(c, e),
           v.chat = "gone" => w.chat = "gone"
    PROVE  Both(e, d, w)
<1>1. /\ e.key = c.key /\ e.ex = c.ex /\ e.id = c.id /\ e.exkey = c.exkey /\ e.out = c.out
      /\ \A k : UpTo(c.asked, k) => UpTo(e.asked, k)
      /\ \A k : UpTo(c.inbox, k) => UpTo(e.inbox, k)
      /\ \A k : Under(c.asked, k) => Under(e.asked, k)
      /\ Commits(e.asked) => Commits(c.asked)
      /\ Commits(e.inbox) => Commits(c.inbox)
      /\ \A i, k, l : Turn(c.asked, i, k, l) => Turn(e.asked, i, k, l)
      /\ \A i, k, l : Turn(c.inbox, i, k, l) => Turn(e.inbox, i, k, l)
  BY DEF Quiet, SameExchange, Kin
<1>2. CASE Even(c, d)
  BY <1>1, <1>2 DEF Even, Clean, Both
<1>3. CASE Turning(c, d, v)
  <2>1. CASE Waiting(c, d)
    <3>1. Waiting(e, d)
      BY <1>1, <2>1 DEF Waiting
    <3> QED
      BY <1>1, <1>3, <3>1 DEF Turning, Both
  <2>2. CASE Switched(c, d, v)
    <3>1. Sending(c, d) => Sending(e, d)
      BY <1>1 DEF Sending
    <3>2. Arriving(c, d) => Arriving(e, d)
      BY <1>1 DEF Arriving
    <3>3. Lost(c, v) => Lost(e, w)
      BY <1>1 DEF Lost
    <3>4. Deaf(c) => Deaf(e)
      BY DEF Quiet
    <3>5. Switched(e, d, w)
      BY <1>1, <2>2, <3>1, <3>2, <3>3, <3>4 DEF Switched
    <3> QED
      BY <1>1, <1>3, <3>5 DEF Turning, Both
  <2> QED
    BY <1>3, <2>1, <2>2 DEF Turning
<1>4. CASE Turning(d, c, v)
  <2>1. CASE Waiting(d, c)
    <3>1. c.out # <<>>
      BY <2>1, CommitsSome DEF Waiting
    <3>2. ~e.ready
      BY <2>1, <3>1 DEF Waiting, Quiet
    <3>3. Waiting(d, e)
      BY <1>1, <2>1, <3>2 DEF Waiting
    <3> QED
      BY <1>1, <1>4, <3>3 DEF Turning, Both
  <2>2. CASE Switched(d, c, v)
    <3>1. Sending(d, c) => Sending(d, e)
      BY <1>1 DEF Sending
    <3>2. Arriving(d, c) => Arriving(d, e)
      BY <1>1 DEF Arriving
    <3>3. Lost(d, v) => Lost(d, w)
      BY DEF Lost
    <3>4. Switched(d, e, w)
      BY <1>1, <2>2, <3>1, <3>2, <3>3 DEF Switched
    <3> QED
      BY <1>1, <1>4, <3>4 DEF Turning, Both
  <2> QED
    BY <1>4, <2>1, <2>2 DEF Turning
<1> QED
  BY <1>2, <1>3, <1>4 DEF Both

\* The sides are alike.
LEMMA BothSides ==
    ASSUME NEW c, NEW d, NEW v
    PROVE  Both(c, d, v) <=> Both(d, c, v)
  BY DEF Both, Even

\* Two chats of which only what is under way differs.
Passing(c, e, d, f) ==
    /\ e.key = c.key /\ SameExchange(c, e) /\ e.out = c.out /\ e.ready = c.ready
    /\ f.key = d.key /\ SameExchange(d, f) /\ f.out = d.out /\ f.ready = d.ready
    /\ e.inbox = c.inbox /\ f.asked = d.asked /\ e.chat = c.chat /\ f.chat = d.chat
    /\ c.asked # <<>> /\ e.asked = Tail(c.asked)

\* The server passes on what c has said.
LEMMA BothPassed ==
    ASSUME NEW n \in Nat, NEW c \in Chat(n), NEW d \in Chat(n), NEW e, NEW f, NEW v,
           Both(c, d, v), Passing(c, e, d, f), v.chat = "ok",
           NEW m, m = Head(c.asked), m.type \in InChat, f.inbox = Append(d.inbox, m)
    PROVE  Both(e, f, v)
<1> DEFINE p == c.asked  r == e.asked  q == d.inbox  t == f.inbox
<1>1. /\ p \in Seq(Message(n)) /\ q \in Seq(Message(n)) /\ p # <<>> /\ m \in Message(n)
      /\ r = Tail(p) /\ t = Append(q, m) /\ m = Head(p)
  <2>1. c.asked \in Seq(Message(n)) /\ d.inbox \in Seq(Message(n))
    BY ChatFields
  <2> QED
    BY <2>1, Rest DEF Passing
<1>2. /\ e.key = c.key /\ e.ex = c.ex /\ e.id = c.id /\ e.exkey = c.exkey /\ e.out = c.out
      /\ f.key = d.key /\ f.ex = d.ex /\ f.id = d.id /\ f.exkey = d.exkey /\ f.out = d.out
      /\ e.inbox = c.inbox /\ f.asked = d.asked /\ e.chat = c.chat /\ f.chat = d.chat
      /\ e.ready = c.ready /\ f.ready = d.ready
  BY DEF Passing, SameExchange
<1> HIDE DEF p, q, r, t
<1>3. /\ \A k : Under(p, k) <=> Under(r, k) /\ (m.type \in InChat => m.key = k /\ m.fp = k)
      /\ \A k : UpTo(p, k) <=>
             UpTo(r, k) /\ (m.type \in InChat => m.key = m.fp /\ (m.key = k \/ Newer(k, m.key)))
      /\ Commits(p) <=> Commits(r) \/ m.type = "commit"
  BY <1>1, TalkRest
<1>4. /\ \A k : Under(t, k) <=> Under(q, k) /\ (m.type \in InChat => m.key = k /\ m.fp = k)
      /\ \A k : UpTo(t, k) <=>
             UpTo(q, k) /\ (m.type \in InChat => m.key = m.fp /\ (m.key = k \/ Newer(k, m.key)))
      /\ Commits(t) <=> Commits(q) \/ m.type = "commit"
  BY <1>1, TalkGrows
<1>5. \A T : Has(t, T) <=> Has(q, T) \/ m.type \in T
  BY <1>1, HasGrows
<1>6. CASE Even(c, d)
  BY <1>2, <1>3, <1>4, <1>6 DEF Even, Clean, Both, p, q, r, t
<1>7. CASE Turning(c, d, v)
  <2>1. Waiting(c, d) => Waiting(e, f)
    BY <1>2 DEF Waiting
  <2>2. Switched(c, d, v) => Switched(e, f, v)
    BY <1>2 DEF Switched, Sending, Arriving, Lost, Deaf
  <2> QED
    BY <1>2, <1>3, <1>4, <1>7, <2>1, <2>2 DEF Turning, Both, p, q, r, t
<1>8. CASE Turning(d, c, v)
  <2>1. Waiting(d, c) => Waiting(f, e)
    BY <1>2, <1>3, <1>4 DEF Waiting, p, q, r, t
  <2>2. ASSUME Sending(d, c)
        PROVE  Sending(f, e) \/ Arriving(f, e)
    <3>1. UpTo(q, d.key) /\ ~Commits(q) /\ Turn(p, d.id, d.key, d.exkey)
      BY <2>2 DEF Sending, p, q
    <3>2. CASE m.type = "commit"
      <4>1. m.id = d.id /\ m.key = d.key /\ m.fp = d.key /\ Under(r, d.exkey) /\ ~Commits(r)
        BY <1>1, <3>1, <3>2, TurnRest
      <4>2. Turn(t, m.id, d.key, d.exkey)
        BY <1>1, <3>1, <3>2, <4>1, TurnBegins
      <4> QED
        BY <1>2, <4>1, <4>2 DEF Arriving, r, t
    <3>3. CASE m.type # "commit"
      <4>1. /\ Turn(r, d.id, d.key, d.exkey)
            /\ m.key = m.fp /\ (m.key = d.key \/ Newer(d.key, m.key))
        BY <1>1, <3>1, <3>3, TurnRest
      <4> QED
        BY <1>2, <1>4, <3>1, <3>3, <4>1 DEF Sending, r, t
    <3> QED
      BY <3>2, <3>3
  <2>3. ASSUME Arriving(d, c)
        PROVE  Arriving(f, e)
    <3>1. Turn(q, d.id, d.key, d.exkey) /\ Under(p, d.exkey) /\ ~Commits(p)
      BY <2>3 DEF Arriving, p, q
    <3>2. m.key = d.exkey /\ m.fp = d.exkey /\ m.type # "commit" /\ Under(r, d.exkey) /\ ~Commits(r)
      BY <1>3, <3>1
    <3>3. Turn(t, d.id, d.key, d.exkey)
      BY <1>1, <3>1, <3>2, TurnGrows
    <3> QED
      BY <1>2, <3>2, <3>3 DEF Arriving, r, t
  <2>4. ~Lost(d, v)
    BY DEF Lost
  <2>5. Deaf(d) => Deaf(f)
    <3>1. m.type \notin Reopeners
      BY DEF InChat, Reopeners
    <3> QED
      BY <1>2, <1>5, <3>1 DEF Deaf, q, t
  <2>6. Switched(d, c, v) => Switched(f, e, v)
    BY <1>2, <2>2, <2>3, <2>4, <2>5 DEF Switched
  <2> QED
    BY <1>2, <1>8, <2>1, <2>6 DEF Turning, Both
<1> QED
  BY <1>6, <1>7, <1>8 DEF Both

\* The server has given up the chat, and passes on nothing more.
LEMMA BothLost ==
    ASSUME NEW n \in Nat, NEW c \in Chat(n), NEW d, NEW e, NEW v,
           Both(c, d, v), Passing(c, e, d, d), v.chat = "gone"
    PROVE  Both(e, d, v)
<1> DEFINE p == c.asked  r == e.asked  m == Head(p)
<1>1. p \in Seq(Message(n)) /\ p # <<>> /\ r = Tail(p)
  <2>1. c.asked \in Seq(Message(n))
    BY ChatFields
  <2> QED
    BY <2>1 DEF Passing
<1>2. /\ e.key = c.key /\ e.ex = c.ex /\ e.id = c.id /\ e.exkey = c.exkey /\ e.out = c.out
      /\ e.inbox = c.inbox /\ e.chat = c.chat /\ e.ready = c.ready
  BY DEF Passing, SameExchange
<1> HIDE DEF p, r
<1>3. /\ \A k : Under(p, k) => Under(r, k)
      /\ \A k : UpTo(p, k) => UpTo(r, k)
      /\ Commits(r) => Commits(p)
  BY <1>1, TalkRest
<1>4. CASE Even(c, d)
  BY <1>2, <1>3, <1>4 DEF Even, Clean, Both, p, r
<1>5. CASE Turning(c, d, v)
  <2>1. Waiting(c, d) => Waiting(e, d)
    BY <1>2 DEF Waiting
  <2>2. Switched(c, d, v) => Switched(e, d, v)
    BY <1>2 DEF Switched, Sending, Arriving, Lost, Deaf
  <2> QED
    BY <1>2, <1>3, <1>5, <2>1, <2>2 DEF Turning, Both, p, r
<1>6. CASE Turning(d, c, v)
  <2>1. Waiting(d, c) => Waiting(d, e)
    BY <1>2, <1>3 DEF Waiting, p, r
  <2>2. Sending(d, c) => Lost(d, v)
    BY DEF Sending, Lost
  <2>3. Arriving(d, c) => Arriving(d, e)
    BY <1>2, <1>3 DEF Arriving, p, r
  <2>4. Switched(d, c, v) => Switched(d, e, v)
    BY <1>2, <2>2, <2>3 DEF Switched
  <2> QED
    BY <1>2, <1>6, <2>1, <2>4 DEF Turning, Both
<1> QED
  BY <1>4, <1>5, <1>6 DEF Both

-----------------------------------------------------------------------------
(* Speaking                                                                *)

\* Who has committed a key waits, and its commit with it.
LEMMA CommittedWaits ==
    ASSUME NEW c, NEW d, NEW v, Both(c, d, v), c.ex = "committed"
    PROVE  Turning(d, c, v) /\ Waiting(d, c) /\ ~c.ready
  BY DEF Both, Even, Turning, Switched, Waiting

\* c has said l, which is no commit, under its key.
Spoken(c, e, l) ==
    /\ e.key = c.key /\ SameExchange(c, e) /\ e.inbox = c.inbox
    /\ Deaf(c) => Deaf(e)
    /\ Commits(e.out) => Commits(c.out)
    /\ e.asked = Append(c.asked, l)
    /\ l.type # "commit" /\ l.key = c.key /\ l.fp = c.key

\* A side speaks under the key that both have, or that it alone has taken.
LEMMA BothSpoken ==
    ASSUME NEW n \in Nat, NEW c \in Chat(n), NEW d, NEW e, NEW v, NEW l \in Message(n),
           Both(c, d, v), c.ex # "committed", Spoken(c, e, l)
    PROVE  Both(e, d, v)
<1> DEFINE p == c.asked  r == e.asked
<1>1. p \in Seq(Message(n)) /\ r = Append(p, l)
  <2>1. c.asked \in Seq(Message(n))
    BY ChatFields
  <2> QED
    BY <2>1 DEF Spoken
<1>2. /\ e.key = c.key /\ e.ex = c.ex /\ e.id = c.id /\ e.exkey = c.exkey
      /\ e.inbox = c.inbox /\ (Commits(e.out) => Commits(c.out))
      /\ l.type # "commit" /\ l.key = c.key /\ l.fp = c.key
  BY DEF Spoken, SameExchange
<1> HIDE DEF p, r
<1>3. /\ \A k : Under(r, k) <=> Under(p, k) /\ (l.type \in InChat => l.key = k /\ l.fp = k)
      /\ \A k : UpTo(r, k) <=>
             UpTo(p, k) /\ (l.type \in InChat => l.key = l.fp /\ (l.key = k \/ Newer(k, l.key)))
      /\ Commits(r) <=> Commits(p) \/ l.type = "commit"
  BY <1>1, TalkGrows
<1>4. CASE Even(c, d)
  BY <1>2, <1>3, <1>4 DEF Even, Clean, Both, p, r
<1>5. CASE Turning(c, d, v)
  <2>1. Waiting(c, d) => Waiting(e, d)
    BY <1>2 DEF Waiting
  <2>2. Deaf(c) => Deaf(e)
    BY DEF Spoken
  <2>3. Switched(c, d, v) => Switched(e, d, v)
    BY <1>2, <2>2 DEF Switched, Sending, Arriving, Lost
  <2> QED
    BY <1>2, <1>3, <1>5, <2>1, <2>3 DEF Turning, Both, p, r
<1>6. CASE Turning(d, c, v)
  <2>1. ~Waiting(d, c)
    BY DEF Waiting
  <2>2. Switched(d, c, v) /\ c.key = d.exkey
    BY <1>6, <2>1 DEF Turning, Switched
  <2>3. ASSUME Sending(d, c)
        PROVE  Sending(d, e)
    <3>1. Turn(p, d.id, d.key, d.exkey)
      BY <2>3 DEF Sending, p
    <3>2. Turn(r, d.id, d.key, d.exkey)
      BY <1>1, <1>2, <2>2, <3>1, TurnGrows
    <3> QED
      BY <2>3, <3>2 DEF Sending, r
  <2>4. Arriving(d, c) => Arriving(d, e)
    BY <1>2, <1>3, <2>2 DEF Arriving, p, r
  <2>5. Switched(d, e, v)
    BY <1>2, <2>2, <2>3, <2>4 DEF Switched
  <2> QED
    BY <1>2, <1>6, <2>5 DEF Turning, Both
<1> QED
  BY <1>4, <1>5, <1>6 DEF Both

\* What waits with the others makes no difference, if it is no commit.
LEMMA BothParked ==
    ASSUME NEW n \in Nat, NEW c \in Chat(n), NEW d, NEW e, NEW v, NEW m \in Message(n),
           Both(c, d, v), m.type # "commit", IsParked(c, e, m)
    PROVE  Both(e, d, v)
<1> DEFINE p == c.out  r == e.out
<1>1. p \in Seq(Message(n)) /\ r = Append(p, m)
  <2>1. c.out \in Seq(Message(n))
    BY ChatFields
  <2> QED
    BY <2>1 DEF IsParked
<1>2. /\ e.key = c.key /\ e.ex = c.ex /\ e.id = c.id /\ e.exkey = c.exkey
      /\ e.inbox = c.inbox /\ e.asked = c.asked /\ e.ready = c.ready /\ e.chat = c.chat
  BY DEF IsParked, SameExchange, SameKeys, SameLife
<1> HIDE DEF p, r
<1>3. /\ ToSet(r) = ToSet(p) \cup {m}
      /\ Commits(r) <=> Commits(p)
      /\ Once(p, {"commit"}) => Once(r, {"commit"})
  <2>1. Commits(r) <=> Commits(p)
    BY <1>1, HasGrows DEF Commits
  <2>2. ToSet(r) = ToSet(p) \cup {m}
    BY <1>1, Grown
  <2>3. Once(p, {"commit"}) => Once(r, {"commit"})
    BY <1>1, OnceGrows
  <2> QED
    BY <2>1, <2>2, <2>3
<1>4. CASE Even(c, d)
  BY <1>2, <1>3, <1>4 DEF Even, Clean, Both, p, r
<1>5. CASE Turning(c, d, v)
  <2>1. Waiting(c, d) => Waiting(e, d)
    BY <1>2 DEF Waiting
  <2>2. Switched(c, d, v) => Switched(e, d, v)
    BY <1>2 DEF Switched, Sending, Arriving, Lost, Deaf
  <2> QED
    BY <1>2, <1>3, <1>5, <2>1, <2>2 DEF Turning, Both, p, r
<1>6. CASE Turning(d, c, v)
  <2>1. Waiting(d, c) => Waiting(d, e)
    BY <1>2, <1>3 DEF Waiting, p, r
  <2>2. Switched(d, c, v) => Switched(d, e, v)
    BY <1>2, <1>3 DEF Switched, Sending, Arriving, p, r
  <2> QED
    BY <1>2, <1>6, <2>1, <2>2 DEF Turning, Both
<1> QED
  BY <1>4, <1>5, <1>6 DEF Both

\* Being deaf is a matter of the chat and the inbox.
LEMMA DeafSame ==
    ASSUME NEW c, NEW e, e.chat = c.chat, e.inbox = c.inbox
    PROVE  Deaf(c) => Deaf(e)
  BY DEF Deaf

\* c has said m, if its chat is ok, or m waits.
LEMMA BothPosted ==
    ASSUME NEW n \in Nat, NEW c \in Chat(n), NEW d, NEW e, NEW v, NEW m \in Message(n),
           Both(c, d, v), m.type # "commit", IsPosted(c, e, m), c.chat = "ok" => c.fp = c.key
    PROVE  Both(e, d, v) /\ e.key = c.key /\ e.fp = c.fp /\ SameExchange(c, e)
<1>1. CASE c.chat # "ok"
  BY <1>1 DEF IsPosted, SameExchange
<1>2. CASE c.chat = "ok" /\ ~c.ready
  <2>1. IsParked(c, e, m)
    BY <1>2 DEF IsPosted
  <2> QED
    BY <2>1, BothParked DEF IsParked, SameKeys
<1>3. CASE c.chat = "ok" /\ c.ready
  <2>1. c.ex # "committed"
    BY <1>3, CommittedWaits
  <2>2. IsSent(c, e, m)
    BY <1>3 DEF IsPosted
  <2> DEFINE l == Sealed(m, c.key, c.fp)
  <2>3. /\ l \in Message(n) /\ l.type = m.type /\ l.key = c.key /\ l.fp = c.key
        /\ e.asked = Append(c.asked, l)
    <3>1. c.key \in SUBSET (0..(n - 1)) /\ c.fp \in SUBSET (0..(n - 1))
      BY ChatFields
    <3>2. l \in Message(n) /\ l.type = m.type /\ l.key = c.key /\ l.fp = c.fp
      BY <3>1, SealedIs
    <3> QED
      BY <1>3, <2>2, <3>2 DEF IsSent, Sealed
  <2> HIDE DEF l
  <2>4. SameExchange(c, e) /\ SameKeys(c, e) /\ SameLife(c, e) /\ e.inbox = c.inbox /\ e.out = c.out
    BY <2>1, <2>2 DEF IsSent
  <2>5. Spoken(c, e, l)
    BY <2>3, <2>4, DeafSame DEF Spoken, SameKeys, SameLife
  <2> QED
    BY <2>1, <2>3, <2>4, <2>5, BothSpoken DEF SameKeys
<1> QED
  BY <1>1, <1>2, <1>3

-----------------------------------------------------------------------------
(* Taking a new key                                                        *)

\* Before an exchange has come to its commit, its state makes no difference.
LEMMA BothExchanged ==
    ASSUME NEW c, NEW d, NEW e, NEW v, Even(c, d), e.key = c.key, e.inbox = c.inbox,
           e.asked = c.asked, e.out = c.out, e.ex # "committed"
    PROVE  Even(e, d) /\ Both(e, d, v)
  BY DEF Even, Clean, Both

\* A new exchange is another one than that the other side may be in.
LEMMA BothRequested ==
    ASSUME NEW c, NEW d, NEW e, NEW v, Both(c, d, v), c.ex = "none",
           e.ex = "requested", e.id # d.id, e.key = c.key, SameWay(c, e), e.chat = c.chat
    PROVE  Both(e, d, v)
<1>1. CASE Even(c, d)
  BY <1>1, BothExchanged DEF SameWay
<1>2. CASE Turning(d, c, v)
  <2>1. Switched(d, c, v)
    BY <1>2 DEF Turning, Waiting
  <2>2. Switched(d, e, v)
    BY <2>1 DEF Switched, Sending, Arriving, SameWay
  <2> QED
    BY <1>2, <2>2 DEF Turning, Both, SameWay
<1> QED
  BY <1>1, <1>2 DEF Both, Turning

\* The commit is sent: c has the new key, and d will have it.
Switching(c, d, e, m) ==
    /\ m.type = "commit" /\ m.id = d.id
    /\ e.key = d.exkey /\ e.ex = "none" /\ e.inbox = c.inbox /\ ~Commits(e.out)
    /\ e.asked = Append(c.asked, Sealed(m, c.key, c.fp))

\* The commit goes out: what follows it goes under the new key.
LEMMA BothSwitched ==
    ASSUME NEW n \in Nat, NEW c \in Chat(n), NEW d, NEW e, NEW v, NEW m \in Message(n),
           d.ex = "accepted", c.key = d.key, c.fp = c.key,
           UpTo(c.inbox, d.key), UpTo(d.asked, d.key), ~Commits(c.inbox), ~Commits(d.asked),
           ~Commits(d.out), UpTo(d.inbox, d.key), UpTo(c.asked, d.key), ~Commits(d.inbox),
           ~Commits(c.asked), Switching(c, d, e, m)
    PROVE  Both(e, d, v)
<1> DEFINE l == Sealed(m, c.key, c.fp)
<1>1. /\ l \in Message(n) /\ l.type = "commit" /\ l.id = d.id /\ l.key = d.key /\ l.fp = d.key
      /\ e.asked = Append(c.asked, l)
  <2>1. c.key \in SUBSET (0..(n - 1)) /\ c.fp \in SUBSET (0..(n - 1))
    BY ChatFields
  <2>2. l \in Message(n) /\ l.type = m.type /\ l.id = m.id /\ l.key = c.key /\ l.fp = c.fp
    BY <2>1, SealedIs
  <2> QED
    BY <2>2 DEF Switching
<1> HIDE DEF l
<1>2. Turn(e.asked, d.id, d.key, d.exkey)
  <2>1. c.asked \in Seq(Message(n))
    BY ChatFields
  <2>2. Turn(Append(c.asked, l), l.id, d.key, d.exkey)
    BY <1>1, <2>1, TurnBegins
  <2> QED
    BY <1>1, <2>2
<1>3. Switched(d, e, v)
  BY <1>2 DEF Switched, Sending, Switching
<1> QED
  BY <1>3 DEF Turning, Both, Switching

\* c, which has requested a key, commits the one that d has accepted.
LEMMA BothCommits ==
    ASSUME NEW n \in Nat, NEW c \in Chat(n), NEW d, NEW g \in Chat(n), NEW e, NEW v, NEW m \in Message(n),
           Even(c, d), d.ex = "accepted",
           g.ex = "committed", g.exkey = d.exkey, SameKeys(c, g), SameWay(c, g),
           g.chat = "ok", g.fp = g.key,
           m.type = "commit", m.id = d.id, IsPosted(g, e, m)
    PROVE  Both(e, d, v)
<1>1. /\ g.key = d.key /\ UpTo(g.inbox, d.key) /\ UpTo(d.asked, d.key) /\ ~Commits(g.inbox)
      /\ ~Commits(d.asked) /\ ~Commits(d.out) /\ UpTo(d.inbox, d.key) /\ UpTo(g.asked, d.key)
      /\ ~Commits(d.inbox) /\ ~Commits(g.asked) /\ ~Commits(g.out)
  BY DEF Even, Clean, SameKeys, SameWay
<1>2. CASE g.ready
  <2>1. IsSent(g, e, m)
    BY <1>2 DEF IsPosted
  <2>2. Switching(g, d, e, m)
    BY <1>1, <2>1 DEF IsSent, Switching, Sealed
  <2> QED
    BY <1>1, <2>2, BothSwitched
<1>3. CASE ~g.ready
  <2>1. IsParked(g, e, m)
    BY <1>3 DEF IsPosted
  <2>2. /\ e.key = g.key /\ e.ex = g.ex /\ e.exkey = g.exkey /\ e.out = Append(g.out, m)
        /\ e.inbox = g.inbox /\ e.asked = g.asked /\ e.ready = g.ready
    BY <2>1 DEF IsParked, SameKeys, SameExchange
  <2>3. g.out \in Seq(Message(n))
    BY ChatFields
  <2>4. /\ Commits(e.out) /\ Once(e.out, {"commit"})
        /\ ToSet(e.out) = ToSet(g.out) \cup {m}
    <3>1. Commits(e.out)
      BY <2>2, <2>3, HasGrows DEF Commits
    <3>2. Once(g.out, {"commit"})
      BY <1>1 DEF Commits, Has, Once, ToSet
    <3>3. Once(e.out, {"commit"})
      BY <1>1, <2>2, <2>3, <3>2, OnceGrows DEF Commits
    <3> QED
      BY <2>2, <2>3, <3>1, <3>3, Grown
  <2>5. \A l \in ToSet(e.out) : l.type = "commit" => l.id = d.id
    BY <1>1, <2>4 DEF Commits, Has
  <2>6. Waiting(d, e)
    BY <1>1, <1>3, <2>2, <2>4, <2>5 DEF Waiting
  <2> QED
    BY <1>1, <2>2, <2>6 DEF Turning, Both
<1> QED
  BY <1>2, <1>3

\* The commit that has waited is sent.
LEMMA BothFlushed ==
    ASSUME NEW n \in Nat, NEW c \in Chat(n), NEW d, NEW g \in Chat(n), NEW e, NEW v, NEW m,
           Both(c, d, v), c.ex = "committed", c.out # <<>>, m = Head(c.out), m.type = "commit",
           c.fp = c.key,
           SameKeys(c, g), SameExchange(c, g), g.out = Tail(c.out), g.asked = c.asked,
           g.inbox = c.inbox, IsSent(g, e, m)
    PROVE  Both(e, d, v)
<1>1. Turning(d, c, v) /\ Waiting(d, c)
  BY CommittedWaits
<1>2. c.out \in Seq(Message(n))
  BY ChatFields
<1>3. /\ m \in Message(n) /\ m \in ToSet(c.out)
      /\ ~Commits(Tail(c.out))
  <2>1. Once(c.out, {"commit"})
    BY <1>1 DEF Waiting
  <2> QED
    BY <1>2, <2>1, Rest, OnceRest DEF Commits
<1>4. /\ g.key = d.key /\ g.fp = g.key /\ UpTo(g.inbox, d.key) /\ UpTo(d.asked, d.key)
      /\ ~Commits(g.inbox) /\ ~Commits(d.asked) /\ ~Commits(d.out) /\ UpTo(d.inbox, d.key)
      /\ UpTo(g.asked, d.key) /\ ~Commits(d.inbox) /\ ~Commits(g.asked)
      /\ d.ex = "accepted" /\ g.exkey = d.exkey /\ g.ex = "committed" /\ m.id = d.id
  BY <1>1, <1>3 DEF Turning, Waiting, SameKeys, SameExchange
<1>5. Switching(g, d, e, m)
  BY <1>3, <1>4 DEF IsSent, Switching, Sealed
<1> QED
  BY <1>3, <1>4, <1>5, BothSwitched

\* c reads the commit, and has the new key too.
LEMMA BothTurned ==
    ASSUME NEW n \in Nat, NEW c \in Chat(n), NEW d \in Chat(n), NEW e, NEW v,
           Both(c, d, v), c.ex = "accepted", c.chat = "ok", Newer(c.exkey, c.key),
           c.inbox # <<>>, Head(c.inbox).type = "commit",
           e.key = c.exkey, e.ex = "none", e.inbox = Tail(c.inbox), e.asked = c.asked, e.out = c.out
    PROVE  Even(e, d) /\ Both(e, d, v)
<1>1. Commits(c.inbox)
  <2>1. c.inbox \in Seq(Message(n))
    BY ChatFields
  <2> QED
    BY <2>1, TalkRest
<1>2. Turning(c, d, v) /\ Switched(c, d, v) /\ Arriving(c, d)
  <2>1. Turning(c, d, v)
    BY <1>1 DEF Both, Even, Clean, Turning, Switched
  <2>2. ~Waiting(c, d) /\ ~Sending(c, d) /\ ~Lost(c, v) /\ ~Deaf(c)
    BY <1>1 DEF Waiting, Sending, Lost, Deaf
  <2> QED
    BY <2>1, <2>2 DEF Turning, Switched
<1> DEFINE k == c.key  l == c.exkey
<1>3. /\ k \in SUBSET Nat /\ l \in SUBSET Nat /\ c.inbox \in Seq(Message(n))
      /\ c.asked \in Seq(Message(n)) /\ d.asked \in Seq(Message(n)) /\ d.inbox \in Seq(Message(n))
      /\ Tail(c.inbox) \in Seq(Message(n))
  BY ChatFields, Rest
<1> HIDE DEF k, l
<1>4. Under(Tail(c.inbox), l) /\ ~Commits(Tail(c.inbox))
  <2>1. Turn(c.inbox, c.id, k, l)
    BY <1>2 DEF Arriving, k, l
  <2> QED
    BY <1>3, <2>1, TurnRest
<1>5. /\ UpTo(d.inbox, k) /\ UpTo(c.asked, k) /\ Under(d.asked, l) /\ Newer(l, k)
      /\ d.key = l /\ d.ex # "committed"
      /\ ~Commits(d.inbox) /\ ~Commits(c.asked) /\ ~Commits(c.out)
      /\ ~Commits(d.asked) /\ ~Commits(d.out)
  BY <1>2 DEF Turning, Switched, Arriving, k, l
<1>6. /\ UpTo(d.inbox, l) /\ UpTo(c.asked, l)
      /\ UpTo(d.asked, l) /\ UpTo(Tail(c.inbox), l)
  BY <1>3, <1>4, <1>5, UpToNewer
<1>7. Even(e, d)
  BY <1>4, <1>5, <1>6 DEF Even, Clean, l
<1> QED
  BY <1>7 DEF Both

\* What c can read of d: both have the same key, or it has come up to the commit.
LEMMA BothReads ==
    ASSUME NEW n \in Nat, NEW c \in Chat(n), NEW d \in Chat(n), NEW v, NEW m,
           Both(c, d, v), c.inbox # <<>>, m = Head(c.inbox), m.type \in InChat,
           c.chat = "ok", c.fp = c.key, d.ex = "accepted" => Newer(d.exkey, d.key)
    PROVE  /\ Readable(Adopted(c, m), m) =>
                 /\ c.ex # "committed" /\ Adopted(c, m) = c /\ ~Turning(d, c, v)
                 /\ m.type = "commit" => c.ex = "accepted" /\ c.id = m.id
           /\ ~Readable(Adopted(c, m), m) =>
                 m.type # "commit" /\ Newer(ReadWith(Adopted(c, m)), m.key)
<1> DEFINE q == c.inbox
<1>1. /\ q \in Seq(Message(n)) /\ m \in Message(n) /\ m \in ToSet(q) /\ m.key \in SUBSET Nat
      /\ c.key \in SUBSET Nat /\ d.key \in SUBSET Nat /\ d.exkey \in SUBSET Nat
      /\ c.exkey \in SUBSET Nat
  <2>1. c.inbox \in Seq(Message(n))
    BY ChatFields
  <2>2. m \in Message(n) /\ m \in ToSet(c.inbox)
    BY <2>1, Rest
  <2> QED
    BY <2>1, <2>2, ChatFields, Fields
<1>2. \A k : UpTo(q, k) => m.key = m.fp /\ (m.key = k \/ Newer(k, m.key))
  BY <1>1 DEF UpTo
<1>3. ~Commits(q) => m.type # "commit"
  BY <1>1 DEF Commits, Has
<1>4. CASE c.ex # "committed" /\ ~Turning(d, c, v)
  <2>1. Adopted(c, m) = c /\ ReadWith(c) = c.key /\ (Readable(c, m) <=> m.fp = c.key /\ m.key = c.key)
    BY <1>4 DEF Adopted, ReadWith, Readable, Needed
  <2>2. CASE UpTo(q, c.key) /\ ~Commits(q)
    BY <1>2, <1>3, <1>4, <2>1, <2>2
  <2>3. CASE ~(UpTo(q, c.key) /\ ~Commits(q))
    <3>1. c.ex = "accepted" /\ Arriving(c, d)
      BY <1>4, <2>3 DEF Both, Even, Clean, Turning, Switched, Waiting, Sending, Lost, Deaf
    <3>2. Turn(q, c.id, c.key, c.exkey)
      BY <3>1 DEF Arriving
    <3>3. CASE m.type = "commit"
      <4>1. m.id = c.id /\ m.key = c.key /\ m.fp = c.key
        BY <1>1, <3>2, <3>3, TurnRest
      <4> QED
        BY <1>4, <2>1, <3>1, <4>1
    <3>4. CASE m.type # "commit"
      <4>1. m.key = m.fp /\ (m.key = c.key \/ Newer(c.key, m.key))
        BY <1>1, <3>2, <3>4, TurnRest
      <4> QED
        BY <1>4, <2>1, <3>4, <4>1
    <3> QED
      BY <3>3, <3>4
  <2> QED
    BY <2>2, <2>3
<1>5. CASE c.ex = "committed" \/ Turning(d, c, v)
  <2>1. Turning(d, c, v)
    BY <1>5, CommittedWaits
  <2>2. UpTo(q, d.key) /\ ~Commits(q) /\ d.ex = "accepted" /\ Newer(d.exkey, d.key)
    BY <2>1 DEF Turning
  <2>3. m.key = m.fp /\ Newer(d.exkey, m.key) /\ m.key # d.exkey
    <3>1. Newer(d.exkey, m.key)
      BY <1>1, <1>2, <2>2, NewerOrders
    <3> QED
      BY <1>1, <1>2, <2>2, <3>1, NewerOrders
  <2>4. Adopted(c, m) = c /\ ReadWith(c) = d.exkey
    <3>1. CASE Waiting(d, c)
      BY <2>3, <3>1 DEF Waiting, Adopted, ReadWith
    <3>2. CASE Switched(d, c, v)
      BY <2>3, <3>2 DEF Switched, Adopted, ReadWith
    <3> QED
      BY <2>1, <3>1, <3>2 DEF Turning
  <2>5. ~Readable(c, m)
    BY <2>3, <2>4 DEF Readable
  <2> QED
    BY <1>3, <2>2, <2>3, <2>4, <2>5
<1> QED
  BY <1>4, <1>5

\* What c does with a commit that it drops: its chat is not ok, and will not be.
LEMMA BothDeaf ==
    ASSUME NEW n \in Nat, NEW c \in Chat(n), NEW d, NEW e, NEW v,
           Both(c, d, v), c.inbox # <<>>, Head(c.inbox).type \in InChat,
           c.chat # "ok", ~Has(Tail(c.inbox), Reopeners), e.chat = c.chat,
           e.key = c.key, SameExchange(c, e), e.asked = c.asked, e.out = c.out, e.ready = c.ready,
           e.inbox = Tail(c.inbox)
    PROVE  Both(e, d, v)
<1>1. c.inbox \in Seq(Message(n)) /\ c.asked \in Seq(Message(n))
  BY ChatFields
<1>2. CASE Head(c.inbox).type # "commit"
  <2>1. Kin(c.inbox, e.inbox) /\ Kin(c.asked, e.asked)
    BY <1>1, <1>2, KinIs
  <2>2. Deaf(e)
    BY DEF Deaf
  <2>3. Quiet(c, e)
    BY <2>1, <2>2 DEF Quiet
  <2> QED
    BY <2>3, BothQuiet
<1>3. CASE Head(c.inbox).type = "commit"
  <2>1. Commits(c.inbox)
    BY <1>1, <1>3, TalkRest
  <2>2. Turning(c, d, v) /\ Switched(c, d, v)
    BY <2>1 DEF Both, Even, Clean, Turning, Switched, Waiting
  <2>3. Deaf(e)
    BY DEF Deaf
  <2>4. Switched(e, d, v)
    BY <2>2, <2>3 DEF Switched, SameExchange
  <2> QED
    BY <2>2, <2>4 DEF Turning, Both, SameExchange
<1> QED
  BY <1>2, <1>3

-----------------------------------------------------------------------------
(* What is said of an exchange                                             *)

\* The accept or the abort m fits the exchange that its sender e is in.
Fits(e, m) ==
    /\ m.type = "accept" => e.ex = "accepted" /\ e.id = m.id /\ e.exkey = {m.id} \cup m.g
    /\ m.type = "abort" => e.ex = "aborted"

\* An accept or an abort of e to f is one of c to d, or fits.
Answering == {"accept", "abort"}
\* c has said the same before.
SaidBefore(c, d, m) == \E l : Said(c, d, l) /\ l.type = m.type /\ l.id = m.id /\ l.g = m.g
\* e says no more to f than what fits its exchange, or what c has said before.
SaysMore(c, d, e, f) ==
    \A m : Said(e, f, m) => m.type \notin Answering \/ Fits(e, m) \/ SaidBefore(c, d, m)

\* No accept or abort comes to a queue.
NoNews(q, r) == \A m \in ToSet(r) : m \in ToSet(q) \/ m.type \notin Answering
\* e says nothing more of an exchange than c.
Hush(c, e) == NoNews(c.asked, e.asked) /\ NoNews(c.out, e.out) /\ NoNews(c.inbox, e.inbox)

\* f is in an exchange that d was in, or in one of which c has said nothing.
Expects(c, d, f) ==
    f.ex = "requested" => \/ d.ex = "requested" /\ f.id = d.id
                          \/ \A l : Said(c, d, l) => l.id # f.id

\* Speaks is kept if what is said fits, and an exchange that was accepted ends
\* only when no accept of it is waited for.
LEMMA SpeaksOn ==
    ASSUME NEW c, NEW d, NEW e, NEW f, Speaks(c, d), SaysMore(c, d, e, f), Expects(c, d, f),
           c.ex = "aborted" => e.ex = "aborted",
           c.ex = "accepted" => SameExchange(c, e) \/ ~(d.ex = "requested" /\ d.id = c.id),
           e.ex = "accepted" => Newer(e.exkey, e.key)
    PROVE  Speaks(e, f)
<1>1. ASSUME NEW m, Said(e, f, m), m.type = "accept", f.ex = "requested", f.id = m.id
      PROVE  e.ex = "accepted" /\ e.id = m.id /\ e.exkey = {m.id} \cup m.g
  <2>1. CASE Fits(e, m)
    BY <1>1, <2>1 DEF Fits
  <2>2. CASE SaidBefore(c, d, m)
    <3>1. PICK l : Said(c, d, l) /\ l.type = m.type /\ l.id = m.id /\ l.g = m.g
      BY <2>2 DEF SaidBefore
    <3>2. d.ex = "requested" /\ f.id = d.id
      BY <1>1, <3>1 DEF Expects
    <3>3. c.ex = "accepted" /\ c.id = l.id /\ c.exkey = {l.id} \cup l.g
      BY <1>1, <3>1, <3>2 DEF Speaks
    <3>4. SameExchange(c, e)
      BY <1>1, <3>1, <3>2, <3>3
    <3> QED
      BY <3>1, <3>3, <3>4 DEF SameExchange
  <2> QED
    BY <1>1, <2>1, <2>2 DEF SaysMore, Answering
<1>2. ASSUME NEW m, Said(e, f, m), m.type = "abort"
      PROVE  e.ex = "aborted"
  <2>1. CASE Fits(e, m)
    BY <1>2, <2>1 DEF Fits
  <2>2. CASE SaidBefore(c, d, m)
    <3>1. PICK l : Said(c, d, l) /\ l.type = m.type /\ l.id = m.id /\ l.g = m.g
      BY <2>2 DEF SaidBefore
    <3>2. c.ex = "aborted"
      BY <1>2, <3>1 DEF Speaks
    <3> QED
      BY <3>2
  <2> QED
    BY <1>2, <2>1, <2>2 DEF SaysMore, Answering
<1> QED
  BY <1>1, <1>2 DEF Speaks

\* What is said before still is.
LEMMA SaysHush ==
    ASSUME NEW c, NEW d, NEW e, NEW f, NoNews(c.asked, e.asked), NoNews(c.out, e.out),
           NoNews(d.inbox, f.inbox)
    PROVE  SaysMore(c, d, e, f)
<1> SUFFICES ASSUME NEW m, Said(e, f, m), m.type \in Answering
             PROVE  SaidBefore(c, d, m)
  BY DEF SaysMore
<1>1. Said(c, d, m)
  BY DEF Said, NoNews
<1> QED
  BY <1>1 DEF SaidBefore

\* What a side does that says nothing of an exchange and ends none.
Ends(c, d, e) ==
    /\ c.ex = "aborted" => e.ex = "aborted"
    /\ c.ex = "accepted" => SameExchange(c, e) \/ ~(d.ex = "requested" /\ d.id = c.id)
    /\ e.ex = "accepted" => Newer(e.exkey, e.key)

\* One side takes a step.
LEMMA WordsStep ==
    ASSUME NEW s, NEW t, NEW x \in Side, Words(s), t[Other(x)] = s[Other(x)],
           NEW c, c = s[x], NEW d, d = s[Other(x)], NEW e, e = t[x],
           SaysMore(c, d, e, d), NoNews(c.inbox, e.inbox), Ends(c, d, e), Expects(d, c, e)
    PROVE  Words(t)
<1>1. Speaks(c, d) /\ Speaks(d, c)
  <2>1. Other(x) \in Side /\ Other(Other(x)) = x
    BY Sides
  <2> QED
    BY <2>1 DEF Words
<1>2. Speaks(e, d)
  <2>1. Expects(c, d, d)
    BY DEF Expects
  <2> QED
    BY <1>1, <2>1, SpeaksOn DEF Ends
<1>3. Speaks(d, e)
  <2>1. SaysMore(d, c, d, e)
    <3>1. NoNews(d.asked, d.asked) /\ NoNews(d.out, d.out)
      BY DEF NoNews
    <3> QED
      BY <3>1, SaysHush
  <2>2. d.ex = "accepted" => Newer(d.exkey, d.key)
    BY <1>1 DEF Speaks
  <2>3. SameExchange(d, d)
    BY DEF SameExchange
  <2> QED
    BY <1>1, <2>1, <2>2, <2>3, SpeaksOn
<1>4. ASSUME NEW y \in Side
      PROVE  Speaks(t[y], t[Other(y)])
  <2>1. CASE y = x
    BY <1>2, <2>1
  <2>2. CASE y = Other(x)
    BY <1>3, <2>2, Sides
  <2> QED
    BY <2>1, <2>2, Sides
<1> QED
  BY <1>4 DEF Words

\* What does not touch the exchanges leaves what is said of them.
LEMMA WordsHush ==
    ASSUME NEW s, NEW t, NEW x \in Side, Words(s), t[Other(x)] = s[Other(x)],
           SameExchange(s[x], t[x]), Hush(s[x], t[x]), s[x].ex = "accepted" => t[x].key = s[x].key
    PROVE  Words(t)
<1> DEFINE c == s[x]  d == s[Other(x)]  e == t[x]
<1>1. Speaks(c, d)
  BY Sides DEF Words
<1>2. c = s[x] /\ d = s[Other(x)] /\ e = t[x] /\ SameExchange(c, e) /\ Hush(c, e)
      /\ (c.ex = "accepted" => e.key = c.key)
  OBVIOUS
<1> HIDE DEF c, d, e
<1>3. SaysMore(c, d, e, d)
  <2>1. NoNews(d.inbox, d.inbox)
    BY DEF NoNews
  <2> QED
    BY <1>2, <2>1, SaysHush DEF Hush
<1>4. Ends(c, d, e)
  BY <1>1, <1>2 DEF Ends, SameExchange, Speaks
<1>5. Expects(d, c, e)
  BY <1>2 DEF Expects, SameExchange
<1>6. NoNews(c.inbox, e.inbox)
  BY <1>2 DEF Hush
<1> QED
  BY <1>2, <1>3, <1>4, <1>5, <1>6, WordsStep

\* Queues that grow or shrink by what is not of an exchange.
LEMMA NoNewsIs ==
    ASSUME NEW S, NEW q \in Seq(S)
    PROVE  /\ NoNews(q, q)
           /\ \A m \in S : m.type \notin Answering => NoNews(q, Append(q, m))
           /\ q # <<>> => NoNews(q, Tail(q))
<1>1. ASSUME NEW m \in S, m.type \notin Answering
      PROVE  NoNews(q, Append(q, m))
  <2>1. ToSet(Append(q, m)) = ToSet(q) \cup {m}
    BY Grown
  <2> QED
    BY <1>1, <2>1 DEF NoNews
<1>2. ASSUME q # <<>>
      PROVE  NoNews(q, Tail(q))
  <2>1. ToSet(q) = {Head(q)} \cup ToSet(Tail(q))
    BY <1>2, Rest
  <2> QED
    BY <2>1 DEF NoNews
<1>3. NoNews(q, q)
  BY DEF NoNews
<1> QED
  BY <1>1, <1>2, <1>3

\* The queues of c after m is posted: what is not of an exchange is no news.
LEMMA HushPosted ==
    ASSUME NEW n \in Nat, NEW c \in Chat(n), NEW e, NEW m \in Message(n),
           IsPosted(c, e, m), m.type \notin Answering
    PROVE  Hush(c, e)
<1>1. c.asked \in Seq(Message(n)) /\ c.out \in Seq(Message(n)) /\ c.inbox \in Seq(Message(n))
      /\ c.key \in SUBSET (0..(n - 1)) /\ c.fp \in SUBSET (0..(n - 1))
  BY ChatFields
<1>2. NoNews(c.asked, c.asked) /\ NoNews(c.out, c.out) /\ NoNews(c.inbox, c.inbox)
  BY <1>1, NoNewsIs
<1>3. CASE c.chat # "ok"
  BY <1>2, <1>3 DEF IsPosted, Hush
<1>4. CASE IsParked(c, e, m)
  <2>1. NoNews(c.out, e.out)
    BY <1>1, <1>4, NoNewsIs DEF IsParked
  <2> QED
    BY <1>2, <1>4, <2>1 DEF IsParked, Hush
<1>5. CASE IsSent(c, e, m)
  <2> DEFINE l == Sealed(m, c.key, c.fp)
  <2>1. l \in Message(n) /\ l.type = m.type
    BY <1>1, SealedIs
  <2>2. e.asked = Append(c.asked, l)
    BY <1>5 DEF IsSent, Sealed
  <2> HIDE DEF l
  <2>3. NoNews(c.asked, e.asked)
    BY <1>1, <2>1, <2>2, NoNewsIs
  <2> QED
    BY <1>2, <1>5, <2>3 DEF IsSent, Hush
<1> QED
  BY <1>3, <1>4, <1>5 DEF IsPosted

\* What c says to d when m is posted: what it said before, and m.
LEMMA SaysPosted ==
    ASSUME NEW n \in Nat, NEW c \in Chat(n), NEW d, NEW e, NEW m \in Message(n),
           IsPosted(c, e, m)
    PROVE  \A l : Said(e, d, l) =>
              Said(c, d, l) \/ (l.type = m.type /\ l.id = m.id /\ l.g = m.g)
<1>1. c.asked \in Seq(Message(n)) /\ c.out \in Seq(Message(n))
      /\ c.key \in SUBSET (0..(n - 1)) /\ c.fp \in SUBSET (0..(n - 1))
  BY ChatFields
<1>2. CASE c.chat # "ok"
  BY <1>2 DEF IsPosted
<1>3. CASE IsParked(c, e, m)
  <2>1. ToSet(e.out) = ToSet(c.out) \cup {m} /\ e.asked = c.asked
    BY <1>1, <1>3, Grown DEF IsParked
  <2> QED
    BY <2>1 DEF Said
<1>4. CASE IsSent(c, e, m)
  <2> DEFINE l == Sealed(m, c.key, c.fp)
  <2>1. l \in Message(n) /\ l.type = m.type /\ l.id = m.id /\ l.g = m.g
    BY <1>1, SealedIs
  <2>2. e.asked = Append(c.asked, l) /\ e.out = c.out
    BY <1>4 DEF IsSent, Sealed
  <2> HIDE DEF l
  <2>3. ToSet(e.asked) = ToSet(c.asked) \cup {l}
    BY <1>1, <2>1, <2>2, Grown
  <2> QED
    BY <2>1, <2>2, <2>3 DEF Said
<1> QED
  BY <1>2, <1>3, <1>4 DEF IsPosted

-----------------------------------------------------------------------------
(* The phases of the chat                                                  *)

\* With the key of the creator, the phase is that of both sides.
LEMMA PhaseIs ==
    ASSUME NEW s, NEW x \in Side, NEW v, s["alice"].fp # {}
    PROVE  Phase(s, v) <=> Both(s[x], s[Other(x)], v)
<1> DEFINE a == s["alice"]  b == s["bob"]
<1>1. Phase(s, v) <=> Both(a, b, v)
  BY DEF Phase
<1>2. Both(a, b, v) <=> Both(b, a, v)
  BY BothSides
<1>3. CASE x = "alice"
  BY <1>1, <1>3 DEF Other
<1>4. CASE x = "bob"
  BY <1>1, <1>2, <1>4 DEF Other
<1> QED
  BY <1>3, <1>4 DEF Side

\* Before the creator has its key, the phase is that of the time before.
LEMMA PhaseAlone ==
    ASSUME NEW s, NEW v, s["alice"].fp = {}
    PROVE  Phase(s, v) <=> Alone(s["alice"], s["bob"])
  BY DEF Phase

\* What changes no key, and takes nothing that matters from the queues.
Calm(c, e) ==
    /\ SameKeys(c, e) /\ Kin(c.asked, e.asked) /\ Kin(c.inbox, e.inbox) /\ e.out = c.out

\* A step that says nothing under a key and changes none.
LEMMA PhaseCalm ==
    ASSUME NEW s, NEW t, NEW x \in Side, NEW v, NEW w, Phase(s, v),
           t[Other(x)] = s[Other(x)], Calm(s[x], t[x]),
           s["alice"].fp # {} => Quiet(s[x], t[x]) /\ (v.chat = "gone" => w.chat = "gone")
    PROVE  Phase(t, w)
<1>1. t["alice"].fp = s["alice"].fp
  BY DEF Calm, SameKeys, Side, Other
<1>2. CASE s["alice"].fp = {}
  <2>1. Alone(s["alice"], s["bob"])
    BY <1>2 DEF Phase
  <2>2. CASE x = "alice"
    <3>1. t["bob"] = s["bob"] /\ Kin(s["alice"].inbox, t["alice"].inbox)
      BY <2>2 DEF Other, Calm
    <3> QED
      BY <1>1, <1>2, <2>1, <3>1 DEF Phase, Alone, Kin
  <2>3. CASE x = "bob"
    <3>1. /\ t["alice"] = s["alice"] /\ Kin(s["bob"].asked, t["bob"].asked)
          /\ t["bob"].key = s["bob"].key /\ t["bob"].out = s["bob"].out
      BY <2>3 DEF Other, Calm, SameKeys
    <3> QED
      BY <1>1, <1>2, <2>1, <3>1 DEF Phase, Alone, Kin
  <2> QED
    BY <2>2, <2>3 DEF Side
<1>3. CASE s["alice"].fp # {}
  <2>1. Both(s[x], s[Other(x)], v)
    BY <1>3, PhaseIs
  <2>2. Both(t[x], t[Other(x)], w)
    BY <1>3, <2>1, BothQuiet
  <2> QED
    BY <1>1, <1>3, <2>2, PhaseIs
<1> QED
  BY <1>2, <1>3

\* A side that has something to say has its key.
LEMMA SpeakerIs ==
    ASSUME NEW s, NEW v, Life(s, v), Silent(s), NEW x \in Side,
           s[x].chat = "ok" \/ s[x].out # <<>>
    PROVE  /\ s[x].fp # {} /\ s[x].fp = s[x].key
           /\ s["alice"].fp = {} => x = "bob" /\ s[x].ex # "committed"
<1>1. s[x].fp # {}
  <2>1. CASE s[x].chat = "ok"
    BY <2>1 DEF Life, Keyed
  <2>2. CASE s[x].out # <<>>
    <3>1. CASE x = "alice"
      BY <2>2, <3>1 DEF Silent
    <3>2. CASE x = "bob"
      BY <2>2, <3>2 DEF Life, Acceptor
    <3> QED
      BY <3>1, <3>2 DEF Side
  <2> QED
    BY <2>1, <2>2
<1>2. s[x].fp = s[x].key
  BY <1>1 DEF Life, Keyed
<1>3. s["alice"].fp = {} => x = "bob" /\ s[x].ex # "committed"
  BY <1>1 DEF Silent, Side
<1> QED
  BY <1>1, <1>2, <1>3

\* bob says what is no commit before alice has the key.
LEMMA AloneSaid ==
    ASSUME NEW n \in Nat, NEW a, NEW b \in Chat(n), NEW e, NEW l \in Message(n), Alone(a, b),
           e.key = b.key, Commits(e.out) => Commits(b.out),
           e.asked = Append(b.asked, l), l.type # "commit", l.key = b.key, l.fp = b.key
    PROVE  Alone(a, e)
<1> DEFINE p == b.asked  k == b.key
<1>1. p \in Seq(Message(n)) /\ e.asked = Append(p, l)
  BY ChatFields
<1>2. l.key = k /\ l.fp = k /\ Under(p, k) /\ ~Commits(p)
  BY DEF Alone
<1> HIDE DEF p, k
<1>3. Under(Append(p, l), k) /\ ~Commits(Append(p, l))
  BY <1>1, <1>2, TalkGrows
<1> QED
  BY <1>1, <1>3 DEF Alone, p, k

\* c says m under its key, or m waits: as for both sides.
LEMMA PhasePosted ==
    ASSUME NEW n \in Nat, NEW s, NEW t, NEW x \in Side, NEW v, Types(s, n), Life(s, v), Silent(s),
           Phase(s, v), t[Other(x)] = s[Other(x)],
           NEW m \in Message(n), m.type # "commit", IsPosted(s[x], t[x], m)
    PROVE  Phase(t, v) /\ SameKeys(s[x], t[x]) /\ SameExchange(s[x], t[x])
<1>1. s[x] \in Chat(n)
  BY DEF Types
<1>2. CASE s["alice"].fp # {}
  <2>1. Both(s[x], s[Other(x)], v)
    BY <1>2, PhaseIs
  <2>2. s[x].chat = "ok" => s[x].fp = s[x].key
    BY SpeakerIs
  <2>3. /\ Both(t[x], s[Other(x)], v) /\ t[x].key = s[x].key /\ t[x].fp = s[x].fp
        /\ SameExchange(s[x], t[x])
    BY <1>1, <2>1, <2>2, BothPosted
  <2>4. t["alice"].fp # {}
    BY <1>2, <2>3, Sides
  <2> QED
    BY <2>3, <2>4, PhaseIs DEF SameKeys
<1>3. CASE s["alice"].fp = {}
  <2>1. CASE s[x].chat # "ok"
    <3>1. t[x] = s[x]
      BY <2>1 DEF IsPosted
    <3>2. t["alice"] = s["alice"] /\ t["bob"] = s["bob"]
      BY <3>1, Sides
    <3> QED
      BY <3>1, <3>2 DEF Phase, SameKeys, SameExchange
  <2>2. CASE s[x].chat = "ok"
    <3> DEFINE a == s["alice"]  b == s["bob"]  e == t["bob"]
    <3>1. x = "bob" /\ b.ex # "committed" /\ b.fp = b.key
      BY <1>3, <2>2, SpeakerIs
    <3>2. t["alice"] = a /\ a.fp = {} /\ Alone(a, b) /\ b \in Chat(n)
      BY <1>1, <1>3, <3>1 DEF Other, Phase
    <3>3. IsParked(b, e, m) \/ IsSent(b, e, m)
      BY <2>2, <3>1 DEF IsPosted
    <3>3a. b = s[x] /\ e = t[x] /\ a = s["alice"]
      BY <3>1
    <3> HIDE DEF a, b, e
    <3>4. CASE IsParked(b, e, m)
      <4>1. Commits(e.out) <=> Commits(b.out)
        <5>1. b.out \in Seq(Message(n)) /\ e.out = Append(b.out, m)
          BY <3>2, <3>4, ChatFields DEF IsParked
        <5> QED
          BY <5>1, HasGrows DEF Commits
      <4>2. Alone(a, e)
        BY <3>2, <3>4, <4>1 DEF Alone, IsParked, SameKeys
      <4> QED
        BY <3>1, <3>2, <3>3a, <3>4, <4>2 DEF Phase, IsParked
    <3>5. CASE IsSent(b, e, m)
      <4> DEFINE l == Sealed(m, b.key, b.fp)
      <4>1. l \in Message(n) /\ l.type = m.type /\ l.key = b.key /\ l.fp = b.fp
        <5>1. b.key \in SUBSET (0..(n - 1)) /\ b.fp \in SUBSET (0..(n - 1))
          BY <3>2, ChatFields
        <5> QED
          BY <5>1, SealedIs
      <4>2. e.asked = Append(b.asked, l) /\ e.out = b.out /\ SameKeys(b, e) /\ SameExchange(b, e)
        BY <3>1, <3>5 DEF IsSent, Sealed
      <4> HIDE DEF l
      <4>3. Alone(a, e)
        BY <3>1, <3>2, <4>1, <4>2, AloneSaid DEF SameKeys
      <4> QED
        BY <3>1, <3>2, <3>3a, <4>2, <4>3 DEF Phase
    <3> QED
      BY <3>3, <3>4, <3>5
  <2> QED
    BY <2>1, <2>2
<1> QED
  BY <1>2, <1>3

\* A commit that waits is that of a side that has committed.
LEMMA CommitterIs ==
    ASSUME NEW s, NEW v, Life(s, v), Silent(s), Phase(s, v), NEW x \in Side, Commits(s[x].out)
    PROVE  s["alice"].fp # {} /\ s[x].ex = "committed"
<1>1. s[x].out # <<>>
  BY CommitsSome
<1>2. s["alice"].fp # {}
  <2>1. SUFFICES ASSUME s["alice"].fp = {} PROVE FALSE
    OBVIOUS
  <2>2. x = "bob" /\ Alone(s["alice"], s["bob"])
    BY <1>1, <2>1, SpeakerIs, PhaseAlone
  <2> QED
    BY <2>2 DEF Alone
<1>3. Both(s[x], s[Other(x)], v)
  BY <1>2, PhaseIs
<1> QED
  BY <1>2, <1>3 DEF Both, Even, Clean, Turning, Switched, Waiting

\* What has waited is sent, in its place or, as a commit, in its turn.
LEMMA PhaseFlushed ==
    ASSUME NEW n \in Nat, NEW s, NEW p, NEW t, NEW x \in Side, NEW v, Types(s, n), Types(p, n),
           Life(s, v), Silent(s), Phase(s, v), t[Other(x)] = s[Other(x)], NEW m,
           s[x].out # <<>>, m = Head(s[x].out), s[x].ex = "committed" => m.type = "commit",
           IsQueued(s[x], p[x], s[x].ready, Tail(s[x].out), s[x].asked, s[x].inbox),
           IsSent(p[x], t[x], m), t[x].fp # {}
    PROVE  Phase(t, v)
<1> DEFINE c == s[x]  d == s[Other(x)]  g == p[x]  e == t[x]
<1>1. c \in Chat(n) /\ g \in Chat(n) /\ c.out \in Seq(Message(n)) /\ c.key \in SUBSET (0..(n - 1))
      /\ c.fp \in SUBSET (0..(n - 1))
  <2>1. c \in Chat(n) /\ g \in Chat(n)
    BY DEF Types
  <2> QED
    BY <2>1, ChatFields
<1>2. m \in Message(n) /\ (Commits(c.out) <=> Commits(Tail(c.out)) \/ m.type = "commit")
  BY <1>1, Rest, TalkRest
<1>3. /\ SameKeys(c, g) /\ SameExchange(c, g) /\ g.asked = c.asked /\ g.inbox = c.inbox
      /\ g.out = Tail(c.out) /\ g.chat = c.chat
  BY DEF IsQueued, SameLife
<1>4. /\ c.fp = c.key
      /\ s["alice"].fp = {} => x = "bob" /\ c.ex # "committed"
  BY SpeakerIs
<1>5. CASE m.type = "commit"
  <2>1. s["alice"].fp # {} /\ c.ex = "committed"
    BY <1>2, <1>5, CommitterIs
  <2>2. Both(c, d, v)
    BY <2>1, PhaseIs
  <2>3. Both(e, d, v)
    <3> HIDE DEF c, d, g, e
    <3>0. IsSent(g, e, m) /\ c.out # <<>> /\ m = Head(c.out)
      BY DEF c, d, g, e
    <3> QED
      BY <1>1, <1>3, <1>4, <1>5, <2>1, <2>2, <3>0, BothFlushed
  <2>4. t["alice"].fp # {}
    BY <2>1, Sides
  <2> QED
    BY <2>3, <2>4, PhaseIs
<1>6. CASE m.type # "commit"
  <2> DEFINE l == Sealed(m, c.key, c.fp)
  <2>1. l \in Message(n) /\ l.type = m.type /\ l.key = c.key /\ l.fp = c.key
    BY <1>1, <1>2, <1>4, SealedIs
  <2>2. c.ex # "committed"
    BY <1>6
  <2>3. /\ SameKeys(g, e) /\ SameExchange(g, e) /\ e.out = g.out /\ e.inbox = g.inbox
        /\ e.chat = g.chat /\ e.asked = Append(g.asked, Sealed(m, g.key, g.fp))
    BY <1>3, <2>2 DEF IsSent, SameLife, Sealed, SameExchange
  <2>4. /\ SameKeys(c, e) /\ SameExchange(c, e) /\ e.out = Tail(c.out) /\ e.inbox = c.inbox
        /\ e.chat = c.chat /\ e.asked = Append(c.asked, l)
    BY <1>3, <2>3 DEF SameKeys, SameExchange
  <2>5. Commits(e.out) => Commits(c.out)
    BY <1>2, <2>4
  <2> HIDE DEF l
  <2>6. CASE s["alice"].fp # {}
    <3>1. Both(c, d, v)
      BY <2>6, PhaseIs
    <3>2. Spoken(c, e, l)
      BY <1>6, <2>1, <2>4, <2>5, DeafSame DEF Spoken, SameKeys
    <3>3. Both(e, d, v)
      BY <1>1, <2>1, <2>2, <3>1, <3>2, BothSpoken
    <3>4. t["alice"].fp # {}
      BY <2>6, Sides
    <3> QED
      BY <3>3, <3>4, PhaseIs
  <2>7. CASE s["alice"].fp = {}
    <3>1. x = "bob" /\ t["alice"] = s["alice"]
      BY <1>4, <2>7 DEF Other
    <3>2. Alone(s["alice"], c)
      BY <2>7, <3>1, PhaseAlone
    <3>3. Alone(t["alice"], e)
      BY <1>1, <1>6, <2>1, <2>4, <2>5, <3>1, <3>2, AloneSaid DEF SameKeys
    <3> QED
      BY <2>7, <3>1, <3>3, PhaseAlone
  <2> QED
    BY <2>6, <2>7
<1> QED
  BY <1>5, <1>6

\* What goes out was said before.
LEMMA WordsFlushed ==
    ASSUME NEW n \in Nat, NEW s, NEW p, NEW t, NEW x \in Side, Types(s, n), Types(p, n),
           Words(s), t[Other(x)] = s[Other(x)], NEW m, s[x].out # <<>>, m = Head(s[x].out),
           IsQueued(s[x], p[x], s[x].ready, Tail(s[x].out), s[x].asked, s[x].inbox),
           IsSent(p[x], t[x], m)
    PROVE  Words(t)
<1> DEFINE c == s[x]  d == s[Other(x)]  g == p[x]  e == t[x]
<1>1. c \in Chat(n) /\ g \in Chat(n)
  BY DEF Types
<1>2. /\ c.out \in Seq(Message(n)) /\ c.inbox \in Seq(Message(n)) /\ g.asked \in Seq(Message(n))
      /\ g.key \in SUBSET (0..(n - 1)) /\ g.fp \in SUBSET (0..(n - 1))
  BY <1>1, ChatFields
<1>3. m \in Message(n) /\ ToSet(c.out) = {m} \cup ToSet(Tail(c.out))
  BY <1>2, Rest
<1>4. /\ SameKeys(c, g) /\ SameExchange(c, g) /\ g.asked = c.asked /\ g.inbox = c.inbox
      /\ g.out = Tail(c.out)
  BY DEF IsQueued
<1> DEFINE k == Sealed(m, g.key, g.fp)
<1>5. k \in Message(n) /\ k.type = m.type /\ k.id = m.id /\ k.g = m.g
  BY <1>2, <1>3, SealedIs
<1>6. e.asked = Append(g.asked, k) /\ e.out = g.out /\ e.inbox = g.inbox
  BY DEF IsSent, Sealed
<1>7. Speaks(c, d)
  BY Sides DEF Words
<1>8. c.ex # "committed" => SameKeys(c, e) /\ SameExchange(c, e)
  BY <1>4 DEF IsSent, SameKeys, SameExchange
<1>9. c.ex = "committed" => e.ex = "none"
  BY <1>4 DEF IsSent, SameExchange
<1>9a. c = s[x] /\ d = s[Other(x)] /\ e = t[x]
  OBVIOUS
<1> HIDE DEF c, d, g, e, k
<1>10. SaysMore(c, d, e, d)
  <2> SUFFICES ASSUME NEW l, Said(e, d, l)
               PROVE  SaidBefore(c, d, l)
    BY DEF SaysMore
  <2>1. ToSet(e.asked) = ToSet(c.asked) \cup {k}
    BY <1>2, <1>4, <1>5, <1>6, Grown
  <2>2. Said(c, d, m)
    BY <1>3 DEF Said
  <2>3. Said(c, d, l) \/ l = k
    BY <1>3, <1>4, <1>6, <2>1 DEF Said
  <2> QED
    BY <1>5, <2>2, <2>3 DEF SaidBefore
<1>11. NoNews(c.inbox, e.inbox)
  BY <1>4, <1>6 DEF NoNews
<1>12. Ends(c, d, e)
  BY <1>7, <1>8, <1>9 DEF Ends, SameKeys, SameExchange, Speaks
<1>13. Expects(d, c, e)
  BY <1>8, <1>9 DEF Expects, SameExchange
<1> QED
  BY <1>9a, <1>10, <1>11, <1>12, <1>13, WordsStep

-----------------------------------------------------------------------------
(* Reading what is said                                                    *)

\* What is read of the chat is read with the keys of both sides, but for what
\* comes to the creator before it has its own.
LEMMA ReaderIs ==
    ASSUME NEW n \in Nat, NEW s, NEW u, NEW x \in Side, NEW v, NEW m, Reading(n, s, u, x, v, m),
           Silent(s), Phase(s, v), m.type \in InChat, x = "bob" \/ s[x].chat = "ok"
    PROVE  s["alice"].fp # {} /\ Both(s[x], s[Other(x)], v)
<1>1. CASE x = "bob"
  <2>1. Has(s["bob"].inbox, InChat)
    BY <1>1, ReadingIs
  <2>2. s["alice"].fp # {}
    BY <2>1 DEF Silent
  <2> QED
    BY <2>2, PhaseIs
<1>2. CASE x = "alice" /\ s[x].chat = "ok"
  <2>1. s["alice"].fp # {}
    BY <1>2 DEF Reading, Life, Keyed
  <2> QED
    BY <2>1, PhaseIs
<1> QED
  BY <1>1, <1>2 DEF Side

\* A message that is dropped is no commit, unless the chat is over, and was
\* said under an older key.
LEMMA PhaseDropped ==
    ASSUME NEW n \in Nat, NEW s, NEW u, NEW x \in Side, NEW v, NEW m, Reading(n, s, u, x, v, m),
           Silent(s), Words(s), Phase(s, v), m.type \in InChat,
           s[x].chat # "ok" \/ ~Readable(Adopted(s[x], m), m)
    PROVE  /\ Phase(u, v)
           /\ s[x].chat = "ok" => Newer(ReadWith(Adopted(s[x], m)), m.key)
<1> DEFINE c == s[x]  d == s[Other(x)]  e == u[x]
<1>1. c \in Chat(n) /\ d \in Chat(n) /\ c.inbox \in Seq(Message(n)) /\ c.asked \in Seq(Message(n))
  <2>1. c \in Chat(n) /\ d \in Chat(n)
    BY Sides DEF Reading, Types
  <2> QED
    BY <2>1, ChatFields
<1>2. /\ c.inbox # <<>> /\ e.inbox = Tail(c.inbox) /\ m = Head(c.inbox)
      /\ SameLife(c, e) /\ SameKeys(c, e) /\ SameExchange(c, e)
      /\ e.ready = c.ready /\ e.out = c.out /\ e.asked = c.asked /\ u[Other(x)] = d
  BY DEF Reading, Heard
<1>3. m.type # "commit" => Quiet(c, e) /\ Calm(c, e)
  <2> SUFFICES ASSUME m.type # "commit" PROVE Quiet(c, e) /\ Calm(c, e)
    OBVIOUS
  <2>1. Kin(c.asked, e.asked) /\ Kin(c.inbox, e.inbox)
    BY <1>1, <1>2, KinIs
  <2>2. Deaf(c) => Deaf(e)
    BY <1>1, <1>2, HasRest DEF Deaf, SameLife
  <2> QED
    BY <1>2, <2>1, <2>2 DEF Quiet, Calm, SameKeys
<1>4. CASE s[x].chat = "ok"
  <2>1. Both(c, d, v)
    BY <1>4, ReaderIs
  <2>2. c.fp = c.key
    BY <1>4 DEF Reading, Life, Keyed
  <2>3. d.ex = "accepted" => Newer(d.exkey, d.key)
    BY Sides DEF Words, Speaks
  <2>4. m.type # "commit" /\ Newer(ReadWith(Adopted(c, m)), m.key)
    BY <1>1, <1>2, <1>4, <2>1, <2>2, <2>3, BothReads
  <2>5. Phase(u, v)
    BY <1>2, <1>3, <2>4, PhaseCalm
  <2> QED
    BY <2>4, <2>5
<1>5. CASE s[x].chat # "ok"
  <2>1. CASE x = "bob"
    <3>1. s["alice"].fp # {} /\ Both(c, d, v)
      BY <2>1, ReaderIs
    <3>2. ~Has(e.inbox, Reopeners)
      <4>1. Rank(m) >= 2 => ~Has(u[x].inbox, Reopeners)
        BY ReadingIs
      <4>2. Rank(m) = 3
        BY DEF Rank, InChat
      <4> QED
        BY <4>1, <4>2
    <3>3. Both(e, d, v)
      BY <1>1, <1>2, <1>5, <3>1, <3>2, BothDeaf DEF SameLife, SameKeys
    <3>4. u["alice"].fp # {}
      BY <1>2, <2>1, <3>1 DEF Other
    <3> QED
      BY <1>2, <1>5, <3>3, <3>4, PhaseIs
  <2>2. CASE x = "alice" /\ s["alice"].fp # {}
    <3>1. Both(c, d, v)
      BY <2>2, PhaseIs
    <3>2. ~Has(e.inbox, Reopeners)
      <4>1. Rank(m) >= 2 => ~Has(u[x].inbox, Reopeners)
        BY ReadingIs
      <4>2. Rank(m) = 3
        BY DEF Rank, InChat
      <4> QED
        BY <4>1, <4>2
    <3>3. Both(e, d, v)
      BY <1>1, <1>2, <1>5, <3>1, <3>2, BothDeaf DEF SameLife, SameKeys
    <3>4. u["alice"].fp # {}
      BY <1>2, <2>2 DEF SameKeys
    <3> QED
      BY <1>2, <1>5, <3>3, <3>4, PhaseIs
  <2>3. CASE x = "alice" /\ s["alice"].fp = {}
    <3>1. Alone(c, d) /\ d = s["bob"]
      BY <2>3, PhaseAlone DEF Other
    <3>2. m.type # "commit"
      BY <1>1, <1>2, <3>1, TalkRest DEF Alone
    <3>3. Phase(u, v)
      BY <1>2, <1>3, <2>3, <3>2, PhaseCalm
    <3> QED
      BY <1>5, <3>3
  <2> QED
    BY <2>1, <2>2, <2>3 DEF Side
<1> QED
  BY <1>4, <1>5

-----------------------------------------------------------------------------
(* The exchange, when both have the same key                               *)

\* Even sides stay even, whatever is read but a commit,
LEMMA EvenHeard ==
    ASSUME NEW n \in Nat, NEW c \in Chat(n), NEW d, NEW e, Even(c, d), Heard(c, e)
    PROVE  Even(e, d)
<1> DEFINE q == c.inbox
<1>1. q \in Seq(Message(n)) /\ q # <<>> /\ e.inbox = Tail(q)
  BY ChatFields DEF Heard
<1>2. /\ \A k : UpTo(q, k) => UpTo(Tail(q), k)
      /\ ~Commits(q) => ~Commits(Tail(q))
  <2> HIDE DEF q
  <2> QED
    BY <1>1, TalkRest
<1> QED
  BY <1>1, <1>2 DEF Even, Clean, Heard, SameKeys, SameExchange

\* ... and whatever is said but a commit.
LEMMA EvenPosted ==
    ASSUME NEW n \in Nat, NEW c \in Chat(n), NEW d, NEW e, NEW m \in Message(n), Even(c, d),
           m.type # "commit", IsPosted(c, e, m), c.chat = "ok" => c.fp = c.key
    PROVE  Even(e, d) /\ SameKeys(c, e) /\ SameExchange(c, e)
<1>1. CASE c.chat # "ok"
  BY <1>1 DEF IsPosted, SameKeys, SameExchange
<1>2. CASE IsParked(c, e, m)
  <2>1. Commits(e.out) <=> Commits(c.out)
    <3>1. c.out \in Seq(Message(n)) /\ e.out = Append(c.out, m)
      BY <1>2, ChatFields DEF IsParked
    <3> QED
      BY <3>1, HasGrows DEF Commits
  <2> QED
    BY <1>2, <2>1 DEF Even, Clean, IsParked, SameKeys, SameExchange
<1>3. CASE c.chat = "ok" /\ IsSent(c, e, m)
  <2> DEFINE l == Sealed(m, c.key, c.fp)  q == c.asked  k == c.key
  <2>1. /\ l \in Message(n) /\ l.type = m.type /\ l.key = k /\ l.fp = k
        /\ q \in Seq(Message(n)) /\ e.asked = Append(q, l)
    <3>1. c.key \in SUBSET (0..(n - 1)) /\ c.fp \in SUBSET (0..(n - 1)) /\ q \in Seq(Message(n))
      BY ChatFields
    <3>2. l \in Message(n) /\ l.type = m.type /\ l.key = c.key /\ l.fp = c.fp
      BY <3>1, SealedIs
    <3> QED
      BY <1>3, <3>1, <3>2 DEF IsSent, Sealed
  <2> HIDE DEF l
  <2>2. UpTo(Append(q, l), k) <=> UpTo(q, k)
    <3> HIDE DEF q, k
    <3> QED
      BY <2>1, TalkGrows
  <2>3. Commits(Append(q, l)) <=> Commits(q)
    <3> HIDE DEF q, k
    <3> QED
      BY <2>1, TalkGrows
  <2>4. SameKeys(c, e) /\ SameExchange(c, e) /\ e.inbox = c.inbox /\ e.out = c.out
    BY <1>3 DEF Even, IsSent
  <2> QED
    BY <2>1, <2>2, <2>3, <2>4 DEF Even, Clean, SameKeys, SameExchange
<1> QED
  BY <1>1, <1>2, <1>3 DEF IsPosted

\* A side that has its key has one after all that it does in the chat.
LEMMA MovesKeyed ==
    ASSUME NEW n, NEW s, NEW t, NEW x \in Side, Moves(n, s, t, x), s[x].fp # {},
           s["alice"].fp # {}
    PROVE  t["alice"].fp # {}
<1>1. t[x].fp # {}
  BY DEF Moves, Talked, SameKeys, Pair
<1>2. t[Other(x)] = s[Other(x)]
  BY DEF Moves, Step
<1> QED
  BY <1>1, <1>2, Sides

\* What a side does with what it reads, when it and the other side are even:
\* what was said of the exchanges fits, and they are even again.
Evens(u, x) == Words(u) /\ Even(u[x], u[Other(x)]) /\ (u[x].chat = "ok" => u[x].fp = u[x].key)

\* c is now in the exchange id, with k.
InExchange(n, u, p, x, ex, id, k) ==
    /\ Step(n, u, p, x) /\ SameKeys(u[x], p[x]) /\ SameWay(u[x], p[x])
    /\ p[x].ex = ex /\ p[x].id = id /\ p[x].exkey = k /\ p[x].chat = u[x].chat
    /\ ex # "committed" => Even(p[x], p[Other(x)])

\* Even sides stay so when one is in another exchange and has not committed.
LEMMA EvensExchanged ==
    ASSUME NEW n \in Nat \ {0}, NEW u, Types(u, n), NEW x \in Side, Evens(u, x),
           NEW ex \in Exchanges, NEW id \in 0..(n - 1), NEW k \in SUBSET (0..(n - 1)),
           ex = "requested" => k = {id},
           ex \in {"accepted", "committed"} => id \in k /\ Pair(k),
           NEW p, p = With(u, x, Exchanged(u[x], ex, id, k))
    PROVE  InExchange(n, u, p, x, ex, id, k)
<1>1. /\ Moves(n, u, p, x) /\ SameKeys(u[x], p[x]) /\ SameWay(u[x], p[x])
      /\ p[x].ex = ex /\ p[x].id = id /\ p[x].exkey = k /\ p[x].chat = u[x].chat
  BY MovesExchanged
<1>2. Step(n, u, p, x)
  BY <1>1 DEF Moves
<1>3. Even(u[x], u[Other(x)]) /\ p[Other(x)] = u[Other(x)]
  BY <1>2 DEF Evens, Step
<1> DEFINE c == u[x]  d == u[Other(x)]  e == p[x]
<1>4. ex # "committed" => Even(e, d)
  <2>1. /\ Even(c, d) /\ e.key = c.key /\ e.inbox = c.inbox /\ e.asked = c.asked /\ e.out = c.out
        /\ e.ex = ex
    BY <1>1, <1>3 DEF SameKeys, SameWay
  <2> HIDE DEF c, d, e
  <2> QED
    BY <2>1, BothExchanged
<1> QED
  BY <1>1, <1>2, <1>3, <1>4 DEF InExchange

\* The request of the other side is accepted.
LEMMA EvensAccepted ==
    ASSUME NEW n \in Nat \ {0}, NEW u, Types(u, n), NEW x \in Side, NEW m \in Message(n),
           m.type = "request", NEW b \in 0..(n - 1), b > m.id, \A j \in u[x].key : b > j,
           Evens(u, x), u[x].ex \in {"none", "requested"}, NEW t, t = Accepted(u, x, m, b)
    PROVE  Words(t) /\ Even(t[x], t[Other(x)])
<1> DEFINE k == m.g \cup {b}
           p == With(u, x, Exchanged(u[x], "accepted", m.id, k))
           l == Secret("accept", {b}, m.id)
<1>1. m.id \in 0..(n - 1) /\ m.g = {m.id} /\ m.g \in SUBSET (0..(n - 1)) /\ n \in Nat
  BY Fields DEF Formed
<1>2. k \in SUBSET (0..(n - 1)) /\ m.id \in k /\ Pair(k) /\ b \in k /\ k = {m.id} \cup {b}
  BY <1>1 DEF Pair
<1>3. t = Post(p, x, l)
  BY DEF Accepted, With, Exchanged
<1>4. l \in Message(n) /\ l.type \in InChat /\ l.type = "accept" /\ l.id = m.id /\ l.g = {b}
  <2>1. l \in Message(n) /\ l.type \in InChat
    BY <1>1, TalkIs
  <2>2. {b} \in SUBSET (0..(n - 1)) /\ "accept" \in InChat
    BY DEF InChat
  <2>3. l.type = "accept" /\ l.id = m.id /\ l.g = {b}
    BY <1>1, <2>2, SecretIs
  <2> QED
    BY <2>1, <2>3
<1>5. "accepted" \in Exchanges /\ p = With(u, x, Exchanged(u[x], "accepted", m.id, k))
  BY DEF Exchanges
<1> HIDE DEF k, p, l
<1>6. /\ Step(n, u, p, x) /\ SameKeys(u[x], p[x]) /\ SameWay(u[x], p[x])
      /\ p[x].ex = "accepted" /\ p[x].id = m.id /\ p[x].exkey = k /\ p[x].chat = u[x].chat
      /\ Even(p[x], p[Other(x)])
  <2> DEFINE id == m.id  ex == "accepted"
  <2>1. /\ ex \in Exchanges /\ id \in 0..(n - 1) /\ ex # "requested" /\ ex # "committed"
        /\ p = With(u, x, Exchanged(u[x], ex, id, k))
        /\ ex = "requested" => k = {id}
        /\ ex \in {"accepted", "committed"} => id \in k /\ Pair(k)
        /\ k \in SUBSET (0..(n - 1))
    BY <1>1, <1>2, <1>5
  <2> HIDE DEF id, ex
  <2>2. InExchange(n, u, p, x, ex, id, k)
    BY <2>1, EvensExchanged
  <2> QED
    BY <2>1, <2>2 DEF InExchange, id, ex
<1>7. Types(p, n) /\ p[x] \in Chat(n) /\ p[Other(x)] = u[Other(x)]
  BY <1>6 DEF Step, Types
<1>8. t[Other(x)] = p[Other(x)] /\ IsPosted(p[x], t[x], l)
  BY <1>3, <1>4, <1>7, Posted
<1> DEFINE c == u[x]  d == u[Other(x)]  g == p[x]  e == t[x]
<1>9. Even(e, d) /\ SameKeys(g, e) /\ SameExchange(g, e)
  <2>1. g.chat = "ok" => g.fp = g.key
    BY <1>6 DEF Evens, SameKeys
  <2>2. Even(g, d) /\ l.type # "commit"
    BY <1>4, <1>6, <1>7
  <2>3. g \in Chat(n) /\ IsPosted(g, e, l)
    BY <1>7, <1>8
  <2> HIDE DEF c, d, g, e
  <2> QED
    BY <1>1, <1>4, <2>1, <2>2, <2>3, EvenPosted
<1>10. Words(t)
  <2>1. \A h : Said(e, d, h) => Said(g, d, h) \/ (h.type = l.type /\ h.id = l.id /\ h.g = l.g)
    BY <1>1, <1>4, <1>7, <1>8, SaysPosted
  <2>2. \A h : Said(g, d, h) => Said(c, d, h)
    BY <1>6 DEF SameWay, Said
  <2>3. e.ex = "accepted" /\ e.id = m.id /\ e.exkey = k /\ e.key = c.key
    BY <1>6, <1>9 DEF SameKeys, SameExchange
  <2>4. e.inbox = c.inbox
    BY <1>6, <1>8 DEF SameWay, IsPosted
  <2>5. /\ c = u[x] /\ d = u[Other(x)] /\ e = t[x] /\ t[Other(x)] = u[Other(x)]
        /\ c.ex \in {"none", "requested"} /\ \A j \in c.key : b > j
    BY <1>7, <1>8
  <2> HIDE DEF c, d, g, e
  <2>6. SaysMore(c, d, e, d)
    <3> SUFFICES ASSUME NEW h, Said(e, d, h)
                 PROVE  Fits(e, h) \/ SaidBefore(c, d, h)
      BY DEF SaysMore
    <3>1. CASE Said(c, d, h)
      BY <3>1 DEF SaidBefore
    <3>2. CASE h.type = l.type /\ h.id = l.id /\ h.g = l.g
      BY <1>2, <1>4, <2>3, <3>2 DEF Fits
    <3> QED
      BY <2>1, <2>2, <3>1, <3>2
  <2>7. Ends(c, d, e)
    <3>1. Newer(e.exkey, e.key)
      BY <1>2, <2>3, <2>5 DEF Newer
    <3> QED
      BY <2>5, <3>1 DEF Ends
  <2>8. Expects(d, c, e) /\ NoNews(c.inbox, e.inbox)
    BY <2>3, <2>4 DEF Expects, NoNews
  <2>9. Words(u)
    BY DEF Evens
  <2> QED
    BY <2>5, <2>6, <2>7, <2>8, <2>9, WordsStep
<1> QED
  BY <1>7, <1>8, <1>9, <1>10

\* The exchange is aborted, and the other side is told.
LEMMA EvensAborted ==
    ASSUME NEW n \in Nat \ {0}, NEW u, Types(u, n), NEW x \in Side, Evens(u, x),
           u[x].ex = "accepted" => u[Other(x)].ex # "requested", NEW t, t = Aborted(u, x)
    PROVE  Words(t) /\ Even(t[x], t[Other(x)])
<1> DEFINE l == Secret("abort", {}, u[x].id)  p == Post(u, x, l)
<1>0. n \in Nat
  OBVIOUS
<1>1. l \in Message(n) /\ l.type \in InChat /\ l.type = "abort"
  <2>1. u[x].id \in 0..(n - 1) /\ {} \in SUBSET (0..(n - 1)) /\ "abort" \in InChat
    BY ChatFields DEF Types, InChat
  <2>2. l.type = "abort" /\ (Formed(l) => l \in Message(n))
    BY <2>1, SecretIs
  <2> QED
    BY <2>1, <2>2 DEF Formed
<1>2. p = Post(u, x, l) /\ t = [p EXCEPT ![x].ex = "aborted"]
  BY DEF Aborted
<1> HIDE DEF l, p
<1>3. Types(p, n) /\ p[Other(x)] = u[Other(x)] /\ IsPosted(u[x], p[x], l) /\ p[x] \in Chat(n)
      /\ u[x] \in Chat(n)
  BY <1>1, <1>2, Posted DEF Types
<1> DEFINE c == u[x]  d == u[Other(x)]  g == p[x]  e == t[x]
<1>4. Even(g, d) /\ SameKeys(c, g) /\ SameExchange(c, g)
  <2>1. c.chat = "ok" => c.fp = c.key
    BY DEF Evens
  <2>2. Even(c, d) /\ l.type # "commit" /\ c \in Chat(n) /\ IsPosted(c, g, l)
    BY <1>1, <1>3 DEF Evens
  <2> HIDE DEF c, d, g, e
  <2> QED
    BY <1>0, <1>1, <2>1, <2>2, EvenPosted
<1>5. /\ e.ex = "aborted" /\ e.key = g.key /\ e.inbox = g.inbox /\ e.asked = g.asked /\ e.out = g.out
      /\ t[Other(x)] = p[Other(x)]
  <2>1. t = [p EXCEPT ![x] = [g EXCEPT !.ex = "aborted"]]
    BY <1>2
  <2>2. x \in DOMAIN p /\ Other(x) # x
    BY <1>3, Sides DEF Types
  <2>3. e = [g EXCEPT !.ex = "aborted"] /\ t[Other(x)] = p[Other(x)] /\ g \in Chat(n)
    BY <1>3, <2>1, <2>2
  <2> HIDE DEF g, e
  <2> QED
    BY <2>3 DEF Chat
<1>6. Even(e, d)
  <2> HIDE DEF c, d, g, e
  <2> QED
    BY <1>4, <1>5, BothExchanged
<1>7. Words(t)
  <2>1. \A h : Said(g, d, h) => Said(c, d, h) \/ (h.type = l.type /\ h.id = l.id /\ h.g = l.g)
    BY <1>0, <1>1, <1>3, SaysPosted
  <2>2. \A h : Said(e, d, h) => Said(g, d, h)
    BY <1>5 DEF Said
  <2>3. e.inbox = c.inbox
    BY <1>3, <1>5 DEF IsPosted
  <2>4. /\ c = u[x] /\ d = u[Other(x)] /\ e = t[x] /\ t[Other(x)] = u[Other(x)] /\ Words(u)
        /\ c.ex = "accepted" => d.ex # "requested"
    BY <1>3, <1>5 DEF Evens
  <2> HIDE DEF c, d, g, e
  <2>5. SaysMore(c, d, e, d)
    <3> SUFFICES ASSUME NEW h, Said(e, d, h)
                 PROVE  Fits(e, h) \/ SaidBefore(c, d, h)
      BY DEF SaysMore
    <3>1. CASE Said(c, d, h)
      BY <3>1 DEF SaidBefore
    <3>2. CASE h.type = l.type
      BY <1>1, <1>5, <3>2 DEF Fits
    <3> QED
      BY <2>1, <2>2, <3>1, <3>2
  <2>6. Ends(c, d, e)
    BY <1>5, <2>4 DEF Ends
  <2>7. Expects(d, c, e) /\ NoNews(c.inbox, e.inbox)
    BY <1>5, <2>3 DEF Expects, NoNews
  <2> QED
    BY <2>4, <2>5, <2>6, <2>7, WordsStep
<1> QED
  BY <1>3, <1>5, <1>6, <1>7

-----------------------------------------------------------------------------
(* What is understood                                                      *)

\* The accept of the other side is answered by the commit.
LEMMA EvensCommitted ==
    ASSUME NEW n \in Nat \ {0}, NEW u, Types(u, n), NEW x \in Side, NEW v, NEW m \in Message(n),
           m.type = "accept", u[x].ex = "requested", u[x].id = m.id, u[x].chat = "ok", Evens(u, x),
           NEW d, d = u[Other(x)], d.ex = "accepted", d.id = m.id, d.exkey = {m.id} \cup m.g,
           NEW t, t = Committed(u, x, m)
    PROVE  Words(t) /\ Both(t[x], t[Other(x)], v)
<1> DEFINE c == u[x]  k == c.exkey \cup m.g
           p == With(u, x, Exchanged(c, "committed", c.id, k))
           l == Secret("commit", {}, m.id)
<1>1. /\ m.id \in 0..(n - 1) /\ m.g \in SUBSET (0..(n - 1)) /\ n \in Nat
      /\ \E b \in m.g : b > m.id /\ m.g = {b}
  BY Fields DEF Formed
<1>2. /\ c \in Chat(n) /\ c.exkey = {c.id} /\ c.id = m.id /\ c = u[x]
      /\ c.exkey \in SUBSET (0..(n - 1)) /\ c.id \in 0..(n - 1) /\ k = d.exkey
  BY ChatFields DEF Types, Exchanging
<1>2a. Even(c, d) /\ c.fp = c.key /\ Words(u) /\ c.ex = "requested" /\ c.chat = "ok"
  BY DEF Evens
<1> HIDE DEF c
<1>3. k \in SUBSET (0..(n - 1)) /\ c.id \in k /\ Pair(k)
  <2>1. PICK b \in m.g : b > m.id /\ m.g = {b}
    BY <1>1
  <2>2. k = {c.id, b} /\ c.id # b /\ c.id \in k /\ b \in k
    BY <1>1, <1>2, <2>1
  <2> QED
    BY <1>1, <1>2, <2>2 DEF Pair
<1>4. t = Post(p, x, l)
  <2>1. [c EXCEPT !.exkey = @ \cup m.g, !.ex = "committed"] = Exchanged(c, "committed", c.id, k)
    BY <1>2 DEF Chat, Exchanged
  <2>2. [u EXCEPT ![x].exkey = @ \cup m.g, ![x].ex = "committed"]
            = [u EXCEPT ![x] = [c EXCEPT !.exkey = @ \cup m.g, !.ex = "committed"]]
    BY <1>2 DEF Types
  <2> QED
    BY <2>1, <2>2 DEF Committed, With
<1>5. l \in Message(n) /\ l.type \in InChat /\ l.type = "commit" /\ l.id = m.id
  <2>1. l \in Message(n) /\ l.type \in InChat
    BY <1>1, TalkIs
  <2>2. {} \in SUBSET (0..(n - 1)) /\ "commit" \in InChat
    BY DEF InChat
  <2>3. l.type = "commit" /\ l.id = m.id
    BY <1>1, <2>2, SecretIs
  <2> QED
    BY <2>1, <2>3
<1> HIDE DEF k, l
<1>6. InExchange(n, u, p, x, "committed", c.id, k)
  <2> DEFINE id == c.id  ex == "committed"
  <2>1. /\ ex \in Exchanges /\ id \in 0..(n - 1)
        /\ p = With(u, x, Exchanged(u[x], ex, id, k))
        /\ ex = "requested" => k = {id}
        /\ ex \in {"accepted", "committed"} => id \in k /\ Pair(k)
        /\ k \in SUBSET (0..(n - 1))
    BY <1>2, <1>3 DEF Exchanges
  <2> HIDE DEF id, ex, p
  <2>2. InExchange(n, u, p, x, ex, id, k)
    BY <2>1, EvensExchanged
  <2> QED
    BY <2>2 DEF id, ex
<1> HIDE DEF p
<1> DEFINE g == p[x]  e == t[x]
<1>7. /\ Types(p, n) /\ g \in Chat(n) /\ p[Other(x)] = d
      /\ SameKeys(c, g) /\ SameWay(c, g) /\ g.ex = "committed" /\ g.exkey = k /\ g.chat = "ok"
  BY <1>2, <1>2a, <1>6 DEF InExchange, Step, Types
<1>8. t[Other(x)] = d /\ IsPosted(g, e, l)
  BY <1>4, <1>5, <1>7, Posted
<1>9. Both(e, d, v)
  <2>1. g.fp = g.key /\ g.exkey = d.exkey /\ l.id = d.id
    BY <1>2, <1>2a, <1>5, <1>7 DEF SameKeys
  <2> HIDE DEF g, e
  <2> QED
    BY <1>1, <1>2, <1>2a, <1>5, <1>7, <1>8, <2>1, BothCommits
<1>10. Words(t)
  <2>1. Hush(g, e)
    <3>1. l.type \notin Answering
      BY <1>5 DEF Answering
    <3> QED
      BY <1>1, <1>5, <1>7, <1>8, <3>1, HushPosted
  <2>2. NoNews(c.asked, e.asked) /\ NoNews(c.out, e.out) /\ NoNews(c.inbox, e.inbox)
    BY <1>7, <2>1 DEF Hush, SameWay
  <2>3. e.ex \in {"committed", "none"}
    BY <1>7, <1>8 DEF IsPosted, IsParked, IsSent, SameExchange
  <2>4. c = u[x] /\ e = t[x] /\ t[Other(x)] = u[Other(x)]
    BY <1>2, <1>8
  <2> HIDE DEF g, e
  <2>5. SaysMore(c, d, e, d)
    <3>1. NoNews(d.inbox, d.inbox)
      BY DEF NoNews
    <3> QED
      BY <2>2, <3>1, SaysHush
  <2>6. Ends(c, d, e) /\ Expects(d, c, e)
    BY <1>2a, <2>3 DEF Ends, Expects
  <2> QED
    BY <1>2a, <2>2, <2>4, <2>5, <2>6, WordsStep
<1> QED
  BY <1>8, <1>9, <1>10

-----------------------------------------------------------------------------
(* A message that can be read                                              *)

\* m can be read by x: both sides have their keys, x has none that it keeps
\* to, and a commit is that of the exchange of x.
Understood(n, s, u, x, v, m) ==
    LET c == s[x]  d == s[Other(x)] IN
    /\ Reading(n, s, u, x, v, m) /\ Words(s) /\ Both(c, d, v)
    /\ c.ex # "committed" /\ ~Turning(d, c, v) /\ c.chat = "ok" /\ c.fp = c.key
    /\ Said(d, c, m) /\ (m.type = "commit" => c.ex = "accepted" /\ c.id = m.id)

\* What can be read is understood.
LEMMA ReadIs ==
    ASSUME NEW n \in Nat, NEW s, NEW u, NEW x \in Side, NEW v, NEW m, Reading(n, s, u, x, v, m),
           Silent(s), Words(s), Phase(s, v), m.type \in InChat,
           s[x].chat = "ok", Readable(Adopted(s[x], m), m)
    PROVE  Understood(n, s, u, x, v, m) /\ Adopted(s[x], m) = s[x] /\ s["alice"].fp # {}
<1> DEFINE c == s[x]  d == s[Other(x)]
<1>1. c \in Chat(n) /\ d \in Chat(n)
  BY Sides DEF Reading, Types
<1>2. c.inbox # <<>> /\ m = Head(c.inbox)
  BY DEF Reading, Heard
<1>3. Both(c, d, v) /\ s["alice"].fp # {}
  BY ReaderIs
<1>4. c.fp = c.key
  BY DEF Reading, Life, Keyed
<1>5. d.ex = "accepted" => Newer(d.exkey, d.key)
  BY Sides DEF Words, Speaks
<1>6. /\ c.ex # "committed" /\ Adopted(c, m) = c /\ ~Turning(d, c, v)
      /\ m.type = "commit" => c.ex = "accepted" /\ c.id = m.id
  BY <1>1, <1>2, <1>3, <1>4, <1>5, BothReads
<1>7. Said(d, c, m)
  <2>1. m \in ToSet(c.inbox)
    BY ReadingIs
  <2> QED
    BY <2>1 DEF Said
<1> QED
  BY <1>3, <1>4, <1>6, <1>7 DEF Understood

\* Unless x waits for a commit, it reads what it reads with even keys.
Grasped(n, s, u, x, v, m) ==
    LET c == s[x]  d == s[Other(x)] IN
    /\ Types(u, n) /\ m \in Message(n) /\ u[Other(x)] = d
    /\ SameLife(c, u[x]) /\ SameKeys(c, u[x]) /\ SameExchange(c, u[x])
    /\ Words(u)
    /\ Even(c, d) \/ Turning(c, d, v)
    /\ Even(c, d) => Evens(u, x)

\* It does.
LEMMA UnderstoodIs ==
    ASSUME NEW n \in Nat, NEW s, NEW u, NEW x \in Side, NEW v, NEW m, Understood(n, s, u, x, v, m)
    PROVE  Grasped(n, s, u, x, v, m)
<1> DEFINE c == s[x]  d == s[Other(x)]  e == u[x]
<1>1. /\ Types(u, n) /\ u[Other(x)] = d /\ Heard(c, e) /\ c \in Chat(n) /\ e \in Chat(n)
      /\ Words(s) /\ c.chat = "ok" /\ c.fp = c.key
  BY DEF Understood, Reading, Types
<1>2. SameLife(c, e) /\ SameKeys(c, e) /\ SameExchange(c, e)
  BY <1>1 DEF Heard
<1>3. m \in Message(n)
  BY ReadingIs DEF Understood
<1>4. Words(u)
  <2>1. NoNews(c.inbox, e.inbox) /\ NoNews(c.asked, e.asked) /\ NoNews(c.out, e.out)
    <3>1. c.inbox \in Seq(Message(n))
      BY <1>1, ChatFields
    <3>2. NoNews(c.inbox, Tail(c.inbox))
      BY <1>1, <3>1, NoNewsIs DEF Heard
    <3> QED
      BY <1>1, <3>2 DEF Heard, NoNews
  <2> QED
    BY <1>1, <1>2, <2>1, WordsHush DEF Hush, SameKeys
<1>5. Even(c, d) => Even(e, d)
  BY <1>1, EvenHeard
<1>6. Even(c, d) \/ Turning(c, d, v)
  BY DEF Understood, Both
<1>7. Even(c, d) => Evens(u, x)
  BY <1>1, <1>2, <1>4, <1>5 DEF Evens, SameKeys
<1> QED
  BY <1>1, <1>2, <1>3, <1>4, <1>6, <1>7 DEF Grasped

\* The commit is read: the new key is that of both sides.
LEMMA Turned ==
    ASSUME NEW n \in Nat \ {0}, NEW s, NEW u, NEW x \in Side, NEW v, NEW m,
           Understood(n, s, u, x, v, m), m.type = "commit",
           NEW t, t = Post([u EXCEPT ![x] = Confirmed(u[x])], x, Secret("noop", {}, 0))
    PROVE  Words(t) /\ Both(t[x], t[Other(x)], v)
<1> DEFINE c == s[x]  d == s[Other(x)]  p == With(u, x, Confirmed(u[x]))
           l == Secret("noop", {}, 0)
<1>0. n \in Nat
  OBVIOUS
<1>1. /\ Types(u, n) /\ u[Other(x)] = d /\ u[x] \in Chat(n) /\ c \in Chat(n) /\ d \in Chat(n)
      /\ \A h \in ToSet(u[x].out) : h.type \in InChat
  BY Sides DEF Understood, Reading, Types
<1>2. /\ c.inbox # <<>> /\ u[x].inbox = Tail(c.inbox) /\ m = Head(c.inbox)
      /\ SameExchange(c, u[x]) /\ u[x].asked = c.asked /\ u[x].out = c.out
      /\ c.chat = "ok" /\ u[x].chat = c.chat /\ c.fp = c.key
  BY DEF Understood, Reading, Heard, SameLife
<1>3. c.ex = "accepted" /\ Newer(c.exkey, c.key) /\ Both(c, d, v) /\ Words(s)
  <2>1. Speaks(c, d)
    BY Sides DEF Understood, Words
  <2> QED
    BY <2>1 DEF Understood, Speaks
<1>4. Turning(c, d, v)
  <2>1. ~Even(c, d)
    <3>1. c.inbox \in Seq(Message(n))
      BY <1>1, ChatFields
    <3>2. Commits(c.inbox)
      BY <1>2, <3>1, TalkRest
    <3> QED
      BY <3>2 DEF Even, Clean
  <2> QED
    <3>1. n \in Nat /\ Understood(n, s, u, x, v, m)
      BY <1>0
    <3>2. Grasped(n, s, u, x, v, m)
      BY <3>1, UnderstoodIs
    <3> QED
      BY <2>1, <3>2 DEF Grasped
<1>5. t = Post(p, x, l)
  BY DEF With
<1>6. l \in Message(n) /\ l.type \in InChat /\ l.type = "noop"
  <2>1. 0 \in 0..(n - 1) /\ {} \in SUBSET (0..(n - 1)) /\ "noop" \in InChat
    BY DEF InChat
  <2>2. l \in Message(n) /\ l.type \in InChat
    BY <2>1, TalkIs
  <2>3. l.type = "noop"
    BY <2>1, SecretIs
  <2> QED
    BY <2>2, <2>3
<1> HIDE DEF p, l
<1> DEFINE g == p[x]  e == t[x]
<1>7. /\ Types(p, n) /\ p[Other(x)] = d /\ g \in Chat(n)
      /\ g.key = c.exkey /\ g.fp = c.exkey /\ g.ex = "none"
      /\ g.inbox = Tail(c.inbox) /\ g.asked = c.asked /\ g.out = c.out
  <2> DEFINE f == Confirmed(u[x])
  <2>1. /\ f \in Chat(n) /\ f.key = c.exkey /\ f.fp = c.exkey /\ f.ex = "none"
        /\ f.inbox = u[x].inbox /\ f.asked = u[x].asked /\ f.out = u[x].out
    BY <1>1, <1>2, ConfirmedIs DEF SameExchange
  <2>2. p = With(u, x, f)
    BY DEF p
  <2> HIDE DEF f
  <2>3. Types(p, n) /\ p[x] = f /\ p[Other(x)] = u[Other(x)]
    BY <1>0, <1>1, <2>1, <2>2, WithIs
  <2> QED
    BY <1>1, <1>2, <2>1, <2>3
<1>8. Even(g, d)
  <2> HIDE DEF c, d, g
  <2> QED
    BY <1>0, <1>1, <1>2, <1>3, <1>7, BothTurned
<1>9. t[Other(x)] = d /\ IsPosted(g, e, l)
  BY <1>5, <1>6, <1>7, Posted
<1>10. Even(e, d) /\ SameExchange(g, e)
  <2> HIDE DEF c, d, g, e
  <2> QED
    BY <1>0, <1>6, <1>7, <1>8, <1>9, EvenPosted
<1>11. Words(t)
  <2>1. Hush(g, e)
    <3>1. l.type \notin Answering
      BY <1>6 DEF Answering
    <3> QED
      BY <1>0, <1>6, <1>7, <1>9, <3>1, HushPosted
  <2>2. NoNews(c.asked, e.asked) /\ NoNews(c.out, e.out)
    BY <1>7, <2>1 DEF Hush
  <2>3. NoNews(c.inbox, e.inbox)
    <3>1. c.inbox \in Seq(Message(n))
      BY <1>1, ChatFields
    <3>2. NoNews(c.inbox, Tail(c.inbox))
      BY <1>2, <3>1, NoNewsIs
    <3>3. e.inbox = Tail(c.inbox)
      BY <1>7, <1>9 DEF IsPosted
    <3> QED
      BY <3>2, <3>3
  <2>4. e.ex = "none" /\ ~(d.ex = "requested" /\ d.id = c.id)
    BY <1>4, <1>7, <1>10 DEF SameExchange, Turning, Waiting, Switched
  <2>5. c = s[x] /\ d = s[Other(x)] /\ e = t[x] /\ t[Other(x)] = s[Other(x)]
    BY <1>9
  <2> HIDE DEF c, d, g, e
  <2>6. SaysMore(c, d, e, d)
    <3>1. NoNews(d.inbox, d.inbox)
      BY DEF NoNews
    <3> QED
      BY <2>2, <3>1, SaysHush
  <2>7. Ends(c, d, e) /\ Expects(d, c, e)
    BY <1>3, <2>4 DEF Ends, Expects
  <2> QED
    BY <1>3, <2>3, <2>5, <2>6, <2>7, WordsStep
<1> QED
  BY <1>9, <1>10, <1>11 DEF Both

\* The reader has its key, and so has alice.
LEMMA UnderstoodKeyed ==
    ASSUME NEW n \in Nat, NEW s, NEW u, NEW x \in Side, NEW v, NEW m, Understood(n, s, u, x, v, m),
           s["alice"].fp # {}, NEW t, Moves(n, u, t, x), Both(t[x], t[Other(x)], v)
    PROVE  Phase(t, v)
<1>1. SameKeys(s[x], u[x]) /\ u[Other(x)] = s[Other(x)]
  <2>1. Grasped(n, s, u, x, v, m)
    BY UnderstoodIs
  <2> QED
    BY <2>1 DEF Grasped
<1>2. s[x].fp # {}
  BY DEF Understood, Reading, Life, Keyed
<1>3. u[x].fp # {} /\ u["alice"].fp # {}
  BY <1>1, <1>2, Sides DEF SameKeys
<1>4. t["alice"].fp # {}
  BY <1>3, MovesKeyed
<1> QED
  BY <1>4, PhaseIs

\* What is not of the exchange, or not of that of the reader.
LEMMA UnderstoodOther ==
    ASSUME NEW n \in Nat, NEW s, NEW u, NEW x \in Side, NEW v, NEW m, Understood(n, s, u, x, v, m),
           s["alice"].fp # {}, m.type # "commit"
    PROVE  Words(u) /\ Phase(u, v)
<1> DEFINE c == s[x]  e == u[x]
<1>1. /\ c \in Chat(n) /\ c.inbox # <<>> /\ e.inbox = Tail(c.inbox) /\ m = Head(c.inbox)
      /\ SameLife(c, e) /\ SameKeys(c, e) /\ SameExchange(c, e)
      /\ e.ready = c.ready /\ e.out = c.out /\ e.asked = c.asked /\ u[Other(x)] = s[Other(x)]
      /\ c.chat = "ok"
  BY DEF Understood, Reading, Types, Heard
<1>2. c.inbox \in Seq(Message(n)) /\ c.asked \in Seq(Message(n))
  BY <1>1, ChatFields
<1>3. Kin(c.inbox, e.inbox) /\ Kin(c.asked, e.asked)
  BY <1>1, <1>2, KinIs
<1>4. Quiet(c, e) /\ Calm(c, e)
  BY <1>1, <1>3 DEF Quiet, Calm, Deaf, SameKeys
<1>5. Phase(s, v)
  BY PhaseIs DEF Understood
<1>6. Phase(u, v)
  BY <1>1, <1>4, <1>5, PhaseCalm
<1> QED
  <2>1. Grasped(n, s, u, x, v, m)
    BY UnderstoodIs
  <2> QED
    BY <1>6, <2>1 DEF Grasped

\* Every message of an exchange keeps what holds of the keys.
LEMMA ExchangeKeeps ==
    ASSUME NEW n \in Nat \ {0}, NEW s, NEW u, NEW x \in Side, NEW v, NEW m,
           Understood(n, s, u, x, v, m), s["alice"].fp # {},
           NEW b, m.type = "request" => b \in 0..(n - 1) /\ b > m.id /\ \A j \in s[x].key : b > j,
           NEW t, t = Exchange(u, x, m, b)
    PROVE  Words(t) /\ Phase(t, v)
<1> DEFINE c == s[x]  d == s[Other(x)]
<1>0. n \in Nat
  OBVIOUS
<1>1. /\ Types(u, n) /\ m \in Message(n) /\ u[Other(x)] = d
      /\ SameLife(c, u[x]) /\ SameKeys(c, u[x]) /\ SameExchange(c, u[x])
      /\ Even(c, d) \/ Turning(c, d, v)
      /\ Even(c, d) => Evens(u, x)
  <2>1. n \in Nat /\ Understood(n, s, u, x, v, m)
    BY <1>0
  <2>2. Grasped(n, s, u, x, v, m)
    BY <2>1, UnderstoodIs
  <2> QED
    BY <2>2 DEF Grasped
<1>2. u[x].ex = c.ex /\ u[x].id = c.id /\ u[x].key = c.key /\ u[x].chat = "ok"
  BY <1>1 DEF SameLife, SameKeys, SameExchange, Understood
<1>3. Speaks(d, c) /\ Said(d, c, m)
  BY Sides DEF Understood, Words
<1>4. /\ c.ex # "accepted" => Even(c, d)
      /\ d.ex = "aborted" => Even(c, d)
      /\ m.type = "commit" => c.ex = "accepted" /\ c.id = m.id
  BY <1>1 DEF Turning, Waiting, Switched, Understood
<1>5. Moves(n, u, t, x)
  BY <1>1, MovesExchange
<1>5a. c = s[x] /\ d = s[Other(x)]
  OBVIOUS
<1>6. \/ m.type = "request" /\ u[x].ex \in {"none", "requested"} /\ t = Accepted(u, x, m, b)
      \/ m.type = "accept" /\ u[x].ex = "requested" /\ u[x].id = m.id /\ t = Committed(u, x, m)
      \/ /\ m.type = "commit"
         /\ t = Post([u EXCEPT ![x] = Confirmed(u[x])], x, Secret("noop", {}, 0))
      \/ m.type = "abort" /\ t = Aborted(u, x)
      \/ t = u /\ ~(m.type = "commit" /\ u[x].ex = "accepted" /\ u[x].id = m.id)
  BY DEF Exchange
<1> HIDE DEF c, d
<1>7. CASE m.type = "request" /\ u[x].ex \in {"none", "requested"} /\ t = Accepted(u, x, m, b)
  <2>1. Evens(u, x)
    BY <1>1, <1>2, <1>4, <1>7
  <2>2. b \in 0..(n - 1) /\ b > m.id /\ \A j \in u[x].key : b > j
    BY <1>2, <1>5a, <1>7
  <2>3. Words(t) /\ Even(t[x], t[Other(x)])
    BY <1>1, <1>7, <2>1, <2>2, EvensAccepted
  <2>4. Both(t[x], t[Other(x)], v)
    BY <2>3 DEF Both
  <2> QED
    BY <1>0, <1>5, <2>3, <2>4, UnderstoodKeyed
<1>8. CASE m.type = "accept" /\ u[x].ex = "requested" /\ u[x].id = m.id /\ t = Committed(u, x, m)
  <2>1. Evens(u, x)
    BY <1>1, <1>2, <1>4, <1>8
  <2>2. d.ex = "accepted" /\ d.id = m.id /\ d.exkey = {m.id} \cup m.g
    BY <1>2, <1>3, <1>8 DEF Speaks
  <2>3. d = u[Other(x)]
    BY <1>1
  <2>4. Words(t) /\ Both(t[x], t[Other(x)], v)
    BY <1>1, <1>2, <1>8, <2>1, <2>2, <2>3, EvensCommitted
  <2> QED
    BY <1>0, <1>5, <2>4, UnderstoodKeyed
<1>9. CASE /\ m.type = "commit"
           /\ t = Post([u EXCEPT ![x] = Confirmed(u[x])], x, Secret("noop", {}, 0))
  <2>1. Words(t) /\ Both(t[x], t[Other(x)], v)
    BY <1>9, Turned
  <2> QED
    BY <1>0, <1>5, <2>1, UnderstoodKeyed
<1>10. CASE m.type = "abort" /\ t = Aborted(u, x)
  <2>1. d.ex = "aborted"
    BY <1>3, <1>10 DEF Speaks
  <2>2. Evens(u, x) /\ u[Other(x)].ex # "requested"
    BY <1>1, <1>4, <2>1
  <2>3. Words(t) /\ Even(t[x], t[Other(x)])
    BY <1>1, <1>10, <2>2, EvensAborted
  <2>4. Both(t[x], t[Other(x)], v)
    BY <2>3 DEF Both
  <2> QED
    BY <1>0, <1>5, <2>3, <2>4, UnderstoodKeyed
<1>11. CASE t = u /\ ~(m.type = "commit" /\ u[x].ex = "accepted" /\ u[x].id = m.id)
  <2>1. m.type # "commit"
    BY <1>2, <1>4, <1>11
  <2> QED
    BY <1>0, <1>11, <2>1, UnderstoodOther
<1> QED
  BY <1>6, <1>7, <1>8, <1>9, <1>10, <1>11

\* So does the end of an exchange whose number is weak.
LEMMA WeakKeeps ==
    ASSUME NEW n \in Nat \ {0}, NEW s, NEW u, NEW x \in Side, NEW v, NEW m,
           Understood(n, s, u, x, v, m), s["alice"].fp # {},
           s[x].ex \in {"none", "requested"},
           NEW t, t = Aborted([u EXCEPT ![x].id = m.id], x)
    PROVE  Words(t) /\ Phase(t, v)
<1> DEFINE c == u[x]  d == u[Other(x)]  p == With(u, x, Exchanged(c, "aborted", m.id, c.exkey))
<1>0. n \in Nat
  OBVIOUS
<1>1. /\ Types(u, n) /\ m \in Message(n) /\ d = s[Other(x)]
      /\ SameLife(s[x], c) /\ SameKeys(s[x], c) /\ SameExchange(s[x], c)
      /\ Even(s[x], d) \/ Turning(s[x], d, v)
      /\ Even(s[x], d) => Evens(u, x)
  <2>1. n \in Nat /\ Understood(n, s, u, x, v, m)
    BY <1>0
  <2>2. Grasped(n, s, u, x, v, m)
    BY <2>1, UnderstoodIs
  <2> QED
    BY <2>2 DEF Grasped
<1>2. c \in Chat(n) /\ c.ex \in {"none", "requested"} /\ s[x].ex # "accepted"
  BY <1>1 DEF Types, SameExchange
<1>3. Evens(u, x)
  BY <1>1, <1>2 DEF Turning
<1>3a. c = u[x] /\ d = u[Other(x)] /\ p = With(u, x, Exchanged(u[x], "aborted", m.id, u[x].exkey))
  OBVIOUS
<1>4. t = Aborted(p, x)
  <2>1. u \in [Side -> Chat(n)] /\ u[x].ex # "committed"
    BY <1>1, <1>2 DEF Types
  <2> DEFINE id == m.id  q == [u EXCEPT ![x].id = id]
  <2>2. t = Aborted(q, x) /\ q = [u EXCEPT ![x].id = id] /\ p = With(u, x, Exchanged(u[x], "aborted", id, u[x].exkey))
    OBVIOUS
  <2> HIDE DEF c, d, p, q, id
  <2> QED
    BY <2>1, <2>2, AbortedAtOnce
<1> HIDE DEF c, d, p
<1>4a. Moves(n, u, p, x) /\ InExchange(n, u, p, x, "aborted", m.id, c.exkey)
  <2> DEFINE id == m.id  ex == "aborted"  k == c.exkey
  <2>1. k \in SUBSET (0..(n - 1)) /\ id \in 0..(n - 1)
    BY <1>0, <1>1, <1>2, Fields, ChatFields
  <2>2. /\ ex \in Exchanges /\ ex # "requested" /\ ex \notin {"accepted", "committed"}
        /\ p = With(u, x, Exchanged(u[x], ex, id, k))
    BY <1>3a DEF Exchanges
  <2> HIDE DEF id, ex, k
  <2>3. InExchange(n, u, p, x, ex, id, k)
    BY <1>1, <1>3, <2>1, <2>2, EvensExchanged
  <2>4. Moves(n, u, p, x)
    <3>1. Types(u, n)
      BY <1>1
    <3>2. (ex = "requested" => k = {id}) /\ (ex \in {"accepted", "committed"} => id \in k /\ Pair(k))
      BY <2>2
    <3> QED
      BY ONLY <1>0, <2>1, <2>2, <3>1, <3>2, x \in Side, MovesExchanged
  <2> QED
    BY <2>3, <2>4 DEF id, ex, k
<1> DEFINE e == p[x]
<1>5. /\ Types(p, n) /\ p[Other(x)] = d /\ SameKeys(c, e) /\ SameWay(c, e)
      /\ e.ex = "aborted" /\ e.chat = c.chat /\ Even(e, d)
  BY <1>3a, <1>4a DEF InExchange, Step
<1>6. Words(p)
  <2>1. c.asked = e.asked /\ c.out = e.out /\ c.inbox = e.inbox
    BY <1>5 DEF SameWay
  <2>2. SaysMore(c, d, e, d)
    <3>1. NoNews(c.asked, e.asked) /\ NoNews(c.out, e.out) /\ NoNews(d.inbox, d.inbox)
      BY <2>1 DEF NoNews
    <3> QED
      BY <3>1, SaysHush
  <2>3. NoNews(c.inbox, e.inbox)
    BY <2>1 DEF NoNews
  <2>4. Ends(c, d, e) /\ Expects(d, c, e)
    BY <1>2, <1>5 DEF Ends, Expects
  <2>5. e = p[x] /\ p[Other(x)] = u[Other(x)] /\ Words(u)
    BY <1>3, <1>3a, <1>5 DEF Evens
  <2> HIDE DEF e
  <2> QED
    BY <1>3a, <2>2, <2>3, <2>4, <2>5, WordsStep
<1>7. Evens(p, x) /\ e.ex # "accepted"
  BY <1>3, <1>3a, <1>5, <1>6 DEF Evens, SameKeys
<1>8. Words(t) /\ Even(t[x], t[Other(x)])
  BY <1>4, <1>5, <1>7, EvensAborted
<1>9. Moves(n, u, t, x)
  <2>2. Moves(n, p, t, x)
    BY <1>4, <1>5, MovesAborted
  <2> QED
    BY <1>4a, <2>2, MovesTwice
<1>10. Both(t[x], t[Other(x)], v)
  BY <1>8 DEF Both
<1> QED
  BY <1>0, <1>8, <1>9, <1>10, UnderstoodKeyed

-----------------------------------------------------------------------------
(* The keys, step by step                                                  *)

\* What touches neither keys nor queues, and opens no chat.
LEMMA KeysSame ==
    ASSUME NEW n \in Nat, NEW s, NEW t, NEW x \in Side, NEW v, Types(s, n), Keys(s, v),
           t[Other(x)] = s[Other(x)], SameKeys(s[x], t[x]), SameExchange(s[x], t[x]),
           SameWay(s[x], t[x]), t[x].chat = "ok" => s[x].chat = "ok"
    PROVE  Keys(t, v)
<1> DEFINE c == s[x]  e == t[x]
<1>1. c.asked \in Seq(Message(n)) /\ c.out \in Seq(Message(n)) /\ c.inbox \in Seq(Message(n))
  BY ChatFields DEF Types
<1>2. e.asked = c.asked /\ e.out = c.out /\ e.inbox = c.inbox /\ e.ready = c.ready
  BY DEF SameWay
<1>3. Kin(c.asked, e.asked) /\ Kin(c.inbox, e.inbox)
  BY <1>1, <1>2, KinIs
<1>4. NoNews(c.asked, e.asked) /\ NoNews(c.out, e.out) /\ NoNews(c.inbox, e.inbox)
  BY <1>1, <1>2, NoNewsIs
<1>5. Calm(c, e) /\ Quiet(c, e)
  BY <1>2, <1>3 DEF Calm, Quiet, Deaf, SameKeys
<1>6. Phase(t, v)
  BY <1>5, PhaseCalm DEF Keys
<1>7. Words(t)
  BY <1>4, WordsHush DEF Keys, Hush, SameKeys
<1> QED
  BY <1>6, <1>7 DEF Keys

\* What says nothing of the keys.
LEMMA KeysPosted ==
    ASSUME NEW n \in Nat, NEW s, NEW t, NEW x \in Side, NEW v, Types(s, n), Life(s, v), Silent(s),
           Keys(s, v), t[Other(x)] = s[Other(x)], NEW m \in Message(n), m.type \notin Answering,
           m.type # "commit", IsPosted(s[x], t[x], m)
    PROVE  Keys(t, v) /\ SameKeys(s[x], t[x]) /\ SameExchange(s[x], t[x])
<1>1. Phase(t, v) /\ SameKeys(s[x], t[x]) /\ SameExchange(s[x], t[x])
  BY PhasePosted DEF Keys
<1>2. Hush(s[x], t[x])
  BY HushPosted DEF Types
<1>3. Words(t)
  BY <1>1, <1>2, WordsHush DEF Keys, SameKeys
<1> QED
  BY <1>1, <1>3 DEF Keys

\* The layer may be noticed.
LEMMA KeysLayered ==
    ASSUME NEW n \in Nat, NEW s, NEW t, NEW x \in Side, NEW v, Types(s, n), Life(s, v), Silent(s),
           Keys(s, v), Layered(n, s, t, x)
    PROVE  Keys(t, v)
<1>1. CASE t = s
  BY <1>1
<1>2. CASE \E m \in Message(n) : m.type = "layer" /\ IsPosted(s[x], t[x], m)
  <2>1. PICK m \in Message(n) : m.type = "layer" /\ IsPosted(s[x], t[x], m)
    BY <1>2
  <2>2. m.type \notin Answering /\ m.type # "commit" /\ t[Other(x)] = s[Other(x)]
    BY <2>1 DEF Answering, Layered, Step
  <2> QED
    BY <2>1, <2>2, KeysPosted
<1> QED
  BY <1>1, <1>2 DEF Layered

\* A new exchange is requested: its number is new.
LEMMA KeysRequested ==
    ASSUME NEW n \in Nat, NEW s, NEW t, NEW x \in Side, NEW v, Types(s, n), Keys(s, v),
           t[Other(x)] = s[Other(x)], SameKeys(s[x], t[x]), SameWay(s[x], t[x]),
           t[x].chat = s[x].chat, s[x].ex = "none", t[x].ex = "requested",
           t[x].id # s[Other(x)].id, \A l : Said(s[Other(x)], s[x], l) => l.id # t[x].id
    PROVE  Keys(t, v)
<1> DEFINE c == s[x]  d == s[Other(x)]  e == t[x]
<1>1. c.asked \in Seq(Message(n)) /\ c.out \in Seq(Message(n)) /\ c.inbox \in Seq(Message(n))
  BY ChatFields DEF Types
<1>2. e.asked = c.asked /\ e.out = c.out /\ e.inbox = c.inbox /\ e.ready = c.ready
  BY DEF SameWay
<1>3. Phase(t, v)
  <2>1. CASE s["alice"].fp = {}
    <3>1. Calm(c, e)
      BY <1>1, <1>2, KinIs DEF Calm
    <3> QED
      BY <2>1, <3>1, PhaseCalm DEF Keys
  <2>2. CASE s["alice"].fp # {}
    <3>1. Both(c, d, v)
      BY <2>2, PhaseIs DEF Keys
    <3>2. Both(e, d, v)
      BY <3>1, BothRequested DEF SameKeys
    <3>3. t["alice"].fp # {}
      BY <2>2, Sides DEF SameKeys
    <3> QED
      BY <3>2, <3>3, PhaseIs
  <2> QED
    BY <2>1, <2>2
<1>4. Words(t)
  <2>1. NoNews(c.asked, e.asked) /\ NoNews(c.out, e.out) /\ NoNews(c.inbox, e.inbox)
    BY <1>1, <1>2, NoNewsIs
  <2>2. SaysMore(c, d, e, d)
    <3>1. NoNews(d.inbox, d.inbox)
      BY DEF NoNews
    <3> QED
      BY <2>1, <3>1, SaysHush
  <2>3. Ends(c, d, e) /\ Expects(d, c, e)
    BY DEF Ends, Expects
  <2> QED
    BY <2>1, <2>2, <2>3, WordsStep DEF Keys
<1> QED
  BY <1>3, <1>4 DEF Keys

\* What is read, or asked for, outside of the chat.
LEMMA KeysHeard ==
    ASSUME NEW n \in Nat, NEW s, NEW u, NEW x \in Side, NEW v, Types(s, n), Keys(s, v),
           Heard(s[x], u[x]), u[Other(x)] = s[Other(x)], Head(s[x].inbox).type # "commit"
    PROVE  Keys(u, v)
<1> DEFINE c == s[x]  e == u[x]
<1>1. c.asked \in Seq(Message(n)) /\ c.out \in Seq(Message(n)) /\ c.inbox \in Seq(Message(n))
  BY ChatFields DEF Types
<1>2. /\ e.asked = c.asked /\ e.out = c.out /\ e.inbox = Tail(c.inbox) /\ e.ready = c.ready
      /\ c.inbox # <<>> /\ SameKeys(c, e) /\ SameExchange(c, e) /\ e.chat = c.chat
  BY DEF Heard, SameLife
<1>3. Kin(c.asked, e.asked) /\ Kin(c.inbox, e.inbox)
  BY <1>1, <1>2, KinIs
<1>4. NoNews(c.asked, e.asked) /\ NoNews(c.out, e.out) /\ NoNews(c.inbox, e.inbox)
  BY <1>1, <1>2, NoNewsIs
<1>5. Deaf(c) => Deaf(e)
  BY <1>1, <1>2, HasRest DEF Deaf
<1>6. Calm(c, e) /\ Quiet(c, e)
  BY <1>2, <1>3, <1>5 DEF Calm, Quiet, SameKeys
<1>7. Phase(u, v)
  BY <1>6, PhaseCalm DEF Keys
<1>8. Words(u)
  BY <1>2, <1>4, WordsHush DEF Keys, Hush, SameKeys
<1> QED
  BY <1>7, <1>8 DEF Keys

\* A question, and what the server does with it.
OnlyAsks(c, e, q) ==
    /\ SameKeys(c, e) /\ SameExchange(c, e) /\ e.inbox = c.inbox /\ e.out = c.out
    /\ e.ready = c.ready /\ (e.chat = "ok" => c.chat = "ok") /\ e.asked = q

\* A side asks the server for something more, or the server takes what it was asked.
LEMMA KeysAsks ==
    ASSUME NEW n \in Nat, NEW s, NEW t, NEW x \in Side, NEW v, Types(s, n), Keys(s, v),
           t[Other(x)] = s[Other(x)], NEW q, OnlyAsks(s[x], t[x], q),
           \/ \E m \in Message(n) : m.type \notin InChat /\ q = Append(s[x].asked, m)
           \/ s[x].asked # <<>> /\ Head(s[x].asked).type # "commit" /\ q = Tail(s[x].asked)
    PROVE  Keys(t, v)
<1> DEFINE c == s[x]  e == t[x]
<1>1. c.asked \in Seq(Message(n)) /\ c.out \in Seq(Message(n)) /\ c.inbox \in Seq(Message(n))
  BY ChatFields DEF Types
<1>2. /\ e.asked = q /\ e.out = c.out /\ e.inbox = c.inbox /\ e.ready = c.ready
      /\ SameKeys(c, e) /\ SameExchange(c, e) /\ (e.chat = "ok" => c.chat = "ok")
  BY DEF OnlyAsks
<1>3. Kin(c.asked, q) /\ Kin(c.inbox, e.inbox) /\ NoNews(c.asked, q)
  <2>1. CASE \E m \in Message(n) : m.type \notin InChat /\ q = Append(c.asked, m)
    <3>1. PICK m \in Message(n) : m.type \notin InChat /\ q = Append(c.asked, m)
      BY <2>1
    <3>2. m.type \notin Answering
      BY <3>1 DEF InChat, Answering
    <3> QED
      BY <1>1, <1>2, <3>1, <3>2, KinIs, NoNewsIs
  <2>2. CASE c.asked # <<>> /\ Head(c.asked).type # "commit" /\ q = Tail(c.asked)
    BY <1>1, <1>2, <2>2, KinIs, NoNewsIs
  <2> QED
    BY <2>1, <2>2
<1>4. NoNews(c.out, e.out) /\ NoNews(c.inbox, e.inbox)
  BY <1>1, <1>2, NoNewsIs
<1>5. Calm(c, e) /\ Quiet(c, e)
  BY <1>2, <1>3 DEF Calm, Quiet, Deaf, SameKeys
<1>6. Phase(t, v)
  BY <1>5, PhaseCalm DEF Keys
<1>7. Words(t)
  BY <1>2, <1>3, <1>4, WordsHush DEF Keys, Hush, SameKeys
<1> QED
  BY <1>6, <1>7 DEF Keys

\* An answer or an update is on its way; what opens a chat comes before alice
\* has her key.
LEMMA KeysReached ==
    ASSUME NEW n \in Nat, NEW s, NEW t, NEW y \in Side, NEW v, NEW w, Types(s, n), Keys(s, v),
           t[Other(y)] = s[Other(y)], NEW l \in Message(n), l.type \notin InChat,
           Reached(s[y], t[y], l),
           s["alice"].fp # {} => l.type \notin Reopeners /\ (v.chat = "gone" => w.chat = "gone")
    PROVE  Keys(t, w)
<1> DEFINE c == s[y]  e == t[y]
<1>1. c.asked \in Seq(Message(n)) /\ c.out \in Seq(Message(n)) /\ c.inbox \in Seq(Message(n))
  BY ChatFields DEF Types
<1>2. /\ e.asked = c.asked /\ e.out = c.out /\ e.inbox = Append(c.inbox, l) /\ e.ready = c.ready
      /\ SameKeys(c, e) /\ SameExchange(c, e) /\ e.chat = c.chat
  BY DEF Reached, SameLife
<1>3. Kin(c.asked, e.asked) /\ Kin(c.inbox, e.inbox)
  BY <1>1, <1>2, KinIs
<1>4. NoNews(c.asked, e.asked) /\ NoNews(c.out, e.out) /\ NoNews(c.inbox, e.inbox)
  <2>1. l.type \notin Answering
    BY DEF InChat, Answering
  <2> QED
    BY <1>1, <1>2, <2>1, NoNewsIs
<1>5. Calm(c, e)
  BY <1>2, <1>3 DEF Calm
<1>6. l.type \notin Reopeners => Quiet(c, e)
  <2> SUFFICES ASSUME l.type \notin Reopeners PROVE Quiet(c, e)
    OBVIOUS
  <2>1. Deaf(c) => Deaf(e)
    BY <1>1, <1>2, HasGrows DEF Deaf
  <2> QED
    BY <1>2, <1>3, <2>1 DEF Quiet, SameKeys
<1>7. Phase(t, w)
  BY <1>5, <1>6, PhaseCalm DEF Keys
<1>8. Words(t)
  BY <1>2, <1>4, WordsHush DEF Keys, Hush, SameKeys
<1> QED
  BY <1>7, <1>8 DEF Keys

-----------------------------------------------------------------------------
(* The life of the chat                                                    *)

\* The head of the inbox of x is taken.
LEMMA KeysTaken ==
    ASSUME NEW n \in Nat, NEW s, NEW u, NEW x \in Side, NEW v, Types(s, n), Keys(s, v),
           u[Other(x)] = s[Other(x)], SameKeys(s[x], u[x]), SameExchange(s[x], u[x]),
           s[x].inbox # <<>>, Head(s[x].inbox).type # "commit", u[x].inbox = Tail(s[x].inbox),
           u[x].asked = s[x].asked, u[x].out = s[x].out, u[x].ready = s[x].ready,
           Deaf(s[x]) => Deaf(u[x])
    PROVE  Keys(u, v)
<1> DEFINE c == s[x]  e == u[x]
<1>1. c.asked \in Seq(Message(n)) /\ c.out \in Seq(Message(n)) /\ c.inbox \in Seq(Message(n))
  BY ChatFields DEF Types
<1>2. Kin(c.asked, e.asked) /\ Kin(c.inbox, e.inbox)
  BY <1>1, KinIs
<1>3. NoNews(c.asked, e.asked) /\ NoNews(c.out, e.out) /\ NoNews(c.inbox, e.inbox)
  BY <1>1, NoNewsIs
<1>4. Calm(c, e) /\ Quiet(c, e)
  BY <1>2 DEF Calm, Quiet, SameKeys
<1>5. Phase(u, v)
  BY <1>4, PhaseCalm DEF Keys
<1>6. Words(u)
  BY <1>3, WordsHush DEF Keys, Hush, SameKeys
<1> QED
  BY <1>5, <1>6 DEF Keys

\* An answer that confirms the own chat of bob opens it, perhaps again.
LEMMA KeysConfirmed ==
    ASSUME NEW n \in Nat, NEW s, NEW u, NEW d, NEW t, NEW x \in Side, NEW v, NEW m, NEW k,
           Reading(n, s, u, x, v, m), m.type = "accepted", IsDone(u[x], d[x], "accept"),
           k.type = "chat", IsUpdated(d[x], t[x], k), t[Other(x)] = u[Other(x)], Keys(s, v)
    PROVE  Keys(t, v)
<1>1. x = "bob"
  BY LifeConfirmed
<1>2. d[x].chat # "waiting"
  BY <1>1 DEF Reading, Life, Roles, IsDone
<1>3. SameKeys(d[x], t[x]) /\ SameExchange(d[x], t[x]) /\ SameWay(d[x], t[x])
  BY <1>2 DEF IsUpdated
<1>4. SameKeys(u[x], d[x]) /\ SameExchange(u[x], d[x]) /\ SameWay(u[x], d[x])
  BY DEF IsDone
<1>5. /\ SameKeys(s[x], u[x]) /\ SameExchange(s[x], u[x]) /\ u[x].inbox = Tail(s[x].inbox)
      /\ u[x].ready = s[x].ready /\ u[x].out = s[x].out /\ u[x].asked = s[x].asked
      /\ s[x].inbox # <<>> /\ u[Other(x)] = s[Other(x)] /\ m = Head(s[x].inbox) /\ Types(s, n)
  BY DEF Reading, Heard
<1>6. ~Deaf(s[x])
  <2>1. Has(s[x].inbox, Reopeners)
    <3>1. m.type \in Reopeners
      BY DEF Reopeners
    <3>2. n \in Nat /\ m \in ToSet(s[x].inbox)
      BY ReadingIs DEF Reading
    <3> QED
      BY <3>1, <3>2 DEF Has
  <2> QED
    BY <2>1 DEF Deaf
<1>7. SameKeys(s[x], t[x]) /\ SameExchange(s[x], t[x])
  BY <1>3, <1>4, <1>5 DEF SameKeys, SameExchange
<1>8. /\ t[x].inbox = Tail(s[x].inbox) /\ t[x].ready = s[x].ready /\ t[x].out = s[x].out
      /\ t[x].asked = s[x].asked
  BY <1>3, <1>4, <1>5 DEF SameWay
<1> QED
  BY <1>5, <1>6, <1>7, <1>8, KeysTaken

\* Nothing is asked, or what is no matter of the chat.
LEMMA AsksNothing ==
    ASSUME NEW n \in Nat, NEW q \in Seq(Message(n)), NEW r,
           r = q \/ \E m \in Message(n) : m.type \notin InChat /\ r = Append(q, m)
    PROVE  NoNews(q, r) /\ (~Has(q, InChat) => ~Has(r, InChat)) /\ Kin(q, r)
<1>1. CASE r = q
  BY <1>1, NoNewsIs, KinIs
<1>2. CASE \E m \in Message(n) : m.type \notin InChat /\ r = Append(q, m)
  <2>1. PICK m \in Message(n) : m.type \notin InChat /\ r = Append(q, m)
    BY <1>2
  <2>2. m.type \notin Answering
    BY <2>1 DEF InChat, Answering
  <2> QED
    BY <2>1, <2>2, NoNewsIs, KinIs, HasGrows
<1> QED
  BY <1>1, <1>2

\* Where nothing is said in the chat, nothing is said under a key.
LEMMA NoneInChat ==
    ASSUME NEW q, ~Has(q, InChat)
    PROVE  \A k : Under(q, k) /\ UpTo(q, k) /\ ~Commits(q)
BY DEF Has, Under, UpTo, Commits, InChat

\* Before bob has its key, nobody speaks in the chat.
LEMMA KeysVacant ==
    ASSUME NEW n \in Nat, NEW u, NEW t, NEW v, Types(u, n), Life(u, v), Keys(u, v),
           u["bob"].fp = {}, t["alice"] = u["alice"], SameExchange(u["bob"], t["bob"]),
           t["bob"].inbox = u["bob"].inbox, t["bob"].out = u["bob"].out,
           \/ t["bob"].asked = u["bob"].asked
           \/ \E m \in Message(n) : m.type \notin InChat /\ t["bob"].asked = Append(u["bob"].asked, m)
    PROVE  Keys(t, v)
<1>1. PICK x \in Side : x = "bob"
  BY DEF Side
<1>2. Other(x) = "alice"
  BY <1>1 DEF Other
<1> DEFINE a == u["alice"]  b == u["bob"]  e == t["bob"]
<1>3. a.fp = {} /\ b.ex = "none" /\ b.out = <<>> /\ ~Has(b.asked, InChat) /\ ~Has(a.inbox, InChat)
  <2>1. a.fp = {} /\ b.ex = "none" /\ b.out = <<>>
    BY DEF Life, Keyed, Acceptor
  <2>2. ~Has(b.asked, {"accept_chat"} \cup InChat) /\ ~Has(a.inbox, {"chat"} \cup InChat)
    BY DEF Life, Acceptor
  <2> QED
    BY <2>1, <2>2 DEF Has
<1>4. b.asked \in Seq(Message(n)) /\ b.inbox \in Seq(Message(n))
  BY <1>1, ChatFields DEF Types
<1>5. NoNews(b.asked, e.asked) /\ ~Has(e.asked, InChat)
  <2>1. \/ e.asked = b.asked
        \/ \E m \in Message(n) : m.type \notin InChat /\ e.asked = Append(b.asked, m)
    OBVIOUS
  <2> HIDE DEF b, e
  <2>2. b.asked \in Seq(Message(n)) /\ ~Has(b.asked, InChat)
    BY <1>3, <1>4
  <2> QED
    BY <2>1, <2>2, AsksNothing
<1>6. Phase(t, v)
  <2>1. Alone(a, e)
    <3>1. ~Commits(e.out)
      BY <1>3, CommitsSome
    <3> QED
      BY <1>3, <1>5, <3>1, NoneInChat DEF Alone
  <2> QED
    BY <1>3, <2>1, PhaseAlone
<1>7. Words(t)
  <2>1. NoNews(b.out, e.out) /\ NoNews(b.inbox, e.inbox)
    BY DEF NoNews
  <2> QED
    BY <1>1, <1>2, <1>3, <1>5, <2>1, WordsHush DEF Keys, Hush
<1> QED
  BY <1>6, <1>7 DEF Keys

\* The creator asks for the chat.
LEMMA KeysCreated ==
    ASSUME NEW n \in Nat, NEW u, NEW t, NEW v, Types(u, n), Silent(u), Keys(u, v),
           u["alice"].fp = {}, t["alice"].fp = {}, t["bob"] = u["bob"],
           SameExchange(u["alice"], t["alice"]),
           t["alice"].inbox = u["alice"].inbox, t["alice"].out = u["alice"].out,
           NEW m \in Message(n), m.type \notin InChat, t["alice"].asked = Append(u["alice"].asked, m)
    PROVE  Keys(t, v)
<1>1. PICK x \in Side : x = "alice"
  BY DEF Side
<1>2. Other(x) = "bob"
  BY <1>1 DEF Other
<1> DEFINE a == u["alice"]  b == u["bob"]  e == t["alice"]
<1>3. Alone(a, b)
  BY PhaseAlone DEF Keys
<1>4. Phase(t, v)
  <2>1. Alone(e, b)
    BY <1>3 DEF Alone
  <2> QED
    BY <2>1, PhaseAlone
<1>5. a.ex = "none"
  BY DEF Silent
<1>6. a.asked \in Seq(Message(n))
  BY <1>1, ChatFields DEF Types
<1>7. NoNews(a.asked, e.asked)
  BY <1>6, AsksNothing
<1>8. Words(t)
  <2>1. NoNews(a.out, e.out) /\ NoNews(a.inbox, e.inbox)
    BY DEF NoNews
  <2> QED
    BY <1>1, <1>2, <1>5, <1>7, <2>1, WordsHush DEF Keys, Hush
<1> QED
  BY <1>4, <1>8 DEF Keys

\* The creator has its key: both have the same.
LEMMA KeysOpened ==
    ASSUME NEW n \in Nat, NEW u, NEW t, NEW v, Types(u, n), Silent(u), Keys(u, v),
           u["alice"].fp = {}, t["alice"].fp # {}, t["alice"].key = u["bob"].key, t["bob"] = u["bob"],
           SameExchange(u["alice"], t["alice"]), SameWay(u["alice"], t["alice"])
    PROVE  Keys(t, v)
<1>1. PICK x \in Side : x = "alice"
  BY DEF Side
<1>2. Other(x) = "bob"
  BY <1>1 DEF Other
<1> DEFINE a == u["alice"]  b == u["bob"]  e == t["alice"]
<1>3. Alone(a, b)
  BY PhaseAlone DEF Keys
<1>4. /\ a.ex = "none" /\ a.out = <<>> /\ ~Has(a.asked, InChat) /\ ~Has(b.inbox, InChat)
      /\ b.ex \in {"none", "requested"}
  BY DEF Silent
<1>5. e.inbox = a.inbox /\ e.asked = a.asked /\ e.out = a.out /\ e.ex = a.ex
  BY DEF SameWay, SameExchange
<1>6. Even(e, b)
  <2>1. Clean(e, b.key)
    <3>1. a.inbox \in Seq(Message(n))
      BY <1>1, ChatFields DEF Types
    <3>2. b.key \in SUBSET Nat
      BY <1>1, <1>2, Sides, ChatFields DEF Types
    <3>3. UpTo(a.inbox, b.key) /\ ~Commits(a.inbox)
      BY <1>3, <3>1, <3>2, UpToNewer DEF Alone
    <3>4. UpTo(a.asked, b.key) /\ ~Commits(a.asked) /\ ~Commits(a.out)
      BY <1>4, NoneInChat, CommitsSome
    <3> QED
      BY <1>5, <3>3, <3>4 DEF Clean
  <2>2. Clean(b, b.key)
    <3>1. b.asked \in Seq(Message(n))
      BY <1>1, <1>2, Sides, ChatFields DEF Types
    <3>2. b.key \in SUBSET Nat
      BY <1>1, <1>2, Sides, ChatFields DEF Types
    <3>3. UpTo(b.asked, b.key) /\ ~Commits(b.asked) /\ ~Commits(b.out)
      BY <1>3, <3>1, <3>2, UpToNewer DEF Alone
    <3>4. UpTo(b.inbox, b.key) /\ ~Commits(b.inbox)
      BY <1>4, NoneInChat
    <3> QED
      BY <3>3, <3>4 DEF Clean
  <2> QED
    BY <1>4, <1>5, <2>1, <2>2 DEF Even
<1>7. Phase(t, v)
  <2>1. Both(e, b, v)
    BY <1>6 DEF Both
  <2> QED
    BY <1>1, <1>2, <2>1, PhaseIs
<1>8. Words(t)
  <2>1. NoNews(a.asked, e.asked) /\ NoNews(a.out, e.out) /\ NoNews(a.inbox, e.inbox)
    BY <1>5 DEF NoNews
  <2> QED
    BY <1>1, <1>2, <1>4, <2>1, WordsHush DEF Keys, Hush
<1> QED
  BY <1>7, <1>8 DEF Keys

\* What is read is no word of the chat.
LEMMA SilentReads ==
    ASSUME NEW n \in Nat, NEW s, NEW u, NEW x \in Side, NEW v, NEW m, Reading(n, s, u, x, v, m),
           Silent(s)
    PROVE  Silent(u)
<1>1. \A y \in Side : /\ u[y].fp = s[y].fp /\ u[y].ex = s[y].ex /\ u[y].out = s[y].out
                      /\ u[y].asked = s[y].asked
                      /\ \A T : Has(u[y].inbox, T) => Has(s[y].inbox, T)
  <2>1. /\ u[x].fp = s[x].fp /\ u[x].ex = s[x].ex /\ u[x].out = s[x].out
        /\ u[x].asked = s[x].asked /\ u[Other(x)] = s[Other(x)]
    BY DEF Reading, Heard, SameKeys, SameExchange
  <2>2. \A T : Has(u[x].inbox, T) => Has(s[x].inbox, T)
    BY ReadingIs
  <2> QED
    BY <2>1, <2>2, Sides
<1>2. "alice" \in Side /\ "bob" \in Side
  BY DEF Side
<1> QED
  BY <1>1, <1>2, SilentStep

\* A word is taken that is no commit.
LEMMA KeysRead ==
    ASSUME NEW n \in Nat, NEW s, NEW u, NEW x \in Side, NEW v, NEW m, Reading(n, s, u, x, v, m),
           Keys(s, v), m.type # "commit"
    PROVE  Keys(u, v)
BY KeysHeard DEF Reading

\* The parameters have come: the chat is asked for, or accepted.
LEMMA KeysByDh ==
    ASSUME NEW n \in Nat \ {0}, NEW s, NEW u, NEW t, NEW x \in Side, NEW v, NEW m, NEW f, NEW a \in Nat,
           Reading(n, s, u, x, v, m), Living(s, v), Counted(u, f), Step(n, u, t, x),
           LivesByDh(n, u, t, x, m, a), n = a + 1, a \in Nat \ {0}, u["bob"] \in Chat(a),
           x = "bob" => u["bob"].fp = {}, Keys(s, v)
    PROVE  Keys(t, v)
<1>1. /\ Types(u, n) /\ Types(t, n) /\ Life(u, v) /\ t[Other(x)] = u[Other(x)] /\ n \in Nat
  BY DEF Reading, Step
<1>2. PICK d : /\ m.type = "dh" /\ u[x].wait.dh > 0
               /\ Step(n, u, d, x) /\ IsDone(u[x], d[x], "dh")
               /\ x = "alice" => Creates(d[x], t[x], a)
               /\ x = "bob" => Accepts(d[x], t[x], a)
  BY DEF LivesByDh
<1>3. d[x] \in Chat(n)
  BY <1>2 DEF Step, Types
<1>4. Keys(u, v) /\ Silent(u)
  <2>1. m.type # "commit"
    BY <1>2
  <2> QED
    BY <1>1, <2>1, KeysRead, SilentReads DEF Living
<1>5. CASE x = "alice"
  <2>1. t["bob"] = u["bob"]
    BY <1>1, <1>5 DEF Other
  <2>2. u["alice"].wait.dh > 0 /\ IsDone(u["alice"], d["alice"], "dh")
        /\ Creates(d["alice"], t["alice"], a) /\ d["alice"] \in Chat(n)
    BY <1>2, <1>3, <1>5
  <2>3. u["alice"].fp = {} /\ Asks(n, u["alice"], t["alice"], "request_chat")
    BY <1>1, <2>1, <2>2, LifeCreates
  <2>4. PICK k \in Message(n) : t["alice"].asked = Append(u["alice"].asked, k) /\ k.type = "request_chat"
    BY <2>3 DEF Asks
  <2>5. k.type \notin InChat
    BY <2>4 DEF InChat
  <2>6. /\ t["alice"].fp = u["alice"].fp /\ SameExchange(u["alice"], t["alice"])
        /\ t["alice"].inbox = u["alice"].inbox /\ t["alice"].out = u["alice"].out
    BY <2>2 DEF Creates, IsDone, SameKeys, SameExchange, SameWay
  <2> QED
    BY <1>1, <1>4, <2>1, <2>3, <2>4, <2>5, <2>6, KeysCreated
<1>6. CASE x = "bob"
  <2>1. t["alice"] = u["alice"]
    BY <1>1, <1>6 DEF Other
  <2>2. u["bob"].wait.dh > 0 /\ IsDone(u["bob"], d["bob"], "dh") /\ Accepts(d["bob"], t["bob"], a)
        /\ d["bob"] \in Chat(a + 1) /\ Types(u, a + 1) /\ Types(t, a + 1) /\ u["bob"].fp = {}
    BY <1>1, <1>2, <1>3, <1>6
  <2>3. Asks(a + 1, u["bob"], t["bob"], "accept_chat")
    BY <1>1, <2>1, <2>2, LifeAccepts
  <2>4. PICK k \in Message(n) : t["bob"].asked = Append(u["bob"].asked, k) /\ k.type = "accept_chat"
    BY <2>3 DEF Asks
  <2>5. \E l \in Message(n) : l.type \notin InChat /\ t["bob"].asked = Append(u["bob"].asked, l)
    BY <2>4 DEF InChat
  <2>6. /\ SameExchange(u["bob"], t["bob"])
        /\ t["bob"].inbox = u["bob"].inbox /\ t["bob"].out = u["bob"].out
    BY <2>2 DEF Accepts, IsDone, SameExchange, SameWay
  <2> QED
    BY <1>1, <1>4, <2>1, <2>2, <2>5, <2>6, KeysVacant
<1> QED
  BY <1>5, <1>6 DEF Side

\* An answer ends a call.
LEMMA KeysByReply ==
    ASSUME NEW n \in Nat, NEW s, NEW u, NEW t, NEW x \in Side, NEW v, NEW m,
           Reading(n, s, u, x, v, m), Step(n, u, t, x), LivesByReply(u, t, x, m), Keys(s, v)
    PROVE  Keys(t, v)
<1>1. PICK kind \in Kinds, chat \in States :
          Replies(m.type, kind, u[x], chat) /\ Ended(u[x], t[x], kind, chat)
  BY DEF LivesByReply
<1>2. m.type # "commit" /\ (chat = "ok" => u[x].chat = "ok")
  BY <1>1 DEF Replies
<1>3. Keys(u, v) /\ Types(u, n) /\ t[Other(x)] = u[Other(x)]
  BY <1>2, KeysRead DEF Step, Reading
<1>4. /\ SameKeys(u[x], t[x]) /\ SameExchange(u[x], t[x]) /\ SameWay(u[x], t[x])
      /\ t[x].chat = "ok" => u[x].chat = "ok"
  BY <1>1, <1>2 DEF Ended
<1> QED
  BY <1>3, <1>4, KeysSame

\* An accept is answered by the server.
LEMMA KeysByAnswer ==
    ASSUME NEW n \in Nat \ {0}, NEW s, NEW u, NEW t, NEW x \in Side, NEW v, NEW m,
           Reading(n, s, u, x, v, m), Silent(s), Step(n, u, t, x),
           LivesByAnswer(n, u, t, x, m), Keys(s, v)
    PROVE  Keys(t, v)
<1>1. PICK d, p, q : /\ m.type = "accepted"
                     /\ Step(n, u, d, x) /\ IsDone(u[x], d[x], "accept")
                     /\ Step(n, d, p, x) /\ IsUpdated(d[x], p[x], [m EXCEPT !.type = "chat"])
                     /\ Layered(n, p, q, x)
                     /\ IsTold(q[x], t[x])
  BY DEF LivesByAnswer
<1>2. n \in Nat /\ m \in Message(n) /\ Silent(u)
  BY ReadingIs, SilentReads
<1> DEFINE k == [m EXCEPT !.type = "chat"]
<1>3. k.type = "chat"
  BY <1>2 DEF Message
<1>3a. IsUpdated(d[x], p[x], k)
  BY <1>1
<1> HIDE DEF k
<1>4. p[Other(x)] = u[Other(x)] /\ Types(p, n) /\ t[Other(x)] = q[Other(x)] /\ Types(q, n)
  BY <1>1 DEF Step, Layered
<1>5. Life(p, v) /\ x = "bob"
  BY <1>1, <1>2, <1>3, <1>3a, <1>4, LifeConfirmed
<1>6. Keys(p, v)
  BY <1>1, <1>2, <1>3, <1>3a, <1>4, KeysConfirmed
<1>7. Silent(p)
  <2>1. p["alice"] = u["alice"]
    BY <1>4, <1>5 DEF Other
  <2>2. p["bob"].ex = u["bob"].ex /\ p["bob"].inbox = u["bob"].inbox
    BY <1>1, <1>3a, <1>5 DEF IsUpdated, IsDone, SameExchange, SameWay
  <2> QED
    BY <1>2, <2>1, <2>2, SilentStep
<1>8. Keys(q, v)
  BY <1>1, <1>2, <1>4, <1>5, <1>6, <1>7, KeysLayered
<1>9. /\ SameKeys(q[x], t[x]) /\ SameExchange(q[x], t[x]) /\ SameWay(q[x], t[x])
      /\ t[x].chat = "ok" => q[x].chat = "ok"
  BY <1>1 DEF IsTold, SameLife
<1> QED
  BY <1>2, <1>4, <1>8, <1>9, KeysSame

\* The server tells of the chat.
LEMMA KeysByUpdate ==
    ASSUME NEW n \in Nat \ {0}, NEW s, NEW u, NEW t, NEW x \in Side, NEW v, NEW m,
           Reading(n, s, u, x, v, m), Silent(s), Step(n, u, t, x),
           LivesByUpdate(n, u, t, x, m), Keys(s, v)
    PROVE  Keys(t, v)
<1>0. n \in Nat /\ t[Other(x)] = u[Other(x)] /\ Types(u, n) /\ Life(u, v)
  BY DEF Step, Reading
<1>1. m.type \in {"requested", "discarded", "chat"}
  BY DEF LivesByUpdate
<1>2. Keys(u, v) /\ Silent(u)
  BY <1>0, <1>1, KeysRead, SilentReads
<1>3. CASE m.type = "requested" /\ IsUpdated(u[x], t[x], m)
  <2>1. x = "bob" /\ u["bob"].chat = "absent"
    BY <1>0, <1>3, LifeAppears
  <2>2. u["bob"].fp = {} /\ t["alice"] = u["alice"]
    BY <1>0, <2>1 DEF Life, Roles, Other
  <2>3. /\ SameExchange(u["bob"], t["bob"]) /\ t["bob"].asked = u["bob"].asked
        /\ t["bob"].inbox = u["bob"].inbox /\ t["bob"].out = u["bob"].out
    BY <1>3, <2>1 DEF IsUpdated, SameWay
  <2> QED
    BY <1>0, <1>2, <2>2, <2>3, KeysVacant
<1>4. CASE m.type = "discarded" /\ IsUpdated(u[x], t[x], m)
  <2>1. /\ SameKeys(u[x], t[x]) /\ SameExchange(u[x], t[x]) /\ SameWay(u[x], t[x])
        /\ t[x].chat # "ok"
    BY <1>4 DEF IsUpdated
  <2> QED
    BY <1>0, <1>2, <2>1, KeysSame
<1>5. CASE /\ m.type = "chat"
           /\ \E p : Step(n, u, p, x) /\ IsUpdated(u[x], p[x], m) /\ Layered(n, p, t, x)
  <2>1. PICK p : Step(n, u, p, x) /\ IsUpdated(u[x], p[x], m) /\ Layered(n, p, t, x)
    BY <1>5
  <2>2. p[Other(x)] = u[Other(x)] /\ Types(p, n)
    BY <2>1 DEF Step
  <2>3. /\ Life(p, v) /\ x = "alice" /\ u["alice"].fp = {}
        /\ p["alice"].key = u["bob"].key /\ p["alice"].fp = u["bob"].key /\ u["bob"].fp # {}
    BY <1>5, <2>1, <2>2, LifeOpens
  <2>3a. u["bob"].fp = u["bob"].key
    <3>1. "bob" \in Side
      BY DEF Side
    <3> QED
      BY <1>0, <2>3, <3>1 DEF Life, Keyed
  <2>3b. p["alice"].fp # {}
    BY <2>3, <2>3a
  <2>4. SameExchange(u["alice"], p["alice"]) /\ SameWay(u["alice"], p["alice"])
    BY <2>1, <2>3 DEF IsUpdated
  <2>5. p["bob"] = u["bob"]
    BY <2>2, <2>3 DEF Other
  <2>6. Keys(p, v)
    BY <1>0, <1>2, <2>3, <2>3b, <2>4, <2>5, KeysOpened
  <2>7. Silent(p)
    BY <2>3b DEF Silent
  <2> QED
    BY <1>0, <2>1, <2>2, <2>3, <2>6, <2>7, KeysLayered
<1> QED
  BY <1>3, <1>4, <1>5 DEF LivesByUpdate

-----------------------------------------------------------------------------
(* The server                                                              *)

\* The server has taken m of the chat, which is in no inbox yet.
Handing(n, s, u, x, v, m) ==
    /\ Types(s, n) /\ Life(s, v) /\ Silent(s) /\ Keys(s, v)
    /\ Types(u, n) /\ Asked(s[x], u[x]) /\ u[Other(x)] = s[Other(x)] /\ m = Head(s[x].asked)
    /\ m.type \in InChat

\* What that says of the side it is from.
Handed(n, s, u, x, m) ==
    LET c == s[x]  e == u[x] IN
    /\ m \in Message(n) /\ c \in Chat(n) /\ s[Other(x)] \in Chat(n)
    /\ c.asked # <<>> /\ e.asked = Tail(c.asked)
    /\ SameKeys(c, e) /\ SameExchange(c, e)
    /\ e.ready = c.ready /\ e.out = c.out /\ e.inbox = c.inbox /\ e.chat = c.chat
    /\ c.asked \in Seq(Message(n)) /\ ToSet(c.asked) = {m} \cup ToSet(e.asked)
    /\ s["alice"].fp = {} => x = "bob"

\* It does say so.
LEMMA HandingIs ==
    ASSUME NEW n \in Nat, NEW s, NEW u, NEW x \in Side, NEW v, NEW m, Handing(n, s, u, x, v, m)
    PROVE  Handed(n, s, u, x, m)
<1> DEFINE c == s[x]
<1>1. c \in Chat(n) /\ s[Other(x)] \in Chat(n)
  BY Sides DEF Handing, Types
<1>2. c.asked \in Seq(Message(n))
  BY <1>1, ChatFields
<1>3. /\ c.asked # <<>> /\ u[x].asked = Tail(c.asked)
      /\ SameKeys(c, u[x]) /\ SameExchange(c, u[x])
      /\ u[x].ready = c.ready /\ u[x].out = c.out /\ u[x].inbox = c.inbox
      /\ u[x].chat = c.chat /\ m = Head(c.asked) /\ m.type \in InChat
  BY DEF Handing, Asked, SameLife
<1>4. m \in Message(n) /\ ToSet(c.asked) = {m} \cup ToSet(u[x].asked) /\ Has(c.asked, InChat)
  BY <1>2, <1>3, Rest, HasRest
<1>5. s["alice"].fp = {} => x = "bob"
  BY <1>4 DEF Handing, Silent, Side
<1> QED
  BY <1>1, <1>2, <1>3, <1>4, <1>5 DEF Handed

\* The server passes on what x has said.
LEMMA WordsPassed ==
    ASSUME NEW n \in Nat, NEW s, NEW u, NEW t, NEW x \in Side, NEW v, NEW m, Handing(n, s, u, x, v, m),
           t[x] = u[x], Reached(u[Other(x)], t[Other(x)], m)
    PROVE  Words(t)
<1>0. Handed(n, s, u, x, m)
  BY HandingIs
<1> DEFINE c == s[x]  d == s[Other(x)]  e == t[x]  f == t[Other(x)]
<1>1. /\ Speaks(c, d) /\ Speaks(d, c)
  BY Sides DEF Handing, Keys, Words
<1>2. /\ e.inbox = c.inbox /\ e.out = c.out /\ ToSet(c.asked) = {m} \cup ToSet(e.asked)
      /\ SameKeys(c, e) /\ SameExchange(c, e) /\ m \in Message(n)
  BY <1>0 DEF Handed
<1>3. /\ f.inbox = Append(d.inbox, m) /\ f.asked = d.asked /\ f.out = d.out
      /\ SameKeys(d, f) /\ SameExchange(d, f)
  BY DEF Reached, Handing
<1>4. ToSet(f.inbox) = ToSet(d.inbox) \cup {m}
  <2>1. d.inbox \in Seq(Message(n))
    BY <1>0, ChatFields DEF Handed
  <2> QED
    BY <1>2, <1>3, <2>1, Grown
<1> HIDE DEF c, d, e, f
<1>5. Speaks(e, f)
  <2>1. \A l : Said(e, f, l) => Said(c, d, l)
    BY <1>2, <1>3, <1>4 DEF Said
  <2>2. SaysMore(c, d, e, f)
    BY <2>1 DEF SaysMore, SaidBefore
  <2>3. Expects(c, d, f)
    BY <1>3 DEF Expects, SameExchange
  <2>4. /\ c.ex = "aborted" => e.ex = "aborted"
        /\ e.ex = "accepted" => Newer(e.exkey, e.key)
    BY <1>1, <1>2 DEF SameExchange, SameKeys, Speaks
  <2> QED
    BY <1>1, <1>2, <2>2, <2>3, <2>4, SpeaksOn
<1>6. Speaks(f, e)
  <2>1. \A l : Said(f, e, l) => Said(d, c, l)
    BY <1>2, <1>3 DEF Said
  <2>2. SaysMore(d, c, f, e)
    BY <2>1 DEF SaysMore, SaidBefore
  <2>3. Expects(d, c, e)
    BY <1>2 DEF Expects, SameExchange
  <2>4. /\ d.ex = "aborted" => f.ex = "aborted"
        /\ f.ex = "accepted" => Newer(f.exkey, f.key)
    BY <1>1, <1>3 DEF SameExchange, SameKeys, Speaks
  <2> QED
    BY <1>1, <1>3, <2>2, <2>3, <2>4, SpeaksOn
<1> QED
  BY <1>5, <1>6, Sides DEF Words, e, f

\* The server passes it on.
LEMMA KeysPassed ==
    ASSUME NEW n \in Nat, NEW s, NEW u, NEW t, NEW x \in Side, NEW v, NEW m, Handing(n, s, u, x, v, m),
           v.chat = "ok", t[x] = u[x], Reached(u[Other(x)], t[Other(x)], m)
    PROVE  Keys(t, v)
<1>0. Handed(n, s, u, x, m)
  BY HandingIs
<1> DEFINE c == s[x]  d == s[Other(x)]  e == t[x]  f == t[Other(x)]
<1>1. /\ e.inbox = c.inbox /\ e.out = c.out /\ e.asked = Tail(c.asked) /\ c.asked # <<>>
      /\ e.ready = c.ready /\ e.chat = c.chat
      /\ SameKeys(c, e) /\ SameExchange(c, e) /\ m \in Message(n)
      /\ c \in Chat(n) /\ d \in Chat(n) /\ c.asked \in Seq(Message(n))
  BY <1>0 DEF Handed
<1>2. /\ f.inbox = Append(d.inbox, m) /\ f.asked = d.asked /\ f.out = d.out
      /\ SameKeys(d, f) /\ SameExchange(d, f) /\ f.ready = d.ready /\ f.chat = d.chat
  BY DEF Reached, Handing, SameLife
<1>3. m = Head(c.asked) /\ m.type \in InChat
  BY DEF Handing
<1>4. t["alice"].fp = s["alice"].fp
  BY <1>1, <1>2, Sides DEF SameKeys
<1>5. Phase(t, v)
  <2>1. CASE s["alice"].fp # {}
    <3>1. Both(c, d, v)
      BY <2>1, PhaseIs DEF Handing, Keys
    <3>2. Passing(c, e, d, f)
      BY <1>1, <1>2 DEF Passing, SameKeys
    <3> HIDE DEF c, d, e, f
    <3>3. Both(e, f, v)
      BY <1>1, <1>2, <1>3, <3>1, <3>2, BothPassed
    <3> QED
      BY <1>4, <2>1, <3>3, PhaseIs DEF e, f
  <2>2. CASE s["alice"].fp = {}
    <3>1. x = "bob" /\ Other(x) = "alice"
      BY <1>0, <2>2 DEF Handed, Other
    <3>2. Alone(d, c)
      BY <2>2, <3>1, PhaseAlone DEF Handing, Keys
    <3>3. d.inbox \in Seq(Message(n)) /\ c.key = e.key
      BY <1>1, ChatFields DEF SameKeys
    <3> HIDE DEF c, d, e, f
    <3>4. /\ m.key = c.key /\ m.fp = c.key /\ Under(e.asked, c.key)
          /\ m.type # "commit" /\ ~Commits(e.asked)
      BY <1>1, <1>3, <3>2, TalkRest DEF Alone
    <3>5. Under(f.inbox, c.key) /\ ~Commits(f.inbox)
      BY <1>1, <1>2, <3>2, <3>3, <3>4, TalkGrows DEF Alone
    <3>6. Alone(f, e)
      BY <1>1, <3>2, <3>3, <3>4, <3>5 DEF Alone
    <3> QED
      BY <1>4, <2>2, <3>1, <3>6, PhaseAlone DEF e, f
  <2> QED
    BY <2>1, <2>2
<1>6. Words(t)
  BY WordsPassed
<1> QED
  BY <1>5, <1>6 DEF Keys

\* The server refuses what x has said: the chat is gone.
LEMMA KeysRefused ==
    ASSUME NEW n \in Nat, NEW s, NEW u, NEW x \in Side, NEW v, NEW m, Handing(n, s, u, x, v, m),
           v.chat # "ok"
    PROVE  Keys(u, v)
<1>0. Handed(n, s, u, x, m)
  BY HandingIs
<1> DEFINE c == s[x]  d == s[Other(x)]  e == u[x]
<1>1. /\ e.inbox = c.inbox /\ e.out = c.out /\ e.asked = Tail(c.asked) /\ c.asked # <<>>
      /\ e.ready = c.ready /\ e.chat = c.chat
      /\ SameKeys(c, e) /\ SameExchange(c, e)
      /\ c \in Chat(n) /\ d \in Chat(n) /\ c.asked \in Seq(Message(n))
  BY <1>0 DEF Handed
<1>2. /\ m = Head(c.asked) /\ u[Other(x)] = d /\ Types(s, n) /\ Words(s) /\ Phase(s, v) /\ Keys(s, v)
  BY DEF Handing, Keys
<1>3. CASE s["alice"].fp # {}
  <2>1. v.chat = "gone"
    BY <1>3 DEF Handing, Life, Keyed
  <2>2. Both(c, d, v)
    BY <1>2, <1>3, PhaseIs
  <2>3. Passing(c, e, d, d)
    BY <1>1 DEF Passing, SameKeys, SameExchange
  <2>4. u["alice"].fp # {}
    BY <1>1, <1>2, <1>3, Sides DEF SameKeys
  <2>5. NoNews(c.asked, e.asked) /\ NoNews(c.out, e.out) /\ NoNews(c.inbox, e.inbox)
    <3>1. NoNews(c.asked, e.asked)
      BY <1>1, NoNewsIs
    <3>2. NoNews(c.out, e.out) /\ NoNews(c.inbox, e.inbox)
      BY <1>1 DEF NoNews
    <3> QED
      BY <3>1, <3>2
  <2>6. Words(u)
    BY <1>1, <1>2, <2>5, WordsHush DEF Hush, SameKeys
  <2>7. Both(e, d, v)
    <3> HIDE DEF c, d, e
    <3> QED
      BY <1>1, <2>1, <2>2, <2>3, BothLost
  <2> QED
    BY <1>2, <2>4, <2>6, <2>7, PhaseIs DEF Keys
<1>4. CASE s["alice"].fp = {}
  <2>1. Alone(d, c)
    <3>1. x = "bob" /\ Other(x) = "alice"
      BY <1>0, <1>4 DEF Handed, Other
    <3> QED
      BY <1>2, <1>4, <3>1, PhaseAlone
  <2>2. Head(c.asked).type # "commit"
    BY <1>1, <2>1, TalkRest DEF Alone
  <2>3. OnlyAsks(c, e, Tail(c.asked))
    BY <1>1 DEF OnlyAsks
  <2> QED
    BY <1>1, <1>2, <2>2, <2>3, KeysAsks
<1> QED
  BY <1>3, <1>4

\* The server puts l before y, while the creator has no key, or l opens nothing.
LEMMA KeysTo ==
    ASSUME NEW n \in Nat \ {0}, NEW s, NEW y \in Side, NEW v, NEW w, Types(s, n), Keys(s, v),
           NEW l \in Message(n), l.type \notin InChat, NEW t, t = To(s, y, l),
           s["alice"].fp # {} => l.type \notin Reopeners /\ (v.chat = "gone" => w.chat = "gone")
    PROVE  Keys(t, w) /\ Types(t, n) /\ t["alice"].fp = s["alice"].fp
<1>1. n \in Nat
  OBVIOUS
<1>2. Step(n, s, t, y) /\ Reached(s[y], t[y], l)
  BY <1>1, ToIs
<1>3. Types(t, n) /\ t[Other(y)] = s[Other(y)]
  BY <1>2 DEF Step
<1>4. t["alice"].fp = s["alice"].fp
  BY <1>2, <1>3, Sides DEF Reached, SameKeys
<1> QED
  BY <1>1, <1>2, <1>3, <1>4, KeysReached

\* Before the creator has its key, the server answers and tells the other side.
LEMMA KeysToBoth ==
    ASSUME NEW n \in Nat \ {0}, NEW u, NEW x \in Side, NEW v, NEW w, Types(u, n), Keys(u, v),
           u["alice"].fp = {}, NEW k \in Message(n), NEW l \in Message(n),
           k.type \notin InChat, l.type \notin InChat, NEW t, t = To(To(u, x, k), Other(x), l)
    PROVE  Keys(t, w)
<1> DEFINE p == To(u, x, k)
<1>1. p = To(u, x, k) /\ t = To(p, Other(x), l) /\ Other(x) \in Side
  BY Sides
<1> HIDE DEF p
<1>2. Step(n, u, p, x) /\ Reached(u[x], p[x], k) /\ n \in Nat
  BY <1>1, ToIs
<1>3. Types(p, n) /\ p[Other(x)] = u[Other(x)]
  BY <1>2 DEF Step
<1>4. Keys(p, v)
  BY <1>2, <1>3, KeysReached
<1>5. p["alice"].fp = {}
  BY <1>2, <1>3, Sides DEF Reached, SameKeys
<1> QED
  BY <1>1, <1>3, <1>4, <1>5, KeysTo

\* The server answers.
LEMMA ServeKeeps ==
    ASSUME Lasting, Server(srv, fresh), spoiled = {}, Keys(st, srv), NEW x \in Side, Serve(x)
    PROVE  Keys(st', srv')
<1> DEFINE n == fresh  u == Unasked(x)  m == Head(st[x].asked)
<1>1. /\ n \in Nat \ {0} /\ n \in Nat /\ Types(st, n) /\ Other(x) \in Side /\ n = fresh
      /\ Life(st, srv) /\ Silent(st)
  BY Sides DEF Lasting, Holds, Living
<1>2. st[x].asked # <<>> /\ Served(u, x, m)
  BY DEF Serve, Unasked
<1>3. u = Unasked(x) /\ m = Head(st[x].asked)
  OBVIOUS
<1> HIDE DEF n, u, m
<1>4. Asking(n, u, x, m)
  BY <1>1, <1>2, <1>3, AskingIs
<1>5. m \in Message(n) /\ m.g \in SUBSET (0..(n - 1)) /\ m.fp \in SUBSET (0..(n - 1))
      /\ srv.ga \in SUBSET (0..(n - 1))
      /\ srv \in [chat : {"no", "requested", "ok", "gone"}, ga : SUBSET (0..(n - 1))]
  BY <1>1, <1>4 DEF Asking, Message, Server
<1>6. /\ Types(u, n) /\ u[Other(x)] = st[Other(x)] /\ Asked(st[x], u[x])
      /\ Has(st[x].asked, {m.type})
  <2>1. Types(u, n) /\ u[Other(x)] = st[Other(x)] /\ Asked(st[x], u[x]) /\ m \in ToSet(st[x].asked)
    BY <1>4 DEF Asking, Step
  <2> QED
    BY <2>1 DEF Has
<1>7. u["alice"].fp = st["alice"].fp
  BY <1>6, Sides DEF Asked, SameKeys
<1>8. m.type \notin InChat => Keys(u, srv)
  <2> SUFFICES ASSUME m.type \notin InChat PROVE Keys(u, srv)
    OBVIOUS
  <2>1. OnlyAsks(st[x], u[x], Tail(st[x].asked))
    BY <1>6 DEF Asked, OnlyAsks, SameLife
  <2>2. st[x].asked # <<>> /\ Head(st[x].asked).type # "commit"
    BY <1>2, <1>3 DEF InChat
  <2> QED
    BY <1>1, <1>6, <2>1, <2>2, KeysAsks
<1>9. ASSUME NEW type \in {"dh", "dh_error", "request_error", "accept_error", "declined", "discard_done"},
             m.type \notin InChat, st' = To(u, x, Msg(type)), UNCHANGED srv
      PROVE  Keys(st', srv')
  <2> DEFINE k == Msg(type)
  <2>1. k \in Message(n) /\ k.type = type /\ st' = To(u, x, k)
    BY <1>1, <1>9, MsgIs DEF Updates
  <2> HIDE DEF k
  <2>2. k.type \notin InChat /\ k.type \notin Reopeners
    BY <2>1 DEF InChat, Reopeners
  <2> QED
    BY <1>1, <1>6, <1>8, <1>9, <2>1, <2>2, KeysTo
<1>10. CASE m.type = "dh"
  <2>1. PICK type \in {"dh", "dh_error"} : st' = To(u, x, Msg(type)) /\ UNCHANGED srv
    BY <1>2, <1>10 DEF Served, InChat
  <2>2. m.type \notin InChat
    BY <1>10 DEF InChat
  <2> QED
    BY <1>9, <2>1, <2>2
<1>11. CASE m.type = "request_chat"
  <2> DEFINE k == Msg("waiting")  l == MsgOf("requested", m.g)
  <2>1. \/ st' = To(To(u, x, k), Other(x), l)
        \/ st' = To(u, x, Msg("request_error")) /\ UNCHANGED srv
    BY <1>2, <1>11 DEF Served, InChat, MsgOf
  <2>2. /\ k \in Message(n) /\ k.type = "waiting"
        /\ l \in Message(n) /\ l.type = "requested"
    BY <1>1, <1>5, MsgIs, MsgOfIs DEF Updates
  <2> HIDE DEF k, l
  <2>3. m.type \notin InChat /\ k.type \notin InChat /\ l.type \notin InChat
    BY <1>11, <2>2 DEF InChat
  <2>4. st["alice"].fp = {}
    <3>1. x = "alice"
      BY <1>1, <1>6, <1>11 DEF Life, Roles, Side
    <3> QED
      BY <1>1, <1>6, <1>11, <3>1 DEF Life, Creator
  <2>5. CASE st' = To(To(u, x, k), Other(x), l)
    BY <1>1, <1>6, <1>7, <1>8, <2>2, <2>3, <2>4, <2>5, KeysToBoth
  <2>6. CASE st' = To(u, x, Msg("request_error")) /\ UNCHANGED srv
    BY <1>9, <2>3, <2>6
  <2> QED
    BY <2>1, <2>5, <2>6
<1>12. CASE m.type = "accept_chat" /\ srv.chat = "requested"
  <2> DEFINE k == MsgBy("accepted", srv.ga, m.fp)  l == MsgBy("chat", m.g, m.fp)
  <2>1. st' = To(To(u, x, k), Other(x), l)
    BY <1>2, <1>12 DEF Served, InChat, MsgBy
  <2>2. k \in Message(n) /\ k.type = "accepted"
    BY <1>1, <1>5, MsgByIs DEF Updates
  <2>3. l \in Message(n) /\ l.type = "chat"
    BY <1>1, <1>5, MsgByIs DEF Updates
  <2> HIDE DEF k, l
  <2>4. m.type \notin InChat /\ k.type \notin InChat /\ l.type \notin InChat
    BY <1>12, <2>2, <2>3 DEF InChat
  <2>5. st["alice"].fp = {}
    <3>1. x = "bob"
      BY <1>1, <1>6, <1>12 DEF Life, Roles, Side
    <3> QED
      BY <1>1, <1>6, <1>12, <3>1 DEF Life, Acceptor
  <2>5a. Keys(u, srv) /\ u["alice"].fp = {}
    BY <1>7, <1>8, <2>4, <2>5
  <2> DEFINE t == st'
  <2>6. t = To(To(u, x, k), Other(x), l)
    BY <2>1
  <2> HIDE DEF t
  <2>7. Keys(t, srv')
    BY <1>1, <1>6, <2>2, <2>3, <2>4, <2>5a, <2>6, KeysToBoth
  <2> QED
    BY <2>7 DEF t
<1>13. CASE m.type = "accept_chat" /\ srv.chat # "requested"
  <2>1. PICK type \in {"declined", "accept_error"} : st' = To(u, x, Msg(type)) /\ UNCHANGED srv
    BY <1>2, <1>13 DEF Served, InChat
  <2>2. m.type \notin InChat
    BY <1>13 DEF InChat
  <2> QED
    BY <1>9, <2>1, <2>2
<1>14. CASE m.type = "discard"
  <2> DEFINE k == Msg("discard_done")  l == Msg("discarded")  p == To(u, x, k)
  <2>1. /\ IF srv.chat = "no" THEN st' = p ELSE st' = To(p, Other(x), l)
        /\ srv' = [srv EXCEPT !.chat = IF @ = "no" THEN @ ELSE "gone"]
    BY <1>2, <1>14 DEF Served, InChat
  <2>2. /\ k \in Message(n) /\ k.type = "discard_done"
        /\ l \in Message(n) /\ l.type = "discarded" /\ p = To(u, x, k)
    BY <1>1, MsgIs DEF Updates
  <2> HIDE DEF k, l, p
  <2>3. /\ m.type \notin InChat /\ k.type \notin InChat /\ l.type \notin InChat
        /\ k.type \notin Reopeners /\ l.type \notin Reopeners
    BY <1>14, <2>2 DEF InChat, Reopeners
  <2>4. (srv.chat = "no" => srv' = srv) /\ (srv.chat # "no" => srv'.chat = "gone")
    BY <1>5, <2>1
  <2>5. Keys(p, srv) /\ Types(p, n)
    BY <1>1, <1>6, <1>8, <2>2, <2>3, KeysTo
  <2>6. CASE srv.chat = "no"
    BY <2>1, <2>4, <2>5, <2>6
  <2>7. CASE srv.chat # "no"
    <3>1. st' = To(p, Other(x), l) /\ srv'.chat = "gone"
      BY <2>1, <2>4, <2>7
    <3> QED
      BY <1>1, <2>2, <2>3, <2>5, <3>1, KeysTo
  <2> QED
    BY <2>6, <2>7
<1>15. CASE m.type \in InChat
  <2>1. /\ st' = IF srv.chat = "ok" THEN To(u, Other(x), m) ELSE u
        /\ srv' = srv
    BY <1>2, <1>15 DEF Served, InChat
  <2>2. Handing(n, st, u, x, srv, m)
    BY <1>1, <1>3, <1>6, <1>15 DEF Handing
  <2>3. CASE srv.chat = "ok"
    <3> DEFINE t == st'
    <3>1. t = To(u, Other(x), m)
      BY <2>1, <2>3
    <3> HIDE DEF t
    <3>2. Step(n, u, t, Other(x)) /\ Reached(u[Other(x)], t[Other(x)], m)
      BY <1>1, <1>5, <1>6, <3>1, ToIs
    <3>3. t[x] = u[x]
      BY <3>2, Sides DEF Step
    <3>4. Keys(t, srv)
      BY <1>1, <2>2, <2>3, <3>2, <3>3, KeysPassed
    <3> QED
      BY <2>1, <3>4 DEF t
  <2>4. CASE srv.chat # "ok"
    BY <1>1, <2>1, <2>2, <2>4, KeysRefused
  <2> QED
    BY <2>3, <2>4
<1>16. m.type \in {"dh", "request_chat", "accept_chat", "discard"} \cup InChat
  BY <1>2 DEF Served
<1> QED
  BY <1>10, <1>11, <1>12, <1>13, <1>14, <1>15, <1>16

-----------------------------------------------------------------------------
(* The actions                                                             *)

\* What x cannot read, or does not, was said under an older key.
LEMMA DropKeeps ==
    ASSUME Lasting, spoiled = {}, Keys(st, srv), Older(dropped),
           NEW x \in Side, st[x].inbox # <<>>, Drop(x), UNCHANGED srv
    PROVE  Keys(st', srv') /\ Older(dropped')
<1> DEFINE m == First(x)  u == Taken(x)  c == Adopted(st[x], m)
           l == [type |-> m.type, key |-> m.key, mine |-> ReadWith(c)]
<1>1. fresh \in Nat \ {0} /\ fresh \in Nat /\ Types(st, fresh) /\ Living(st, srv)
  BY DEF Lasting, Holds
<1>2. /\ st' = u /\ srv' = srv /\ m.type \in InChat /\ (st[x].chat # "ok" \/ ~Readable(c, m))
      /\ dropped' = IF st[x].chat # "ok" THEN dropped ELSE dropped \cup {l}
      /\ m = First(x) /\ u = Taken(x) /\ c = Adopted(st[x], m)
      /\ l.mine = ReadWith(c) /\ l.key = m.key
  BY DEF Drop, Taken
<1> HIDE DEF m, u, c, l
<1>3. Reading(fresh, st, u, x, srv, m)
  BY <1>1, <1>2, TakenReads
<1>4. /\ Phase(u, srv)
      /\ st[x].chat = "ok" => Newer(ReadWith(c), m.key)
  BY <1>1, <1>2, <1>3, PhaseDropped DEF Living, Keys
<1>5. Words(u)
  <2>1. /\ SameKeys(st[x], u[x]) /\ SameExchange(st[x], u[x]) /\ u[Other(x)] = st[Other(x)]
        /\ u[x].inbox = Tail(st[x].inbox) /\ u[x].asked = st[x].asked /\ u[x].out = st[x].out
    BY <1>3 DEF Reading, Heard
  <2>2. st[x].inbox \in Seq(Message(fresh))
    BY <1>1, ChatFields DEF Types
  <2>3. NoNews(st[x].inbox, u[x].inbox)
    BY <2>1, <2>2, NoNewsIs
  <2>4. Hush(st[x], u[x])
    BY <2>1, <2>3 DEF Hush, NoNews
  <2> QED
    BY <2>1, <2>4, WordsHush DEF Keys, SameKeys
<1>6. Older(dropped')
  BY <1>2, <1>4 DEF Older
<1> QED
  BY <1>2, <1>4, <1>5, <1>6 DEF Keys

\* What x reads in the chat.
LEMMA ReadMessageKeeps ==
    ASSUME Lasting, spoiled = {}, Keys(st, srv),
           NEW x \in Side, st[x].inbox # <<>>, ReadMessage(x), UNCHANGED srv
    PROVE  Keys(st', srv')
<1> DEFINE m == First(x)  u == Taken(x)  c == Adopted(st[x], m)
           s == [u EXCEPT ![x] = [c EXCEPT !.inbox = Tail(@)]]
           n == IF m.type = "request" THEN fresh + 1 ELSE fresh
           p == [s EXCEPT ![x].id = m.id]
<1>1. fresh \in Nat \ {0} /\ fresh \in Nat /\ Types(st, fresh) /\ Living(st, srv)
  BY DEF Lasting, Holds
<1>2. /\ m.type \in InChat /\ st[x].chat = "ok" /\ Readable(c, m)
      /\ \/ st' = Exchange(s, x, m, fresh)
         \/ c.ex \in {"none", "requested"} /\ st' = Aborted(p, x)
  BY DEF ReadMessage, Examined
<1>3. /\ n \in Nat \ {0} /\ n \in Nat /\ Types(st, n) /\ (m.type = "request" => fresh \in 0..(n - 1))
  BY <1>1, MoreNumbers
<1>4. m = First(x) /\ u = Taken(x) /\ c = Adopted(st[x], m) /\ p = [s EXCEPT ![x].id = m.id]
      /\ s = [u EXCEPT ![x] = [c EXCEPT !.inbox = Tail(@)]]
  OBVIOUS
<1> HIDE DEF m, u, c, s, n, p
<1>5. Reading(n, st, u, x, srv, m)
  BY <1>1, <1>3, <1>4, TakenReads
<1>6. Understood(n, st, u, x, srv, m) /\ c = st[x] /\ st["alice"].fp # {}
  BY <1>1, <1>2, <1>3, <1>4, <1>5, ReadIs DEF Living, Keys
<1>7. s = u
  BY <1>3, <1>4, <1>6 DEF Types, Taken
<1>8. m.type = "request" => fresh \in 0..(n - 1) /\ fresh > m.id /\ \A j \in st[x].key : fresh > j
  <2>1. m \in Message(fresh)
    BY <1>1, <1>4, TakenIs
  <2>2. m.id \in 0..(fresh - 1) /\ st[x].key \in SUBSET (0..(fresh - 1))
    BY <1>1, <2>1, Fields, ChatFields DEF Types
  <2>3. fresh > m.id /\ \A j \in st[x].key : fresh > j
    BY <1>1, <2>2
  <2> QED
    BY <1>3, <2>3
<1>9. CASE st' = Exchange(s, x, m, fresh)
  <2> DEFINE t == st'
  <2>1. t = Exchange(u, x, m, fresh)
    BY <1>7, <1>9
  <2> HIDE DEF t
  <2>2. Words(t) /\ Phase(t, srv)
    BY <1>3, <1>6, <1>8, <2>1, ExchangeKeeps
  <2> QED
    BY <2>2 DEF Keys, t
<1>10. CASE c.ex \in {"none", "requested"} /\ st' = Aborted(p, x)
  <2> DEFINE t == st'
  <2>1. t = Aborted([u EXCEPT ![x].id = m.id], x)
    BY <1>4, <1>7, <1>10
  <2>2. st[x].ex \in {"none", "requested"}
    BY <1>6, <1>10
  <2> HIDE DEF t
  <2>3. Words(t) /\ Phase(t, srv)
    BY <1>3, <1>6, <2>1, <2>2, WeakKeeps
  <2> QED
    BY <2>3 DEF Keys, t
<1> QED
  BY <1>2, <1>9, <1>10

\* An update or an answer.
LEMMA ReadUpdateKeeps ==
    ASSUME Lasting, spoiled' = {}, spoiled = {}, Keys(st, srv),
           NEW x \in Side, st[x].inbox # <<>>, ReadUpdate(x), UNCHANGED srv
    PROVE  Keys(st', srv')
<1> DEFINE m == First(x)  u == Taken(x)  t == Lived(u, x, m)
           n == IF m.type = "dh" THEN fresh + 1 ELSE fresh
<1>1. /\ fresh \in Nat \ {0} /\ Types(st, fresh) /\ faults \in 0..MaxFaults /\ faults \in Nat
      /\ Counted(st, faults) /\ Living(st, srv) /\ fresh \in Nat
  BY SecretChatsAssumption DEF Lasting, Holds
<1>2. /\ st' = t /\ srv' = srv /\ m.type \notin InChat
      /\ m.type = "dh" /\ x = "bob" /\ st[x].wait.dh > 0 => st[x].fp = {}
  BY DEF ReadUpdate, Waits
<1>3. n \in Nat \ {0} /\ n \in Nat /\ Types(st, n) /\ (m.type = "dh" => fresh \in 0..(n - 1))
  BY <1>1, MoreNumbers
<1>4. m = First(x) /\ u = Taken(x) /\ t = Lived(u, x, m) /\ (m.type = "dh" => n = fresh + 1)
  OBVIOUS
<1> HIDE DEF m, u, t, n
<1>5. Step(n, st, u, x) /\ SameBook(st[x], u[x]) /\ Heard(st[x], u[x]) /\ m \in Message(n)
  BY <1>3, <1>4, TakenIs
<1>6. Types(u, n) /\ u[Other(x)] = st[Other(x)] /\ u[x].wait = st[x].wait /\ u[x].fp = st[x].fp
  BY <1>5 DEF Step, Heard, SameLife, SameKeys
<1>7. /\ Step(n, u, t, x)
      /\ \/ LivesByDh(n, u, t, x, m, fresh)
         \/ LivesByReply(u, t, x, m)
         \/ LivesByAnswer(n, u, t, x, m)
         \/ LivesByUpdate(n, u, t, x, m)
         \/ t = u
  BY <1>3, <1>4, <1>5, <1>6, LivedIs
<1>8. Counted(u, faults)
  <2>1. SameCount(st[x], u[x])
    BY <1>5 DEF Heard, SameBook, SameCount
  <2>2. SameCount(st[Other(x)], u[Other(x)])
    BY <1>6 DEF SameCount, SameLife
  <2>3. \A y \in Side : SameCount(st[y], u[y])
    BY <2>1, <2>2, Sides
  <2> QED
    BY <1>1, <2>3, CountedSame
<1>9. Reading(n, st, u, x, srv, m) /\ Silent(st)
  BY <1>1, <1>3, <1>4, TakenReads DEF Living
<1>10. CASE LivesByDh(n, u, t, x, m, fresh)
  <2>1. m.type = "dh" /\ u[x].wait.dh > 0
    BY <1>10 DEF LivesByDh
  <2>2. n = fresh + 1 /\ (x = "bob" => u["bob"].fp = {})
    BY <1>2, <1>4, <1>6, <2>1
  <2>3. u["bob"] \in Chat(fresh)
    <3>1. Step(fresh, st, u, x)
      BY <1>1, <1>4, TakenIs
    <3> QED
      BY <3>1 DEF Step, Types, Side
  <2>4. Keys(t, srv)
    BY <1>1, <1>3, <1>7, <1>8, <1>9, <1>10, <2>2, <2>3, KeysByDh
  <2> QED
    BY <1>2, <2>4
<1>11. CASE LivesByReply(u, t, x, m)
  BY <1>2, <1>3, <1>7, <1>9, <1>11, KeysByReply
<1>12. CASE LivesByAnswer(n, u, t, x, m)
  BY <1>2, <1>3, <1>7, <1>9, <1>12, KeysByAnswer
<1>13. CASE LivesByUpdate(n, u, t, x, m)
  BY <1>2, <1>3, <1>7, <1>9, <1>13, KeysByUpdate
<1>14. CASE t = u
  <2>1. m.type # "commit"
    BY <1>2 DEF InChat
  <2> QED
    BY <1>2, <1>3, <1>9, <1>14, <2>1, KeysRead
<1> QED
  BY <1>7, <1>10, <1>11, <1>12, <1>13, <1>14

\* A side reads what comes next.
LEMMA ReadKeeps ==
    ASSUME Lasting, spoiled' = {}, spoiled = {}, Keys(st, srv), Older(dropped), NEW x \in Side, Read(x)
    PROVE  Keys(st', srv') /\ Older(dropped')
<1>1. st[x].inbox # <<>> /\ UNCHANGED srv
  BY DEF Read
<1>2. CASE ReadUpdate(x)
  BY <1>1, <1>2, ReadUpdateKeeps DEF ReadUpdate
<1>3. CASE Drop(x)
  BY <1>1, <1>3, DropKeeps
<1>4. CASE ReadMessage(x)
  BY <1>1, <1>4, ReadMessageKeeps DEF ReadMessage
<1> QED
  BY <1>2, <1>3, <1>4 DEF Read

\* A text is posted.
LEMMA TextKeeps ==
    ASSUME Lasting, spoiled = {}, Keys(st, srv), NEW x \in Side, Text(x)
    PROVE  Keys(st', srv')
<1> DEFINE n == fresh  m == Secret("text", {}, 0)  p == Post(st, x, m)  t == st'
<1>1. n \in Nat \ {0} /\ n \in Nat /\ Types(st, n) /\ Life(st, srv) /\ Silent(st) /\ 0 \in 0..(n - 1)
  BY DEF Lasting, Holds, Living
<1>2. t = [p EXCEPT ![x].texts = @ + 1] /\ srv' = srv /\ p = Post(st, x, m)
  BY DEF Text
<1>3. m \in Message(n) /\ m.type = "text"
  <2>1. m.type = "text"
    BY DEF Secret, Msg
  <2> QED
    BY <1>1, <2>1, TalkIs
<1>3a. m.type \in InChat /\ m.type \notin Answering /\ m.type # "commit"
  BY <1>3 DEF InChat, Answering
<1> HIDE DEF m, p, n, t
<1>4. Types(p, n) /\ p[Other(x)] = st[Other(x)] /\ IsPosted(st[x], p[x], m)
  BY <1>1, <1>2, <1>3, <1>3a, Posted
<1>5. Keys(p, srv)
  BY <1>1, <1>3, <1>3a, <1>4, KeysPosted
<1> DEFINE c == p[x]
<1>6. c \in Chat(n) /\ c = p[x] /\ t = [p EXCEPT ![x] = [c EXCEPT !.texts = c.texts + 1]]
  BY <1>2, <1>4 DEF Types
<1> HIDE DEF c
<1>7. [c EXCEPT !.texts = c.texts + 1] = Noted(c, c.texts + 1, c.requests)
  BY <1>6 DEF Chat, Noted
<1>8. c.texts + 1 \in Nat /\ c.requests \in Nat
  BY <1>1, <1>6, ChatFields
<1>9. t = With(p, x, Noted(p[x], c.texts + 1, c.requests))
  BY <1>6, <1>7 DEF With
<1>10. Moves(n, p, t, x) /\ SameKeys(p[x], t[x]) /\ SameExchange(p[x], t[x]) /\ SameWay(p[x], t[x])
  BY <1>1, <1>4, <1>8, <1>9, MovesNoted
<1>11. t[Other(x)] = p[Other(x)] /\ t[x].chat = p[x].chat
  BY <1>10 DEF Moves, Step, SameCount, SameLife
<1>12. Keys(t, srv)
  BY <1>1, <1>4, <1>5, <1>10, <1>11, KeysSame
<1> QED
  BY <1>2, <1>12 DEF t

\* A new key is requested.
LEMMA RequestKeyKeeps ==
    ASSUME Lasting, spoiled = {}, Keys(st, srv), NEW x \in Side, RequestKey(x)
    PROVE  Keys(st', srv')
<1> DEFINE m == Secret("request", {fresh}, fresh)  p == Post(st, x, m)  n == fresh + 1  t == st'
<1>1. /\ fresh \in Nat \ {0} /\ fresh \in Nat /\ Types(st, fresh) /\ Life(st, srv) /\ Silent(st)
  BY DEF Lasting, Holds, Living
<1>2. /\ t = [p EXCEPT ![x].ex = "requested", ![x].id = fresh, ![x].exkey = {fresh},
                       ![x].requests = @ + 1]
      /\ st[x].chat = "ok" /\ st[x].ex = "none" /\ srv' = srv /\ p = Post(st, x, m)
  BY DEF RequestKey
<1>3. n \in Nat \ {0} /\ n \in Nat /\ Types(st, n) /\ fresh \in 0..(n - 1) /\ {fresh} \in SUBSET (0..(n - 1))
  BY <1>1, MoreNumbers
<1>4. m \in Message(n) /\ m.type = "request"
  <2>1. m.type = "request"
    BY DEF Secret, Msg
  <2> QED
    BY <1>3, <2>1, TalkIs
<1>4a. m.type \in InChat /\ m.type \notin Answering /\ m.type # "commit"
  BY <1>4 DEF InChat, Answering
<1> HIDE DEF m, p, n, t
<1>5. Types(p, n) /\ p[Other(x)] = st[Other(x)] /\ IsPosted(st[x], p[x], m)
  BY <1>2, <1>3, <1>4, <1>4a, Posted
<1>6. Keys(p, srv) /\ SameExchange(st[x], p[x])
  BY <1>1, <1>3, <1>4, <1>4a, <1>5, KeysPosted
<1> DEFINE c == p[x]  d == Exchanged(c, "requested", fresh, {fresh})  q == With(p, x, d)
<1>7. c \in Chat(n) /\ c = p[x]
  BY <1>5 DEF Types
<1>8. t = [p EXCEPT ![x] = [c EXCEPT !.ex = "requested", !.id = fresh, !.exkey = {fresh},
                                     !.requests = c.requests + 1]]
  BY <1>2
<1> HIDE DEF c
<1>9. [c EXCEPT !.ex = "requested", !.id = fresh, !.exkey = {fresh}, !.requests = c.requests + 1]
         = Noted(d, c.texts, c.requests + 1)
  BY <1>7 DEF Chat, Exchanged, Noted
<1>10. c.texts \in Nat /\ c.requests + 1 \in Nat
  BY <1>3, <1>7, ChatFields
<1>11. q[x] = d /\ t = With(q, x, Noted(d, c.texts, c.requests + 1))
  BY <1>5, <1>7, <1>8, <1>9 DEF With, Types
<1>12. q = With(p, x, Exchanged(p[x], "requested", fresh, {fresh})) /\ "requested" \in Exchanges
  BY <1>7 DEF Exchanges
<1> HIDE DEF d, q
<1>13. /\ Moves(n, p, q, x) /\ SameKeys(p[x], q[x]) /\ SameWay(p[x], q[x])
       /\ q[x].ex = "requested" /\ q[x].id = fresh /\ q[x].chat = p[x].chat
  BY <1>3, <1>5, <1>12, MovesExchanged
<1>14. Types(q, n) /\ q[Other(x)] = p[Other(x)]
  BY <1>13 DEF Moves, Step
<1>15. Keys(q, srv)
  <2> DEFINE f == p[Other(x)]
  <2>1. p[x].ex = "none"
    BY <1>2, <1>6 DEF SameExchange
  <2>2. f \in Chat(fresh) /\ st[x] \in Chat(fresh)
    BY <1>1, <1>5, Sides DEF Types
  <2>3. f.id # fresh
    BY <1>1, <2>2, ChatFields
  <2>4. \A l : Said(f, p[x], l) => l.id # fresh
    <3>1. p[x].inbox = st[x].inbox
      BY <1>5 DEF IsPosted
    <3>2. ToSet(p[x].inbox) \subseteq Message(fresh) /\ ToSet(f.asked) \subseteq Message(fresh)
          /\ ToSet(f.out) \subseteq Message(fresh)
      BY <1>1, <2>2, <3>1, ChatFields, Elements
    <3>3. \A l \in Message(fresh) : l.id # fresh
      <4>1. ASSUME NEW l \in Message(fresh) PROVE l.id # fresh
        <5>1. l.id \in 0..(fresh - 1)
          BY <1>1, Fields
        <5> QED
          BY <1>1, <5>1
      <4> QED
        BY <4>1
    <3> QED
      BY <3>2, <3>3 DEF Said
  <2> QED
    BY <1>3, <1>5, <1>6, <1>13, <1>14, <2>1, <2>3, <2>4, KeysRequested
<1>16. Moves(n, q, t, x) /\ SameKeys(q[x], t[x]) /\ SameExchange(q[x], t[x]) /\ SameWay(q[x], t[x])
  <2>1. t = With(q, x, Noted(q[x], c.texts, c.requests + 1))
    BY <1>11
  <2> QED
    BY <1>3, <1>10, <1>14, <2>1, MovesNoted
<1>17. t[Other(x)] = q[Other(x)] /\ t[x].chat = q[x].chat
  BY <1>16 DEF Moves, Step, SameCount, SameLife
<1>18. Keys(t, srv)
  BY <1>3, <1>14, <1>15, <1>16, <1>17, KeysSame
<1> QED
  BY <1>2, <1>18 DEF t

\* x cannot send, or can again: nothing waits then.
LEMMA ReadyKeeps ==
    ASSUME Lasting, spoiled = {}, Keys(st, srv), NEW x \in Side, NEW q \in BOOLEAN,
           st' = [st EXCEPT ![x].ready = q], UNCHANGED srv, q => st[x].out = <<>>
    PROVE  Keys(st', srv')
<1> DEFINE n == fresh  t == st'  c == st[x]  e == t[x]
<1>1. n \in Nat /\ Types(st, n) /\ t = [st EXCEPT ![x].ready = q]
  BY DEF Lasting, Holds
<1> HIDE DEF n, t
<1>2. Step(n, st, t, x) /\ IsQueued(st[x], t[x], q, st[x].out, st[x].asked, st[x].inbox)
  BY <1>1, ReadyIs
<1>3. c.asked \in Seq(Message(n)) /\ c.inbox \in Seq(Message(n))
  BY <1>1, ChatFields DEF Types
<1>4. /\ SameKeys(c, e) /\ SameExchange(c, e) /\ e.chat = c.chat
      /\ e.asked = c.asked /\ e.inbox = c.inbox /\ e.out = c.out /\ e.ready = q
      /\ t[Other(x)] = st[Other(x)]
  BY <1>2 DEF IsQueued, SameLife, Step
<1>5. Kin(c.asked, e.asked) /\ Kin(c.inbox, e.inbox)
  BY <1>3, <1>4, KinIs
<1>6. Calm(c, e) /\ Quiet(c, e)
  BY <1>4, <1>5 DEF Calm, Quiet, Deaf, SameKeys
<1>7. Phase(t, srv)
  BY <1>4, <1>6, PhaseCalm DEF Keys
<1>8. Words(t)
  <2>1. Hush(c, e)
    BY <1>4 DEF Hush, NoNews
  <2> QED
    BY <1>4, <2>1, WordsHush DEF Keys, SameKeys
<1> QED
  BY <1>7, <1>8 DEF Keys, t

\* What waits is sent.
LEMMA FlushedKeeps ==
    ASSUME Lasting, Lasting', spoiled = {}, spoiled' = {}, Keys(st, srv), NEW x \in Side,
           st[x].out # <<>>, ~Overtakes(st, x), UNCHANGED <<srv, fresh>>,
           st' = WillSend([st EXCEPT ![x].out = Tail(@)], x, Head(st[x].out))
    PROVE  Keys(st', srv')
<1> DEFINE n == fresh  q == st[x].out  m == Head(q)  p == [st EXCEPT ![x].out = Tail(q)]  t == st'
<1>1. n \in Nat \ {0} /\ n \in Nat /\ Types(st, n) /\ Life(st, srv) /\ Silent(st)
  BY DEF Lasting, Holds, Living
<1>2. /\ q \in Seq(Message(n)) /\ q # <<>> /\ q = st[x].out
      /\ \A l \in ToSet(q) : l.type \in InChat
      /\ p = [st EXCEPT ![x].out = Tail(q)] /\ t = WillSend(p, x, m) /\ m = Head(q)
  BY <1>1, QueuesAre DEF QueuesOf, Fit
<1>3. t["alice"].fp # {} => t["bob"].fp # {}
  BY DEF Lasting, Holds, Living, Life, Keyed
<1>3a. Life(t, srv) /\ Silent(t)
  BY DEF Lasting, Holds, Living
<1> HIDE DEF n, q, m, p, t
<1>4. Tail(q) \in Seq(Message(n)) /\ m \in Message(n) /\ ToSet(q) = {m} \cup ToSet(Tail(q))
  BY <1>2, Rest
<1>5. m.type \in InChat /\ \A l \in ToSet(Tail(q)) : l.type \in InChat
  BY <1>2, <1>4
<1>6. Step(n, st, p, x) /\ IsQueued(st[x], p[x], st[x].ready, Tail(q), st[x].asked, st[x].inbox)
  BY <1>1, <1>2, <1>4, <1>5, OutIs
<1>7. Types(p, n) /\ p[Other(x)] = st[Other(x)] /\ p[x] \in Chat(n)
  BY <1>6 DEF Step, Types
<1>8. Types(t, n) /\ t[Other(x)] = p[Other(x)] /\ t[x] = Sent(p[x], m)
  <2>1. /\ n \in Nat \ {0} /\ Types(p, n) /\ x \in Side /\ m \in Message(n)
        /\ t = WillSend(p, x, m)
    BY <1>1, <1>2, <1>4, <1>7
  <2> QED
    BY <2>1, WillSendIs
<1>9. IsSent(p[x], t[x], m)
  BY <1>1, <1>4, <1>7, <1>8, SentIs
<1>10. st[x].ex = "committed" => m.type = "commit"
  BY <1>2 DEF Overtakes
<1>11. t[x].fp # {}
  <2>1. Has(t[x].asked, InChat)
    <3> DEFINE l == Sealed(m, p[x].key, p[x].fp)
    <3>1. t[x].asked = Append(p[x].asked, l)
      BY <1>9 DEF IsSent, Sealed
    <3>2. /\ p[x].asked \in Seq(Message(n)) /\ p[x].key \in SUBSET (0..(n - 1))
          /\ p[x].fp \in SUBSET (0..(n - 1))
      BY <1>1, <1>7, ChatFields
    <3>3. l \in Message(n) /\ l.type = m.type
      BY <1>1, <1>4, <3>2, SealedIs
    <3> HIDE DEF l
    <3> QED
      BY <1>5, <3>1, <3>2, <3>3, HasGrows
  <2>2. CASE x = "alice"
    BY <1>3a, <2>1, <2>2 DEF Silent
  <2>3. CASE x = "bob"
    <3>1. Has(t["bob"].asked, {"accept_chat"} \cup InChat)
      BY <2>1, <2>3 DEF Has
    <3> QED
      BY <1>3a, <2>3, <3>1 DEF Life, Acceptor
  <2> QED
    BY <2>2, <2>3 DEF Side
<1>12. t[Other(x)] = st[Other(x)] /\ m = Head(st[x].out) /\ st[x].out # <<>>
       /\ IsQueued(st[x], p[x], st[x].ready, Tail(st[x].out), st[x].asked, st[x].inbox)
  BY <1>2, <1>6, <1>7, <1>8
<1>13. Phase(t, srv)
  BY <1>1, <1>7, <1>9, <1>10, <1>11, <1>12, PhaseFlushed DEF Keys
<1>14. Words(t)
  BY <1>1, <1>7, <1>9, <1>12, WordsFlushed DEF Keys
<1> QED
  BY <1>13, <1>14 DEF Keys, t

\* A side can send again, and does.
LEMMA FlushKeeps ==
    ASSUME Lasting, Lasting', spoiled = {}, spoiled' = {}, Keys(st, srv), NEW x \in Side, Flush(x)
    PROVE  Keys(st', srv')
<1>1. CASE st[x].out = <<>>
  BY <1>1, ReadyKeeps DEF Flush
<1>2. CASE st[x].out # <<>>
  <2>1. ~Overtakes(st, x)
    BY <1>2 DEF Flush
  <2> QED
    BY <1>2, <2>1, FlushedKeeps DEF Flush
<1> QED
  BY <1>1, <1>2

\* A side asks the server for something more.
LEMMA CallKeeps ==
    ASSUME Lasting, Keys(st, srv), NEW x \in Side, NEW m \in Message(fresh), m.type \notin InChat,
           NEW e, OnlyAsks(st[x], e, Append(st[x].asked, m)),
           st' = [st EXCEPT ![x] = e], UNCHANGED srv
    PROVE  Keys(st', srv')
<1> DEFINE n == fresh  t == st'  q == Append(st[x].asked, m)
<1>1. n \in Nat /\ Types(st, n) /\ m \in Message(n) /\ t = [st EXCEPT ![x] = e]
  BY DEF Lasting, Holds
<1>2. OnlyAsks(st[x], e, q) /\ q = Append(st[x].asked, m) /\ t = st' /\ srv' = srv
  OBVIOUS
<1> HIDE DEF n, t, q
<1>3. t[x] = e /\ t[Other(x)] = st[Other(x)]
  BY <1>1, Sides DEF Types
<1>4. OnlyAsks(st[x], t[x], q)
  BY <1>2, <1>3
<1>5. \E l \in Message(n) : l.type \notin InChat /\ q = Append(st[x].asked, l)
  BY <1>1, <1>2
<1>6. Keys(t, srv)
  BY <1>1, <1>3, <1>4, <1>5, KeysAsks
<1> QED
  BY <1>2, <1>6

\* The chat is created.
LEMMA CreateKeeps ==
    ASSUME Lasting, spoiled = {}, Keys(st, srv), Create
    PROVE  Keys(st', srv')
<1> DEFINE c == st["alice"]  m == Msg("dh")  t == st'  q == <<m>>
           e == [c EXCEPT !.chat = "none", !.called = 1, !.wait.dh = 1, !.asked = q]
<1>0. PICK x \in Side : x = "alice"
  BY DEF Side
<1>1. fresh \in Nat \ {0} /\ Types(st, fresh) /\ fresh \in Nat /\ Roles(st, srv)
  BY DEF Lasting, Holds, Living, Life
<1>2. /\ c.chat = "absent" /\ c = st["alice"] /\ c \in Chat(fresh)
      /\ t = [st EXCEPT !["alice"].chat = "none", !["alice"].called = 1,
                        !["alice"].wait.dh = 1, !["alice"].asked = q]
      /\ UNCHANGED srv /\ t = st'
  BY <1>1 DEF Create, Types, Side
<1>3. m \in Message(fresh) /\ m.type = "dh" /\ m.type \notin InChat
  BY <1>1, MsgIs DEF Updates, InChat
<1>4. q = Append(c.asked, m)
  BY <1>1, <1>2 DEF Roles
<1>5. t = [st EXCEPT !["alice"] = e]
  <2>1. [st EXCEPT !["alice"].chat = "none", !["alice"].called = 1,
                   !["alice"].wait.dh = 1, !["alice"].asked = q] = [st EXCEPT !["alice"] = e]
    <3> HIDE DEF q
    <3> QED
      OBVIOUS
  <2> HIDE DEF t, e, q
  <2> QED
    BY <1>2, <2>1
<1> HIDE DEF c, m, t, q
<1>6. OnlyAsks(c, e, q)
  <2>1. e.key = c.key /\ e.fp = c.fp /\ e.ex = c.ex /\ e.id = c.id /\ e.exkey = c.exkey
        /\ e.inbox = c.inbox /\ e.out = c.out /\ e.ready = c.ready /\ e.asked = q /\ e.chat = "none"
    BY <1>2 DEF Chat
  <2> HIDE DEF e
  <2> QED
    BY <2>1 DEF OnlyAsks, SameKeys, SameExchange
<1> HIDE DEF e
<1>7. OnlyAsks(st[x], e, Append(st[x].asked, m)) /\ st' = [st EXCEPT ![x] = e]
  BY <1>0, <1>2, <1>4, <1>5, <1>6
<1> QED
  BY <1>2, <1>3, <1>7, CallKeeps

\* The chat is accepted: the parameters are asked for.
LEMMA AcceptKeeps ==
    ASSUME Lasting, spoiled = {}, Keys(st, srv), Accept
    PROVE  Keys(st', srv')
<1> DEFINE c == st["bob"]  m == Msg("dh")  t == st'  q == Append(c.asked, m)
           e == [c EXCEPT !.called = c.called + 1, !.wait.dh = c.wait.dh + 1, !.asked = q]
<1>0. PICK x \in Side : x = "bob"
  BY DEF Side
<1>1. fresh \in Nat \ {0} /\ Types(st, fresh)
  BY DEF Lasting, Holds
<1>2. c = st["bob"] /\ c \in Chat(fresh) /\ UNCHANGED srv /\ t = st' /\ t = [st EXCEPT !["bob"] = e]
      /\ q = Append(c.asked, m)
  BY <1>1 DEF Accept, Types, Side
<1>3. m \in Message(fresh) /\ m.type = "dh" /\ m.type \notin InChat
  BY <1>1, MsgIs DEF Updates, InChat
<1> HIDE DEF c, m, t, q
<1>6. OnlyAsks(c, e, q)
  <2>1. e.key = c.key /\ e.fp = c.fp /\ e.ex = c.ex /\ e.id = c.id /\ e.exkey = c.exkey
        /\ e.inbox = c.inbox /\ e.out = c.out /\ e.ready = c.ready /\ e.asked = q /\ e.chat = c.chat
    BY <1>2 DEF Chat
  <2> HIDE DEF e
  <2> QED
    BY <2>1 DEF OnlyAsks, SameKeys, SameExchange
<1> HIDE DEF e
<1>7. OnlyAsks(st[x], e, Append(st[x].asked, m)) /\ st' = [st EXCEPT ![x] = e]
  BY <1>0, <1>2, <1>6
<1> QED
  BY <1>2, <1>3, <1>7, CallKeeps

\* The chat is discarded: the server is told.
LEMMA DiscardKeeps ==
    ASSUME Lasting, spoiled = {}, Keys(st, srv), NEW x \in Side, Discard(x)
    PROVE  Keys(st', srv')
<1> DEFINE c == st[x]  m == Msg("discard")  t == st'  q == Append(c.asked, m)
           e == [c EXCEPT !.called = c.called + 1, !.wait.discard = c.wait.discard + 1,
                          !.left = TRUE, !.asked = q]
<1>1. fresh \in Nat \ {0} /\ Types(st, fresh)
  BY DEF Lasting, Holds
<1>2. c = st[x] /\ c \in Chat(fresh) /\ UNCHANGED srv /\ t = st' /\ t = [st EXCEPT ![x] = e]
      /\ q = Append(c.asked, m)
  BY <1>1 DEF Discard, Types
<1>3. m \in Message(fresh) /\ m.type = "discard" /\ m.type \notin InChat
  BY <1>1, MsgIs DEF Updates, InChat
<1> HIDE DEF c, m, t, q
<1>6. OnlyAsks(c, e, q)
  <2>1. e.key = c.key /\ e.fp = c.fp /\ e.ex = c.ex /\ e.id = c.id /\ e.exkey = c.exkey
        /\ e.inbox = c.inbox /\ e.out = c.out /\ e.ready = c.ready /\ e.asked = q /\ e.chat = c.chat
    BY <1>2 DEF Chat
  <2> HIDE DEF e
  <2> QED
    BY <2>1 DEF OnlyAsks, SameKeys, SameExchange
<1> HIDE DEF e
<1>7. OnlyAsks(st[x], e, Append(st[x].asked, m)) /\ st' = [st EXCEPT ![x] = e]
  BY <1>2, <1>6
<1> QED
  BY <1>2, <1>3, <1>7, CallKeeps

\* A query is given up: nothing is said in the chat.
LEMMA TimeoutKeeps ==
    ASSUME Lasting, spoiled = {}, Keys(st, srv), NEW kind, Timeout(kind)
    PROVE  Keys(st', srv')
<1> DEFINE n == fresh  t == st'
<1>0. PICK x \in Side : x = "alice"
  BY DEF Side
<1>1. n \in Nat \ {0} /\ n \in Nat /\ Types(st, n)
  BY DEF Lasting, Holds
<1>2. /\ kind \in Kinds /\ st[x].wait[kind] > 0 /\ srv' = srv
      /\ t = Told(Done(st, x, kind), x) /\ t = st'
  BY <1>0 DEF Timeout, Waits, GivenUp, Kinds
<1> HIDE DEF n, t
<1>3. /\ Types(t, n) /\ t[Other(x)] = st[Other(x)]
      /\ Ended(st[x], t[x], kind, st[x].chat)
  <2> DEFINE p == Told(Done(st, x, kind), x)
  <2>1. n \in Nat \ {0} /\ Types(st, n) /\ x \in Side /\ kind \in Kinds /\ st[x].wait[kind] > 0
    BY <1>1, <1>2
  <2>2. /\ Types(p, n) /\ p[Other(x)] = st[Other(x)]
        /\ Ended(st[x], p[x], kind, st[x].chat)
    BY <2>1, EndedAsIs
  <2>3. t = p
    BY <1>2
  <2> HIDE DEF p
  <2> QED
    BY <2>2, <2>3
<1>4. SameKeys(st[x], t[x]) /\ SameExchange(st[x], t[x]) /\ SameWay(st[x], t[x]) /\ t[x].chat = st[x].chat
  BY <1>3 DEF Ended
<1>5. Keys(t, srv)
  BY <1>1, <1>3, <1>4, KeysSame
<1> QED
  BY <1>2, <1>5

\* Until something has spoiled it, the sides agree about the keys, and what they
\* could not read was said under an older one.
Agreeing == spoiled = {} => Keys(st, srv) /\ Older(dropped)

\* Nothing has been said.
LEMMA InitAgrees == Init => Agreeing
<1> SUFFICES ASSUME Init PROVE Keys(st, srv) /\ Older(dropped)
  BY DEF Agreeing
<1>1. \A x \in Side : /\ st[x].fp = {} /\ st[x].ex = "none" /\ st[x].out = <<>>
                      /\ st[x].asked = <<>> /\ st[x].inbox = <<>>
  BY DEF Init
<1>2. ToSet(<<>>) = {}
  BY DEF ToSet
<1>3. Words(st)
  <2> SUFFICES ASSUME NEW x \in Side PROVE Speaks(st[x], st[Other(x)])
    BY DEF Words
  <2>1. \A m : ~Said(st[x], st[Other(x)], m)
    BY <1>1, <1>2, Sides DEF Said
  <2> QED
    BY <1>1, <2>1 DEF Speaks
<1>4. Phase(st, srv)
  <2>1. "alice" \in Side /\ "bob" \in Side
    BY DEF Side
  <2>2. Alone(st["alice"], st["bob"])
    BY <1>1, <1>2, <2>1 DEF Alone, Under, Commits, Has
  <2> QED
    BY <1>1, <2>1, <2>2 DEF Phase
<1>5. Older(dropped)
  BY DEF Init, Older
<1> QED
  BY <1>3, <1>4, <1>5 DEF Keys

\* Every step keeps the agreement.
LEMMA StepAgrees == Inductive /\ Inductive' /\ Agreeing /\ [Next]_vars => Agreeing'
<1> SUFFICES ASSUME Lasting, Server(srv, fresh), Lasting', Agreeing, [Next]_vars, spoiled' = {}
             PROVE  Keys(st', srv') /\ Older(dropped')
  BY DEF Inductive, Agreeing
<1>1. ASSUME NEW x \in Side, Read(x)
      PROVE  Keys(st', srv') /\ Older(dropped')
  <2>1. spoiled = {}
    BY <1>1 DEF Read, ReadUpdate, Drop, ReadMessage
  <2> QED
    BY <1>1, <2>1, ReadKeeps DEF Agreeing
<1>2. ASSUME NEW x \in Side, Flush(x)
      PROVE  Keys(st', srv') /\ Older(dropped')
  <2>1. spoiled = {} /\ dropped' = dropped
    BY <1>2 DEF Flush
  <2> QED
    BY <1>2, <2>1, FlushKeeps DEF Agreeing
<1>3. ASSUME NEW x \in Side, Serve(x)
      PROVE  Keys(st', srv') /\ Older(dropped')
  <2>1. spoiled = {} /\ dropped' = dropped
    BY <1>3 DEF Serve
  <2> QED
    BY <1>3, <2>1, ServeKeeps DEF Agreeing
<1>4. CASE Create
  <2>1. spoiled = {} /\ dropped' = dropped
    BY <1>4 DEF Create
  <2> QED
    BY <1>4, <2>1, CreateKeeps DEF Agreeing
<1>5. CASE Accept
  <2>1. spoiled = {} /\ dropped' = dropped
    BY <1>5 DEF Accept
  <2> QED
    BY <1>5, <2>1, AcceptKeeps DEF Agreeing
<1>6. ASSUME NEW x \in Side, Discard(x)
      PROVE  Keys(st', srv') /\ Older(dropped')
  <2>1. spoiled = {} /\ dropped' = dropped
    BY <1>6 DEF Discard
  <2> QED
    BY <1>6, <2>1, DiscardKeeps DEF Agreeing
<1>7. ASSUME NEW x \in Side, RequestKey(x)
      PROVE  Keys(st', srv') /\ Older(dropped')
  <2>1. spoiled = {} /\ dropped' = dropped
    BY <1>7 DEF RequestKey
  <2> QED
    BY <1>7, <2>1, RequestKeyKeeps DEF Agreeing
<1>8. ASSUME NEW x \in Side, Text(x)
      PROVE  Keys(st', srv') /\ Older(dropped')
  <2>1. spoiled = {} /\ dropped' = dropped
    BY <1>8 DEF Text
  <2> QED
    BY <1>8, <2>1, TextKeeps DEF Agreeing
<1>9. ASSUME NEW x \in Side, Unready(x)
      PROVE  Keys(st', srv') /\ Older(dropped')
  <2>1. /\ spoiled = {} /\ dropped' = dropped /\ UNCHANGED srv
        /\ st' = [st EXCEPT ![x].ready = FALSE]
    BY <1>9 DEF Unready
  <2>2. Keys(st, srv) /\ Older(dropped)
    BY <2>1 DEF Agreeing
  <2>3. Keys(st', srv')
    BY <2>1, <2>2, ReadyKeeps
  <2> QED
    BY <2>1, <2>2, <2>3
<1>10. ASSUME NEW x \in Side, Crash(x) \/ Late(x)
       PROVE  Keys(st', srv') /\ Older(dropped')
  BY <1>10 DEF Crash, Late
<1>11. ASSUME NEW kind \in {"dh", "request"}, Timeout(kind)
       PROVE  Keys(st', srv') /\ Older(dropped')
  <2>1. spoiled = {} /\ dropped' = dropped
    BY <1>11 DEF Timeout
  <2> QED
    BY <1>11, <2>1, TimeoutKeeps DEF Agreeing
<1>12. CASE UNCHANGED vars
  BY <1>12 DEF vars, Agreeing
<1> QED
  BY <1>1, <1>2, <1>3, <1>4, <1>5, <1>6, <1>7, <1>8, <1>9, <1>10, <1>11, <1>12 DEF Next, Progress

\* Of every state, as long as nothing has spoiled it: which keys the sides hold,
\* and under which they speak.
THEOREM AlwaysAgreeing == Spec => []Agreeing
<1>1. Init => Agreeing
  BY InitAgrees
<1>2. Inductive /\ Inductive' /\ Agreeing /\ [Next]_vars => Agreeing'
  BY StepAgrees
<1> QED
  BY <1>1, <1>2, AlwaysLasting, PTL DEF Spec

\* Two sides that have the chat open, with nothing under way and no exchange half
\* done, hold the same key (create_keys_end, process_messages), with the types.
THEOREM KeysAlwaysAgree == Spec => []KeysAgree
<1>1. Inductive /\ Agreeing => SameKey
  <2> SUFFICES ASSUME Lasting, Agreeing, spoiled = {},
                      \A x \in Side : st[x].chat = "ok" /\ st[x].ex \notin {"accepted", "committed"}
               PROVE  st["alice"].key = st["bob"].key
    BY DEF Inductive, SameKey
  <2> DEFINE a == st["alice"]  b == st["bob"]
  <2>1. Keyed(st, srv)
    BY DEF Lasting, Holds, Living, Life
  <2>2. a.fp # {}
    BY <2>1 DEF Keyed, Side
  <2>3. Both(a, b, srv)
    BY <2>2 DEF Agreeing, Keys, Phase
  <2>4. a.ex # "accepted" /\ b.ex # "accepted"
    BY DEF Side
  <2> QED
    BY <2>3, <2>4 DEF Both, Even, Turning
<1>2. TypeOK /\ SameKey => KeysAgree
  BY DEF KeysAgree
<1> QED
  BY <1>1, <1>2, AlwaysLasting, AlwaysAgreeing, TypesHold, PTL

\* Only its reader's newer key makes a message unreadable (assemble() and
\* will_send_query(): the commit goes out under the old key, what follows under
\* the new one).
THEOREM OnlyOldIsUnread == Spec => []Unread
<1>1. Agreeing => Unread
  BY DEF Agreeing, Older, Unread
<1> QED
  BY <1>1, AlwaysAgreeing, PTL

=============================================================================
