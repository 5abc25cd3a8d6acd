----------------------------- MODULE QueriesProofs -----------------------------
(***************************************************************************)
(* No query is forgotten or told twice, and none waits for a client that    *)
(* is ready: for any queries of any kind, any data centres, any faults and  *)
(* however many of them.  A step is a function of the user agent's state,   *)
(* put together of the functions of Queries: the lemmas say what each of    *)
(* these makes of a sound state.                                            *)
(***************************************************************************)
EXTENDS Queries, SequenceTheorems, WellFoundedInduction, TLAPS

-----------------------------------------------------------------------------
(* The inductive invariant                                                 *)

\* How a query may have ended.
Ends == {"no", "answered", "failed", "expired", "dropped"}

\* The types of a query and of a client.
QueryState ==
    [at : Client \cup {None}, active : BOOLEAN, timer : BOOLEAN, retry : BOOLEAN,
     kept : BOOLEAN, sess : BOOLEAN, end : Ends, ends : Nat]

\* The type of a client.
ClientState ==
    [session : BOOLEAN, up : BOOLEAN, known : BOOLEAN, configured : BOOLEAN, in : BOOLEAN,
     moving : BOOLEAN, leaving : Query \cup {None}, idle : BOOLEAN, pending : Seq(Query)]

\* The values of ua.
State ==
    [home : Client, stop : {"no", "logout", "null"},
     dc : [Client -> ClientState], q : [Query -> QueryState]]

\* What an end told the application of: one event, none if it was dropped.
Counted(f) ==
    /\ f.ends = IF f.end \in {"no", "dropped"} THEN 0 ELSE 1
    /\ f.at = None => f.end = "no"

\* The form of a state, after an assertion has failed too.
Typed(s) ==
    /\ s \in State
    /\ \A c \in Client :
         /\ s.dc[c].up => s.dc[c].session
         /\ IsInjective(s.dc[c].pending)
    /\ \A q \in Query : Counted(s.q[q])

\* Before it is executed nobody knows of the query.
Unused(f) == f.at = None => ~f.active /\ ~f.timer /\ ~f.retry /\ ~f.kept

\* What waits in a pending list is open, waits for this client and for nothing
\* else, and has a timer only if it is not sent again after a timeout.
Waits(s, q) ==
    \A c \in Client : q \in Pending(s, c) =>
        /\ s.q[q].at = c /\ s.q[q].end = "no" /\ ~s.q[q].active /\ ~s.q[q].retry
        /\ s.q[q].timer => Timed(q)

\* The query a client logs out with is an open logout query of this client, and
\* has left its pending list.
Leaves(s, q) ==
    \A c \in Client : s.dc[c].leaving = q =>
        /\ Kind[q] = "logout" /\ s.q[q].at = c /\ s.q[q].end = "no"
        /\ q \notin Pending(s, c)

\* An open query is in one of the places it is found at.
Found(s, q) ==
    Open(s, q) =>
        \/ q \in Pending(s, s.q[q].at)
        \/ s.q[q].retry /\ s.q[q].kept
        \/ s.q[q].active /\ s.q[q].timer

\* A timer that is left after the end finds nobody who holds the query.
Over(f) == f.end # "no" => ~f.active /\ ~f.retry /\ ~(f.timer /\ f.kept)

\* A query that is not sent again after a timeout is in the list of retried
\* queries only as long as its retry timer runs, and is not answered meanwhile.
RetriesOnce(f, q) ==
    Timed(q) /\ f.kept /\ f.end = "no" => f.retry /\ ~(f.active /\ f.sess)

\* All of this, of one query.
Good(s, q) ==
    /\ Unused(s.q[q]) /\ Waits(s, q) /\ Leaves(s, q)
    /\ Found(s, q) /\ Over(s.q[q]) /\ RetriesOnce(s.q[q], q)

\* The invariant of a state, for as long as the program has not been stopped.
Sound(s) == Typed(s) /\ (s.stop = "no" => \A q \in Query : Good(s, q))

\* The query waits for a client that is ready for it, or is one of the login
\* that waits elsewhere than at the active client.
Overdue(s, q) ==
    /\ Open(s, q)
    /\ \/ q \in Pending(s, s.q[q].at) /\ Ready(s, q)
       \/ Kind[q] = "login" /\ s.q[q].at # s.home

\* The invariant the steps preserve.
IInv ==
    /\ Sound(ua)
    /\ \A q \in asked : q \in Query /\ Kind[q] = "logout" /\ ua.q[q].at = None
    /\ Running => \A q \in Query : Overdue(ua, q) => q \in passed

-----------------------------------------------------------------------------
(* Steps                                                                   *)

\* A query is executed by the application only, and what it has heard of the
\* query stays so.
Later(s, t, q) ==
    /\ t.q[q].at = None <=> s.q[q].at = None
    /\ s.q[q].end \in {"answered", "failed", "expired"} => t.q[q].end = s.q[q].end

\* What a step makes of a sound state.
Result(s, t) ==
    /\ Sound(t)
    /\ \A q \in Query : Later(s, t, q)
    /\ t.stop = "no" => \A q \in Query : Overdue(t, q) => Overdue(s, q)

\* No client comes closer to being ready.
Lower(s, t) ==
    /\ t.home = s.home
    /\ \A c \in Client :
         /\ t.dc[c].up => s.dc[c].up
         /\ t.dc[c].configured => s.dc[c].configured
         /\ t.dc[c].in => s.dc[c].in

\* The query is where it was, its session excepted.
Same(s, t, q) ==
    /\ t.q[q] \in {s.q[q], [s.q[q] EXCEPT !.sess = FALSE]}
    /\ \A c \in Client :
         /\ q \in Pending(t, c) <=> q \in Pending(s, c)
         /\ t.dc[c].leaving = q <=> s.dc[c].leaving = q

-----------------------------------------------------------------------------
(* Lists                                                                   *)

\* RemoveFirst() takes the element away where it stands once.
LEMMA Removal ==
    ASSUME NEW S, NEW s \in Seq(S), NEW e \in S, IsInjective(s)
    PROVE  /\ RemoveFirst(s, e) \in Seq(S) /\ IsInjective(RemoveFirst(s, e))
           /\ ToSet(RemoveFirst(s, e)) = ToSet(s) \ {e}
<1>1. CASE ~\E i \in 1..Len(s) : s[i] = e
  BY <1>1 DEF RemoveFirst, ToSet
<1>2. CASE \E i \in 1..Len(s) : s[i] = e
  <2>1. PICK k \in 1..Len(s) : s[k] = e
    BY <1>2
  <2>2. {i \in 1..Len(s) : s[i] = e} = {k}
    BY <2>1 DEF IsInjective
  <2>3. Min({k}) = k
    BY <2>1 DEF Min
  <2>4. RemoveFirst(s, e) = RemoveAt(s, k)
    BY <1>2, <2>2, <2>3 DEF RemoveFirst, SelectInSeq
  <2> DEFINE n == Len(s)
             a == SubSeq(s, 1, k - 1)
             b == SubSeq(s, k + 1, n)
  <2>5. /\ n \in Nat /\ k \in 1..n /\ DOMAIN s = 1..n /\ \A i \in 1..n : s[i] \in S
    BY <2>1
  <2> HIDE DEF n
  <2>6. /\ a \in Seq(S) /\ Len(a) = k - 1 /\ \A i \in 1..k - 1 : a[i] = s[i]
    BY <2>5, SubSeqProperties
  <2>7. /\ b \in Seq(S) /\ Len(b) = n - k /\ \A i \in 1..n - k : b[i] = s[k + i]
    <3>1. /\ b \in Seq(S) /\ Len(b) = IF k + 1 <= n THEN n - (k + 1) + 1 ELSE 0
          /\ \A i \in 1..n - (k + 1) + 1 : b[i] = s[k + 1 + i - 1]
      <4>1. k + 1 \in Int /\ n \in Int /\ \A i \in k + 1..n : s[i] \in S
        BY <2>5
      <4> QED BY <4>1, SubSeqProperties
    <3>2. Len(b) = n - k
      <4>1. CASE k + 1 <= n
        BY <2>5, <3>1, <4>1
      <4>2. CASE ~(k + 1 <= n)
        <5>1. n = k
          BY <2>5, <4>2
        <5> QED
          BY <2>5, <3>1, <4>2, <5>1
      <4> QED
        BY <4>1, <4>2
    <3>3. ASSUME NEW i \in 1..n - k PROVE b[i] = s[k + i]
      <4>1. i \in 1..n - (k + 1) + 1 /\ k + 1 + i - 1 = k + i
        BY <2>5
      <4> QED BY <3>1, <4>1
    <3> QED
      BY <3>1, <3>2, <3>3
  <2> HIDE DEF a, b, n
  <2>8. /\ a \o b \in Seq(S) /\ Len(a \o b) = n - 1
        /\ \A i \in 1..n - 1 : (a \o b)[i] = IF i < k THEN s[i] ELSE s[i + 1]
    <3>1. /\ a \o b \in Seq(S) /\ Len(a \o b) = Len(a) + Len(b)
          /\ \A i \in 1..Len(a) + Len(b) :
                (a \o b)[i] = IF i <= Len(a) THEN a[i] ELSE b[i - Len(a)]
      BY <2>6, <2>7, ConcatProperties
    <3>2. ASSUME NEW i \in 1..n - 1
          PROVE  (a \o b)[i] = IF i < k THEN s[i] ELSE s[i + 1]
      <4>1. CASE i < k
        BY <2>5, <2>6, <2>7, <3>1, <4>1
      <4>2. CASE ~(i < k)
        <5>1. i - (k - 1) \in 1..n - k /\ k + (i - (k - 1)) = i + 1
          BY <2>5, <4>2
        <5> QED
          BY <2>5, <2>6, <2>7, <3>1, <4>2, <5>1
      <4> QED BY <4>1, <4>2
    <3> QED
      BY <2>5, <2>6, <2>7, <3>1, <3>2
  <2> DEFINE r == a \o b
  <2>9. r = RemoveFirst(s, e)
    BY <2>4 DEF RemoveAt, a, b, n
  <2>10. /\ r \in Seq(S) /\ DOMAIN r = 1..n - 1
         /\ \A i \in 1..n - 1 : r[i] = IF i < k THEN s[i] ELSE s[i + 1]
    BY <2>5, <2>8
  <2> HIDE DEF r
  <2>11. IsInjective(r)
    <3> SUFFICES ASSUME NEW i \in 1..n - 1, NEW j \in 1..n - 1, r[i] = r[j]
                 PROVE  i = j
      BY <2>10 DEF IsInjective
    <3> DEFINE at(h) == IF h < k THEN h ELSE h + 1
    <3>1. at(i) \in 1..n /\ at(j) \in 1..n /\ s[at(i)] = s[at(j)]
      BY <2>5, <2>10
    <3>2. at(i) = at(j)
      BY <2>5, <3>1 DEF IsInjective
    <3> QED
      BY <2>5, <3>2
  <2>12. ASSUME NEW x \in ToSet(r) PROVE x \in ToSet(s) \ {e}
    <3>1. PICK i \in 1..n - 1 : x = r[i]
      BY <2>10 DEF ToSet
    <3>2. CASE i < k
      BY <2>1, <2>5, <2>10, <3>1, <3>2 DEF ToSet, IsInjective
    <3>3. CASE ~(i < k)
      <4>1. i + 1 \in 1..n /\ i + 1 # k /\ x = s[i + 1]
        BY <2>5, <2>10, <3>1, <3>3
      <4> QED BY <2>1, <2>5, <4>1 DEF ToSet, IsInjective
    <3> QED BY <3>2, <3>3
  <2>13. ASSUME NEW x \in ToSet(s) \ {e} PROVE x \in ToSet(r)
    <3>1. PICK i \in 1..n : x = s[i] /\ i # k
      BY <2>1, <2>5 DEF ToSet
    <3>2. CASE i < k
      BY <2>5, <2>10, <3>1, <3>2 DEF ToSet
    <3>3. CASE ~(i < k)
      <4>1. i - 1 \in 1..n - 1 /\ r[i - 1] = s[i]
        BY <2>5, <2>10, <3>1, <3>3
      <4> QED BY <2>10, <3>1, <4>1 DEF ToSet
    <3> QED BY <3>2, <3>3
  <2> QED
    BY <2>9, <2>10, <2>11, <2>12, <2>13
<1> QED
  BY <1>1, <1>2

\* Append() puts another one into a list.
LEMMA Appending ==
    ASSUME NEW S, NEW s \in Seq(S), NEW e \in S
    PROVE  /\ Append(s, e) \in Seq(S)
           /\ ToSet(Append(s, e)) = ToSet(s) \cup {e}
           /\ IsInjective(s) /\ e \notin ToSet(s) => IsInjective(Append(s, e))
<1> DEFINE n == Len(s)
           r == Append(s, e)
<1>1. /\ n \in Nat /\ DOMAIN s = 1..n /\ \A i \in 1..n : s[i] \in S
  OBVIOUS
<1>2. /\ r \in Seq(S) /\ DOMAIN r = 1..n + 1 /\ r[n + 1] = e
      /\ \A i \in 1..n : r[i] = s[i]
  BY AppendProperties
<1> HIDE DEF n, r
<1>3. ToSet(r) = ToSet(s) \cup {e}
  BY <1>1, <1>2 DEF ToSet
<1>4. ASSUME IsInjective(s), e \notin ToSet(s), NEW i \in 1..n + 1, NEW j \in 1..n + 1,
             r[i] = r[j]
      PROVE  i = j
  <2>1. \A k \in 1..n : r[k] # e
    BY <1>1, <1>2, <1>4 DEF ToSet
  <2>2. CASE i = n + 1 \/ j = n + 1
    BY <1>1, <1>2, <1>4, <2>1, <2>2
  <2>3. CASE i \in 1..n /\ j \in 1..n
    BY <1>1, <1>2, <1>4, <2>3 DEF IsInjective
  <2> QED
    BY <1>1, <2>2, <2>3
<1> QED
  BY <1>2, <1>3, <1>4 DEF IsInjective, r

-----------------------------------------------------------------------------
(* A query that a step leaves alone                                        *)

\* It stays good, and does not become overdue.
LEMMA SameKeeps ==
    ASSUME NEW s \in State, NEW t \in State, Lower(s, t), NEW q \in Query, Same(s, t, q)
    PROVE  /\ Good(s, q) => Good(t, q)
           /\ Counted(s.q[q]) => Counted(t.q[q])
           /\ Later(s, t, q)
           /\ Typed(s) /\ Overdue(t, q) => Overdue(s, q)
<1>1. /\ t.q[q].at = s.q[q].at /\ t.q[q].active = s.q[q].active
      /\ t.q[q].timer = s.q[q].timer /\ t.q[q].retry = s.q[q].retry
      /\ t.q[q].kept = s.q[q].kept /\ t.q[q].end = s.q[q].end /\ t.q[q].ends = s.q[q].ends
      /\ t.q[q].sess => s.q[q].sess
      /\ s.q[q].at \in Client \cup {None}
  BY DEF Same, State, QueryState
<1>2. \A c \in Client : q \in Pending(t, c) <=> q \in Pending(s, c)
  BY DEF Same
<1>3. \A c \in Client : t.dc[c].leaving = q <=> s.dc[c].leaving = q
  BY DEF Same
<1>4. ASSUME Good(s, q)
      PROVE  Good(t, q)
  <2>1. Unused(t.q[q]) /\ Over(t.q[q]) /\ RetriesOnce(t.q[q], q)
    BY <1>1, <1>4, Zenon DEF Good, Unused, Over, RetriesOnce
  <2>2. Waits(t, q)
    BY <1>1, <1>2, <1>4, Zenon DEF Good, Waits
  <2>3. Leaves(t, q)
    BY <1>1, <1>2, <1>3, <1>4, Zenon DEF Good, Leaves
  <2>4. Found(t, q)
    BY <1>1, <1>2, <1>4 DEF Good, Found, Open
  <2> QED
    BY <2>1, <2>2, <2>3, <2>4 DEF Good
<1>5. ASSUME Typed(s), Overdue(t, q)
      PROVE  Overdue(s, q)
  <2> DEFINE c == s.q[q].at
  <2>1. c \in Client /\ Open(s, q)
    BY <1>1, <1>5 DEF Overdue, Open
  <2>2. Ready(t, q) => Ready(s, q)
    BY <1>1, <1>5, <2>1 DEF Ready, Lower, Typed
  <2> QED
    BY <1>1, <1>2, <1>5, <2>1, <2>2 DEF Overdue, Lower
<1> QED
  BY <1>1, <1>4, <1>5 DEF Counted, Later

\* What is ahead of a query that nobody has executed: nothing stands in its way.
LEMMA Untouched ==
    ASSUME NEW s \in State, NEW q \in Query, Good(s, q), s.q[q].at = None
    PROVE  /\ ~s.q[q].active /\ ~s.q[q].timer /\ ~s.q[q].retry /\ ~s.q[q].kept
           /\ \A c \in Client : q \notin Pending(s, c) /\ s.dc[c].leaving # q
BY QueriesAssumption DEF Good, Unused, Waits, Leaves

-----------------------------------------------------------------------------
(* The functions on a state                                                *)

\* Stopping the timers of a query changes nothing but these timers.
LEMMA QuietFields ==
    ASSUME NEW s \in State, NEW q \in Query
    PROVE  /\ Quiet(s, q) \in State
           /\ Quiet(s, q).home = s.home /\ Quiet(s, q).stop = s.stop /\ Quiet(s, q).dc = s.dc
           /\ Quiet(s, q).q = [s.q EXCEPT ![q] = [@ EXCEPT !.timer = FALSE, !.retry = FALSE]]
<1> DEFINE f == [s.q[q] EXCEPT !.timer = FALSE, !.retry = FALSE]
<1>1. f \in QueryState
  BY DEF State, QueryState
<1>2. Quiet(s, q) = [s EXCEPT !.q = [@ EXCEPT ![q] = f]]
  BY DEF Quiet, State
<1> HIDE DEF f
<1>3. /\ Quiet(s, q) \in State
      /\ Quiet(s, q).home = s.home /\ Quiet(s, q).stop = s.stop /\ Quiet(s, q).dc = s.dc
      /\ Quiet(s, q).q = [s.q EXCEPT ![q] = f]
  BY <1>1, <1>2 DEF State
<1> QED
  BY <1>3 DEF f

\* The clients of t are those of s, but for their cleanup timers.
Idled(s, t) ==
    \A c \in Client : \E b \in BOOLEAN : t.dc[c] = [s.dc[c] EXCEPT !.idle = b]

\* A cleanup timer may be set either way.
LEMMA IdleClient ==
    ASSUME NEW d \in ClientState, NEW b \in BOOLEAN
    PROVE  [d EXCEPT !.idle = b] \in ClientState
BY DEF ClientState

\* A query that is no longer active leaves nothing else behind than a cleanup
\* timer.
LEMMA InactiveFields ==
    ASSUME NEW s \in State, NEW q \in Query
    PROVE  /\ Inactive(s, q) \in State
           /\ Inactive(s, q).home = s.home /\ Inactive(s, q).stop = s.stop
           /\ Idled(s, Inactive(s, q))
           /\ Inactive(s, q).q = [s.q EXCEPT ![q] = [@ EXCEPT !.active = FALSE]]
<1> DEFINE c == s.q[q].at
<1>1. CASE ~s.q[q].active
  <2>1. Inactive(s, q) = s
    BY <1>1 DEF Inactive
  <2>2. s.q = [s.q EXCEPT ![q] = [@ EXCEPT !.active = FALSE]]
    BY <1>1 DEF State, QueryState
  <2>3. Idled(s, s)
    BY DEF Idled, State, ClientState
  <2> QED
    BY <2>1, <2>2, <2>3
<1>2. CASE s.q[q].active
  <2> DEFINE b == s.dc[c].idle \/ (Active(s, c) = {q} /\ Pending(s, c) = {} /\ c # s.home)
             D == [s.dc EXCEPT ![c] = [@ EXCEPT !.idle = b]]
             f == [s.q[q] EXCEPT !.active = FALSE]
             Q == [s.q EXCEPT ![q] = f]
  <2>1. Inactive(s, q) = [s EXCEPT !.q = Q, !.dc = D]
    BY <1>2 DEF Inactive, State
  <2>2. Q \in [Query -> QueryState]
    <3>1. s.q \in [Query -> QueryState] /\ s.q[q] \in QueryState
      BY DEF State
    <3>2. f \in QueryState
      BY <3>1 DEF QueryState
    <3> HIDE DEF f
    <3> QED
      BY <3>1, <3>2
  <2>3. /\ D \in [Client -> ClientState]
        /\ \A d \in Client : \E x \in BOOLEAN : D[d] = [s.dc[d] EXCEPT !.idle = x]
    <3>1. b \in BOOLEAN
      OBVIOUS
    <3> HIDE DEF b
    <3>2. ASSUME NEW d \in Client
          PROVE  s.dc[d] = [s.dc[d] EXCEPT !.idle = s.dc[d].idle] /\ s.dc[d].idle \in BOOLEAN
      BY DEF State, ClientState
    <3>3. D \in [Client -> ClientState]
      <4>1. ASSUME c \in Client
            PROVE  [s.dc[c] EXCEPT !.idle = b] \in ClientState
        <5>1. s.dc[c] \in ClientState
          BY <4>1 DEF State
        <5> QED
          BY <3>1, <5>1, IdleClient
      <4> QED
        BY <4>1 DEF State
    <3>4. \A d \in Client : D[d] = IF d = c THEN [s.dc[d] EXCEPT !.idle = b] ELSE s.dc[d]
      BY DEF State
    <3> QED
      BY <3>1, <3>2, <3>3, <3>4
  <2> HIDE DEF D, Q
  <2>4. /\ Inactive(s, q) \in State
        /\ Inactive(s, q).home = s.home /\ Inactive(s, q).stop = s.stop
        /\ Inactive(s, q).q = Q /\ Inactive(s, q).dc = D
    BY <2>1, <2>2, <2>3 DEF State
  <2> QED
    BY <2>3, <2>4 DEF Idled, Q
<1> QED
  BY <1>1, <1>2

-----------------------------------------------------------------------------
(* Sessions that are lost or made anew                                     *)

\* A client that comes no closer to being ready, with the same queries.
Lowered(d, e) ==
    /\ e.pending = d.pending /\ e.leaving = d.leaving
    /\ e.up => d.up /\ e.session
    /\ e.configured => d.configured
    /\ e.in => d.in

\* Nothing else happens to the clients and the queries.
Subsides(s, t) ==
    /\ t \in State /\ t.home = s.home /\ t.stop = s.stop
    /\ \A c \in Client : Lowered(s.dc[c], t.dc[c])
    /\ \A q \in Query : t.q[q] \in {s.q[q], [s.q[q] EXCEPT !.sess = FALSE]}

\* What subsides stays typed, and treats every query as it was.
LEMMA SubsidesKeeps ==
    ASSUME NEW s, Typed(s), NEW t, Subsides(s, t)
    PROVE  Typed(t) /\ Lower(s, t) /\ \A q \in Query : Same(s, t, q)
<1>1. s \in State /\ t \in State /\ Lower(s, t)
  BY DEF Typed, Subsides, Lowered, Lower
<1>2. ASSUME NEW q \in Query
      PROVE  Same(s, t, q)
  BY DEF Subsides, Lowered, Same, Pending
<1>3. ASSUME NEW q \in Query
      PROVE  Counted(t.q[q])
  BY <1>1, <1>2, SameKeeps DEF Typed
<1> QED
  BY <1>1, <1>2, <1>3 DEF Typed, Subsides, Lowered

\* It is sound to lose or to make a session.
LEMMA SubsidesResult ==
    ASSUME NEW s, Sound(s), NEW t, Subsides(s, t)
    PROVE  Result(s, t)
<1>1. /\ Typed(s) /\ Typed(t) /\ Lower(s, t) /\ t.stop = s.stop
      /\ \A q \in Query : Same(s, t, q)
  BY SubsidesKeeps DEF Sound, Subsides
<1> QED
  BY <1>1, SameKeeps DEF Sound, Result, Typed

\* Lowering one client, with its queries parted from its session or not,
\* subsides.
LEMMA ClientSubsides ==
    ASSUME NEW s, Typed(s), NEW c \in Client, NEW e \in ClientState, Lowered(s.dc[c], e),
           NEW Q, Q \in {s.q, Parted(s, c)},
           NEW t, t = [s EXCEPT !.dc = [@ EXCEPT ![c] = e], !.q = Q]
    PROVE  Subsides(s, t)
<1> DEFINE D == [s.dc EXCEPT ![c] = e]
<1>1. s \in State /\ D \in [Client -> ClientState]
  BY DEF Typed, State
<1>2. ASSUME NEW q \in Query
      PROVE  [s.q[q] EXCEPT !.sess = FALSE] \in QueryState /\ s.q[q] \in QueryState
  <2>1. s.q[q] \in QueryState
    BY <1>1 DEF State
  <2> QED
    BY <2>1 DEF QueryState
<1>3. /\ Q \in [Query -> QueryState]
      /\ \A q \in Query : Q[q] \in {s.q[q], [s.q[q] EXCEPT !.sess = FALSE]}
  BY <1>1, <1>2 DEF Parted, State
<1>4. /\ t \in State /\ t.home = s.home /\ t.stop = s.stop /\ t.dc = D /\ t.q = Q
  BY <1>1, <1>3 DEF State
<1>5. \A d \in Client : D[d] = IF d = c THEN e ELSE s.dc[d]
  BY <1>1 DEF State
<1> HIDE DEF D
<1>6. \A d \in Client : Lowered(s.dc[d], t.dc[d])
  BY <1>4, <1>5 DEF Lowered, Typed
<1> QED
  BY <1>3, <1>4, <1>6 DEF Subsides

\* Subsiding twice is subsiding.
LEMMA SubsidesTrans ==
    ASSUME NEW s, Typed(s), NEW t, Subsides(s, t), NEW u, Subsides(t, u)
    PROVE  Subsides(s, u)
<1>1. \A c \in Client : Lowered(s.dc[c], u.dc[c])
  BY DEF Subsides, Lowered
<1>2. ASSUME NEW q \in Query
      PROVE  u.q[q] \in {s.q[q], [s.q[q] EXCEPT !.sess = FALSE]}
  BY DEF Subsides, Typed, State, QueryState
<1> QED
  BY <1>1, <1>2 DEF Subsides

\* Doing nothing is subsiding.
LEMMA SubsidesRefl ==
    ASSUME NEW s, Typed(s)
    PROVE  Subsides(s, s)
BY DEF Subsides, Lowered, Typed

\* restart_session(), create_session().
LEMMA StartedSubsides ==
    ASSUME NEW s, Typed(s), NEW c \in Client
    PROVE  Subsides(s, Restarted(s, c)) /\ Subsides(s, WithSession(s, c))
<1> DEFINE e == [s.dc[c] EXCEPT !.session = TRUE, !.up = FALSE]
           P == Parted(s, c)
<1>1. s.dc[c] \in ClientState
  BY DEF Typed, State
<1>2. e \in ClientState /\ Lowered(s.dc[c], e)
  BY <1>1 DEF ClientState, Lowered
<1>3. Restarted(s, c) = [s EXCEPT !.dc = [@ EXCEPT ![c] = e], !.q = P]
  BY DEF Restarted, Typed, State
<1>4. P \in {s.q, Parted(s, c)}
  OBVIOUS
<1> HIDE DEF e, P
<1>5. Subsides(s, Restarted(s, c))
  BY <1>2, <1>3, <1>4, ClientSubsides
<1> QED
  BY <1>5, SubsidesRefl DEF WithSession

\* A client's session.
LEMMA SessionSubsides ==
    ASSUME NEW s, Typed(s), NEW c \in Client
    PROVE  /\ Subsides(s, Restarted(s, c)) /\ Subsides(s, WithSession(s, c))
           /\ Subsides(s, Cleared(s, c)) /\ Subsides(s, Moving(s, c))
           /\ Subsides(s, Rekeyed(s, c))
<1> DEFINE d == s.dc[c]
           P == Parted(s, c)
<1>1. d \in ClientState
  BY DEF Typed, State
<1>3. Subsides(s, Restarted(s, c)) /\ Subsides(s, WithSession(s, c))
  BY StartedSubsides
<1>4. Subsides(s, Cleared(s, c))
  <2> DEFINE e == [d EXCEPT !.session = FALSE, !.up = FALSE]
  <2>1. e \in ClientState /\ Lowered(d, e)
    BY <1>1 DEF ClientState, Lowered
  <2>2. Cleared(s, c) = [s EXCEPT !.dc = [@ EXCEPT ![c] = e], !.q = P]
    BY DEF Cleared, Typed, State
  <2> HIDE DEF e
  <2>3. P \in {s.q, Parted(s, c)}
    OBVIOUS
  <2> HIDE DEF P
  <2> QED
    BY <2>1, <2>2, <2>3, ClientSubsides
<1>5. Subsides(s, Moving(s, c))
  <2> DEFINE e == [d EXCEPT !.moving = TRUE]
  <2>1. e \in ClientState /\ Lowered(d, e)
    BY <1>1 DEF ClientState, Lowered, Typed
  <2>2. Moving(s, c) = [s EXCEPT !.dc = [@ EXCEPT ![c] = e], !.q = s.q]
    BY DEF Moving, Typed, State
  <2> HIDE DEF e
  <2> QED
    BY <2>1, <2>2, ClientSubsides
<1>6. Subsides(s, Rekeyed(s, c))
  <2> DEFINE e == [d EXCEPT !.configured = FALSE]
             r == [s EXCEPT !.dc[c].configured = FALSE]
  <2>1. e \in ClientState /\ Lowered(d, e)
    BY <1>1 DEF ClientState, Lowered, Typed
  <2>2. r = [s EXCEPT !.dc = [@ EXCEPT ![c] = e], !.q = s.q]
    BY DEF Typed, State
  <2>3. Subsides(s, r)
    <3> HIDE DEF e, r
    <3> QED
      BY <2>1, <2>2, ClientSubsides
  <2>4. Rekeyed(s, c) = WithSession(r, c)
    BY DEF Rekeyed
  <2> HIDE DEF r
  <2>5. Typed(r)
    BY <2>3, SubsidesKeeps
  <2>6. Subsides(r, WithSession(r, c))
    BY <2>5, StartedSubsides
  <2> QED
    BY <2>3, <2>4, <2>6, SubsidesTrans
<1> QED
  BY <1>3, <1>4, <1>5, <1>6

-----------------------------------------------------------------------------
(* The ends of a query                                                     *)

\* A query that has been told of its end once more.
EndedQuery(f, how) == [f EXCEPT !.end = how, !.ends = f.ends + 1]

\* Ending a query changes nothing but the query.
LEMMA EndedFields ==
    ASSUME NEW s \in State, NEW q \in Query, NEW how \in Ends
    PROVE  /\ Ended(s, q, how) \in State
           /\ Ended(s, q, how).home = s.home /\ Ended(s, q, how).stop = s.stop
           /\ Ended(s, q, how).dc = s.dc
           /\ Ended(s, q, how).q = [s.q EXCEPT ![q] = EndedQuery(s.q[q], how)]
<1> DEFINE f == EndedQuery(s.q[q], how)
           t == Ended(s, q, how)
<1>1. s.q[q] \in QueryState
  BY DEF State
<1>2. f \in QueryState
  <2>1. s.q[q].ends + 1 \in Nat
    BY <1>1 DEF QueryState
  <2> QED
    BY <1>1, <2>1 DEF QueryState, EndedQuery
<1>3. t = [s EXCEPT !.q = [@ EXCEPT ![q] = f]]
  BY DEF Ended, State, EndedQuery
<1> HIDE DEF f, t
<1>4. /\ t \in State /\ t.home = s.home /\ t.stop = s.stop /\ t.dc = s.dc
      /\ t.q = [s.q EXCEPT ![q] = f]
  BY <1>2, <1>3 DEF State
<1> QED
  BY <1>4 DEF f, t

\* The query in the list of retried ones; a dropped one is open again.
RetriedQuery(f) ==
    [f EXCEPT !.retry = TRUE, !.kept = TRUE, !.end = IF @ = "dropped" THEN "no" ELSE @]

\* A retry changes nothing but the query and cleanup timers.
LEMMA RetriedFields ==
    ASSUME NEW s \in State, NEW q \in Query
    PROVE  /\ Retried(s, q) \in State
           /\ Retried(s, q).home = s.home /\ Retried(s, q).stop = s.stop
           /\ Retried(s, q).dc = s.dc
           /\ Retried(s, q).q = [s.q EXCEPT ![q] = RetriedQuery(s.q[q])]
<1> DEFINE f == RetriedQuery(s.q[q])
           t == Retried(s, q)
<1>1. s.q[q] \in QueryState
  BY DEF State
<1>2. f \in QueryState
  BY <1>1 DEF QueryState, RetriedQuery, Ends
<1>3. t = [s EXCEPT !.q = [@ EXCEPT ![q] = f]]
  BY DEF Retried, State, RetriedQuery
<1> HIDE DEF f, t
<1>4. /\ t \in State /\ t.home = s.home /\ t.stop = s.stop /\ t.dc = s.dc
      /\ t.q = [s.q EXCEPT ![q] = f]
  BY <1>2, <1>3 DEF State
<1> QED
  BY <1>4 DEF f, t

\* The query that is taken from the active ones and whose timers are cleared.
LEMMA SilentFields ==
    ASSUME NEW s \in State, NEW q \in Query
    PROVE  LET t == Inactive(Quiet(s, q), q)
           IN  /\ t \in State /\ t.home = s.home /\ t.stop = s.stop
               /\ Idled(s, t)
               /\ t.q = [s.q EXCEPT ![q] = [@ EXCEPT !.timer = FALSE, !.retry = FALSE,
                                                     !.active = FALSE]]
<1> DEFINE r == Quiet(s, q)
           f == [s.q[q] EXCEPT !.timer = FALSE, !.retry = FALSE]
<1>1. /\ r \in State /\ r.home = s.home /\ r.stop = s.stop /\ r.dc = s.dc
      /\ r.q = [s.q EXCEPT ![q] = f]
  BY QuietFields
<1>2. r.q[q] = f
  BY <1>1 DEF State
<1> HIDE DEF r
<1> DEFINE t == Inactive(r, q)
<1>3. /\ t \in State /\ t.home = r.home /\ t.stop = r.stop /\ Idled(r, t)
      /\ t.q = [r.q EXCEPT ![q] = [@ EXCEPT !.active = FALSE]]
  BY <1>1, InactiveFields
<1> HIDE DEF t
<1>4. t.q = [s.q EXCEPT ![q] = [f EXCEPT !.active = FALSE]]
  BY <1>1, <1>2, <1>3 DEF State
<1>5. Idled(s, t)
  BY <1>1, <1>3 DEF Idled
<1> QED
  BY <1>1, <1>3, <1>4, <1>5 DEF t, r

\* The clients of t are those of s, but for their cleanup timers, and c logs out
\* no more.
GivenUp(s, t, c) ==
    \A d \in Client : \E b \in BOOLEAN :
        t.dc[d] = [s.dc[d] EXCEPT !.idle = b,
                                  !.leaving = IF d = c THEN None ELSE s.dc[d].leaving]

\* A query dropped by a logout.
DroppedQuery(f) ==
    [f EXCEPT !.timer = FALSE, !.retry = FALSE, !.active = FALSE, !.end = "dropped"]

\* NotLeaving() at a client that logs out: its query is dropped.
LEMMA NotLeavingFields ==
    ASSUME NEW s \in State, NEW c \in Client, NEW l \in Query, s.dc[c].leaving = l
    PROVE  LET t == NotLeaving(s, c)
           IN  /\ t \in State /\ t.home = s.home /\ t.stop = s.stop
               /\ GivenUp(s, t, c)
               /\ t.q = [s.q EXCEPT ![l] = DroppedQuery(s.q[l])]
<1> DEFINE r == Inactive(Quiet(s, l), l)
           f == [s.q[l] EXCEPT !.timer = FALSE, !.retry = FALSE, !.active = FALSE]
           t == NotLeaving(s, c)
<1>1. /\ r \in State /\ r.home = s.home /\ r.stop = s.stop /\ Idled(s, r)
      /\ r.q = [s.q EXCEPT ![l] = f]
  BY SilentFields
<1>2. t = [r EXCEPT !.dc[c].leaving = None, !.q[l].end = "dropped"]
  BY QueriesAssumption DEF NotLeaving
<1> HIDE DEF r, t
<1> DEFINE e == [r.dc[c] EXCEPT !.leaving = None]
           g == [r.q[l] EXCEPT !.end = "dropped"]
           D == [r.dc EXCEPT ![c] = e]
           Q == [r.q EXCEPT ![l] = g]
<1>3. D \in [Client -> ClientState]
  <2>1. r.dc[c] \in ClientState
    BY <1>1 DEF State
  <2>2. e \in ClientState
    BY <2>1 DEF ClientState
  <2> QED
    BY <1>1, <2>2 DEF State
<1>4. Q \in [Query -> QueryState]
  <2>1. r.q[l] \in QueryState
    BY <1>1 DEF State
  <2>2. g \in QueryState
    BY <2>1 DEF QueryState, Ends
  <2> QED
    BY <1>1, <2>2 DEF State
<1>5. t = [r EXCEPT !.dc = D, !.q = Q]
  BY <1>1, <1>2 DEF State
<1>6. Q = [s.q EXCEPT ![l] = DroppedQuery(s.q[l])]
  <2>1. r.q[l] = f
    BY <1>1 DEF State
  <2>2. Q = [s.q EXCEPT ![l] = g]
    BY <1>1 DEF State
  <2> QED
    BY <2>1, <2>2 DEF DroppedQuery
<1>7. \A d \in Client : \E b \in BOOLEAN :
         D[d] = [s.dc[d] EXCEPT !.idle = b, !.leaving = IF d = c THEN None ELSE s.dc[d].leaving]
  <2> TAKE d \in Client
  <2>1. PICK b \in BOOLEAN : r.dc[d] = [s.dc[d] EXCEPT !.idle = b]
    BY <1>1 DEF Idled
  <2>2. D[d] = IF d = c THEN [r.dc[d] EXCEPT !.leaving = None] ELSE r.dc[d]
    BY <1>1 DEF State
  <2>3. s.dc[d] \in ClientState
    BY DEF State
  <2>4. D[d] = [s.dc[d] EXCEPT !.idle = b, !.leaving = IF d = c THEN None ELSE s.dc[d].leaving]
    BY <2>1, <2>2, <2>3 DEF ClientState
  <2> QED
    BY <2>4
<1> HIDE DEF D, Q
<1>8. /\ t \in State /\ t.home = s.home /\ t.stop = s.stop /\ t.dc = D /\ t.q = Q
  BY <1>1, <1>3, <1>4, <1>5 DEF State
<1>9. GivenUp(s, t, c)
  BY <1>7, <1>8 DEF GivenUp
<1> QED
  BY <1>6, <1>8, <1>9 DEF t

\* The other queries stay where they are, and the dropped one is a sound end.
LEMMA NotLeavingKeeps ==
    ASSUME NEW s, Typed(s), NEW c \in Client, NEW l \in Query, s.dc[c].leaving = l,
           s.q[l].end = "no", s.q[l].at = c,
           \A d \in Client : s.dc[d].leaving = l => d = c,
           \A d \in Client : l \notin Pending(s, d)
    PROVE  LET t == NotLeaving(s, c)
           IN  /\ Typed(t) /\ Lower(s, t) /\ t.stop = s.stop
               /\ \A d \in Client : t.dc[d].pending = s.dc[d].pending
               /\ t.dc[c].leaving = None
               /\ \A r \in Query : r # l => Same(s, t, r) /\ t.q[r] = s.q[r]
               /\ t.q[l].end = "dropped" /\ t.q[l].ends = 0 /\ t.q[l].at = c
               /\ t.q[l].kept = s.q[l].kept
               /\ ~t.q[l].active /\ ~t.q[l].retry /\ ~t.q[l].timer
               /\ \A d \in Client : t.dc[d].leaving # l
               /\ Good(t, l) /\ Later(s, t, l) /\ ~Overdue(t, l)
<1> DEFINE t == NotLeaving(s, c)
<1>1. s \in State
  BY DEF Typed
<1>2. /\ t \in State /\ t.home = s.home /\ t.stop = s.stop
      /\ GivenUp(s, t, c)
      /\ t.q = [s.q EXCEPT ![l] = DroppedQuery(s.q[l])]
  BY <1>1, NotLeavingFields
<1> HIDE DEF t
<1>3. ASSUME NEW d \in Client
      PROVE  /\ t.dc[d].pending = s.dc[d].pending
             /\ t.dc[d].leaving = IF d = c THEN None ELSE s.dc[d].leaving
             /\ t.dc[d].up = s.dc[d].up /\ t.dc[d].session = s.dc[d].session
             /\ t.dc[d].configured = s.dc[d].configured /\ t.dc[d].in = s.dc[d].in
  <2>1. PICK b \in BOOLEAN :
           t.dc[d] = [s.dc[d] EXCEPT !.idle = b,
                                     !.leaving = IF d = c THEN None ELSE s.dc[d].leaving]
    BY <1>2 DEF GivenUp
  <2>2. s.dc[d] \in ClientState
    BY <1>1 DEF State
  <2> QED
    BY <2>1, <2>2 DEF ClientState
<1>4. Lower(s, t)
  BY <1>2, <1>3 DEF Lower
<1>5. ASSUME NEW r \in Query, r # l
      PROVE  Same(s, t, r) /\ t.q[r] = s.q[r]
  <2>1. t.q[r] = s.q[r]
    BY <1>1, <1>2, <1>5 DEF State
  <2> QED
    BY <1>3, <1>5, <2>1, QueriesAssumption DEF Same, Pending
<1>6. /\ t.q[l].end = "dropped" /\ t.q[l].at = c /\ t.q[l].ends = s.q[l].ends
      /\ t.q[l].kept = s.q[l].kept
      /\ ~t.q[l].active /\ ~t.q[l].retry /\ ~t.q[l].timer
  <2>1. s.q[l] \in QueryState
    BY <1>1 DEF State
  <2>2. t.q[l] = DroppedQuery(s.q[l])
    BY <1>1, <1>2 DEF State
  <2> QED
    BY <2>1, <2>2 DEF QueryState, DroppedQuery
<1>7. t.q[l].ends = 0 /\ Counted(t.q[l])
  BY <1>6, QueriesAssumption DEF Typed, Counted
<1>8. \A d \in Client : t.dc[d].leaving # l
  BY <1>3, QueriesAssumption
<1>9. Good(t, l) /\ Later(s, t, l) /\ ~Overdue(t, l)
  <2>1. \A d \in Client : l \notin Pending(t, d)
    BY <1>3 DEF Pending
  <2> QED
    BY <1>6, <1>8, <2>1, QueriesAssumption
    DEF Good, Unused, Waits, Leaves, Found, Open, Over, RetriesOnce, Later, Overdue
<1>10. Typed(t)
  <2>1. \A r \in Query : Counted(t.q[r])
    BY <1>5, <1>7 DEF Typed
  <2> QED
    BY <1>2, <1>3, <2>1 DEF Typed
<1> QED
  BY <1>2, <1>3, <1>4, <1>5, <1>6, <1>7, <1>8, <1>9, <1>10 DEF t

-----------------------------------------------------------------------------
(* Sending                                                                 *)

\* The query is open and in nobody's hands, or waits in the pending list; the
\* others are good.
Almost(s, q) ==
    /\ Typed(s) /\ s.stop = "no"
    /\ \A r \in Query : r # q => Good(s, r)
    /\ s.q[q].at \in Client /\ s.q[q].end = "no"
    /\ ~s.q[q].active /\ ~s.q[q].retry
    /\ s.q[q].timer => Timed(q)
    /\ Timed(q) => ~s.q[q].kept
    /\ \A c \in Client :
         /\ s.dc[c].leaving = q => Kind[q] = "logout" /\ s.q[q].at = c
         /\ q \in Pending(s, c) => s.q[q].at = c

\* The query has been sent, or has failed; it may stand in the pending list yet.
Aside(t, q) ==
    /\ \A c \in Client : t.dc[c].leaving = q =>
         Kind[q] = "logout" /\ t.q[q].at = c /\ t.q[q].end = "no"
    /\ t.q[q].end = "no" => t.q[q].active /\ t.q[q].timer /\ (Timed(q) => ~t.q[q].kept)
    /\ Over(t.q[q])

\* Nothing but the query, and the session of its client, has changed.
Beside(s, t, q) ==
    /\ Lower(s, t)
    /\ t.q[q].at = s.q[q].at
    /\ \A r \in Query : r # q => Same(s, t, r)

\* The query waits for its client.
MustWait(s, q) == s.dc[s.q[q].at].leaving = None /\ ~Ready(s, q)

\* add_pending_query().
LEMMA ParkedWaits ==
    ASSUME NEW s, NEW q \in Query, Almost(s, q), NEW transfer \in BOOLEAN, MustWait(s, q)
    PROVE  LET t == Parked(s, q, transfer)
           IN  /\ Typed(t) /\ t.stop = "no"
               /\ Beside(s, t, q)
               /\ Good(t, q) /\ t.q[q].end = "no" /\ ~Ready(t, q)
               /\ \A c \in Client : Pending(t, c) \subseteq Pending(s, c) \cup {q}
<1> DEFINE c == s.q[q].at
           r == WithSession(s, c)
           t == Parked(s, q, transfer)
<1>1. Typed(s) /\ s \in State /\ c \in Client
  BY DEF Almost, Typed
<1>2. Subsides(s, r) /\ Typed(r) /\ r \in State /\ r.stop = "no"
  BY <1>1, StartedSubsides, SubsidesKeeps DEF Almost, Typed, Subsides
<1> DEFINE list == r.dc[c].pending
           new == IF q \in Pending(s, c) THEN list ELSE Append(list, q)
           move == r.dc[c].moving \/ (transfer /\ c # s.home /\ ~s.dc[c].in /\ Kind[q] # "login")
           time == r.q[q].timer \/ Timed(q)
<1>3. t = [r EXCEPT !.q[q].timer = time, !.dc[c].pending = new, !.dc[c].moving = move]
  BY DEF Parked
<1>4. list = s.dc[c].pending /\ list \in Seq(Query) /\ IsInjective(list)
  BY <1>1, <1>2 DEF Subsides, Lowered, Typed, State, ClientState
<1>5. /\ new \in Seq(Query) /\ IsInjective(new)
      /\ ToSet(new) = Pending(s, c) \cup {q}
  <2>1. Pending(s, c) = ToSet(list)
    BY <1>4 DEF Pending
  <2> HIDE DEF list, c
  <2>2. CASE q \in Pending(s, c)
    BY <1>4, <2>1, <2>2
  <2>3. CASE q \notin Pending(s, c)
    <3>1. new = Append(list, q)
      BY <2>3
    <3>2. /\ Append(list, q) \in Seq(Query)
          /\ ToSet(Append(list, q)) = ToSet(list) \cup {q}
          /\ IsInjective(list) /\ q \notin ToSet(list) => IsInjective(Append(list, q))
      BY <1>4, Appending
    <3> QED
      BY <1>4, <2>1, <2>3, <3>1, <3>2
  <2> QED
    BY <2>2, <2>3
<1>6. move \in BOOLEAN /\ time \in BOOLEAN
  BY <1>2 DEF State, QueryState, ClientState
<1>7. time => Timed(q)
  <2>1. r.q[q] \in {s.q[q], [s.q[q] EXCEPT !.sess = FALSE]}
    BY <1>2 DEF Subsides
  <2>2. s.q[q] \in QueryState
    BY <1>1 DEF State
  <2> HIDE DEF r
  <2>3. r.q[q].timer = s.q[q].timer
    BY <2>1, <2>2 DEF QueryState
  <2> QED
    BY <2>3 DEF Almost
<1> HIDE DEF r, t, list, new, move, time
<1> DEFINE f == [r.q[q] EXCEPT !.timer = time]
           e == [r.dc[c] EXCEPT !.pending = new, !.moving = move]
           Q == [r.q EXCEPT ![q] = f]
           D == [r.dc EXCEPT ![c] = e]
<1>8. r.q[q] \in QueryState /\ r.dc[c] \in ClientState
  BY <1>1, <1>2 DEF State
<1>9. f \in QueryState /\ e \in ClientState
  BY <1>5, <1>6, <1>8 DEF QueryState, ClientState
<1>10. Q \in [Query -> QueryState] /\ D \in [Client -> ClientState]
  BY <1>2, <1>9 DEF State
<1>11. t = [r EXCEPT !.q = Q, !.dc = D]
  <2>1. [r EXCEPT !.q[q].timer = time, !.dc[c].pending = new, !.dc[c].moving = move]
          = [r EXCEPT !.q = Q, !.dc = D]
    OBVIOUS
  <2> HIDE DEF Q, D
  <2> QED
    BY <1>3, <2>1
<1>12. /\ t \in State /\ t.home = r.home /\ t.stop = r.stop /\ t.q = Q /\ t.dc = D
  BY <1>2, <1>10, <1>11 DEF State
<1>13. /\ \A p \in Query : Q[p] = IF p = q THEN f ELSE r.q[p]
       /\ \A d \in Client : D[d] = IF d = c THEN e ELSE r.dc[d]
  BY <1>2 DEF State
<1>14. /\ e.pending = new /\ e.leaving = r.dc[c].leaving /\ e.up = r.dc[c].up
       /\ e.session = r.dc[c].session /\ e.configured = r.dc[c].configured
       /\ e.in = r.dc[c].in
  BY <1>8 DEF ClientState
<1>15. /\ f.timer = time /\ f.at = r.q[q].at /\ f.active = r.q[q].active
       /\ f.retry = r.q[q].retry /\ f.kept = r.q[q].kept /\ f.end = r.q[q].end
       /\ f.ends = r.q[q].ends
  BY <1>8 DEF QueryState
<1> HIDE DEF f, e, Q, D
<1>16. ASSUME NEW d \in Client
       PROVE  /\ t.dc[d].leaving = s.dc[d].leaving
              /\ t.dc[d].up => s.dc[d].up /\ t.dc[d].session
              /\ t.dc[d].configured => s.dc[d].configured
              /\ t.dc[d].in => s.dc[d].in
              /\ IsInjective(t.dc[d].pending)
              /\ Pending(t, d) = IF d = c THEN Pending(s, d) \cup {q} ELSE Pending(s, d)
  <2>1. Lowered(s.dc[d], r.dc[d])
    BY <1>2 DEF Subsides
  <2>2. CASE d = c
    BY <1>5, <1>12, <1>13, <1>14, <2>1, <2>2 DEF Lowered, Pending
  <2>3. CASE d # c
    BY <1>1, <1>12, <1>13, <2>1, <2>3 DEF Lowered, Pending, Typed
  <2> QED
    BY <2>2, <2>3
<1>17. Lower(s, t)
  BY <1>2, <1>12, <1>16 DEF Lower, Subsides
<1>18. ASSUME NEW p \in Query, p # q
       PROVE  Same(s, t, p)
  <2>1. t.q[p] \in {s.q[p], [s.q[p] EXCEPT !.sess = FALSE]}
    BY <1>2, <1>12, <1>13, <1>18 DEF Subsides
  <2> QED
    BY <1>16, <1>18, <2>1 DEF Same
<1>19. /\ t.q[q].at = c /\ ~t.q[q].active /\ ~t.q[q].retry /\ t.q[q].kept = s.q[q].kept
       /\ t.q[q].end = "no" /\ t.q[q].ends = s.q[q].ends /\ t.q[q].timer = time
  <2>1. r.q[q] \in {s.q[q], [s.q[q] EXCEPT !.sess = FALSE]} /\ s.q[q] \in QueryState
    BY <1>1, <1>2 DEF Subsides, State
  <2> QED
    BY <1>12, <1>13, <1>15, <2>1 DEF Almost, QueryState
<1>20. ~Ready(t, q)
  BY <1>1, <1>16, <1>19 DEF MustWait, Ready, Typed
<1>21. Typed(t)
  <2>1. \A p \in Query : Counted(t.q[p])
    <3> TAKE p \in Query
    <3>1. CASE p = q
      BY <1>1, <1>19, <3>1, QueriesAssumption DEF Almost, Typed, Counted
    <3>2. CASE p # q
      BY <1>1, <1>12, <1>17, <1>18, <3>2, SameKeeps DEF Typed
    <3> QED
      BY <3>1, <3>2
  <2> QED
    BY <1>12, <1>16, <2>1 DEF Typed
<1>22. Good(t, q)
  <2>1. \A d \in Client : q \in Pending(t, d) => d = c
    BY <1>16 DEF Almost
  <2>2. \A d \in Client : t.dc[d].leaving # q
    BY <1>16, QueriesAssumption DEF Almost, MustWait
  <2>3. q \in Pending(t, c)
    BY <1>1, <1>16
  <2>4. Unused(t.q[q]) /\ Over(t.q[q])
    BY <1>1, <1>19, QueriesAssumption DEF Unused, Over
  <2>5. RetriesOnce(t.q[q], q)
    BY <1>19 DEF RetriesOnce, Almost
  <2>6. Waits(t, q) /\ Leaves(t, q) /\ Found(t, q)
    BY <1>7, <1>19, <2>1, <2>2, <2>3 DEF Waits, Leaves, Found
  <2> QED
    BY <2>4, <2>5, <2>6 DEF Good
<1>23. Beside(s, t, q) /\ t.stop = "no"
  BY <1>2, <1>12, <1>17, <1>18, <1>19 DEF Beside
<1> QED
  BY <1>16, <1>19, <1>20, <1>21, <1>22, <1>23 DEF t

\* The application is told of an open query once.
LEMMA EndCounts ==
    ASSUME NEW f \in QueryState, f.ends = 0, f.at # None,
           NEW how \in {"answered", "failed", "expired"}
    PROVE  Counted(EndedQuery(f, how))
<1> DEFINE g == EndedQuery(f, how)
<1>1. g.end = how /\ g.ends = 1 /\ g.at # None
  BY DEF EndedQuery, QueryState
<1> HIDE DEF g
<1>2. g.end \notin {"no", "dropped"}
  BY <1>1
<1> QED
  BY <1>1, <1>2 DEF Counted, g

\* A query that ends, and is not the one its client logs out with.
LEMMA EndedGoes ==
    ASSUME NEW s, NEW q \in Query, Almost(s, q), \A d \in Client : s.dc[d].leaving # q,
           NEW how \in {"answered", "failed", "expired"}
    PROVE  LET t == Ended(s, q, how)
           IN  /\ Typed(t) /\ t.stop = "no" /\ Beside(s, t, q) /\ Aside(t, q)
               /\ t.dc = s.dc /\ t.q[q].end = how
<1> DEFINE t == Ended(s, q, how)
           f == EndedQuery(s.q[q], how)
<1>1. s \in State /\ s.stop = "no" /\ Typed(s)
  BY DEF Almost, Typed
<1>2. /\ t \in State /\ t.home = s.home /\ t.stop = s.stop /\ t.dc = s.dc
      /\ t.q = [s.q EXCEPT ![q] = f]
  <2>1. how \in Ends
    BY DEF Ends
  <2> QED
    BY <1>1, <2>1, EndedFields
<1>3. s.q[q] \in QueryState
  BY <1>1 DEF State
<1>4. /\ f.end = how /\ f.ends = s.q[q].ends + 1 /\ f.at = s.q[q].at
      /\ f.active = s.q[q].active /\ f.retry = s.q[q].retry /\ f.kept = s.q[q].kept
      /\ f.timer = s.q[q].timer
  BY <1>3 DEF QueryState, EndedQuery
<1> HIDE DEF t, f
<1>5. t.q[q] = f /\ \A r \in Query : r # q => t.q[r] = s.q[r]
  BY <1>1, <1>2 DEF State
<1>6. Beside(s, t, q)
  BY <1>2, <1>4, <1>5 DEF Beside, Lower, Same, Pending
<1>7. Typed(t)
  <2>1. s.q[q].ends = 0 /\ s.q[q].at # None
    BY <1>1, QueriesAssumption DEF Almost, Typed, Counted
  <2>2. Counted(f)
    BY <1>3, <2>1, EndCounts DEF f
  <2> QED
    BY <1>1, <1>2, <1>5, <2>2 DEF Typed
<1>8. Aside(t, q)
  BY <1>2, <1>4, <1>5 DEF Aside, Over, Almost
<1> QED
  BY <1>1, <1>2, <1>4, <1>5, <1>6, <1>7, <1>8 DEF t

\* send().
LEMMA SentGoes ==
    ASSUME NEW s, NEW q \in Query, Almost(s, q), s.dc[s.q[q].at].leaving = None
    PROVE  LET t == Sent(s, q)
           IN  /\ Typed(t) /\ t.stop = "no" /\ Beside(s, t, q) /\ Aside(t, q)
               /\ \A d \in Client : t.dc[d].pending = s.dc[d].pending
<1> DEFINE c == s.q[q].at
           t == Sent(s, q)
<1>1. s \in State /\ s.stop = "no" /\ Typed(s) /\ c \in Client /\ s.q[q] \in QueryState
  BY DEF Almost, Typed, State
<1>2. \A d \in Client : s.dc[d].leaving # q
  BY QueriesAssumption DEF Almost
<1>3. CASE q \in TooLong
  <2> DEFINE r == Quiet(s, q)
             g == [s.q[q] EXCEPT !.timer = FALSE, !.retry = FALSE]
  <2>1. /\ r \in State /\ r.home = s.home /\ r.stop = s.stop /\ r.dc = s.dc
        /\ r.q = [s.q EXCEPT ![q] = g]
    BY <1>1, QuietFields
  <2>2. /\ g.at = c /\ g.end = "no" /\ ~g.active /\ ~g.retry /\ ~g.timer
        /\ g.kept = s.q[q].kept /\ g.ends = s.q[q].ends
    BY <1>1 DEF QueryState, Almost
  <2>3. t = Told(r, q, "failed")
    BY <1>3 DEF Sent
  <2> HIDE DEF r, g, t
  <2>4. r.q[q] = g /\ \A p \in Query : p # q => r.q[p] = s.q[p]
    BY <1>1, <2>1 DEF State
  <2>5. t = Ended(r, q, "failed")
    BY <2>1, <2>2, <2>3, <2>4 DEF Told, NotLeaving
  <2>6. Beside(s, r, q)
    BY <2>1, <2>2, <2>4 DEF Beside, Lower, Same, Pending
  <2>7. Almost(r, q)
    <3>1. Typed(r)
      <4>1. Counted(g)
        BY <1>1, <2>2 DEF Typed, Counted, Almost
      <4> QED
        BY <1>1, <2>1, <2>4, <4>1 DEF Typed
    <3>2. ASSUME NEW p \in Query, p # q
          PROVE  Good(r, p)
      BY <1>1, <2>1, <2>6, <3>2, SameKeeps DEF Beside, Almost
    <3> QED
      BY <1>1, <2>1, <2>2, <2>4, <3>1, <3>2 DEF Almost, Pending
  <2>8. /\ Typed(t) /\ t.stop = "no" /\ Beside(r, t, q) /\ Aside(t, q) /\ t.dc = r.dc
    <3>1. \A d \in Client : r.dc[d].leaving # q
      BY <1>2, <2>1
    <3>2. LET u == Ended(r, q, "failed")
          IN  Typed(u) /\ u.stop = "no" /\ Beside(r, u, q) /\ Aside(u, q) /\ u.dc = r.dc
      BY <2>7, <3>1, EndedGoes
    <3> QED
      BY <2>5, <3>2
  <2>9. Beside(s, t, q)
    BY <2>1, <2>2, <2>4, <2>8 DEF Beside, Lower, Same, Pending
  <2> QED
    BY <2>1, <2>8, <2>9 DEF t
<1>4. CASE q \notin TooLong
  <2> DEFINE f == [s.q[q] EXCEPT !.active = TRUE, !.timer = TRUE, !.sess = TRUE]
             new == IF Kind[q] = "logout" THEN q ELSE s.dc[c].leaving
             e == [s.dc[c] EXCEPT !.idle = FALSE, !.leaving = new]
             Q == [s.q EXCEPT ![q] = f]
             D == [s.dc EXCEPT ![c] = e]
  <2>1. s.dc[c] \in ClientState
    BY <1>1 DEF State
  <2>2. f \in QueryState /\ e \in ClientState
    BY <1>1, <2>1 DEF QueryState, ClientState
  <2>3. t = [s EXCEPT !.q = Q, !.dc = D]
    <3>1. t = [s EXCEPT !.q[q].active = TRUE, !.q[q].timer = TRUE, !.q[q].sess = TRUE,
                        !.dc[c].idle = FALSE, !.dc[c].leaving = new]
      BY <1>4 DEF Sent
    <3> HIDE DEF t, new
    <3> DEFINE x == [s.q EXCEPT ![q].active = TRUE, ![q].timer = TRUE, ![q].sess = TRUE]
               y == [s.dc EXCEPT ![c].idle = FALSE, ![c].leaving = new]
    <3>2. [s EXCEPT !.q[q].active = TRUE, !.q[q].timer = TRUE, !.q[q].sess = TRUE,
                    !.dc[c].idle = FALSE, !.dc[c].leaving = new]
            = [s EXCEPT !.q = x, !.dc = y]
      BY <1>1 DEF State
    <3>3. s.q \in [Query -> QueryState] /\ s.dc \in [Client -> ClientState]
      BY <1>1 DEF State
    <3>4. x = Q
      BY <3>3
    <3>5. y = D
      BY <1>1, <3>3
    <3> HIDE DEF Q, D, x, y
    <3> QED
      BY <3>1, <3>2, <3>4, <3>5
  <2>4. Q \in [Query -> QueryState] /\ D \in [Client -> ClientState]
    BY <1>1, <2>2 DEF State
  <2>5. /\ \A p \in Query : Q[p] = IF p = q THEN f ELSE s.q[p]
        /\ \A d \in Client : D[d] = IF d = c THEN e ELSE s.dc[d]
    BY <1>1 DEF State
  <2>6. /\ f.at = c /\ f.end = "no" /\ f.active /\ f.timer /\ f.kept = s.q[q].kept
        /\ f.ends = s.q[q].ends
    BY <1>1 DEF QueryState, Almost
  <2>7. /\ e.pending = s.dc[c].pending /\ e.leaving = new /\ e.up = s.dc[c].up
        /\ e.session = s.dc[c].session /\ e.configured = s.dc[c].configured
        /\ e.in = s.dc[c].in
    BY <2>1 DEF ClientState
  <2> HIDE DEF f, e, Q, D, t
  <2>8. /\ t \in State /\ t.home = s.home /\ t.stop = s.stop /\ t.q = Q /\ t.dc = D
    BY <1>1, <2>3, <2>4 DEF State
  <2>9. \A d \in Client : t.dc[d].pending = s.dc[d].pending
    BY <2>5, <2>7, <2>8
  <2>10. Beside(s, t, q)
    <3>1. Lower(s, t)
      BY <2>5, <2>7, <2>8 DEF Lower
    <3>2. ASSUME NEW p \in Query, p # q
          PROVE  Same(s, t, p)
      BY <1>1, <2>5, <2>7, <2>8, <2>9, <3>2, QueriesAssumption DEF Same, Pending
    <3> QED
      BY <2>5, <2>6, <2>8, <3>1, <3>2 DEF Beside
  <2>11. Typed(t)
    <3>1. Counted(f)
      BY <1>1, <2>6 DEF Typed, Counted, Almost
    <3>2. \A p \in Query : Counted(t.q[p])
      BY <1>1, <2>5, <2>8, <3>1 DEF Typed
    <3>3. ASSUME NEW d \in Client
          PROVE  (t.dc[d].up => t.dc[d].session) /\ IsInjective(t.dc[d].pending)
      BY <1>1, <2>5, <2>7, <2>8 DEF Typed
    <3> QED
      BY <2>8, <3>2, <3>3 DEF Typed
  <2>12. Aside(t, q)
    <3>1. ASSUME NEW d \in Client, t.dc[d].leaving = q
          PROVE  Kind[q] = "logout" /\ d = c
      BY <1>1, <1>2, <2>5, <2>7, <2>8, <3>1
    <3> QED
      BY <2>5, <2>6, <2>8, <3>1 DEF Aside, Over, Almost
  <2> QED
    BY <1>1, <2>8, <2>9, <2>10, <2>11, <2>12 DEF t
<1> QED
  BY <1>3, <1>4

\* check_logging_out(), check_pending() and send(): an assertion fails, the query
\* waits, or it is on its way or at its end.
LEMMA TriedGoes ==
    ASSUME NEW s, NEW q \in Query, Almost(s, q), NEW transfer \in BOOLEAN
    PROVE  LET t == Tried(s, q, transfer)
           IN  /\ Typed(t)
               /\ t.stop # "no" => t.q = s.q
               /\ t.stop = "no" => Beside(s, t, q)
               /\ t.stop = "no" /\ MustWait(s, q) =>
                    /\ Good(t, q) /\ t.q[q].end = "no" /\ ~Ready(t, q)
                    /\ \A c \in Client : Pending(t, c) \subseteq Pending(s, c) \cup {q}
               /\ t.stop = "no" /\ ~MustWait(s, q) =>
                    /\ Aside(t, q)
                    /\ \A c \in Client : t.dc[c].pending = s.dc[c].pending
<1> DEFINE c == s.q[q].at
           t == Tried(s, q, transfer)
<1>1. s \in State /\ s.stop = "no" /\ Typed(s) /\ c \in Client
  BY DEF Almost, Typed
<1>2. CASE s.dc[c].leaving # None /\ Kind[q] = "logout"
  <2>1. t = [s EXCEPT !.stop = "logout"]
    BY <1>2 DEF Tried
  <2> HIDE DEF t
  <2>2. /\ t \in State /\ t.stop = "logout" /\ t.q = s.q /\ t.dc = s.dc
    BY <1>1, <2>1 DEF State
  <2>3. Typed(t)
    BY <1>1, <2>2 DEF Typed
  <2> QED
    BY <2>2, <2>3 DEF t
<1>3. CASE s.dc[c].leaving # None /\ Kind[q] # "logout"
  <2>1. t = Told(s, q, "failed")
    BY <1>3 DEF Tried
  <2>2. t = Ended(s, q, "failed")
    BY <1>3, <2>1 DEF Told
  <2>3. \A d \in Client : s.dc[d].leaving # q
    BY <1>3 DEF Almost
  <2> HIDE DEF t
  <2>4. Typed(t) /\ t.stop = "no" /\ Beside(s, t, q) /\ Aside(t, q) /\ t.dc = s.dc
    BY <2>2, <2>3, EndedGoes
  <2> QED
    BY <1>3, <2>4 DEF t, MustWait
<1>4. CASE s.dc[c].leaving = None /\ ~Ready(s, q)
  <2>1. t = Parked(s, q, transfer) /\ MustWait(s, q)
    BY <1>4 DEF Tried, MustWait
  <2> HIDE DEF t
  <2> QED
    BY <2>1, ParkedWaits DEF t
<1>5. CASE s.dc[c].leaving = None /\ Ready(s, q)
  <2>1. t = Sent(s, q) /\ ~MustWait(s, q)
    BY <1>5 DEF Tried, MustWait
  <2> HIDE DEF t
  <2> QED
    BY <1>5, <2>1, SentGoes DEF t
<1> QED
  BY <1>2, <1>3, <1>4, <1>5

\* A query that has left the list is good.
LEMMA AsideIsGood ==
    ASSUME NEW t, NEW q \in Query, Aside(t, q), t.q[q].at \in Client,
           \A c \in Client : q \notin Pending(t, c)
    PROVE  Good(t, q)
<1>1. Unused(t.q[q]) /\ Over(t.q[q]) /\ RetriesOnce(t.q[q], q)
  BY QueriesAssumption DEF Aside, Unused, RetriesOnce
<1>2. Waits(t, q) /\ Leaves(t, q) /\ Found(t, q)
  BY DEF Aside, Waits, Leaves, Found, Open
<1> QED
  BY <1>1, <1>2 DEF Good

\* A query that stands in no list may be sent: execute(), alarm().
LEMMA TriedResult ==
    ASSUME NEW s, NEW q \in Query, Almost(s, q), NEW transfer \in BOOLEAN,
           \A c \in Client : q \notin Pending(s, c)
    PROVE  Result(s, Tried(s, q, transfer))
<1> DEFINE c == s.q[q].at
           t == Tried(s, q, transfer)
<1>1. s \in State /\ Typed(s) /\ s.stop = "no" /\ s.q[q].end = "no" /\ c \in Client
  BY DEF Almost, Typed
<1>2. /\ Typed(t) /\ t \in State
      /\ t.stop # "no" => t.q = s.q
      /\ t.stop = "no" => Beside(s, t, q)
      /\ t.stop = "no" /\ MustWait(s, q) =>
           Good(t, q) /\ t.q[q].end = "no" /\ ~Ready(t, q)
      /\ t.stop = "no" /\ ~MustWait(s, q) =>
           Aside(t, q) /\ \A d \in Client : t.dc[d].pending = s.dc[d].pending
  BY TriedGoes DEF Typed
<1> HIDE DEF t
<1>3. CASE t.stop # "no"
  <2>1. Sound(t)
    BY <1>2, <1>3 DEF Sound
  <2>2. \A r \in Query : Later(s, t, r)
    BY <1>2, <1>3 DEF Later
  <2> QED
    BY <1>3, <2>1, <2>2 DEF Result, t
<1>4. CASE t.stop = "no"
  <2>1. Beside(s, t, q) /\ Lower(s, t) /\ t.q[q].at = c
    BY <1>2, <1>4 DEF Beside
  <2>2. ASSUME NEW r \in Query, r # q
        PROVE  Good(t, r) /\ Later(s, t, r) /\ (Overdue(t, r) => Overdue(s, r))
    BY <1>1, <1>2, <2>1, <2>2, SameKeeps DEF Beside, Almost
  <2>3. Good(t, q) /\ ~(q \in Pending(t, c) /\ Ready(t, q))
    <3>1. CASE MustWait(s, q)
      BY <1>2, <1>4, <3>1
    <3>2. CASE ~MustWait(s, q)
      <4>1. Aside(t, q) /\ \A d \in Client : q \notin Pending(t, d)
        BY <1>2, <1>4, <3>2 DEF Pending
      <4> QED
        BY <1>1, <2>1, <4>1, AsideIsGood
    <3> QED
      BY <3>1, <3>2
  <2>4. Later(s, t, q)
    BY <1>1, <2>1, QueriesAssumption DEF Later
  <2>5. Overdue(t, q) => Overdue(s, q)
    BY <1>1, <2>1, <2>3, QueriesAssumption DEF Overdue, Open, Lower
  <2>6. Sound(t)
    BY <1>2, <2>2, <2>3 DEF Sound
  <2>7. \A r \in Query : Later(s, t, r) /\ (Overdue(t, r) => Overdue(s, r))
    BY <2>2, <2>4, <2>5
  <2> QED
    BY <2>6, <2>7 DEF Result, t
<1> QED
  BY <1>3, <1>4

\* The query leaves the pending list of its client.
Removed(r, c, q) == [r EXCEPT !.dc[c].pending = RemoveFirst(@, q)]

\* Taking a query out of a list changes the list only.
LEMMA RemovedFields ==
    ASSUME NEW r, Typed(r), NEW c \in Client, NEW q \in Query,
           NEW t, t = Removed(r, c, q)
    PROVE  /\ Typed(t) /\ t.home = r.home /\ t.stop = r.stop /\ t.q = r.q
           /\ \A d \in Client :
                /\ t.dc[d].leaving = r.dc[d].leaving /\ t.dc[d].up = r.dc[d].up
                /\ t.dc[d].configured = r.dc[d].configured /\ t.dc[d].in = r.dc[d].in
                /\ Pending(t, d) = IF d = c THEN Pending(r, d) \ {q} ELSE Pending(r, d)
<1>1. r \in State /\ r.dc[c] \in ClientState
  BY DEF Typed, State
<1> DEFINE list == r.dc[c].pending
           new == RemoveFirst(list, q)
           e == [r.dc[c] EXCEPT !.pending = new]
           D == [r.dc EXCEPT ![c] = e]
<1>2. list \in Seq(Query) /\ IsInjective(list)
  BY <1>1 DEF Typed, ClientState
<1>3. new \in Seq(Query) /\ IsInjective(new) /\ ToSet(new) = Pending(r, c) \ {q}
  BY <1>2, Removal DEF Pending
<1> HIDE DEF new
<1>4. e \in ClientState
  BY <1>1, <1>3 DEF ClientState
<1>5. D \in [Client -> ClientState]
  BY <1>1, <1>4 DEF State
<1>6. t = [r EXCEPT !.dc = D]
  BY <1>1 DEF State, new, Removed
<1>7. \A d \in Client : D[d] = IF d = c THEN e ELSE r.dc[d]
  BY <1>1 DEF State
<1>8. /\ e.pending = new /\ e.leaving = r.dc[c].leaving /\ e.up = r.dc[c].up
      /\ e.session = r.dc[c].session /\ e.configured = r.dc[c].configured
      /\ e.in = r.dc[c].in
  BY <1>1 DEF ClientState
<1> HIDE DEF e, D
<1>9. /\ t \in State /\ t.home = r.home /\ t.stop = r.stop /\ t.q = r.q /\ t.dc = D
  BY <1>1, <1>5, <1>6 DEF State
<1>10. ASSUME NEW d \in Client
       PROVE  /\ t.dc[d].leaving = r.dc[d].leaving /\ t.dc[d].up = r.dc[d].up
              /\ t.dc[d].session = r.dc[d].session
              /\ t.dc[d].configured = r.dc[d].configured /\ t.dc[d].in = r.dc[d].in
              /\ IsInjective(t.dc[d].pending)
              /\ Pending(t, d) = IF d = c THEN Pending(r, d) \ {q} ELSE Pending(r, d)
  <2>1. CASE d = c
    <3>1. t.dc[d] = e
      BY <1>7, <1>9, <2>1
    <3>2. Pending(t, d) = Pending(r, d) \ {q}
      BY <1>3, <1>8, <2>1, <3>1 DEF Pending
    <3> QED
      BY <1>3, <1>8, <2>1, <3>1, <3>2
  <2>2. CASE d # c
    BY <1>7, <1>9, <2>2 DEF Typed, Pending
  <2> QED
    BY <2>1, <2>2
<1>11. Typed(t)
  <2>1. \A d \in Client : t.dc[d].up => t.dc[d].session
    BY <1>10 DEF Typed
  <2> QED
    BY <1>9, <1>10, <2>1 DEF Typed
<1> QED
  BY <1>9, <1>10, <1>11

\* A query of the pending list is sent, or waits on.
LEMMA UnparkedResult ==
    ASSUME NEW s, Sound(s), s.stop = "no", NEW c \in Client, NEW q \in Query,
           q \in Pending(s, c)
    PROVE  LET t == Unparked(s, q)
           IN  /\ Result(s, t)
               /\ t.stop = "no" =>
                    /\ Lower(s, t) /\ t.q[q].at = c
                    /\ q \in Pending(t, c) => ~Ready(t, q)
                    /\ \A r \in Query : r # q => t.q[r].at = s.q[r].at
                    /\ \A d \in Client : Pending(t, d) \subseteq Pending(s, d)
                    /\ \A r \in Query : r # q =>
                         \A d \in Client : r \in Pending(t, d) <=> r \in Pending(s, d)
<1> DEFINE r == Tried(s, q, FALSE)
           t == Unparked(s, q)
<1>1. s \in State /\ Typed(s) /\ s.stop = "no" /\ Good(s, q)
  BY DEF Sound, Typed
<1>2. s.q[q].at = c /\ s.q[q].end = "no"
  BY <1>1 DEF Good, Waits
<1>3. Almost(s, q)
  <2>1. ~s.q[q].active /\ ~s.q[q].retry /\ (s.q[q].timer => Timed(q))
    BY <1>1 DEF Good, Waits
  <2>2. Timed(q) => ~s.q[q].kept
    BY <1>1, <1>2, <2>1 DEF Good, RetriesOnce
  <2>3. \A d \in Client :
          /\ s.dc[d].leaving = q => Kind[q] = "logout" /\ s.q[q].at = d
          /\ q \in Pending(s, d) => s.q[q].at = d
    BY <1>1 DEF Good, Leaves, Waits
  <2> QED
    BY <1>1, <1>2, <2>1, <2>2, <2>3 DEF Almost, Sound
<1>4. /\ Typed(r) /\ r \in State
      /\ r.stop # "no" => r.q = s.q
      /\ r.stop = "no" => Beside(s, r, q)
      /\ r.stop = "no" /\ MustWait(s, q) =>
           /\ Good(r, q) /\ r.q[q].end = "no" /\ ~Ready(r, q)
           /\ \A d \in Client : Pending(r, d) \subseteq Pending(s, d) \cup {q}
      /\ r.stop = "no" /\ ~MustWait(s, q) =>
           Aside(r, q) /\ \A d \in Client : r.dc[d].pending = s.dc[d].pending
  BY <1>3, TriedGoes DEF Typed
<1>5. t = IF MustWait(s, q) THEN r ELSE Removed(r, c, q)
  BY <1>2 DEF Unparked, MustWait, Removed
<1> HIDE DEF r, t
<1>6. /\ Typed(t) /\ t.home = r.home /\ t.stop = r.stop /\ t.q = r.q
      /\ \A d \in Client :
           /\ t.dc[d].leaving = r.dc[d].leaving /\ t.dc[d].up = r.dc[d].up
           /\ t.dc[d].configured = r.dc[d].configured /\ t.dc[d].in = r.dc[d].in
           /\ Pending(t, d) = IF d = c /\ ~MustWait(s, q) THEN Pending(r, d) \ {q}
                              ELSE Pending(r, d)
  <2>1. CASE MustWait(s, q)
    BY <1>4, <1>5, <2>1
  <2>2. CASE ~MustWait(s, q)
    <3>1. t = Removed(r, c, q)
      BY <1>5, <2>2
    <3> QED
      BY <1>4, <2>2, <3>1, RemovedFields
  <2> QED
    BY <2>1, <2>2
<1>7. CASE t.stop # "no"
  <2>1. Sound(t)
    BY <1>6, <1>7 DEF Sound
  <2>2. \A p \in Query : Later(s, t, p)
    BY <1>4, <1>6, <1>7 DEF Later
  <2>3. Result(s, t)
    BY <1>7, <2>1, <2>2 DEF Result
  <2> QED
    BY <1>7, <2>3 DEF t
<1>8. CASE t.stop = "no"
  <2>1. Beside(s, r, q) /\ t \in State
    BY <1>4, <1>6, <1>8 DEF Typed
  <2>2. Lower(s, t)
    BY <1>6, <2>1 DEF Beside, Lower
  <2>3. ASSUME NEW p \in Query, p # q
        PROVE  Same(s, t, p)
    BY <1>6, <2>1, <2>3 DEF Beside, Same
  <2>4. ASSUME NEW p \in Query, p # q
        PROVE  /\ Good(t, p) /\ Later(s, t, p) /\ (Overdue(t, p) => Overdue(s, p))
               /\ t.q[p].at = s.q[p].at
    <3>1. Same(s, t, p) /\ Good(s, p)
      BY <1>1, <2>3, <2>4 DEF Sound
    <3>2. t.q[p].at = s.q[p].at
      BY <1>1, <3>1 DEF Same, State, QueryState
    <3> QED
      BY <1>1, <2>1, <2>2, <3>1, <3>2, SameKeeps
  <2>5. t.q[q].at = c
    BY <1>2, <1>6, <2>1 DEF Beside
  <2>6. Good(t, q) /\ (q \in Pending(t, c) => ~Ready(t, q))
    <3>1. CASE MustWait(s, q)
      BY <1>4, <1>5, <1>8, <3>1
    <3>2. CASE ~MustWait(s, q)
      <4>1. \A d \in Client : q \notin Pending(t, d)
        <5>1. \A d \in Client : Pending(r, d) = Pending(s, d)
          BY <1>4, <1>6, <1>8, <3>2 DEF Pending
        <5>2. \A d \in Client : q \in Pending(s, d) => d = c
          BY <1>2, <1>3 DEF Almost
        <5> QED
          BY <1>6, <3>2, <5>1, <5>2
      <4>2. Aside(t, q)
        BY <1>4, <1>6, <1>8, <3>2 DEF Aside
      <4> QED
        BY <2>5, <4>1, <4>2, AsideIsGood
    <3> QED
      BY <3>1, <3>2
  <2>7. Later(s, t, q)
    BY <1>2, <2>5, QueriesAssumption DEF Later
  <2>8. Overdue(t, q) => Overdue(s, q)
    BY <1>2, <2>2, <2>5, <2>6, QueriesAssumption DEF Overdue, Open, Lower
  <2>9. Result(s, t)
    <3>1. Sound(t)
      BY <1>6, <2>4, <2>6 DEF Sound
    <3>2. \A p \in Query : Later(s, t, p) /\ (Overdue(t, p) => Overdue(s, p))
      BY <2>4, <2>7, <2>8
    <3> QED
      BY <3>1, <3>2 DEF Result
  <2>10. \A d \in Client : Pending(t, d) \subseteq Pending(s, d)
    <3> TAKE d \in Client
    <3>1. CASE MustWait(s, q)
      <4>1. Pending(t, d) \subseteq Pending(s, d) \cup {q}
        BY <1>4, <1>6, <1>8, <3>1
      <4>2. q \in Pending(t, d) => d = c
        BY <1>4, <1>5, <1>8, <2>5, <3>1 DEF Good, Waits
      <4> QED
        BY <4>1, <4>2
    <3>2. CASE ~MustWait(s, q)
      BY <1>4, <1>6, <1>8, <3>2 DEF Pending
    <3> QED
      BY <3>1, <3>2
  <2>11. \A p \in Query : p # q =>
           \A d \in Client : p \in Pending(t, d) <=> p \in Pending(s, d)
    BY <2>3 DEF Same
  <2>12. \A p \in Query : p # q => t.q[p].at = s.q[p].at
    BY <2>4
  <2> QED
    BY <1>8, <2>2, <2>5, <2>6, <2>9, <2>10, <2>11, <2>12 DEF t
<1> QED
  BY <1>7, <1>8

-----------------------------------------------------------------------------
(* The pending list is sent                                                *)

\* Of the numbers with a property one is the first.
LEMMA Least ==
    ASSUME NEW S, S \subseteq Nat, S # {}
    PROVE  \E x \in S : \A y \in S : x <= y
<1>1. PICK x \in S : \A y \in S : <<y, x>> \notin OpToRel(<, Nat)
  BY NatLessThanWellFounded, WFMin, Zenon
<1>2. \A y \in S : ~(y < x)
  BY <1>1 DEF OpToRel
<1> QED
  BY <1>2

\* A set of numbers that holds with 0 and each number up to n its successor holds
\* n: there is no first one that is not in it.
LEMMA UpTo ==
    ASSUME NEW n \in Nat, NEW S, 0 \in S, \A i \in 0..n - 1 : i \in S => i + 1 \in S
    PROVE  \A i \in 0..n : i \in S
<1> DEFINE T == {i \in 0..n : i \notin S}
<1> SUFFICES ASSUME T # {} PROVE FALSE
  OBVIOUS
<1>1. T \subseteq Nat
  OBVIOUS
<1>2. PICK x \in T : \A y \in T : x <= y
  BY <1>1, Least
<1>3. x # 0 /\ x \in 0..n
  OBVIOUS
<1>4. x - 1 \in 0..n - 1 /\ x - 1 \notin T /\ x - 1 + 1 = x
  BY <1>2, <1>3
<1> QED
  BY <1>4

\* What one query of the list does.
Turn(x, q) == IF x.stop # "no" THEN x ELSE Unparked(x, q)

\* The states up to the n-th query of the list.
Turns(s, list, f, n) == f = [i \in 0..n |-> IF i = 0 THEN s ELSE Turn(f[i - 1], list[i])]

\* There is a run of the loop over any first part of a list.
LEMMA TurnsExist ==
    ASSUME NEW s, NEW list, NEW n \in Nat
    PROVE  \E f : Turns(s, list, f, n)
<1> DEFINE S == {i \in Nat : \E f : Turns(s, list, f, i)}
<1>1. 0 \in S
  <2>1. Turns(s, list, [i \in 0..0 |-> s], 0)
    BY DEF Turns
  <2> QED
    BY <2>1
<1>2. ASSUME NEW i \in 0..n - 1, i \in S
      PROVE  i + 1 \in S
  <2>1. PICK f : Turns(s, list, f, i)
    BY <1>2
  <2> DEFINE g == [j \in 0..i + 1 |-> IF j <= i THEN f[j] ELSE Turn(f[i], list[i + 1])]
  <2>2. \A j \in 0..i : f[j] = IF j = 0 THEN s ELSE Turn(f[j - 1], list[j])
    BY <2>1 DEF Turns
  <2>3. \A j \in 0..i : g[j] = f[j]
    OBVIOUS
  <2>4. g[i + 1] = Turn(f[i], list[i + 1])
    OBVIOUS
  <2>5. ASSUME NEW j \in 0..i + 1
        PROVE  g[j] = IF j = 0 THEN s ELSE Turn(g[j - 1], list[j])
    <3>1. CASE j = i + 1
      <4>1. g[j - 1] = f[i] /\ j # 0
        BY <2>3, <3>1
      <4> QED
        BY <2>4, <3>1, <4>1
    <3>2. CASE j # i + 1 /\ j # 0
      <4>1. j \in 0..i /\ j - 1 \in 0..i
        BY <3>2
      <4> QED
        BY <2>2, <2>3, <3>2, <4>1
    <3>3. CASE j = 0
      BY <2>2, <2>3, <3>3
    <3> QED
      BY <3>1, <3>2, <3>3
  <2>6. Turns(s, list, g, i + 1)
    <3>1. g = [j \in 0..i + 1 |-> g[j]]
      OBVIOUS
    <3> HIDE DEF g
    <3> QED
      BY <2>5, <3>1 DEF Turns
  <2> QED
    BY <2>6
<1> HIDE DEF S
<1>3. n \in S
  BY <1>1, <1>2, UpTo
<1> QED
  BY <1>3 DEF S

\* The recursive function of the model is the run of the loop over the whole
\* list.
LEMMA FlushedTurns ==
    ASSUME NEW s, NEW c \in Client, s.dc[c].pending \in Seq(Query)
    PROVE  \E f :
             LET list == s.dc[c].pending
             IN  /\ Flushed(s, c) = f[Len(list)]
                 /\ f[0] = s
                 /\ \A i \in 1..Len(list) : f[i] = Turn(f[i - 1], list[i])
<1> DEFINE list == s.dc[c].pending
           n == Len(list)
           after == CHOOSE f : f = [i \in 0..n |->
                       IF i = 0 THEN s
                       ELSE IF f[i - 1].stop # "no" THEN f[i - 1]
                       ELSE Unparked(f[i - 1], list[i])]
<1>1. n \in Nat
  OBVIOUS
<1>2. Flushed(s, c) = after[n]
  BY DEF Flushed
<1>3. \E f : f = [i \in 0..n |->
                       IF i = 0 THEN s
                       ELSE IF f[i - 1].stop # "no" THEN f[i - 1]
                       ELSE Unparked(f[i - 1], list[i])]
  <2>1. PICK f : Turns(s, list, f, n)
    BY <1>1, TurnsExist
  <2>2. f = [i \in 0..n |->
                       IF i = 0 THEN s
                       ELSE IF f[i - 1].stop # "no" THEN f[i - 1]
                       ELSE Unparked(f[i - 1], list[i])]
    BY <2>1 DEF Turns, Turn
  <2> QED
    BY <2>2
<1>4. after = [i \in 0..n |->
                       IF i = 0 THEN s
                       ELSE IF after[i - 1].stop # "no" THEN after[i - 1]
                       ELSE Unparked(after[i - 1], list[i])]
  BY <1>3
<1> HIDE DEF after
<1>5. after[0] = s /\ \A i \in 1..n : after[i] = Turn(after[i - 1], list[i])
  BY <1>1, <1>4 DEF Turn
<1> QED
  BY <1>2, <1>5

\* A result of a result is a result, unless the program was stopped between them.
LEMMA ResultTrans ==
    ASSUME NEW s, NEW t, NEW u, Result(s, t), Result(t, u), t.stop = "no"
    PROVE  Result(s, u)
<1>1. Sound(u)
  BY DEF Result
<1>2. ASSUME NEW q \in Query
      PROVE  Later(s, u, q) /\ (u.stop = "no" /\ Overdue(u, q) => Overdue(s, q))
  <2>1. Later(s, t, q) /\ Later(t, u, q)
    BY DEF Result
  <2>2. Later(s, u, q)
    BY <2>1 DEF Later
  <2>3. u.stop = "no" /\ Overdue(u, q) => Overdue(s, q)
    BY DEF Result
  <2> QED
    BY <2>2, <2>3
<1> QED
  BY <1>1, <1>2 DEF Result

\* After send_pending_queries() only those wait whose client is not ready.
LEMMA FlushedResult ==
    ASSUME NEW s, Sound(s), s.stop = "no", NEW c \in Client
    PROVE  LET t == Flushed(s, c)
           IN  /\ Result(s, t)
               /\ t.stop = "no" =>
                    /\ t.home = s.home
                    /\ \A q \in Query : q \in Pending(s, c) => t.q[q].at = c
                    /\ \A q \in Query : q \in Pending(t, c) => ~Ready(t, q)
<1> DEFINE list == s.dc[c].pending
           n == Len(list)
           t == Flushed(s, c)
<1>1. s \in State /\ Typed(s)
  BY DEF Sound, Typed
<1>2. list \in Seq(Query) /\ IsInjective(list)
  BY <1>1 DEF Typed, State, ClientState
<1>3. PICK f : t = f[n] /\ f[0] = s /\ \A i \in 1..n : f[i] = Turn(f[i - 1], list[i])
  BY <1>2, FlushedTurns
<1>4. n \in Nat /\ DOMAIN list = 1..n /\ \A i \in 1..n : list[i] \in Query
  BY <1>2
<1>5. /\ Pending(s, c) = {list[i] : i \in 1..n}
      /\ \A i, j \in 1..n : list[i] = list[j] => i = j
  BY <1>2, <1>4 DEF Pending, ToSet, IsInjective
<1> HIDE DEF list, n, t
\* After the i-th of the list.
<1> DEFINE Calm(u, i) ==
             /\ Lower(s, u)
             /\ \A q \in Query : q \in Pending(s, c) => u.q[q].at = c
             /\ Pending(u, c) \subseteq Pending(s, c)
             /\ \A j \in 1..n : j <= i /\ list[j] \in Pending(u, c) => ~Ready(u, list[j])
             /\ \A j \in 1..n : j > i => list[j] \in Pending(u, c)
           P == {i \in 0..n : Result(s, f[i]) /\ (f[i].stop = "no" => Calm(f[i], i))}
<1>6. 0 \in P
  <2>1. Result(s, s)
    BY DEF Result, Later
  <2>2. \A q \in Query : q \in Pending(s, c) => s.q[q].at = c
    BY DEF Sound, Good, Waits
  <2>3. Calm(s, 0)
    BY <1>4, <1>5, <2>2 DEF Lower
  <2> HIDE DEF Calm
  <2> QED
    BY <1>3, <1>4, <2>1, <2>3
<1>7. ASSUME NEW i \in 0..n - 1, i \in P
      PROVE  i + 1 \in P
  <2> DEFINE u == f[i]
             v == f[i + 1]
             q == list[i + 1]
  <2>1. i + 1 \in 1..n /\ i + 1 \in 0..n /\ q \in Query /\ v = Turn(u, q)
    <3>1. i + 1 \in 1..n /\ i + 1 - 1 = i /\ i + 1 \in 0..n
      BY <1>4
    <3> QED
      BY <1>3, <1>4, <3>1
  <2>2. Result(s, u) /\ (u.stop = "no" => Calm(u, i))
    BY <1>7
  <2> HIDE DEF u, v, q
  <2>3. CASE u.stop # "no"
    <3>1. v = u
      BY <2>1, <2>3 DEF Turn
    <3> HIDE DEF Calm
    <3> QED
      BY <2>1, <2>2, <2>3, <3>1 DEF u, v
  <2>4. CASE u.stop = "no"
    <3>1. v = Unparked(u, q)
      BY <2>1, <2>4 DEF Turn
    <3>2. Calm(u, i) /\ Sound(u)
      BY <2>2, <2>4 DEF Result
    <3>3. q \in Pending(u, c)
      BY <1>4, <2>1, <3>2 DEF q
    <3>4. /\ Result(u, v)
          /\ v.stop = "no" =>
               /\ Lower(u, v) /\ v.q[q].at = c
               /\ q \in Pending(v, c) => ~Ready(v, q)
               /\ \A r \in Query : r # q => v.q[r].at = u.q[r].at
               /\ \A d \in Client : Pending(v, d) \subseteq Pending(u, d)
               /\ \A r \in Query : r # q =>
                    \A d \in Client : r \in Pending(v, d) <=> r \in Pending(u, d)
      BY <2>1, <2>4, <3>1, <3>2, <3>3, UnparkedResult
    <3>5. Result(s, v)
      BY <2>2, <2>4, <3>4, ResultTrans
    <3>6. ASSUME v.stop = "no"
          PROVE  Calm(v, i + 1)
      <4>1. Lower(s, v)
        BY <3>2, <3>4, <3>6 DEF Lower
      <4>2. \A r \in Query : r \in Pending(s, c) => v.q[r].at = c
        BY <3>2, <3>4, <3>6
      <4>3. Pending(v, c) \subseteq Pending(s, c)
        BY <3>2, <3>4, <3>6
      <4>4. ASSUME NEW j \in 1..n, j <= i + 1, list[j] \in Pending(v, c)
            PROVE  ~Ready(v, list[j])
        <5>1. CASE j = i + 1
          BY <3>4, <3>6, <4>4, <5>1 DEF q
        <5>2. CASE j # i + 1
          <6> DEFINE r == list[j]
          <6>1. r \in Query /\ r # q /\ r \in Pending(s, c) /\ j <= i
            BY <1>4, <1>5, <2>1, <4>4, <5>2 DEF q
          <6>2. r \in Pending(u, c) /\ v.q[r].at = c /\ u.q[r].at = c
            BY <3>2, <3>4, <3>6, <4>2, <4>4, <6>1
          <6>3. ~Ready(u, r)
            BY <3>2, <6>1, <6>2
          <6>4. v.dc[c].up => u.dc[c].session
            BY <3>2, <3>4, <3>6 DEF Lower, Sound, Typed
          <6> HIDE DEF r
          <6>5. ~Ready(v, r)
            BY <3>4, <3>6, <6>2, <6>3, <6>4 DEF Ready, Lower
          <6> QED
            BY <6>5 DEF r
        <5> QED
          BY <5>1, <5>2
      <4>5. ASSUME NEW j \in 1..n, j > i + 1
            PROVE  list[j] \in Pending(v, c)
        <5>1. list[j] \in Query /\ list[j] # q /\ j > i
          BY <1>4, <1>5, <2>1, <4>5 DEF q
        <5> QED
          BY <3>2, <3>4, <3>6, <5>1
      <4> QED
        BY <4>1, <4>2, <4>3, <4>4, <4>5
    <3> HIDE DEF Calm
    <3> QED
      BY <2>1, <3>5, <3>6 DEF v
  <2> QED
    BY <2>3, <2>4
<1>8. n \in P
  <2> HIDE DEF P
  <2>1. \A i \in 0..n : i \in P
    BY <1>4, <1>6, <1>7, UpTo
  <2> QED
    BY <1>4, <2>1
<1>9. Result(s, t) /\ (t.stop = "no" => Calm(t, n))
  BY <1>3, <1>8
<1>10. ASSUME t.stop = "no", NEW q \in Query, q \in Pending(t, c)
       PROVE  ~Ready(t, q)
  <2>1. Calm(t, n)
    BY <1>9, <1>10
  <2>2. q \in Pending(s, c)
    BY <1>10, <2>1
  <2>3. PICK j \in 1..n : list[j] = q
    BY <1>5, <2>2
  <2> QED
    BY <1>4, <1>10, <2>1, <2>3
<1>11. t.stop = "no" =>
         t.home = s.home /\ \A q \in Query : q \in Pending(s, c) => t.q[q].at = c
  BY <1>9 DEF Lower
<1> QED
  BY <1>9, <1>10, <1>11 DEF t

-----------------------------------------------------------------------------
(* A client that becomes ready                                             *)

\* The clients have the same queries, and only c may have become ready.
Raised(s, t, c) ==
    /\ Typed(t) /\ t.home = s.home /\ t.stop = s.stop /\ t.q = s.q
    /\ \A d \in Client :
         /\ t.dc[d].pending = s.dc[d].pending /\ t.dc[d].leaving = s.dc[d].leaving
         /\ d # c => /\ t.dc[d].session = s.dc[d].session /\ t.dc[d].up = s.dc[d].up
                    /\ t.dc[d].configured = s.dc[d].configured
                    /\ t.dc[d].in = s.dc[d].in

\* Raising a client keeps the invariant: no query of it was waiting for less.
LEMMA RaisedSound ==
    ASSUME NEW s, Sound(s), NEW c \in Client, NEW t, Raised(s, t, c)
    PROVE  Sound(t)
<1> SUFFICES ASSUME t.stop = "no", NEW q \in Query
             PROVE  Good(t, q)
  BY DEF Sound, Raised
<1>1. Good(s, q) /\ t.q[q] = s.q[q]
  BY DEF Sound, Raised
<1>2. \A d \in Client : Pending(t, d) = Pending(s, d) /\ t.dc[d].leaving = s.dc[d].leaving
  BY DEF Raised, Pending
<1>3. s.q[q].at \in Client \cup {None}
  BY DEF Sound, Typed, State, QueryState
<1>4. Found(t, q)
  BY <1>1, <1>2, <1>3 DEF Good, Found, Open
<1>5. Waits(t, q)
  BY <1>1, <1>2, Zenon DEF Good, Waits
<1>6. Leaves(t, q)
  BY <1>1, <1>2, Zenon DEF Good, Leaves
<1> QED
  BY <1>1, <1>4, <1>5, <1>6 DEF Good

\* send_pending_queries() at a client that has become ready leaves no query that
\* waits for it.
LEMMA RaisedFlushed ==
    ASSUME NEW s, Sound(s), s.stop = "no", NEW c \in Client, NEW r, Raised(s, r, c)
    PROVE  Result(s, Flushed(r, c))
<1> DEFINE t == Flushed(r, c)
<1>1. Sound(r) /\ r.stop = "no" /\ r.q = s.q /\ r.home = s.home
  BY RaisedSound DEF Raised
<1>2. /\ Result(r, t)
      /\ t.stop = "no" =>
           /\ t.home = r.home
           /\ \A q \in Query : q \in Pending(r, c) => t.q[q].at = c
           /\ \A q \in Query : q \in Pending(t, c) => ~Ready(t, q)
  BY <1>1, FlushedResult
<1> HIDE DEF t
<1>3. \A q \in Query : Later(s, t, q)
  BY <1>1, <1>2 DEF Result, Later
<1>4. ASSUME t.stop = "no", NEW q \in Query, Overdue(t, q)
      PROVE  Overdue(s, q)
  <2>1. Overdue(r, q)
    BY <1>2, <1>4 DEF Result
  <2>2. Open(s, q) /\ s.q[q].at \in Client
    BY <1>1, <2>1 DEF Overdue, Open, Sound, Typed, State, QueryState
  <2>3. CASE Kind[q] = "login" /\ r.q[q].at # r.home
    BY <1>1, <2>2, <2>3 DEF Overdue
  <2>4. CASE q \in Pending(r, r.q[q].at) /\ Ready(r, q) /\ r.q[q].at = c
    <3>1. t.q[q].at = c /\ s.q[q].at = c
      BY <1>1, <1>2, <1>4, <2>4
    <3>2. Kind[q] = "login" /\ c # t.home
      BY <1>2, <1>4, <3>1 DEF Overdue
    <3> QED
      BY <1>1, <1>2, <1>4, <2>2, <3>1, <3>2 DEF Overdue
  <2>5. CASE q \in Pending(r, r.q[q].at) /\ Ready(r, q) /\ r.q[q].at # c
    <3>1. Ready(s, q) /\ q \in Pending(s, s.q[q].at)
      BY <1>1, <2>2, <2>5 DEF Raised, Ready, Pending
    <3> QED
      BY <2>2, <3>1 DEF Overdue
  <2> QED
    BY <2>1, <2>3, <2>4, <2>5 DEF Overdue
<1> QED
  BY <1>2, <1>3, <1>4 DEF Result, t

\* A client that is ready for nothing but queries of the login.
LEMMA RaisedResult ==
    ASSUME NEW s, Sound(s), s.stop = "no", NEW c \in Client, NEW t, Raised(s, t, c),
           \A q \in Query : Open(t, q) /\ t.q[q].at = c /\ Ready(t, q) =>
                Kind[q] = "login" /\ c # t.home
    PROVE  Result(s, t)
<1>1. Sound(t)
  BY RaisedSound
<1>2. \A q \in Query : Later(s, t, q)
  BY DEF Raised, Later
<1>3. ASSUME NEW q \in Query, Overdue(t, q)
      PROVE  Overdue(s, q)
  <2>1. /\ t.q[q] = s.q[q] /\ t.home = s.home /\ Open(s, q) /\ Open(t, q)
        /\ s.q[q].at \in Client
    BY <1>3 DEF Raised, Overdue, Open, Sound, Typed, State, QueryState
  <2>2. CASE Kind[q] = "login" /\ t.q[q].at # t.home
    BY <2>1, <2>2 DEF Overdue
  <2>3. CASE q \in Pending(t, t.q[q].at) /\ Ready(t, q) /\ t.q[q].at # c
    <3>1. Ready(s, q) /\ q \in Pending(s, s.q[q].at)
      BY <2>1, <2>3 DEF Raised, Ready, Pending
    <3> QED
      BY <2>1, <3>1 DEF Overdue
  <2>4. CASE Ready(t, q) /\ t.q[q].at = c
    BY <2>1, <2>2, <2>4
  <2> QED
    BY <1>3, <2>2, <2>3, <2>4 DEF Overdue
<1> QED
  BY <1>1, <1>2, <1>3 DEF Result

\* configured(true), of a state in which the client may have come up.
LEMMA ConfiguredResult ==
    ASSUME NEW s, Sound(s), s.stop = "no", NEW c \in Client, NEW r, Raised(s, r, c)
    PROVE  Result(s, Configured(r, c))
<1> DEFINE e == [r.dc[c] EXCEPT !.configured = TRUE, !.known = TRUE]
           D == [r.dc EXCEPT ![c] = e]
           u == [r EXCEPT !.dc[c].configured = TRUE, !.dc[c].known = TRUE]
<1>1. r \in State /\ Typed(r) /\ r.home \in Client
  BY DEF Raised, Typed, State
<1>2. r.dc[c] \in ClientState
  BY <1>1 DEF State
<1>3. e \in ClientState
  BY <1>2 DEF ClientState
<1>4. D \in [Client -> ClientState]
  BY <1>1, <1>3 DEF State
<1>5. u = [r EXCEPT !.dc = D]
  BY <1>1 DEF State
<1>6. \A d \in Client : D[d] = IF d = c THEN e ELSE r.dc[d]
  BY <1>1 DEF State
<1>7. /\ e.pending = r.dc[c].pending /\ e.leaving = r.dc[c].leaving
      /\ e.up = r.dc[c].up /\ e.session = r.dc[c].session /\ e.in = r.dc[c].in
  BY <1>2 DEF ClientState
<1>8. Configured(r, c) = IF c = r.home \/ r.dc[c].in \/ r.dc[c].moving THEN Flushed(u, c)
                         ELSE Moving(u, c)
  BY DEF Configured
<1> HIDE DEF e, D, u
<1>9. u \in State /\ u.home = r.home /\ u.stop = r.stop /\ u.q = r.q /\ u.dc = D
  BY <1>1, <1>4, <1>5 DEF State
<1>10. Raised(s, u, c)
  <2>1. ASSUME NEW d \in Client
        PROVE  /\ u.dc[d].up => u.dc[d].session
               /\ IsInjective(u.dc[d].pending)
               /\ u.dc[d].pending = s.dc[d].pending /\ u.dc[d].leaving = s.dc[d].leaving
               /\ d # c => u.dc[d] = r.dc[d]
    BY <1>1, <1>6, <1>7, <1>9 DEF Raised, Typed
  <2>2. Typed(u)
    BY <1>1, <1>9, <2>1 DEF Typed
  <2> QED
    BY <1>9, <2>1, <2>2 DEF Raised
<1>11. CASE c = r.home \/ r.dc[c].in \/ r.dc[c].moving
  BY <1>8, <1>10, <1>11, RaisedFlushed
<1>12. CASE ~(c = r.home \/ r.dc[c].in \/ r.dc[c].moving)
  <2>1. ASSUME NEW q \in Query, Open(u, q), u.q[q].at = c, Ready(u, q)
        PROVE  Kind[q] = "login" /\ c # u.home
    BY <1>6, <1>7, <1>9, <1>12, <2>1 DEF Ready
  <2>2. Result(s, u) /\ u.stop = "no"
    BY <1>10, <2>1, RaisedResult DEF Raised
  <2>3. Result(u, Moving(u, c))
    BY <2>2, SessionSubsides, SubsidesResult DEF Result, Sound
  <2> QED
    BY <1>8, <1>12, <2>2, <2>3, ResultTrans
<1> QED
  BY <1>11, <1>12
-----------------------------------------------------------------------------
(* Answers, errors and timers of a query                                   *)

\* The others are good, whatever has become of the query itself.
Lone(s, q) ==
    /\ Typed(s) /\ s.stop = "no"
    /\ \A r \in Query : r # q => Good(s, r)
    /\ s.q[q].at \in Client
    /\ \A d \in Client : s.dc[d].leaving = q => Kind[q] = "logout" /\ s.q[q].at = d

\* They stay so, and the query moves to no other place.
Goes(s, t, q) ==
    /\ Typed(t) /\ t.stop = "no" /\ t.home = s.home
    /\ \A r \in Query : r # q =>
         Good(t, r) /\ Later(s, t, r) /\ (Overdue(t, r) => Overdue(s, r))
    /\ t.q[q].at = s.q[q].at
    /\ \A d \in Client :
         /\ Pending(t, d) \subseteq Pending(s, d)
         /\ t.dc[d].leaving = q => s.dc[d].leaving = q

\* A query that goes its way alone stays alone.
LEMMA GoesLone ==
    ASSUME NEW q \in Query, NEW s, Lone(s, q), NEW t, Goes(s, t, q)
    PROVE  Lone(t, q)
BY DEF Lone, Goes

\* Going further is going.
LEMMA GoesTrans ==
    ASSUME NEW q \in Query, NEW s, NEW t, NEW u, Goes(s, t, q), Goes(t, u, q)
    PROVE  Goes(s, u, q)
<1>1. ASSUME NEW r \in Query, r # q
      PROVE  Good(u, r) /\ Later(s, u, r) /\ (Overdue(u, r) => Overdue(s, r))
  <2>1. Later(s, t, r) /\ Later(t, u, r) /\ Good(u, r)
    BY <1>1 DEF Goes
  <2>2. Later(s, u, r)
    BY <2>1 DEF Later
  <2> QED
    BY <1>1, <2>1, <2>2 DEF Goes
<1> QED
  BY <1>1 DEF Goes

\* All that is left to say of such a step is that the query is good.
LEMMA GoesResult ==
    ASSUME NEW q \in Query, NEW s, Lone(s, q), s.q[q].end = "no", NEW t, Goes(s, t, q),
           Good(t, q), \A d \in Client : q \notin Pending(t, d)
    PROVE  Result(s, t)
<1>1. Sound(t)
  BY DEF Goes, Sound
<1>2. Later(s, t, q)
  BY DEF Goes, Later
<1>3. Overdue(t, q) => Overdue(s, q)
  BY QueriesAssumption DEF Overdue, Open, Goes, Lone
<1> QED
  BY <1>1, <1>2, <1>3 DEF Result, Goes

\* Nothing but the query's own fields and cleanup timers changes.
Only(s, t, q, f) ==
    /\ t \in State /\ t.home = s.home /\ t.stop = s.stop
    /\ t.dc = s.dc \/ Idled(s, t)
    /\ f.at = s.q[q].at /\ Counted(f)
    /\ t.q = [s.q EXCEPT ![q] = f]

\* A change of the fields of a lone query is going.
LEMMA FieldsGo ==
    ASSUME NEW q \in Query, NEW s, Lone(s, q), NEW t, NEW f, Only(s, t, q, f)
    PROVE  Goes(s, t, q) /\ t.q[q] = f
<1>0. /\ t \in State /\ t.home = s.home /\ t.stop = s.stop
      /\ t.dc = s.dc \/ Idled(s, t)
      /\ f.at = s.q[q].at /\ Counted(f)
      /\ t.q = [s.q EXCEPT ![q] = f]
  BY DEF Only
<1>1. Typed(s) /\ s \in State /\ s.stop = "no"
  BY DEF Lone, Typed
<1>2. t.q[q] = f /\ \A r \in Query : r # q => t.q[r] = s.q[r]
  BY <1>0, <1>1 DEF State
<1>3. ASSUME NEW d \in Client
      PROVE  /\ t.dc[d].pending = s.dc[d].pending /\ t.dc[d].leaving = s.dc[d].leaving
             /\ t.dc[d].up = s.dc[d].up /\ t.dc[d].session = s.dc[d].session
             /\ t.dc[d].configured = s.dc[d].configured /\ t.dc[d].in = s.dc[d].in
  <2>0. t.dc = s.dc \/ Idled(s, t)
    BY <1>0
  <2>1. CASE t.dc = s.dc
    BY <2>1
  <2>2. CASE Idled(s, t)
    <3>1. PICK b \in BOOLEAN : t.dc[d] = [s.dc[d] EXCEPT !.idle = b]
      BY <2>2 DEF Idled
    <3>2. s.dc[d] \in ClientState
      BY <1>1 DEF State
    <3> QED
      BY <3>1, <3>2 DEF ClientState
  <2> QED
    BY <2>0, <2>1, <2>2
<1>4. Typed(t)
  <2>1. \A r \in Query : Counted(t.q[r])
    BY <1>0, <1>1, <1>2 DEF Typed
  <2>2. \A d \in Client : (t.dc[d].up => t.dc[d].session) /\ IsInjective(t.dc[d].pending)
    BY <1>1, <1>3 DEF Typed
  <2> QED
    BY <1>0, <2>1, <2>2 DEF Typed
<1>5. Lower(s, t)
  BY <1>0, <1>3 DEF Lower
<1>6. ASSUME NEW r \in Query, r # q
      PROVE  Good(t, r) /\ Later(s, t, r) /\ (Overdue(t, r) => Overdue(s, r))
  <2>1. Same(s, t, r)
    BY <1>2, <1>3, <1>6 DEF Same, Pending
  <2>2. Good(s, r)
    BY <1>6 DEF Lone
  <2> QED
    BY <1>0, <1>1, <1>5, <2>1, <2>2, SameKeeps
<1> QED
  BY <1>0, <1>1, <1>2, <1>3, <1>4, <1>6 DEF Goes, Pending

\* Sessions come and go beside it.
LEMMA SubsidesGoes ==
    ASSUME NEW q \in Query, NEW s, Lone(s, q), NEW t, Subsides(s, t)
    PROVE  /\ Goes(s, t, q)
           /\ t.q[q] \in {s.q[q], [s.q[q] EXCEPT !.sess = FALSE]}
<1>1. Typed(s) /\ s \in State /\ s.stop = "no" /\ t \in State
  BY DEF Lone, Typed, Subsides
<1>2. Typed(t) /\ Lower(s, t) /\ \A r \in Query : Same(s, t, r)
  BY <1>1, SubsidesKeeps
<1>3. t.q[q] \in {s.q[q], [s.q[q] EXCEPT !.sess = FALSE]}
  BY DEF Subsides
<1>4. ASSUME NEW r \in Query, r # q
      PROVE  Good(t, r) /\ Later(s, t, r) /\ (Overdue(t, r) => Overdue(s, r))
  BY <1>1, <1>2, <1>4, SameKeeps DEF Lone
<1>5. t.q[q].at = s.q[q].at
  BY <1>1, <1>3 DEF State, QueryState
<1>6. \A d \in Client : /\ Pending(t, d) = Pending(s, d)
                        /\ t.dc[d].leaving = s.dc[d].leaving
  BY DEF Subsides, Lowered, Pending
<1> QED
  BY <1>1, <1>2, <1>3, <1>4, <1>5, <1>6 DEF Goes, Subsides

\* clear_timers(), remove_active_query().
LEMMA SilentGoes ==
    ASSUME NEW q \in Query, NEW s, Lone(s, q)
    PROVE  LET t == Inactive(Quiet(s, q), q)
           IN  /\ Goes(s, t, q)
               /\ t.q[q].end = s.q[q].end /\ t.q[q].ends = s.q[q].ends
               /\ t.q[q].kept = s.q[q].kept
               /\ ~t.q[q].active /\ ~t.q[q].timer /\ ~t.q[q].retry
<1> DEFINE t == Inactive(Quiet(s, q), q)
           f == [s.q[q] EXCEPT !.timer = FALSE, !.retry = FALSE, !.active = FALSE]
<1>1. s \in State /\ Typed(s) /\ s.q[q] \in QueryState
  BY DEF Lone, Typed, State
<1>2. /\ t \in State /\ t.home = s.home /\ t.stop = s.stop /\ Idled(s, t)
      /\ t.q = [s.q EXCEPT ![q] = f]
  BY <1>1, SilentFields
<1>3. /\ f \in QueryState /\ f.at = s.q[q].at /\ f.end = s.q[q].end /\ f.ends = s.q[q].ends
      /\ f.kept = s.q[q].kept /\ ~f.active /\ ~f.timer /\ ~f.retry
  BY <1>1 DEF QueryState
<1>4. Counted(f)
  BY <1>1, <1>3 DEF Typed, Counted
<1> HIDE DEF t, f
<1>5. Goes(s, t, q) /\ t.q[q] = f
  <2>1. Only(s, t, q, f)
    BY <1>2, <1>3, <1>4 DEF Only
  <2> QED
    BY <2>1, FieldsGo
<1> QED
  BY <1>3, <1>5 DEF t

\* Stopping its timers is going.
LEMMA QuietGoes ==
    ASSUME NEW q \in Query, NEW s, Lone(s, q)
    PROVE  LET t == Quiet(s, q)
           IN  /\ Goes(s, t, q)
               /\ t.q[q].end = s.q[q].end /\ t.q[q].ends = s.q[q].ends
               /\ t.q[q].kept = s.q[q].kept /\ t.q[q].active = s.q[q].active
               /\ ~t.q[q].timer /\ ~t.q[q].retry
<1> DEFINE t == Quiet(s, q)
           f == [s.q[q] EXCEPT !.timer = FALSE, !.retry = FALSE]
<1>1. s \in State /\ Typed(s) /\ s.q[q] \in QueryState
  BY DEF Lone, Typed, State
<1>2. /\ t \in State /\ t.home = s.home /\ t.stop = s.stop /\ t.dc = s.dc
      /\ t.q = [s.q EXCEPT ![q] = f]
  BY <1>1, QuietFields
<1>3. /\ f \in QueryState /\ f.at = s.q[q].at /\ f.end = s.q[q].end /\ f.ends = s.q[q].ends
      /\ f.kept = s.q[q].kept /\ f.active = s.q[q].active /\ ~f.timer /\ ~f.retry
  BY <1>1 DEF QueryState
<1>4. Counted(f)
  BY <1>1, <1>3 DEF Typed, Counted
<1> HIDE DEF t, f
<1>5. Goes(s, t, q) /\ t.q[q] = f
  <2>1. Only(s, t, q, f)
    BY <1>2, <1>3, <1>4 DEF Only
  <2> QED
    BY <2>1, FieldsGo
<1> QED
  BY <1>3, <1>5 DEF t

\* Becoming inactive is going.
LEMMA InactiveGoes ==
    ASSUME NEW q \in Query, NEW s, Lone(s, q)
    PROVE  LET t == Inactive(s, q)
           IN  /\ Goes(s, t, q)
               /\ t.q[q].end = s.q[q].end /\ t.q[q].timer = s.q[q].timer
               /\ t.q[q].retry = s.q[q].retry /\ ~t.q[q].active
<1> DEFINE t == Inactive(s, q)
           f == [s.q[q] EXCEPT !.active = FALSE]
<1>1. s \in State /\ Typed(s) /\ s.q[q] \in QueryState
  BY DEF Lone, Typed, State
<1>2. /\ t \in State /\ t.home = s.home /\ t.stop = s.stop /\ Idled(s, t)
      /\ t.q = [s.q EXCEPT ![q] = f]
  BY <1>1, InactiveFields
<1>3. /\ f \in QueryState /\ f.at = s.q[q].at /\ f.end = s.q[q].end /\ f.ends = s.q[q].ends
      /\ f.timer = s.q[q].timer /\ f.retry = s.q[q].retry /\ ~f.active
  BY <1>1 DEF QueryState
<1>4. Counted(f)
  BY <1>1, <1>3 DEF Typed, Counted
<1> HIDE DEF t, f
<1>5. Goes(s, t, q) /\ t.q[q] = f
  <2>1. Only(s, t, q, f)
    BY <1>2, <1>3, <1>4 DEF Only
  <2> QED
    BY <2>1, FieldsGo
<1> QED
  BY <1>3, <1>5 DEF t

\* The application is told.
LEMMA EndedGo ==
    ASSUME NEW q \in Query, NEW s, Lone(s, q), s.q[q].end \in {"no", "dropped"},
           NEW how \in {"answered", "failed", "expired"}
    PROVE  LET t == Ended(s, q, how)
           IN  /\ Goes(s, t, q)
               /\ t.q[q].end = how /\ t.q[q].timer = s.q[q].timer
               /\ t.q[q].retry = s.q[q].retry /\ t.q[q].active = s.q[q].active
               /\ t.dc = s.dc
<1> DEFINE t == Ended(s, q, how)
           f == EndedQuery(s.q[q], how)
<1>1. s \in State /\ Typed(s) /\ s.q[q] \in QueryState /\ how \in Ends
  BY DEF Lone, Typed, State, Ends
<1>2. /\ t \in State /\ t.home = s.home /\ t.stop = s.stop /\ t.dc = s.dc
      /\ t.q = [s.q EXCEPT ![q] = f]
  BY <1>1, EndedFields
<1>3. /\ f.at = s.q[q].at /\ f.end = how
      /\ f.timer = s.q[q].timer /\ f.retry = s.q[q].retry /\ f.active = s.q[q].active
  BY <1>1 DEF QueryState, EndedQuery
<1>4. Counted(f)
  <2>1. s.q[q].ends = 0 /\ s.q[q].at # None
    BY <1>1, QueriesAssumption DEF Typed, Counted, Lone
  <2> QED
    BY <1>1, <2>1, EndCounts
<1> HIDE DEF t, f
<1>5. Goes(s, t, q) /\ t.q[q] = f
  <2>1. Only(s, t, q, f)
    BY <1>2, <1>3, <1>4 DEF Only
  <2> QED
    BY <2>1, FieldsGo
<1> QED
  BY <1>2, <1>3, <1>5 DEF t

\* retry_within().
LEMMA RetriedGoes ==
    ASSUME NEW q \in Query, NEW s, Lone(s, q), s.q[q].end \in {"no", "dropped"}
    PROVE  LET t == Retried(s, q)
           IN  /\ Goes(s, t, q)
               /\ t.q[q].end = "no" /\ t.q[q].retry /\ t.q[q].kept
               /\ t.q[q].timer = s.q[q].timer /\ t.q[q].active = s.q[q].active
               /\ t.q[q].sess = s.q[q].sess
<1> DEFINE t == Retried(s, q)
           f == RetriedQuery(s.q[q])
<1>1. s \in State /\ Typed(s) /\ s.q[q] \in QueryState
  BY DEF Lone, Typed, State
<1>2. /\ t \in State /\ t.home = s.home /\ t.stop = s.stop /\ t.dc = s.dc
      /\ t.q = [s.q EXCEPT ![q] = f]
  BY <1>1, RetriedFields
<1>3. /\ f \in QueryState /\ f.at = s.q[q].at /\ f.end = "no" /\ f.ends = s.q[q].ends
      /\ f.retry /\ f.kept /\ f.timer = s.q[q].timer /\ f.active = s.q[q].active
      /\ f.sess = s.q[q].sess
  BY <1>1 DEF QueryState, RetriedQuery, Ends
<1>4. Counted(f)
  BY <1>1, <1>3 DEF Typed, Counted
<1> HIDE DEF t, f
<1>5. Goes(s, t, q) /\ t.q[q] = f
  <2>1. Only(s, t, q, f)
    BY <1>2, <1>3, <1>4 DEF Only
  <2> QED
    BY <2>1, FieldsGo
<1> QED
  BY <1>3, <1>5 DEF t

\* A query that waits for its retry timer is good.
LEMMA RetriedIsGood ==
    ASSUME NEW q \in Query, NEW t, Lone(t, q), \A d \in Client : q \notin Pending(t, d),
           t.q[q].end = "no", t.q[q].retry, t.q[q].kept, ~(t.q[q].active /\ t.q[q].sess)
    PROVE  Good(t, q)
<1>1. Unused(t.q[q]) /\ Over(t.q[q]) /\ RetriesOnce(t.q[q], q)
  BY QueriesAssumption DEF Lone, Unused, Over, RetriesOnce
<1>2. Waits(t, q) /\ Leaves(t, q) /\ Found(t, q)
  BY DEF Lone, Waits, Leaves, Found
<1> QED
  BY <1>1, <1>2 DEF Good

\* A query that has ended is good.
LEMMA EndedIsGood ==
    ASSUME NEW q \in Query, NEW t, Lone(t, q), \A d \in Client : q \notin Pending(t, d),
           \A d \in Client : t.dc[d].leaving # q,
           t.q[q].end # "no", ~t.q[q].active, ~t.q[q].retry, ~t.q[q].timer
    PROVE  Good(t, q)
<1>1. Unused(t.q[q]) /\ Over(t.q[q]) /\ RetriesOnce(t.q[q], q)
  BY QueriesAssumption DEF Lone, Unused, Over, RetriesOnce
<1>2. Waits(t, q) /\ Leaves(t, q) /\ Found(t, q)
  BY DEF Lone, Waits, Leaves, Found, Open
<1> QED
  BY <1>1, <1>2 DEF Good

\* alarm() of a query that is open and in no list: it is sent again, or waits.
LEMMA AlarmedResult ==
    ASSUME NEW q \in Query, NEW s, Lone(s, q), s.q[q].end = "no",
           \A d \in Client : q \notin Pending(s, d), Timed(q) => ~s.q[q].kept
    PROVE  Result(s, Alarmed(s, q))
<1> DEFINE t == Inactive(Quiet(s, q), q)
           u == Alarmed(s, q)
<1>1. /\ Goes(s, t, q) /\ t.q[q].end = "no" /\ t.q[q].kept = s.q[q].kept
      /\ ~t.q[q].active /\ ~t.q[q].timer /\ ~t.q[q].retry
  BY SilentGoes
<1>2. u = Tried(t, q, FALSE)
  BY DEF Alarmed
<1> HIDE DEF t, u
<1>3. Lone(t, q) /\ \A d \in Client : q \notin Pending(t, d)
  BY <1>1, GoesLone DEF Goes
<1>4. Almost(t, q)
  BY <1>1, <1>3 DEF Almost, Lone
<1>5. Result(t, u)
  BY <1>2, <1>3, <1>4, TriedResult
<1>6. \A r \in Query : Later(s, t, r) /\ (Overdue(t, r) => Overdue(s, r))
  <2>1. Later(s, t, q)
    BY <1>1 DEF Goes, Later
  <2>2. Overdue(t, q) => Overdue(s, q)
    BY <1>1, <1>3, QueriesAssumption DEF Overdue, Open, Goes, Lone
  <2> QED
    BY <1>1, <2>1, <2>2 DEF Goes
<1>7. ASSUME NEW r \in Query
      PROVE  Later(s, u, r) /\ (u.stop = "no" /\ Overdue(u, r) => Overdue(s, r))
  <2>1. Later(s, t, r) /\ Later(t, u, r)
    BY <1>5, <1>6 DEF Result
  <2>2. Later(s, u, r)
    BY <2>1 DEF Later
  <2> QED
    BY <1>5, <1>6, <2>2 DEF Result
<1> QED
  BY <1>5, <1>7 DEF Result, u

-----------------------------------------------------------------------------
(* Logging out                                                             *)

\* The query is open, waits at its own client only, and not while the client
\* logs out with it.
Listed(s, q) ==
    /\ s.q[q].end = "no"
    /\ \A d \in Client :
         q \in Pending(s, d) => s.q[q].at = d /\ s.dc[d].leaving # q

\* The client of a query gives up the logout query it has, if any.
LEMMA NotLeavingGoes ==
    ASSUME NEW q \in Query, NEW s, Lone(s, q), Listed(s, q)
    PROVE  LET t == NotLeaving(s, s.q[q].at)
           IN  /\ Goes(s, t, q)
               /\ \A d \in Client : t.dc[d].leaving # q
               /\ t.q[q].end \in {"no", "dropped"}
               /\ t.q[q].timer => s.q[q].timer
               /\ t.q[q].retry => s.q[q].retry
               /\ t.q[q].active => s.q[q].active
<1> DEFINE c == s.q[q].at
           l == s.dc[c].leaving
           t == NotLeaving(s, c)
<1>1. /\ s \in State /\ Typed(s) /\ s.stop = "no" /\ c \in Client
      /\ l \in Query \cup {None}
      /\ \A d \in Client : s.dc[d].leaving = q => d = c
  BY DEF Lone, Typed, State, ClientState
<1>2. CASE l = None
  <2>1. t = s
    BY <1>2 DEF NotLeaving
  <2>2. Goes(s, s, q)
    BY <1>1 DEF Goes, Later, Lone
  <2>3. \A d \in Client : s.dc[d].leaving # q
    BY <1>1, <1>2, QueriesAssumption
  <2> QED
    BY <2>1, <2>2, <2>3 DEF Listed
<1>3. CASE l \in Query
  <2>1. /\ s.q[l].end = "no" /\ s.q[l].at = c
        /\ \A d \in Client : s.dc[d].leaving = l => d = c
        /\ \A d \in Client : l \notin Pending(s, d)
    <3>1. CASE l = q
      <4>1. \A d \in Client : q \in Pending(s, d) => FALSE
        BY <1>1, <3>1 DEF Listed
      <4> QED
        BY <1>1, <3>1, <4>1 DEF Listed
    <3>2. CASE l # q
      <4>1. Good(s, l)
        BY <1>3, <3>2 DEF Lone
      <4>2. \A d \in Client : s.dc[d].leaving = l =>
              s.q[l].at = d /\ s.q[l].end = "no" /\ l \notin Pending(s, d)
        BY <4>1 DEF Good, Leaves
      <4>3. \A d \in Client : l \in Pending(s, d) => s.q[l].at = d
        BY <4>1 DEF Good, Waits
      <4> QED
        BY <1>1, <4>2, <4>3
    <3> QED
      BY <3>1, <3>2
  <2> HIDE DEF l, t, c
  <2>2. /\ Typed(t) /\ Lower(s, t) /\ t.stop = s.stop
        /\ \A d \in Client : t.dc[d].pending = s.dc[d].pending
        /\ \A r \in Query : r # l => Same(s, t, r) /\ t.q[r] = s.q[r]
        /\ t.q[l].end = "dropped" /\ t.q[l].at = c
        /\ ~t.q[l].active /\ ~t.q[l].retry /\ ~t.q[l].timer
        /\ \A d \in Client : t.dc[d].leaving # l
        /\ Good(t, l) /\ Later(s, t, l) /\ ~Overdue(t, l)
    <3>1. s.dc[c].leaving = l /\ t = NotLeaving(s, c)
      BY DEF l, t
    <3> QED
      BY <1>1, <1>3, <2>1, <3>1, NotLeavingKeeps
  <2>3. \A d \in Client : Pending(t, d) = Pending(s, d)
    BY <2>2 DEF Pending
  <2>4. ASSUME NEW r \in Query, r # q
        PROVE  Good(t, r) /\ Later(s, t, r) /\ (Overdue(t, r) => Overdue(s, r))
    <3>1. CASE r = l
      BY <2>2, <3>1
    <3>2. CASE r # l
      <4>1. Good(s, r) /\ Same(s, t, r) /\ t \in State
        BY <2>2, <2>4, <3>2 DEF Lone, Typed
      <4> QED
        BY <1>1, <2>2, <4>1, SameKeeps
    <3> QED
      BY <3>1, <3>2
  <2>5. /\ t.q[q].at = c
        /\ t.q[q].end \in {"no", "dropped"}
        /\ t.q[q].timer => s.q[q].timer
        /\ t.q[q].retry => s.q[q].retry
        /\ t.q[q].active => s.q[q].active
    <3>1. CASE q = l
      BY <2>2, <3>1
    <3>2. CASE q # l
      <4>1. t.q[q] = s.q[q]
        BY <2>2, <3>2
      <4> QED
        BY <4>1 DEF Listed, c
    <3> QED
      BY <3>1, <3>2
  <2>6. \A d \in Client : t.dc[d].leaving # q
    <3>1. CASE q = l
      BY <2>2, <3>1
    <3>2. CASE q # l
      <4>1. \A d \in Client : t.dc[d].leaving = q => s.dc[d].leaving = q
        BY <2>2, <3>2 DEF Same
      <4>2. \A d \in Client : s.dc[d].leaving # q
        BY <1>1, <3>2 DEF l
      <4> QED
        BY <4>1, <4>2
    <3> QED
      BY <3>1, <3>2
  <2>7. Goes(s, t, q)
    BY <1>1, <2>2, <2>3, <2>4, <2>5, <2>6 DEF Goes, Lower, c
  <2> QED
    BY <2>5, <2>6, <2>7 DEF t, c
<1> QED
  BY <1>1, <1>2, <1>3

\* on_error(), on_timeout(): the query has ended, and no client logs out with it.
LEMMA ToldGoes ==
    ASSUME NEW q \in Query, NEW s, Lone(s, q), Listed(s, q),
           NEW how \in {"answered", "failed", "expired"}
    PROVE  LET t == Told(s, q, how)
           IN  /\ Goes(s, t, q)
               /\ \A d \in Client : t.dc[d].leaving # q
               /\ t.q[q].end = how
               /\ t.q[q].timer => s.q[q].timer
               /\ t.q[q].retry => s.q[q].retry
               /\ t.q[q].active => s.q[q].active
<1> DEFINE r == IF Kind[q] = "logout" THEN NotLeaving(s, s.q[q].at) ELSE s
           t == Told(s, q, how)
<1>1. /\ Goes(s, r, q)
      /\ \A d \in Client : r.dc[d].leaving # q
      /\ r.q[q].end \in {"no", "dropped"}
      /\ r.q[q].timer => s.q[q].timer
      /\ r.q[q].retry => s.q[q].retry
      /\ r.q[q].active => s.q[q].active
  <2>1. CASE Kind[q] = "logout"
    BY <2>1, NotLeavingGoes
  <2>2. CASE Kind[q] # "logout"
    <3>1. Goes(s, s, q)
      BY DEF Goes, Later, Lone
    <3>2. \A d \in Client : s.dc[d].leaving # q
      BY <2>2 DEF Lone
    <3> QED
      BY <2>2, <3>1, <3>2 DEF Listed
  <2> QED
    BY <2>1, <2>2
<1>2. t = Ended(r, q, how)
  BY DEF Told
<1> HIDE DEF r, t
<1>3. /\ Goes(r, t, q)
      /\ t.q[q].end = how /\ t.q[q].timer = r.q[q].timer
      /\ t.q[q].retry = r.q[q].retry /\ t.q[q].active = r.q[q].active
      /\ t.dc = r.dc
  <2>1. Lone(r, q)
    BY <1>1, GoesLone
  <2> QED
    BY <1>1, <1>2, <2>1, EndedGo
<1>4. Goes(s, t, q)
  BY <1>1, <1>3, GoesTrans
<1> QED
  BY <1>1, <1>3, <1>4 DEF t

\* set_client_logged_out(): every session is closed, or the assertion about
\* another client's logout query fails.
LEMMA LoggedOutGoes ==
    ASSUME NEW q \in Query, NEW s, Lone(s, q), Listed(s, q)
    PROVE  LET t == LoggedOut(s, s.q[q].at)
           IN  /\ t.stop # "no" => Sound(t) /\ \A r \in Query : Later(s, t, r)
               /\ t.stop = "no" =>
                    /\ Goes(s, t, q)
                    /\ \A d \in Client : t.dc[d].leaving # q
                    /\ t.q[q].end \in {"no", "dropped"}
                    /\ t.q[q].timer => s.q[q].timer
                    /\ t.q[q].retry => s.q[q].retry
                    /\ t.q[q].active => s.q[q].active
<1> DEFINE r == NotLeaving(s, s.q[q].at)
           t == LoggedOut(s, s.q[q].at)
<1>1. /\ Goes(s, r, q)
      /\ \A d \in Client : r.dc[d].leaving # q
      /\ r.q[q].end \in {"no", "dropped"}
      /\ r.q[q].timer => s.q[q].timer
      /\ r.q[q].retry => s.q[q].retry
      /\ r.q[q].active => s.q[q].active
  BY NotLeavingGoes
<1>2. t = IF \E d \in Client : r.dc[d].leaving # None
          THEN [r EXCEPT !.stop = "null"]
          ELSE [r EXCEPT !.dc = [d \in Client |-> [r.dc[d] EXCEPT !.session = FALSE,
                                                                  !.up = FALSE, !.in = FALSE]],
                         !.q = [p \in Query |-> [r.q[p] EXCEPT !.sess = FALSE]]]
  BY DEF LoggedOut
<1>3. r \in State /\ Typed(r) /\ r.stop = "no"
  BY <1>1 DEF Goes, Typed
<1> HIDE DEF r, t
<1>4. CASE \E d \in Client : r.dc[d].leaving # None
  <2>1. /\ t \in State /\ t.stop = "null" /\ t.q = r.q /\ t.dc = r.dc
    BY <1>2, <1>3, <1>4 DEF State
  <2>2. Typed(t)
    BY <1>3, <2>1 DEF Typed
  <2>3. \A p \in Query : Later(s, t, p)
    BY <1>1, <2>1 DEF Goes, Later, Listed
  <2> QED
    BY <2>1, <2>2, <2>3 DEF Sound, t
<1>5. CASE ~\E d \in Client : r.dc[d].leaving # None
  <2> DEFINE D == [d \in Client |-> [r.dc[d] EXCEPT !.session = FALSE, !.up = FALSE,
                                                    !.in = FALSE]]
             Q == [p \in Query |-> [r.q[p] EXCEPT !.sess = FALSE]]
  <2>1. D \in [Client -> ClientState] /\ Q \in [Query -> QueryState]
    <3>1. ASSUME NEW x \in ClientState
          PROVE  [x EXCEPT !.session = FALSE, !.up = FALSE, !.in = FALSE] \in ClientState
      BY DEF ClientState
    <3>2. ASSUME NEW x \in QueryState
          PROVE  [x EXCEPT !.sess = FALSE] \in QueryState
      BY DEF QueryState
    <3> QED
      BY <1>3, <3>1, <3>2 DEF State
  <2>2. t = [r EXCEPT !.dc = D, !.q = Q]
    BY <1>2, <1>5
  <2>3. ASSUME NEW d \in Client
        PROVE  Lowered(r.dc[d], D[d])
    <3>1. r.dc[d] \in ClientState
      BY <1>3 DEF State
    <3>2. D[d] = [r.dc[d] EXCEPT !.session = FALSE, !.up = FALSE, !.in = FALSE]
      OBVIOUS
    <3> HIDE DEF D
    <3> QED
      BY <3>1, <3>2 DEF ClientState, Lowered
  <2>4. \A p \in Query : Q[p] = [r.q[p] EXCEPT !.sess = FALSE]
    OBVIOUS
  <2> HIDE DEF D, Q
  <2>5. t \in State /\ t.home = r.home /\ t.stop = r.stop /\ t.dc = D /\ t.q = Q
    BY <1>3, <2>1, <2>2 DEF State
  <2>6. Subsides(r, t)
    BY <2>3, <2>4, <2>5 DEF Subsides
  <2>7. Lone(r, q)
    BY <1>1, GoesLone
  <2>8. /\ Goes(r, t, q)
        /\ t.q[q] \in {r.q[q], [r.q[q] EXCEPT !.sess = FALSE]}
    BY <2>6, <2>7, SubsidesGoes
  <2>9. /\ t.q[q].end = r.q[q].end /\ t.q[q].timer = r.q[q].timer
        /\ t.q[q].retry = r.q[q].retry /\ t.q[q].active = r.q[q].active
    <3>1. r.q[q] \in QueryState
      BY <1>3 DEF State
    <3> QED
      BY <2>8, <3>1 DEF QueryState
  <2>10. Goes(s, t, q)
    BY <1>1, <2>8, GoesTrans
  <2>11. \A d \in Client : t.dc[d].leaving # q
    BY <1>1, <2>8 DEF Goes
  <2> QED
    BY <1>1, <1>3, <2>5, <2>9, <2>10, <2>11 DEF t
<1> QED
  BY <1>4, <1>5

-----------------------------------------------------------------------------
(* The steps of the clients                                                *)

\* What the application is promised of a step.
Onward(s, t, q) ==
    /\ s.q[q].at # None => t.q[q].at # None
    /\ s.q[q].end \in {"answered", "failed", "expired"} => t.q[q].end = s.q[q].end

\* A step that keeps the invariant, and the promise.
Safe == IInv' /\ \A q \in Query : Onward(ua, ua', q)

\* A handler whose state is a result of the one before is safe.
LEMMA ResultIsSafe ==
    ASSUME IInv, Result(ua, ua'), asked' = asked, passed \subseteq passed',
           Running
    PROVE  Safe
<1>1. \A q \in Query : Onward(ua, ua', q)
  BY DEF Result, Later, Onward
<1>2. Sound(ua')
  BY DEF Result
<1>3. \A q \in asked' : q \in Query /\ Kind[q] = "logout" /\ ua'.q[q].at = None
  BY DEF IInv, Result, Later
<1>4. ua'.stop = "no" => \A q \in Query : Overdue(ua', q) => q \in passed'
  BY DEF IInv, Result, Running
<1> QED
  BY <1>1, <1>2, <1>3, <1>4 DEF Safe, IInv, Running

\* One client changes, with the queries it has.
LEMMA ClientRaised ==
    ASSUME NEW s, Typed(s), NEW c \in Client, NEW e \in ClientState,
           e.pending = s.dc[c].pending, e.leaving = s.dc[c].leaving, e.up => e.session,
           NEW t, NEW D, D = [s.dc EXCEPT ![c] = e], t = [s EXCEPT !.dc = D]
    PROVE  Raised(s, t, c)
<1>1. s \in State /\ D \in [Client -> ClientState]
  BY DEF Typed, State
<1>2. /\ t \in State /\ t.home = s.home /\ t.stop = s.stop /\ t.q = s.q /\ t.dc = D
  BY <1>1 DEF State
<1>3. D[c] = e /\ \A d \in Client : d # c => D[d] = s.dc[d]
  BY <1>1 DEF State
<1>4. ASSUME NEW d \in Client
      PROVE  /\ t.dc[d].up => t.dc[d].session
             /\ IsInjective(t.dc[d].pending)
             /\ t.dc[d].pending = s.dc[d].pending /\ t.dc[d].leaving = s.dc[d].leaving
  <2>1. CASE d = c
    BY <1>2, <1>3, <2>1 DEF Typed
  <2>2. CASE d # c
    BY <1>2, <1>3, <2>2 DEF Typed
  <2> QED
    BY <2>1, <2>2
<1>5. Typed(t)
  BY <1>2, <1>4 DEF Typed
<1> QED
  BY <1>2, <1>3, <1>4, <1>5 DEF Raised

\* The handlers, one by one. A connection comes up: what waits is sent.
LEMMA UpIsSafe ==
    ASSUME IInv, NEW c \in Client, Up(c)
    PROVE  Safe
<1> DEFINE e == [ua.dc[c] EXCEPT !.up = TRUE]
           D == [ua.dc EXCEPT ![c] = e]
           s == [ua EXCEPT !.dc[c].up = TRUE]
<1>1. Sound(ua) /\ ua.stop = "no" /\ Typed(ua) /\ ua \in State /\ ua.dc[c] \in ClientState
  BY DEF IInv, Up, Running, Sound, Typed, State
<1>2. s = [ua EXCEPT !.dc = D]
  BY <1>1 DEF State
<1>3. /\ e \in ClientState /\ e.pending = ua.dc[c].pending /\ e.leaving = ua.dc[c].leaving
      /\ e.session = ua.dc[c].session /\ e.configured = ua.dc[c].configured
  BY <1>1 DEF ClientState
<1>4. ua.dc[c].session
  BY DEF Up
<1>5. /\ ua' = IF s.dc[c].configured THEN Configured(s, c) ELSE s
      /\ asked' = asked /\ passed' = passed
  BY DEF Up
<1> HIDE DEF s, e
<1>6. Raised(ua, s, c)
  BY <1>1, <1>2, <1>3, <1>4, ClientRaised
<1>7. Result(ua, ua')
  <2>1. CASE s.dc[c].configured
    BY <1>1, <1>5, <1>6, <2>1, ConfiguredResult
  <2>2. CASE ~s.dc[c].configured
    <3>1. \A q \in Query : Open(s, q) /\ s.q[q].at = c /\ Ready(s, q) => FALSE
      BY <2>2 DEF Ready
    <3> QED
      BY <1>1, <1>5, <1>6, <2>2, <3>1, RaisedResult
  <2> QED
    BY <2>1, <2>2
<1> QED
  BY <1>1, <1>5, <1>7, ResultIsSafe DEF Running

\* The client is configured: what waits is sent.
LEMMA ConfigureIsSafe ==
    ASSUME IInv, NEW c \in Client, Configure(c)
    PROVE  Safe
<1>1. Sound(ua) /\ ua.stop = "no" /\ Typed(ua)
  BY DEF IInv, Configure, Running, Sound
<1>2. Raised(ua, ua, c)
  BY <1>1 DEF Raised
<1>3. Result(ua, ua')
  BY <1>1, <1>2, ConfiguredResult DEF Configure
<1> QED
  BY <1>3, ResultIsSafe DEF Configure

\* The authorization arrives at a client: what waits is sent.
LEMMA ImportIsSafe ==
    ASSUME IInv, NEW c \in Client, Import(c)
    PROVE  Safe
<1> DEFINE e == [ua.dc[c] EXCEPT !.moving = FALSE, !.in = TRUE]
           D == [ua.dc EXCEPT ![c] = e]
           s == [ua EXCEPT !.dc[c].moving = FALSE, !.dc[c].in = TRUE]
<1>1. Sound(ua) /\ ua.stop = "no" /\ Typed(ua) /\ ua \in State /\ ua.dc[c] \in ClientState
  BY DEF IInv, Import, Running, Sound, Typed, State
<1>2. s = [ua EXCEPT !.dc = D]
  BY <1>1 DEF State
<1>3. /\ e \in ClientState /\ e.pending = ua.dc[c].pending /\ e.leaving = ua.dc[c].leaving
      /\ e.session = ua.dc[c].session /\ e.up = ua.dc[c].up
  BY <1>1 DEF ClientState
<1>4. ua.dc[c].up => ua.dc[c].session
  BY <1>1 DEF Typed
<1>5. ua' = Flushed(s, c) /\ asked' = asked /\ passed' = passed
  BY DEF Import
<1> HIDE DEF s, e
<1>6. Raised(ua, s, c)
  BY <1>1, <1>2, <1>3, <1>4, ClientRaised
<1>7. Result(ua, ua')
  BY <1>1, <1>5, <1>6, RaisedFlushed
<1> QED
  BY <1>1, <1>5, <1>7, ResultIsSafe DEF Running

\* The login makes the active client ready; what waits there is passed by.
LEMMA SignInIsSafe ==
    ASSUME IInv, SignIn
    PROVE  Safe
<1> DEFINE h == ua.home
<1>1. Sound(ua) /\ ua.stop = "no" /\ Typed(ua) /\ ua \in State /\ h \in Client
  BY DEF IInv, SignIn, Running, Sound, Typed, State
<1>2. PICK all \in BOOLEAN :
        /\ ua' = [ua EXCEPT !.dc = [c \in Client |->
                     [ua.dc[c] EXCEPT !.in = @ \/ c = h,
                                      !.moving = @ \/ (all /\ c # h /\ ~ua.dc[c].in)]]]
        /\ passed' = passed \cup IF all THEN Pending(ua, h)
                                 ELSE UNION {OpenAt(c) : c \in Client}
  BY DEF SignIn
<1>3. asked' = asked
  BY DEF SignIn
<1> DEFINE E(c) == [ua.dc[c] EXCEPT !.in = @ \/ c = h,
                                    !.moving = @ \/ (all /\ c # h /\ ~ua.dc[c].in)]
           D == [c \in Client |-> E(c)]
<1>4. ASSUME NEW c \in Client
      PROVE  /\ D[c] \in ClientState /\ D[c].pending = ua.dc[c].pending
             /\ D[c].leaving = ua.dc[c].leaving /\ D[c].up = ua.dc[c].up
             /\ D[c].session = ua.dc[c].session /\ D[c].configured = ua.dc[c].configured
             /\ c # h => D[c].in = ua.dc[c].in
  <2>1. ua.dc[c] \in ClientState
    BY <1>1 DEF State
  <2> HIDE DEF h
  <2>2. D[c] = E(c)
    OBVIOUS
  <2> DEFINE m == ua.dc[c].moving \/ (all /\ c # h /\ ~ua.dc[c].in)
             n == ua.dc[c].in \/ c = h
  <2>3. E(c) = [ua.dc[c] EXCEPT !.in = n, !.moving = m]
    OBVIOUS
  <2>4. m \in BOOLEAN /\ n \in BOOLEAN /\ (c # h => n = ua.dc[c].in)
    BY <2>1 DEF ClientState
  <2> DEFINE d == ua.dc[c]
             e == [d EXCEPT !.in = n, !.moving = m]
  <2>5. D[c] = e
    BY <2>2, <2>3
  <2> HIDE DEF D, E, m, n, d
  <2>6. /\ e \in ClientState /\ e.pending = d.pending
        /\ e.leaving = d.leaving /\ e.up = d.up
        /\ e.session = d.session /\ e.configured = d.configured
        /\ e.in = n
    BY <2>1, <2>4 DEF ClientState, d
  <2> HIDE DEF e
  <2> QED
    BY <2>4, <2>5, <2>6 DEF d
<1>5. ua' = [ua EXCEPT !.dc = D] /\ D \in [Client -> ClientState]
  BY <1>2, <1>4
<1> HIDE DEF D
<1>6. /\ ua' \in State /\ ua'.home = h /\ ua'.stop = ua.stop /\ ua'.q = ua.q /\ ua'.dc = D
  BY <1>1, <1>5 DEF State
<1>7. Raised(ua, ua', h)
  <2>1. Typed(ua')
    BY <1>1, <1>4, <1>6 DEF Typed
  <2> QED
    BY <1>4, <1>6, <2>1 DEF Raised
<1>8. Sound(ua')
  BY <1>1, <1>7, RaisedSound
<1>9. \A q \in Query : Later(ua, ua', q) /\ Onward(ua, ua', q)
  BY <1>6 DEF Later, Onward
<1>10. ASSUME NEW q \in Query, Overdue(ua', q)
       PROVE  q \in passed'
  <2>1. Open(ua, q) /\ ua.q[q].at \in Client
    BY <1>1, <1>6, <1>10 DEF Overdue, Open, State, QueryState
  <2>2. CASE Overdue(ua, q)
    BY <1>1, <1>2, <2>2 DEF IInv, Running
  <2>3. CASE ~Overdue(ua, q)
    <3>1. ua'.q[q].at = h /\ q \in Pending(ua', h)
      <4>1. ~(Kind[q] = "login" /\ ua'.q[q].at # h)
        BY <1>6, <2>1, <2>3 DEF Overdue
      <4>2. q \in Pending(ua', ua'.q[q].at) /\ Ready(ua', q)
        BY <1>6, <1>10, <4>1 DEF Overdue
      <4>3. ua'.q[q].at = h
        <5> SUFFICES ASSUME ua'.q[q].at # h
                     PROVE  FALSE
          OBVIOUS
        <5>1. Ready(ua, q) /\ q \in Pending(ua, ua.q[q].at)
          BY <1>4, <1>6, <2>1, <4>2 DEF Ready, Pending
        <5> QED
          BY <2>1, <2>3, <5>1 DEF Overdue
      <4> QED
        BY <4>2, <4>3
    <3>2. q \in Pending(ua, h) /\ q \in OpenAt(h)
      BY <1>1, <1>4, <1>6, <2>1, <3>1 DEF Pending, OpenAt
    <3> QED
      BY <1>1, <1>2, <3>2
  <2> QED
    BY <2>2, <2>3
<1>11. \A q \in asked' : q \in Query /\ Kind[q] = "logout" /\ ua'.q[q].at = None
  BY <1>3, <1>6 DEF IInv
<1> QED
  BY <1>8, <1>9, <1>10, <1>11 DEF Safe, IInv, Running

\* The steps that make no client ready.
LEMMA QuietStepIsSafe ==
    ASSUME IInv, NEW c \in Client,
           Down(c) \/ Rekey(c) \/ CleanUp(c) \/ Reach \/ Export(c) \/ ImportFails(c)
    PROVE  Safe
<1>1. ua.stop = "no" /\ Running
  BY DEF Down, Rekey, CleanUp, Reach, Export, ImportFails, Running
<1>2. Sound(ua) /\ Typed(ua) /\ ua \in State /\ ua.home \in Client /\ ua.dc[c] \in ClientState
  BY <1>1 DEF IInv, Sound, Typed, State
<1>3. ASSUME NEW t, NEW e \in ClientState, Lowered(ua.dc[c], e),
             NEW D, D = [ua.dc EXCEPT ![c] = e], t = [ua EXCEPT !.dc = D]
      PROVE  Subsides(ua, t)
  <2>1. t = [ua EXCEPT !.dc = [@ EXCEPT ![c] = e], !.q = ua.q]
    BY <1>2, <1>3 DEF State
  <2> QED
    BY <1>2, <1>3, <2>1, ClientSubsides
<1>4. Subsides(ua, ua')
  <2>1. CASE Down(c)
    <3> DEFINE e == [ua.dc[c] EXCEPT !.up = FALSE]
               D == [ua.dc EXCEPT ![c] = e]
    <3>1. ua' = [ua EXCEPT !.dc = D]
      BY <1>2, <2>1 DEF Down, State
    <3>2. e \in ClientState /\ Lowered(ua.dc[c], e)
      BY <1>2 DEF ClientState, Lowered
    <3>3. D = [ua.dc EXCEPT ![c] = e]
      OBVIOUS
    <3> HIDE DEF e, D
    <3> QED
      BY <1>3, <3>1, <3>2, <3>3
  <2>2. CASE Rekey(c)
    BY <1>2, <2>2, SessionSubsides DEF Rekey
  <2>3. CASE CleanUp(c)
    <3> DEFINE e == [ua.dc[c] EXCEPT !.idle = FALSE]
               D == [ua.dc EXCEPT ![c] = e]
               s == [ua EXCEPT !.dc[c].idle = FALSE]
    <3>1. s = [ua EXCEPT !.dc = D]
      BY <1>2 DEF State
    <3>2. e \in ClientState /\ Lowered(ua.dc[c], e)
      <4>1. ua.dc[c].up => ua.dc[c].session
        BY <1>2 DEF Typed
      <4> QED
        BY <1>2, <4>1 DEF ClientState, Lowered
    <3>3. D = [ua.dc EXCEPT ![c] = e]
      OBVIOUS
    <3>4. ua' = Cleared(s, c) \/ ua' = s
      BY <2>3 DEF CleanUp
    <3> HIDE DEF e, D, s
    <3>5. Subsides(ua, s)
      BY <1>3, <3>1, <3>2, <3>3
    <3>6. Subsides(s, Cleared(s, c))
      BY <1>2, <3>5, SubsidesKeeps, SessionSubsides
    <3> QED
      BY <1>2, <3>4, <3>5, <3>6, SubsidesTrans
  <2>4. CASE Reach
    BY <1>2, <2>4, SessionSubsides DEF Reach
  <2>5. CASE Export(c)
    BY <1>2, <2>5, SessionSubsides DEF Export
  <2>6. CASE ImportFails(c)
    <3> DEFINE e == [ua.dc[c] EXCEPT !.moving = FALSE]
               D == [ua.dc EXCEPT ![c] = e]
    <3>1. ua' = [ua EXCEPT !.dc = D]
      BY <1>2, <2>6 DEF ImportFails, State
    <3>2. e \in ClientState /\ Lowered(ua.dc[c], e)
      <4>1. ua.dc[c].up => ua.dc[c].session
        BY <1>2 DEF Typed
      <4> QED
        BY <1>2, <4>1 DEF ClientState, Lowered
    <3>3. D = [ua.dc EXCEPT ![c] = e]
      OBVIOUS
    <3> HIDE DEF e, D
    <3> QED
      BY <1>3, <3>1, <3>2, <3>3
  <2> QED
    BY <2>1, <2>2, <2>3, <2>4, <2>5, <2>6
<1>5. asked' = asked /\ passed \subseteq passed'
  BY DEF Down, Rekey, CleanUp, Reach, Export, ImportFails
<1> QED
  BY <1>1, <1>2, <1>4, <1>5, SubsidesResult, ResultIsSafe

-----------------------------------------------------------------------------
(* The steps of the queries                                                *)

\* A query that the application executes.
LEMMA StartIsSafe ==
    ASSUME IInv, Running, NEW q \in Query, ua.q[q].at = None, NEW c \in Client,
           Kind[q] = "login" => c = ua.home,
           ua' = Tried([ua EXCEPT !.q[q].at = c], q, TRUE),
           asked' \subseteq asked, q \notin asked', passed' = passed
    PROVE  Safe
<1> DEFINE f == [ua.q[q] EXCEPT !.at = c]
           s == [ua EXCEPT !.q[q].at = c]
           Q == [ua.q EXCEPT ![q] = f]
<1>1. /\ Sound(ua) /\ ua.stop = "no" /\ Typed(ua) /\ ua \in State /\ Good(ua, q)
      /\ ua.q[q] \in QueryState
  BY DEF IInv, Running, Sound, Typed, State
<1>2. /\ ~ua.q[q].active /\ ~ua.q[q].timer /\ ~ua.q[q].retry /\ ~ua.q[q].kept
      /\ \A d \in Client : q \notin Pending(ua, d) /\ ua.dc[d].leaving # q
  BY <1>1, Untouched
<1>3. ua.q[q].end = "no" /\ ua.q[q].ends = 0
  BY <1>1 DEF Typed, Counted
<1>4. /\ f \in QueryState /\ f.at = c /\ f.end = "no" /\ f.ends = 0
      /\ ~f.active /\ ~f.timer /\ ~f.retry /\ ~f.kept
  BY <1>1, <1>2, <1>3 DEF QueryState
<1>5. s = [ua EXCEPT !.q = Q] /\ Q \in [Query -> QueryState]
  BY <1>1, <1>4 DEF State
<1>6. ua' = Tried(s, q, TRUE)
  OBVIOUS
<1> HIDE DEF f, s
<1>7. /\ s \in State /\ s.home = ua.home /\ s.stop = ua.stop /\ s.dc = ua.dc
      /\ s.q[q] = f /\ \A r \in Query : r # q => s.q[r] = ua.q[r]
  BY <1>1, <1>5 DEF State
<1> HIDE DEF Q
<1>8. Typed(s)
  <2>1. Counted(f)
    BY <1>4, QueriesAssumption DEF Counted
  <2> QED
    BY <1>1, <1>7, <2>1 DEF Typed
<1>9. Lower(ua, s) /\ \A r \in Query : r # q => Same(ua, s, r)
  BY <1>7 DEF Lower, Same, Pending
<1>10. ASSUME NEW r \in Query, r # q
       PROVE  Good(s, r) /\ Later(ua, s, r) /\ (Overdue(s, r) => Overdue(ua, r))
  <2>1. Good(ua, r)
    BY <1>1 DEF Sound
  <2> QED
    BY <1>1, <1>7, <1>9, <1>10, <2>1, SameKeeps
<1>11. \A d \in Client : q \notin Pending(s, d) /\ s.dc[d].leaving # q
  BY <1>2, <1>7 DEF Pending
<1>12. Almost(s, q)
  BY <1>1, <1>4, <1>7, <1>8, <1>10, <1>11 DEF Almost
<1>13. Result(s, ua')
  BY <1>6, <1>11, <1>12, TriedResult
<1>14. ~Overdue(s, q)
  BY <1>4, <1>7, <1>11 DEF Overdue
<1>15. ASSUME NEW r \in Query, r # q
       PROVE  Later(ua, ua', r)
  <2>1. Later(ua, s, r) /\ Later(s, ua', r)
    BY <1>10, <1>13, <1>15 DEF Result
  <2> QED
    BY <2>1 DEF Later
<1>16. Onward(ua, ua', q)
  BY <1>3 DEF Onward
<1>17. \A r \in Query : Onward(ua, ua', r)
  BY <1>15, <1>16 DEF Later, Onward
<1>18. ua'.stop = "no" => \A r \in Query : Overdue(ua', r) => Overdue(ua, r)
  BY <1>10, <1>13, <1>14 DEF Result
<1>19. \A r \in asked' : r \in Query /\ Kind[r] = "logout" /\ ua'.q[r].at = None
  BY <1>15 DEF IInv, Later
<1> QED
  BY <1>13, <1>17, <1>18, <1>19 DEF Safe, IInv, Result, Running

\* The calls of the application: a query is executed, or a logout.
LEMMA ApplicationIsSafe ==
    ASSUME IInv, NEW q \in Query, Application(q)
    PROVE  Safe
<1>1. Running /\ ua.home \in Client
  BY DEF Application, Logout, LogoutNow, Execute, IInv, Sound, Typed, State
<1>2. ASSUME NEW c \in Client, Execute(q, c)
      PROVE  Safe
  <2>1. q \notin asked
    BY <1>2 DEF Execute, IInv
  <2> QED
    BY <1>1, <1>2, <2>1, StartIsSafe DEF Execute
<1>3. CASE Logout(q)
  <2>1. /\ ua.q[q].at = None /\ q \notin asked /\ Kind[q] = "logout"
        /\ \/ asked' = asked \cup {q} /\ ua' = ua
           \/ ua' = Tried([ua EXCEPT !.q[q].at = ua.home], q, TRUE) /\ asked' = asked
        /\ passed' = passed
    BY <1>3 DEF Logout
  <2>2. CASE asked' = asked \cup {q} /\ ua' = ua
    BY <1>1, <2>1, <2>2 DEF Safe, IInv, Onward, Running
  <2>3. CASE ua' = Tried([ua EXCEPT !.q[q].at = ua.home], q, TRUE) /\ asked' = asked
    BY <1>1, <2>1, <2>3, StartIsSafe
  <2> QED
    BY <2>1, <2>2, <2>3
<1>4. CASE LogoutNow(q)
  <2>1. /\ ua.q[q].at = None /\ Kind[q] = "logout"
        /\ ua' = Tried([ua EXCEPT !.q[q].at = ua.home], q, TRUE)
        /\ asked' = asked \ {q} /\ passed' = passed
    BY <1>4 DEF LogoutNow, IInv
  <2> QED
    BY <1>1, <2>1, StartIsSafe
<1> QED
  BY <1>2, <1>3, <1>4 DEF Application

\* The server has a query that is open, in no pending list, and not retried.
LEMMA HeardQuery ==
    ASSUME IInv, Running, NEW q \in Query, Heard(q)
    PROVE  /\ Lone(ua, q) /\ Listed(ua, q) /\ Sound(ua)
           /\ ua.q[q].end = "no" /\ \A d \in Client : q \notin Pending(ua, d)
           /\ Timed(q) => ~ua.q[q].kept
<1>1. Sound(ua) /\ ua.stop = "no" /\ Typed(ua) /\ ua \in State /\ ua.q[q] \in QueryState
  BY DEF IInv, Running, Sound, Typed, State
<1>2. Good(ua, q) /\ ua.q[q].active /\ ua.q[q].sess
  BY <1>1 DEF Sound, Heard
<1>3. ua.q[q].at \in Client /\ ua.q[q].end = "no"
  BY <1>1, <1>2 DEF Good, Unused, Over, QueryState
<1>4. \A d \in Client : q \notin Pending(ua, d)
  BY <1>2 DEF Good, Waits
<1>5. Timed(q) => ~ua.q[q].kept
  BY <1>2, <1>3 DEF Good, RetriesOnce
<1>6. Lone(ua, q)
  BY <1>1, <1>2, <1>3 DEF Lone, Sound, Good, Leaves
<1>7. Listed(ua, q)
  BY <1>3, <1>4 DEF Listed
<1> QED
  BY <1>1, <1>3, <1>4, <1>5, <1>6, <1>7

\* A bad salt: the query is sent again at once.
LEMMA SaltIsSafe ==
    ASSUME IInv, NEW q \in Query, Salt(q)
    PROVE  Safe
<1>1. Running /\ Heard(q) /\ ua' = Alarmed(ua, q) /\ asked' = asked /\ passed' = passed
  BY DEF Salt
<1>2. Result(ua, ua')
  BY <1>1, HeardQuery, AlarmedResult
<1> QED
  BY <1>1, <1>2, ResultIsSafe

\* bad_msg_notification: the query waits for its retry timer, and what was sent
\* of it belongs to a session that is gone.
LEMMA RegenIsSafe ==
    ASSUME IInv, NEW q \in Query, Regen(q)
    PROVE  Safe
<1> DEFINE s == Retried(ua, q)
           c == ua.q[q].at
           t == Restarted(s, c)
<1>1. Running /\ Heard(q) /\ ua' = t /\ asked' = asked /\ passed' = passed
  BY DEF Regen
<1>2. /\ Lone(ua, q) /\ ua.q[q].end = "no" /\ \A d \in Client : q \notin Pending(ua, d)
      /\ c \in Client
  BY <1>1, HeardQuery DEF Lone
<1>3. /\ Goes(ua, s, q) /\ s.q[q].end = "no" /\ s.q[q].retry /\ s.q[q].kept
  BY <1>2, RetriedGoes
<1>4. t.q = Parted(s, c)
  <2>1. s \in State
    BY <1>3 DEF Goes, Typed
  <2> HIDE DEF s, c
  <2> QED
    BY <2>1 DEF Restarted, State
<1> HIDE DEF s, t
<1>5. Lone(s, q) /\ s \in State
  BY <1>2, <1>3, GoesLone DEF Goes, Typed
<1>6. Goes(s, t, q)
  <2>1. Subsides(s, t)
    BY <1>2, <1>5, SessionSubsides DEF Lone, t
  <2> QED
    BY <1>5, <2>1, SubsidesGoes
<1>7. /\ t.q[q].end = "no" /\ t.q[q].retry /\ t.q[q].kept /\ ~t.q[q].sess
  <2>1. s.q[q] \in QueryState /\ s.q[q].at = c
    BY <1>3, <1>5 DEF State, Goes
  <2>2. t.q[q] = [s.q[q] EXCEPT !.sess = FALSE]
    BY <1>4, <2>1 DEF Parted
  <2> QED
    BY <1>3, <2>1, <2>2 DEF QueryState
<1>8. Goes(ua, t, q)
  BY <1>3, <1>6, GoesTrans
<1>9. \A d \in Client : q \notin Pending(t, d)
  BY <1>2, <1>8 DEF Goes
<1>10. Good(t, q)
  <2>1. Lone(t, q)
    BY <1>2, <1>8, GoesLone
  <2> QED
    BY <1>7, <1>9, <2>1, RetriedIsGood
<1>11. Result(ua, ua')
  BY <1>1, <1>2, <1>8, <1>9, <1>10, GoesResult
<1> QED
  BY <1>1, <1>11, ResultIsSafe

\* A step that begins with the query's own fields.
LEMMA GoesThenResult ==
    ASSUME NEW q \in Query, NEW s, Lone(s, q), s.q[q].end = "no",
           NEW t, Goes(s, t, q), \A d \in Client : q \notin Pending(t, d),
           NEW u, Result(t, u), t.q[q].end = "no"
    PROVE  Result(s, u)
<1>1. ASSUME NEW r \in Query
      PROVE  Later(s, t, r) /\ (Overdue(t, r) => Overdue(s, r))
  <2>1. CASE r = q
    BY <2>1, QueriesAssumption DEF Goes, Later, Overdue, Open, Lone
  <2>2. CASE r # q
    BY <2>2 DEF Goes
  <2> QED
    BY <2>1, <2>2
<1>2. ASSUME NEW r \in Query
      PROVE  Later(s, u, r) /\ (u.stop = "no" /\ Overdue(u, r) => Overdue(s, r))
  <2>1. Later(s, t, r) /\ Later(t, u, r)
    BY <1>1 DEF Result
  <2>2. Later(s, u, r)
    BY <2>1 DEF Later
  <2> QED
    BY <1>1, <2>2 DEF Result
<1> QED
  BY <1>2 DEF Result

\* The retry timer of a query fires.
LEMMA RetryIsSafe ==
    ASSUME IInv, NEW q \in Query, RetryFires(q)
    PROVE  Safe
<1> DEFINE f == [ua.q[q] EXCEPT !.kept = FALSE]
           Q == [ua.q EXCEPT ![q] = f]
           s == [ua EXCEPT !.q[q].kept = FALSE]
<1>1. /\ Running /\ ua.q[q].retry /\ ua' = Alarmed(s, q)
      /\ asked' = asked /\ passed' = passed
  BY DEF RetryFires
<1>2. /\ Sound(ua) /\ Typed(ua) /\ ua \in State /\ ua.q[q] \in QueryState
      /\ Good(ua, q) /\ ua.stop = "no"
  BY <1>1 DEF IInv, Running, Sound, Typed, State
<1>3. ua.q[q].at \in Client /\ ua.q[q].end = "no"
  BY <1>1, <1>2 DEF Good, Unused, Over, QueryState
<1>4. \A d \in Client : q \notin Pending(ua, d)
  BY <1>1, <1>2 DEF Good, Waits
<1>5. Lone(ua, q)
  BY <1>2, <1>3 DEF Lone, Sound, Good, Leaves
<1>6. /\ f \in QueryState /\ f.at = ua.q[q].at /\ f.end = "no" /\ f.ends = ua.q[q].ends
      /\ ~f.kept
  BY <1>2, <1>3 DEF QueryState
<1>7. s = [ua EXCEPT !.q = Q] /\ Q \in [Query -> QueryState]
  BY <1>2, <1>6 DEF State
<1> HIDE DEF s, f
<1>8. s \in State /\ s.home = ua.home /\ s.stop = ua.stop /\ s.dc = ua.dc /\ s.q = Q
  BY <1>2, <1>7 DEF State
<1>9. Goes(ua, s, q) /\ s.q[q] = f
  <2>1. Counted(f)
    BY <1>2, <1>3, <1>6 DEF Typed, Counted
  <2>2. Only(ua, s, q, f)
    BY <1>6, <1>8, <2>1 DEF Only
  <2> QED
    BY <1>5, <2>2, FieldsGo
<1>10. \A d \in Client : q \notin Pending(s, d)
  BY <1>4, <1>9 DEF Goes
<1>11. Result(s, ua')
  <2>1. Lone(s, q)
    BY <1>5, <1>9, GoesLone
  <2> QED
    BY <1>1, <1>6, <1>9, <1>10, <2>1, AlarmedResult
<1>12. Result(ua, ua')
  BY <1>3, <1>5, <1>6, <1>9, <1>10, <1>11, GoesThenResult
<1> QED
  BY <1>1, <1>12, ResultIsSafe

\* The query leaves the list it stands in.
LEMMA RemovedGoes ==
    ASSUME NEW q \in Query, NEW s, Lone(s, q), NEW t, t = Removed(s, s.q[q].at, q)
    PROVE  /\ Goes(s, t, q) /\ t.q = s.q
           /\ q \notin Pending(t, s.q[q].at)
           /\ \A d \in Client : t.dc[d].leaving = s.dc[d].leaving
<1> DEFINE c == s.q[q].at
<1>1. Typed(s) /\ s \in State /\ s.stop = "no" /\ c \in Client /\ t = Removed(s, c, q)
  BY DEF Lone, Typed
<1> HIDE DEF c
<1>2. /\ Typed(t) /\ t.home = s.home /\ t.stop = s.stop /\ t.q = s.q
      /\ \A d \in Client :
           /\ t.dc[d].leaving = s.dc[d].leaving /\ t.dc[d].up = s.dc[d].up
           /\ t.dc[d].configured = s.dc[d].configured /\ t.dc[d].in = s.dc[d].in
           /\ Pending(t, d) = IF d = c THEN Pending(s, d) \ {q} ELSE Pending(s, d)
  BY <1>1, RemovedFields
<1>3. Lower(s, t) /\ t \in State
  BY <1>2 DEF Lower, Typed
<1>4. ASSUME NEW r \in Query, r # q
      PROVE  Good(t, r) /\ Later(s, t, r) /\ (Overdue(t, r) => Overdue(s, r))
  <2>1. Same(s, t, r)
    BY <1>2, <1>4 DEF Same
  <2>2. Good(s, r)
    BY <1>4 DEF Lone
  <2> QED
    BY <1>1, <1>3, <2>1, <2>2, SameKeeps
<1> QED
  BY <1>1, <1>2, <1>4 DEF Goes, c

\* timeout_alarm(): the query has ended and is out of the pending list.
LEMMA TimedOutResult ==
    ASSUME NEW q \in Query, NEW s, Lone(s, q), Listed(s, q)
    PROVE  Result(s, TimedOut(s, q))
<1> DEFINE a == Quiet(s, q)
           b == Told(a, q, "expired")
           c == Inactive(b, q)
           t == TimedOut(s, q)
<1>1. t = Removed(c, s.q[q].at, q)
  BY DEF TimedOut, Removed
<1>2. /\ Goes(s, a, q) /\ a.q[q].end = s.q[q].end /\ ~a.q[q].timer /\ ~a.q[q].retry
  BY QuietGoes
<1> HIDE DEF a, b, c, t
<1>3. Lone(a, q) /\ Listed(a, q)
  <2>1. Lone(a, q)
    BY <1>2, GoesLone
  <2> QED
    BY <1>2, <2>1 DEF Listed, Goes
<1>4. /\ Goes(a, b, q) /\ \A d \in Client : b.dc[d].leaving # q
      /\ b.q[q].end = "expired"
      /\ b.q[q].timer => a.q[q].timer
      /\ b.q[q].retry => a.q[q].retry
  BY <1>3, ToldGoes DEF b
<1>5. Lone(b, q)
  BY <1>3, <1>4, GoesLone
<1>6. /\ Goes(b, c, q) /\ c.q[q].end = b.q[q].end /\ c.q[q].timer = b.q[q].timer
      /\ c.q[q].retry = b.q[q].retry /\ ~c.q[q].active
  BY <1>5, InactiveGoes DEF c
<1>7. Goes(s, c, q) /\ Lone(c, q)
  BY <1>2, <1>4, <1>5, <1>6, GoesTrans, GoesLone
<1>8. c.q[q].at = s.q[q].at
  BY <1>7 DEF Goes
<1>9. /\ Goes(c, t, q) /\ t.q = c.q /\ q \notin Pending(t, s.q[q].at)
      /\ \A d \in Client : t.dc[d].leaving = c.dc[d].leaving
  BY <1>1, <1>7, <1>8, RemovedGoes
<1>10. Goes(s, t, q) /\ Lone(t, q)
  BY <1>7, <1>9, GoesTrans, GoesLone
<1>11. \A d \in Client : q \notin Pending(t, d) /\ t.dc[d].leaving # q
  <2>1. \A d \in Client : q \in Pending(t, d) => d = s.q[q].at
    BY <1>10 DEF Goes, Listed
  <2>2. \A d \in Client : t.dc[d].leaving # q
    BY <1>4, <1>6, <1>9 DEF Goes
  <2> QED
    BY <1>9, <2>1, <2>2
<1>12. Good(t, q)
  <2>1. /\ t.q[q].end # "no" /\ ~t.q[q].active /\ ~t.q[q].retry /\ ~t.q[q].timer
    BY <1>2, <1>4, <1>6, <1>9
  <2> QED
    BY <1>10, <1>11, <2>1, EndedIsGood
<1>13. Result(s, t)
  BY <1>10, <1>11, <1>12, GoesResult DEF Listed
<1> QED
  BY <1>13 DEF t

\* The time of a query runs out.
LEMMA TimeoutIsSafe ==
    ASSUME IInv, NEW q \in Query, Timeout(q)
    PROVE  Safe
<1>1. /\ Running /\ ua.q[q].timer /\ Alive(ua, q)
      /\ ua' = IF Timed(q) THEN TimedOut(ua, q) ELSE Alarmed(ua, q)
      /\ asked' = asked /\ passed' = passed
  BY DEF Timeout
<1>2. /\ Sound(ua) /\ Typed(ua) /\ ua \in State /\ ua.q[q] \in QueryState
      /\ Good(ua, q) /\ ua.stop = "no"
  BY <1>1 DEF IInv, Running, Sound, Typed, State
<1>3. ua.q[q].at \in Client
  BY <1>1, <1>2 DEF Good, Unused, QueryState
<1>4. ua.q[q].end = "no"
  BY <1>1, <1>2 DEF Good, Alive, Over, Waits
<1>5. \A d \in Client : q \in Pending(ua, d) =>
        ua.q[q].at = d /\ ua.dc[d].leaving # q /\ Timed(q)
  BY <1>1, <1>2 DEF Good, Waits, Leaves
<1>6. Lone(ua, q) /\ Listed(ua, q)
  BY <1>2, <1>3, <1>4, <1>5 DEF Lone, Listed, Sound, Good, Leaves
<1>7. Result(ua, ua')
  <2>1. CASE Timed(q)
    BY <1>1, <1>6, <2>1, TimedOutResult
  <2>2. CASE ~Timed(q)
    BY <1>1, <1>4, <1>5, <1>6, <2>2, AlarmedResult
  <2> QED
    BY <2>1, <2>2
<1> QED
  BY <1>1, <1>7, ResultIsSafe

\* A query is answered, the logout too.
LEMMA AnswerIsSafe ==
    ASSUME IInv, NEW q \in Query, Answer(q)
    PROVE  Safe
<1> DEFINE c == ua.q[q].at
           s == IF Kind[q] = "logout" THEN LoggedOut(ua, c) ELSE ua
           a == Ended(s, q, "answered")
           t == Inactive(Quiet(a, q), q)
<1>1. /\ Running /\ Heard(q)
      /\ ua' = IF s.stop # "no" THEN s ELSE t
      /\ asked' = asked /\ passed' = passed
  BY DEF Answer
<1>2. /\ Lone(ua, q) /\ Listed(ua, q) /\ ua.q[q].end = "no" /\ ua.stop = "no"
      /\ \A d \in Client : q \notin Pending(ua, d)
  BY <1>1, HeardQuery DEF Running
<1>3. /\ s.stop # "no" => Sound(s) /\ \A r \in Query : Later(ua, s, r)
      /\ s.stop = "no" =>
           /\ Goes(ua, s, q)
           /\ \A d \in Client : s.dc[d].leaving # q
           /\ s.q[q].end \in {"no", "dropped"}
  <2>1. CASE Kind[q] = "logout"
    BY <1>2, <2>1, LoggedOutGoes
  <2>2. CASE Kind[q] # "logout"
    <3>1. Goes(ua, ua, q)
      BY <1>2 DEF Goes, Later, Lone
    <3>2. \A d \in Client : ua.dc[d].leaving # q
      BY <1>2, <2>2 DEF Lone
    <3> QED
      BY <1>2, <2>2, <3>1, <3>2
  <2> QED
    BY <2>1, <2>2
<1> HIDE DEF s, a, t
<1>4. CASE s.stop # "no"
  <2>1. Result(ua, ua')
    BY <1>1, <1>3, <1>4 DEF Result
  <2> QED
    BY <1>1, <2>1, ResultIsSafe
<1>5. CASE s.stop = "no"
  <2>1. Lone(s, q)
    BY <1>2, <1>3, <1>5, GoesLone
  <2>2. Goes(s, a, q) /\ a.q[q].end = "answered"
    BY <1>3, <1>5, <2>1, EndedGo DEF a
  <2>3. Lone(a, q)
    BY <2>1, <2>2, GoesLone
  <2>4. /\ Goes(a, t, q) /\ t.q[q].end = a.q[q].end
        /\ ~t.q[q].active /\ ~t.q[q].timer /\ ~t.q[q].retry
    BY <2>3, SilentGoes DEF t
  <2>5. Goes(ua, t, q) /\ Lone(t, q)
    BY <1>3, <1>5, <2>2, <2>3, <2>4, GoesTrans, GoesLone
  <2>6. \A d \in Client : q \notin Pending(t, d) /\ t.dc[d].leaving # q
    BY <1>2, <1>3, <1>5, <2>2, <2>4, <2>5 DEF Goes
  <2>7. Good(t, q)
    BY <2>2, <2>4, <2>5, <2>6, EndedIsGood
  <2>8. Result(ua, ua')
    BY <1>1, <1>2, <1>5, <2>5, <2>6, <2>7, GoesResult
  <2> QED
    BY <1>1, <2>8, ResultIsSafe
<1> QED
  BY <1>4, <1>5

\* An error of the user: the application is told.
LEMMA UserErrorResult ==
    ASSUME NEW q \in Query, NEW s, Lone(s, q), Listed(s, q),
           \A d \in Client : q \notin Pending(s, d)
    PROVE  Result(s, Told(Inactive(Quiet(s, q), q), q, "failed"))
<1> DEFINE a == Inactive(Quiet(s, q), q)
           t == Told(a, q, "failed")
<1>1. /\ Goes(s, a, q) /\ a.q[q].end = s.q[q].end
      /\ ~a.q[q].active /\ ~a.q[q].timer /\ ~a.q[q].retry
  BY SilentGoes
<1> HIDE DEF a, t
<1>2. Lone(a, q) /\ \A d \in Client : q \notin Pending(a, d)
  BY <1>1, GoesLone DEF Goes
<1>3. Listed(a, q)
  BY <1>1, <1>2 DEF Listed
<1>4. /\ Goes(a, t, q) /\ \A d \in Client : t.dc[d].leaving # q
      /\ t.q[q].end = "failed"
      /\ ~t.q[q].active /\ ~t.q[q].timer /\ ~t.q[q].retry
  BY <1>1, <1>2, <1>3, ToldGoes DEF t
<1>5. Goes(s, t, q) /\ Lone(t, q)
  BY <1>1, <1>2, <1>4, GoesTrans, GoesLone
<1>6. \A d \in Client : q \notin Pending(t, d)
  BY <1>2, <1>4 DEF Goes
<1>7. Good(t, q)
  BY <1>4, <1>5, <1>6, EndedIsGood
<1>8. Result(s, t)
  BY <1>5, <1>6, <1>7, GoesResult DEF Listed
<1> QED
  BY <1>8 DEF a, t

\* An error that goes away: whatever else it does to the clients, the query waits
\* for its retry timer.
LEMMA RetriedResult ==
    ASSUME NEW q \in Query, NEW s, Lone(s, q), s.q[q].end = "no",
           \A d \in Client : q \notin Pending(s, d),
           NEW o, Goes(s, o, q), o.q[q].end \in {"no", "dropped"}, ~o.q[q].active
    PROVE  Result(s, Retried(o, q))
<1> DEFINE t == Retried(o, q)
<1>1. Lone(o, q)
  BY GoesLone
<1>2. /\ Goes(o, t, q) /\ t.q[q].end = "no" /\ t.q[q].retry /\ t.q[q].kept
      /\ ~t.q[q].active
  BY <1>1, RetriedGoes
<1> HIDE DEF t
<1>3. Goes(s, t, q) /\ Lone(t, q)
  BY <1>1, <1>2, GoesTrans, GoesLone
<1>4. \A d \in Client : q \notin Pending(t, d)
  BY <1>3 DEF Goes
<1>5. Good(t, q)
  BY <1>2, <1>3, <1>4, RetriedIsGood
<1>6. Result(s, t)
  BY <1>3, <1>4, <1>5, GoesResult
<1> QED
  BY <1>6 DEF t

\* The query and the login go to another data centre.
MovedTo(s, q, c) == [s EXCEPT !.home = c, !.q[q].at = c, !.q[q].sess = FALSE]

\* A query of the login that goes to another data centre: nothing but the active
\* client is another one for the others.
LEMMA MovedHome ==
    ASSUME NEW q \in Query, NEW s, Lone(s, q), Kind[q] = "login", s.q[q].end = "no",
           \A d \in Client : q \notin Pending(s, d), NEW c \in Client
    PROVE  LET t == MovedTo(s, q, c)
           IN  /\ Lone(t, q) /\ t.home = c /\ t.q[q].at = c /\ t.q[q].end = "no"
               /\ t.q[q].active = s.q[q].active
               /\ \A d \in Client : q \notin Pending(t, d)
               /\ t.dc = s.dc
               /\ \A r \in Query : r # q => t.q[r] = s.q[r]
<1> DEFINE f == [s.q[q] EXCEPT !.at = c, !.sess = FALSE]
           Q == [s.q EXCEPT ![q] = f]
           t == MovedTo(s, q, c)
<1>1. s \in State /\ Typed(s) /\ s.q[q] \in QueryState /\ s.stop = "no"
  BY DEF Lone, Typed, State
<1>2. /\ f \in QueryState /\ f.at = c /\ f.end = "no" /\ f.ends = s.q[q].ends
      /\ f.active = s.q[q].active
  BY <1>1 DEF QueryState
<1>3. t = [s EXCEPT !.home = c, !.q = Q]
  BY <1>1 DEF State, MovedTo
<1>4. Q \in [Query -> QueryState] /\ Q[q] = f /\ \A r \in Query : r # q => Q[r] = s.q[r]
  BY <1>1, <1>2 DEF State
<1> HIDE DEF f, Q, t
<1>5. t \in State /\ t.home = c /\ t.stop = s.stop /\ t.dc = s.dc /\ t.q = Q
  BY <1>1, <1>3, <1>4 DEF State
<1>6. \A d \in Client : Pending(t, d) = Pending(s, d)
  BY <1>5 DEF Pending
<1>7. Typed(t)
  <2>1. s.q[q].ends = 0
    BY <1>1 DEF Typed, Counted
  <2>2. Counted(f)
    BY <1>2, <2>1, QueriesAssumption DEF Counted
  <2> QED
    BY <1>1, <1>4, <1>5, <2>2 DEF Typed
<1>8. ASSUME NEW r \in Query, r # q
      PROVE  Good(t, r)
  <2>1. Good(s, r) /\ t.q[r] = s.q[r]
    BY <1>4, <1>5, <1>8 DEF Lone
  <2>2. s.q[r].at \in Client \cup {None}
    BY <1>1 DEF State, QueryState
  <2>3. Found(t, r)
    BY <1>6, <2>1, <2>2 DEF Good, Found, Open
  <2>4. Waits(t, r)
    BY <1>6, <2>1, Zenon DEF Good, Waits
  <2>5. Leaves(t, r)
    BY <1>5, <1>6, <2>1, Zenon DEF Good, Leaves
  <2> QED
    BY <2>1, <2>3, <2>4, <2>5 DEF Good
<1>9. \A d \in Client : t.dc[d].leaving # q
  BY <1>5 DEF Lone
<1>10. Lone(t, q)
  BY <1>1, <1>2, <1>4, <1>5, <1>7, <1>8, <1>9 DEF Lone
<1> QED
  BY <1>2, <1>4, <1>5, <1>6, <1>10 DEF t

\* What a step makes of the sessions leaves the query as it is.
LEMMA SubsidesQuery ==
    ASSUME NEW q \in Query, NEW s, Lone(s, q), NEW t, Subsides(s, t)
    PROVE  /\ Goes(s, t, q) /\ t.q[q].end = s.q[q].end
           /\ t.q[q].active = s.q[q].active /\ t.dc \in [Client -> ClientState]
<1>1. Goes(s, t, q) /\ t.q[q] \in {s.q[q], [s.q[q] EXCEPT !.sess = FALSE]}
  BY SubsidesGoes
<1>2. s.q[q] \in QueryState /\ t \in State
  BY DEF Lone, Typed, State, Subsides
<1>3. t.q[q].end = s.q[q].end /\ t.q[q].active = s.q[q].active
  BY <1>1, <1>2 DEF QueryState
<1> QED
  BY <1>1, <1>2, <1>3 DEF State

\* The queries of the login that stay at the client that was the active one are
\* passed by.
LEMMA MigrateIsSafe ==
    ASSUME IInv, Running, NEW q \in Query, Heard(q), Kind[q] = "login", NEW c \in Client,
           ua' = Retried(Migrated(Inactive(Quiet(ua, q), q), q, c), q),
           asked' = asked, passed' = passed \cup OpenAt(ua.home)
    PROVE  Safe
<1> DEFINE a == Inactive(Quiet(ua, q), q)
           b == MovedTo(a, q, c)
           m == Migrated(a, q, c)
           t == Retried(m, q)
<1>1. /\ Lone(ua, q) /\ ua.q[q].end = "no" /\ ua \in State /\ Typed(ua)
      /\ \A d \in Client : q \notin Pending(ua, d)
  BY HeardQuery DEF Lone, Typed
<1>2. Goes(ua, a, q) /\ a.q[q].end = "no" /\ ~a.q[q].active
  BY <1>1, SilentGoes
<1>3. ASSUME NEW r \in Query, r # q
      PROVE  a.q[r] = ua.q[r]
  <2>1. a.q = [ua.q EXCEPT ![q] = [@ EXCEPT !.timer = FALSE, !.retry = FALSE,
                                            !.active = FALSE]]
    BY <1>1, SilentFields
  <2> HIDE DEF a
  <2> QED
    BY <1>1, <1>3, <2>1 DEF State
<1>4. m = IF a.dc[c].known THEN b ELSE WithSession([b EXCEPT !.dc[c].configured = FALSE], c)
  BY DEF Migrated, MovedTo
<1>5. ua' = t
  OBVIOUS
<1> HIDE DEF a, m, t
<1>6. Lone(a, q) /\ \A d \in Client : q \notin Pending(a, d)
  BY <1>1, <1>2, GoesLone DEF Goes
<1>7. /\ Lone(b, q) /\ b.home = c /\ b.q[q].at = c /\ b.q[q].end = "no"
      /\ b.q[q].active = a.q[q].active
      /\ \A d \in Client : q \notin Pending(b, d)
      /\ b.dc = a.dc
      /\ \A r \in Query : r # q => b.q[r] = a.q[r]
  BY <1>2, <1>6, MovedHome
<1> HIDE DEF b
<1>8. Subsides(b, m)
  <2> DEFINE e == [b.dc[c] EXCEPT !.configured = FALSE]
             D == [b.dc EXCEPT ![c] = e]
             n == [b EXCEPT !.dc[c].configured = FALSE]
  <2>1. b \in State /\ Typed(b) /\ b.dc[c] \in ClientState
    BY <1>7 DEF Lone, Typed, State
  <2>2. n = [b EXCEPT !.dc = D, !.q = b.q]
    BY <2>1 DEF State
  <2>3. e \in ClientState /\ Lowered(b.dc[c], e)
    <3>1. b.dc[c].up => b.dc[c].session
      BY <2>1 DEF Typed
    <3> QED
      BY <2>1, <3>1 DEF ClientState, Lowered
  <2>4. m = b \/ m = WithSession(n, c)
    BY <1>4
  <2> HIDE DEF e, n
  <2>5. Subsides(b, n)
    BY <2>1, <2>2, <2>3, ClientSubsides
  <2>6. Subsides(n, WithSession(n, c))
    BY <2>1, <2>5, SubsidesKeeps, StartedSubsides
  <2> QED
    BY <2>1, <2>4, <2>5, <2>6, SubsidesTrans, SubsidesRefl
<1>9. Goes(b, m, q) /\ m.q[q].end = "no" /\ ~m.q[q].active /\ Lone(m, q)
  BY <1>2, <1>7, <1>8, SubsidesQuery, GoesLone
<1>10. /\ Goes(m, t, q) /\ t.q[q].end = "no" /\ t.q[q].retry /\ t.q[q].kept
       /\ ~t.q[q].active
  BY <1>9, RetriedGoes DEF t
<1>11. Goes(b, t, q) /\ Lone(t, q)
  BY <1>9, <1>10, GoesTrans, GoesLone
<1>12. \A d \in Client : q \notin Pending(t, d)
  BY <1>7, <1>11 DEF Goes
<1>13. Good(t, q)
  BY <1>10, <1>11, <1>12, RetriedIsGood
<1>14. Sound(t)
  BY <1>11, <1>13 DEF Goes, Sound
<1>15. ASSUME NEW r \in Query
       PROVE  Later(ua, t, r)
  <2>1. CASE r = q
    BY <1>1, <1>7, <1>11, <2>1, QueriesAssumption DEF Later, Lone, Goes
  <2>2. CASE r # q
    <3>1. b.q[r] = ua.q[r] /\ Later(b, t, r)
      BY <1>3, <1>7, <1>11, <2>2 DEF Goes
    <3> QED
      BY <3>1 DEF Later
  <2> QED
    BY <2>1, <2>2
<1>16. ASSUME NEW r \in Query, Overdue(t, r)
       PROVE  r \in passed'
  <2>1. r # q
    BY <1>7, <1>11, <1>12, <1>16 DEF Overdue, Goes
  <2>2. Overdue(b, r) /\ b.q[r] = ua.q[r] /\ a.q[r] = ua.q[r]
    BY <1>3, <1>7, <1>11, <1>16, <2>1 DEF Goes
  <2>3. Open(ua, r) /\ a.home = ua.home
    BY <1>2, <2>2 DEF Overdue, Open, Goes
  <2>4. CASE r \in Pending(b, b.q[r].at) /\ Ready(b, r)
    <3>1. Overdue(a, r)
      BY <1>7, <2>2, <2>3, <2>4 DEF Overdue, Open, Ready, Pending
    <3>2. Overdue(ua, r)
      BY <1>2, <2>1, <3>1 DEF Goes
    <3> QED
      BY <3>2 DEF IInv
  <2>5. CASE Kind[r] = "login" /\ b.q[r].at # c
    <3>1. CASE ua.q[r].at = ua.home
      BY <2>3, <3>1 DEF OpenAt
    <3>2. CASE ua.q[r].at # ua.home
      BY <2>2, <2>3, <2>5, <3>2 DEF Overdue, IInv
    <3> QED
      BY <3>1, <3>2
  <2> QED
    BY <1>7, <2>2, <2>4, <2>5 DEF Overdue
<1>17. \A r \in Query : Onward(ua, t, r)
  BY <1>15 DEF Later, Onward
<1>18. \A r \in asked' : r \in Query /\ Kind[r] = "logout" /\ t.q[r].at = None
  BY <1>15 DEF IInv, Later
<1> QED
  BY <1>5, <1>14, <1>16, <1>17, <1>18 DEF Safe, IInv, Running

\* A query is answered with an error, of each class.
LEMMA ErrorIsSafe ==
    ASSUME IInv, NEW q \in Query, Error(q)
    PROVE  Safe
<1> DEFINE a == Inactive(Quiet(ua, q), q)
           c == ua.q[q].at
           h == ua.home
<1>1. PICK kind \in Errors :
        /\ kind = "migrate" => Kind[q] = "login"
        /\ ua' \in AfterError(ua, q, kind)
        /\ passed' = IF kind = "migrate" THEN passed \cup OpenAt(ua.home) ELSE passed
  BY DEF Error
<1>2. Running /\ Heard(q) /\ asked' = asked
  BY DEF Error
<1>3. /\ Lone(ua, q) /\ Listed(ua, q) /\ ua.q[q].end = "no" /\ c \in Client /\ h \in Client
      /\ \A d \in Client : q \notin Pending(ua, d)
      /\ ua \in State
  BY <1>2, HeardQuery DEF Lone, Typed, State
<1>4. Goes(ua, a, q) /\ a.q[q].end = "no" /\ ~a.q[q].active
  BY <1>3, SilentGoes
<1>5. CASE kind = "user"
  <2>1. ua' = Told(a, q, "failed") /\ passed' = passed
    BY <1>1, <1>5 DEF AfterError
  <2>2. Result(ua, ua')
    BY <1>3, <2>1, UserErrorResult
  <2> QED
    BY <1>2, <2>1, <2>2, ResultIsSafe
<1>6. CASE kind = "internal"
  <2>1. ua' = Retried(a, q) /\ passed' = passed
    BY <1>1, <1>6 DEF AfterError
  <2> HIDE DEF a
  <2>2. Result(ua, ua')
    BY <1>3, <1>4, <2>1, RetriedResult
  <2> QED
    BY <1>2, <2>1, <2>2, ResultIsSafe
<1>7. CASE kind = "migrate"
  <2>1. /\ \E d \in Client : ua' = Retried(Migrated(a, q, d), q)
        /\ passed' = passed \cup OpenAt(ua.home)
    BY <1>1, <1>7 DEF AfterError
  <2> QED
    BY <1>1, <1>2, <1>7, <2>1, MigrateIsSafe
<1>8. ASSUME NEW o, Subsides(a, o), ua' = Retried(o, q), passed' = passed
      PROVE  Safe
  <2> HIDE DEF a
  <2>1. Goes(a, o, q) /\ o.q[q].end = "no" /\ ~o.q[q].active
    BY <1>3, <1>4, <1>8, GoesLone, SubsidesQuery
  <2>2. Goes(ua, o, q)
    BY <1>4, <2>1, GoesTrans
  <2>3. Result(ua, ua')
    BY <1>3, <1>8, <2>1, <2>2, RetriedResult
  <2> QED
    BY <1>2, <1>8, <2>3, ResultIsSafe
<1>9. Typed(a) /\ a \in State
  BY <1>4 DEF Goes, Typed
<1>10. CASE kind = "password"
  <2> DEFINE e == [a.dc[h] EXCEPT !.in = FALSE]
             D == [a.dc EXCEPT ![h] = e]
             o == [a EXCEPT !.dc[h].in = FALSE]
  <2>1. ua' = Retried(o, q) /\ passed' = passed
    BY <1>1, <1>10 DEF AfterError
  <2> HIDE DEF a, h
  <2>2. o = [a EXCEPT !.dc = D, !.q = a.q] /\ a.dc[h] \in ClientState
    BY <1>3, <1>9 DEF State
  <2>3. e \in ClientState /\ Lowered(a.dc[h], e)
    <3>1. a.dc[h].up => a.dc[h].session
      BY <1>3, <1>9 DEF Typed
    <3> QED
      BY <2>2, <3>1 DEF ClientState, Lowered
  <2> HIDE DEF e, o
  <2>4. Subsides(a, o)
    BY <1>3, <1>9, <2>2, <2>3, ClientSubsides
  <2> QED
    BY <1>8, <2>1, <2>4
<1>11. CASE kind = "unregistered"
  <2> DEFINE o == LoggedOut(a, c)
  <2>1. /\ ua' = IF o.stop # "no" THEN o ELSE Retried(o, q)
        /\ passed' = passed
    BY <1>1, <1>11 DEF AfterError
  <2> HIDE DEF a
  <2>2. Lone(a, q) /\ Listed(a, q) /\ a.q[q].at = c
    <3>1. Lone(a, q)
      BY <1>3, <1>4, GoesLone
    <3> QED
      BY <1>3, <1>4, <3>1 DEF Listed, Goes
  <2>3. /\ o.stop # "no" => Sound(o) /\ \A r \in Query : Later(a, o, r)
        /\ o.stop = "no" =>
             Goes(a, o, q) /\ o.q[q].end \in {"no", "dropped"} /\ ~o.q[q].active
    BY <1>4, <2>2, LoggedOutGoes
  <2> HIDE DEF o
  <2>4. CASE o.stop # "no"
    <3>1. \A r \in Query : Later(ua, o, r)
      <4>1. \A r \in Query : Later(ua, a, r)
        BY <1>3, <1>4 DEF Goes, Later
      <4> QED
        BY <2>3, <2>4, <4>1 DEF Later
    <3>2. Result(ua, ua')
      BY <2>1, <2>3, <2>4, <3>1 DEF Result
    <3> QED
      BY <1>2, <2>1, <3>2, ResultIsSafe
  <2>5. CASE o.stop = "no"
    <3>1. Goes(ua, o, q)
      BY <1>4, <2>3, <2>5, GoesTrans
    <3>2. Result(ua, ua')
      BY <1>3, <2>1, <2>3, <2>5, <3>1, RetriedResult
    <3> QED
      BY <1>2, <2>1, <3>2, ResultIsSafe
  <2> QED
    BY <2>4, <2>5
<1>12. CASE kind = "rekey"
  <2>1. ua' = Retried(Rekeyed(a, c), q) /\ passed' = passed
    BY <1>1, <1>12 DEF AfterError
  <2>2. Subsides(a, Rekeyed(a, c))
    BY <1>3, <1>9, SessionSubsides
  <2> QED
    BY <1>8, <2>1, <2>2
<1> QED
  BY <1>5, <1>6, <1>7, <1>10, <1>11, <1>12 DEF Errors

-----------------------------------------------------------------------------
(* The theorems                                                            *)

\* The state at the beginning.
LEMMA InitIsSound ==
    ASSUME Init
    PROVE  IInv /\ \A q \in Query : ua.q[q].at = None
<1> DEFINE d0(c, i) == [session |-> FALSE, up |-> FALSE, known |-> c = Main,
                        configured |-> FALSE, in |-> c = Main /\ i, moving |-> FALSE,
                        leaving |-> None, idle |-> FALSE, pending |-> <<>>]
           q0 == [at |-> None, active |-> FALSE, timer |-> FALSE, retry |-> FALSE,
                  kept |-> FALSE, sess |-> FALSE, end |-> "no", ends |-> 0]
<1>1. PICK in \in BOOLEAN :
        ua = [home |-> Main, stop |-> "no", dc |-> [c \in Client |-> d0(c, in)],
              q |-> [q \in Query |-> q0]]
  BY DEF Init
<1>2. q0 \in QueryState
  BY DEF QueryState, Ends
<1>3. <<>> \in Seq(Query) /\ IsInjective(<<>>) /\ ToSet(<<>>) = {}
  BY DEF IsInjective, ToSet
<1>4. ASSUME NEW c \in Client
      PROVE  d0(c, in) \in ClientState
  <2>1. (c = Main) \in BOOLEAN /\ (c = Main /\ in) \in BOOLEAN
    BY <1>1
  <2> QED
    BY <1>3, <2>1 DEF ClientState
<1>5. ASSUME NEW c \in Client
      PROVE  /\ d0(c, in).up = FALSE /\ d0(c, in).configured = FALSE
             /\ d0(c, in).leaving = None /\ d0(c, in).pending = <<>>
  OBVIOUS
<1>6. /\ q0.at = None /\ q0.active = FALSE /\ q0.timer = FALSE /\ q0.retry = FALSE
      /\ q0.kept = FALSE /\ q0.end = "no" /\ q0.ends = 0
  OBVIOUS
<1> HIDE DEF d0, q0
<1>7. /\ ua.home = Main /\ ua.stop = "no"
      /\ \A c \in Client : ua.dc[c] = d0(c, in)
      /\ \A q \in Query : ua.q[q] = q0
  BY <1>1
<1>8. ua \in State
  <2>1. [c \in Client |-> d0(c, in)] \in [Client -> ClientState]
    BY <1>4
  <2>2. [q \in Query |-> q0] \in [Query -> QueryState]
    BY <1>2
  <2> QED
    BY <1>1, <2>1, <2>2, QueriesAssumption DEF State
<1>9. Typed(ua)
  BY <1>3, <1>5, <1>6, <1>7, <1>8 DEF Typed, Counted
<1>10. ASSUME NEW q \in Query
       PROVE  Good(ua, q) /\ ~Overdue(ua, q) /\ ua.q[q].at = None
  <2>1. \A c \in Client : q \notin Pending(ua, c) /\ ua.dc[c].leaving # q
    BY <1>3, <1>5, <1>7, QueriesAssumption DEF Pending
  <2>2. Unused(ua.q[q]) /\ Over(ua.q[q]) /\ RetriesOnce(ua.q[q], q)
    BY <1>6, <1>7 DEF Unused, Over, RetriesOnce
  <2>3. Waits(ua, q) /\ Leaves(ua, q)
    BY <2>1 DEF Waits, Leaves
  <2>4. ~Open(ua, q)
    BY <1>6, <1>7 DEF Open
  <2> QED
    BY <1>6, <1>7, <2>2, <2>3, <2>4 DEF Good, Found, Overdue
<1>11. asked = {}
  BY DEF Init
<1> QED
  BY <1>9, <1>10, <1>11 DEF IInv, Sound

\* The invariant is kept by every step, and so is what the application is told.
LEMMA StepIsSafe ==
    ASSUME IInv, [Next]_vars
    PROVE  Safe
<1>1. CASE UNCHANGED vars
  <2>1. ua' = ua /\ asked' = asked /\ passed' = passed
    BY <1>1 DEF vars
  <2> QED
    BY <2>1 DEF Safe, IInv, Onward, Running
<1>2. CASE Progress
  <2>1. CASE SignIn
    BY <2>1, SignInIsSafe
  <2>2. CASE Reach
    <3>1. Main \in Client
      BY QueriesAssumption
    <3> QED
      BY <2>2, <3>1, QuietStepIsSafe
  <2>3. ASSUME NEW c \in Client, Network(c)
        PROVE  Safe
    <3>1. CASE Up(c)
      BY <3>1, UpIsSafe
    <3>2. CASE Configure(c)
      BY <3>2, ConfigureIsSafe
    <3>3. CASE Import(c)
      BY <3>3, ImportIsSafe
    <3>4. CASE Export(c) \/ CleanUp(c)
      BY <3>4, QuietStepIsSafe
    <3> QED
      BY <2>3, <3>1, <3>2, <3>3, <3>4 DEF Network
  <2>4. ASSUME NEW q \in Query, Answer(q) \/ RetryFires(q) \/ Timeout(q)
        PROVE  Safe
    BY <2>4, AnswerIsSafe, RetryIsSafe, TimeoutIsSafe
  <2> QED
    BY <1>2, <2>1, <2>2, <2>3, <2>4 DEF Progress
<1>3. ASSUME NEW c \in Client, Trouble(c)
      PROVE  Safe
  BY <1>3, QuietStepIsSafe DEF Trouble
<1>4. ASSUME NEW q \in Query, Application(q) \/ Server(q)
      PROVE  Safe
  <2>1. CASE Application(q)
    BY <2>1, ApplicationIsSafe
  <2>2. CASE Server(q)
    BY <2>2, ErrorIsSafe, SaltIsSafe, RegenIsSafe DEF Server
  <2> QED
    BY <1>4, <2>1, <2>2
<1> QED
  BY <1>1, <1>2, <1>3, <1>4 DEF Next

\* In every state of every run, whatever fails, the invariant holds.
THEOREM AlwaysSound == Spec => []IInv
<1>1. Init => IInv
  BY InitIsSound
<1>2. IInv /\ [Next]_vars => IInv'
  BY StepIsSafe DEF Safe
<1> QED
  BY <1>1, <1>2, PTL DEF Spec

\* No query is forgotten or kept after its end: an open one waits in its own
\* client's list, for its retry timer or, with a timer, for an answer, and one
\* that has ended is in no list it could be sent or told from again
\* (query.cpp: execute(), timeout_alarm(), handle_error()).
THEOREM NoQueryForgotten == Spec => []NoneForgotten
<1>1. IInv => NoneForgotten
  <2> SUFFICES ASSUME IInv
               PROVE  NoneForgotten
    OBVIOUS
  <2>1. Sound(ua) /\ Typed(ua) /\ ua \in State
    BY DEF IInv, Sound, Typed
  <2>2. TypeOK
    <3>1. ASSUME NEW c \in Client
          PROVE  /\ ua.dc[c].leaving \in Query \cup {None}
                 /\ ua.dc[c].up => ua.dc[c].session
                 /\ IsInjective(ua.dc[c].pending) /\ Pending(ua, c) \subseteq Query
      <4>1. ua.dc[c] \in ClientState
        BY <2>1 DEF State
      <4>2. Pending(ua, c) \subseteq Query
        BY <4>1 DEF ClientState, Pending, ToSet
      <4> QED
        BY <2>1, <4>1, <4>2 DEF Typed, ClientState
    <3>2. ASSUME NEW q \in Query
          PROVE  /\ ua.q[q].at \in Client \cup {None}
                 /\ ua.q[q].end \in {"no", "answered", "failed", "expired", "dropped"}
                 /\ ua.q[q].ends \in Nat
      BY <2>1 DEF State, QueryState, Ends
    <3> QED
      BY <2>1, <3>1, <3>2 DEF TypeOK, State
  <2>3. ASSUME Running, NEW q \in Query
        PROVE  /\ Open(ua, q) => \/ q \in Pending(ua, ua.q[q].at) /\ ~ua.q[q].active
                                 \/ ua.q[q].retry /\ ua.q[q].kept
                                 \/ ua.q[q].active /\ ua.q[q].timer
               /\ ua.q[q].end # "no" => /\ ~ua.q[q].active /\ ~ua.q[q].retry
                                        /\ \A c \in Client : q \notin Pending(ua, c)
    <3>1. Good(ua, q) /\ ua.q[q].at \in Client \cup {None}
      BY <2>1, <2>3 DEF Sound, Running, State, QueryState
    <3>2. ASSUME Open(ua, q)
          PROVE  \/ q \in Pending(ua, ua.q[q].at) /\ ~ua.q[q].active
                 \/ ua.q[q].retry /\ ua.q[q].kept
                 \/ ua.q[q].active /\ ua.q[q].timer
      BY <3>1, <3>2 DEF Good, Found, Waits, Open
    <3>3. ASSUME ua.q[q].end # "no"
          PROVE  /\ ~ua.q[q].active /\ ~ua.q[q].retry
                 /\ \A c \in Client : q \notin Pending(ua, c)
      BY <3>1, <3>3 DEF Good, Over, Waits
    <3> QED
      BY <3>2, <3>3
  <2> QED
    BY <2>2, <2>3 DEF NoneForgotten, Held, Gone
<1> QED
  BY <1>1, AlwaysSound, PTL

\* No query waits for a client that is connected, configured and logged in,
\* unless a login, a change of the active client or a failed transfer has passed
\* it by (mtproto_client.cpp: send_pending_queries(), configured()).
THEOREM NoneWaitsForAReadyClient == Spec => []SentWhenReady
<1>1. IInv => SentWhenReady
  BY DEF IInv, SentWhenReady, Overdue
<1> QED
  BY <1>1, AlwaysSound, PTL

\* What the application has heard of a query is how the query ended, since it is
\* told of one end at most.
LEMMA HeardOnce ==
    ASSUME NEW f, Counted(f)
    PROVE  (CASE f.at = None                 -> "new"
              [] f.at # None /\ f.ends > 1  -> "repeated"
              [] f.at # None /\ f.ends = 0  -> "open"
              [] OTHER                      -> f.end)
           = IF f.at = None THEN "new" ELSE IF f.end \in {"no", "dropped"} THEN "open" ELSE f.end
<1>1. CASE f.end \in {"no", "dropped"}
  <2>1. f.ends = 0 /\ ~(f.ends > 1)
    BY <1>1 DEF Counted
  <2>2. CASE f.at = None
    BY <2>1, <2>2
  <2>3. CASE f.at # None
    BY <1>1, <2>1, <2>3
  <2> QED
    BY <2>2, <2>3
<1>2. CASE f.end \notin {"no", "dropped"}
  <2>1. f.ends = 1 /\ f.at # None
    BY <1>2 DEF Counted
  <2> QED
    BY <1>2, <2>1
<1> QED
  BY <1>1, <1>2

\* The client keeps the promise of a query: the application hears of each at most
\* once, of an answer, an error or a timeout, and of none it has not executed
\* (query.cpp: handle_result(), on_error(), timeout_alarm()).
THEOREM PromiseKept == Spec => PromiseSpec
<1> DEFINE told == [q \in Query |-> Promised(q)]
           Is(s, q) == IF s.q[q].at = None THEN "new"
                       ELSE IF s.q[q].end \in {"no", "dropped"} THEN "open"
                       ELSE s.q[q].end
<1>1. Init => Promise!Init
  <2> SUFFICES ASSUME Init
               PROVE  told = [q \in Query |-> "new"]
    BY DEF Promise!Init
  <2>1. ASSUME NEW q \in Query
        PROVE  Promised(q) = "new"
    <3>1. Counted(ua.q[q]) /\ ua.q[q].at = None
      BY InitIsSound DEF IInv, Sound, Typed
    <3> QED
      BY <3>1, HeardOnce DEF Promised
  <2> QED
    BY <2>1
<1>2. IInv /\ [Next]_vars => [Promise!Next]_told
  <2> SUFFICES ASSUME IInv, [Next]_vars
               PROVE  Promise!Next
    OBVIOUS
  <2>1. Safe /\ Typed(ua) /\ Typed(ua')
    BY StepIsSafe DEF Safe, IInv, Sound
  <2>2. ASSUME NEW q \in Query
        PROVE  Promised(q) = Is(ua, q) /\ Promised(q)' = Is(ua', q)
    <3>1. Counted(ua.q[q]) /\ Counted(ua'.q[q])
      BY <2>1 DEF Typed
    <3>2. Promised(q) = Is(ua, q)
      BY <3>1, HeardOnce DEF Promised
    <3>3. Promised(q)' = Is(ua', q)
      BY <3>1, HeardOnce DEF Promised
    <3> QED
      BY <3>2, <3>3
  <2>3. ASSUME NEW q \in Query
        PROVE  /\ told'[q] \in {"new", "open", "answered", "failed", "expired"}
               /\ told'[q] \in Promise!Successors(told[q])
    <3>1. /\ ua.q[q].end \in Ends /\ ua'.q[q].end \in Ends
          /\ Onward(ua, ua', q)
      BY <2>1 DEF Safe, Typed, State, QueryState
    <3>2. told[q] = Is(ua, q) /\ told'[q] = Is(ua', q)
      BY <2>2
    <3> HIDE DEF told
    <3> QED
      BY <3>1, <3>2 DEF Ends, Onward, Promise!Successors, Promise!Outcomes
  <2>4. told' \in [Query -> {"new", "open"} \cup Promise!Outcomes]
    BY <2>3 DEF Promise!Outcomes
  <2> QED
    BY <2>3, <2>4 DEF Promise!Next
<1>3. Spec => Promise!Init /\ [][Promise!Next]_told
  <2> HIDE DEF told
  <2> QED
    BY <1>1, <1>2, AlwaysSound, PTL DEF Spec
<1> QED
  BY <1>3, PTL DEF PromiseSpec, Promise!Spec, Promise!vars

=============================================================================
