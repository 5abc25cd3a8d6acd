-------------------------- MODULE ApplicationProofs --------------------------
(***************************************************************************)
(* What the application sees, for any server: updates, whatever is pushed,  *)
(* however often and in which order, with any errors and logouts; any       *)
(* number of logins and logouts beside each other; and lists of any length, *)
(* fetched in pages of any size while others add to them and take away.     *)
(***************************************************************************)
EXTENDS MCApplication, FiniteSetTheorems, TLAPS

-----------------------------------------------------------------------------
(* The updates: the inductive invariant                                    *)

\* The client: its counters, its lock and its queries.
Client == [n : Numbers, locked : BOOLEAN, asked : SUBSET Queries]

\* Where the client began to follow each box.
Position == [pts : Int, qts : Int]

\* The types; the server begins with pts 1 and never goes back.
Typed ==
    /\ made \in Numbers /\ made.pts >= 1
    /\ log \subseteq Events
    /\ client \in Client
    /\ base \in Position
    /\ got \subseteq log /\ again \subseteq Events
    /\ outlived \in BOOLEAN

\* The events of a box take one stretch of numbers each, up to what is made.
Apart(e, f) ==
    e.box = f.box /\ e # f /\ e.count > 0 /\ f.count > 0
        => e.at <= f.at - f.count \/ f.at <= e.at - e.count

\* So do all that the server has made.
Chained ==
    /\ \A e \in log : e.at <= made[e.box]
    /\ \A e, f \in log : Apart(e, f)

\* Counters a that are none ahead of the counters b.
Upto(a, b) == a.pts <= b.pts /\ a.qts <= b.qts /\ a.seq <= b.seq

\* Neither the client nor an answer is ahead of the server.
Behind(c) ==
    /\ Upto(c.n, made)
    /\ \A q \in c.asked : q.from.pts <= made.pts /\ (q.to # None => Upto(q.to, made))

\* One fetch at a time, which holds the lock: no counter moves while it is under
\* way.  That for a state is made without a pts.
Fetching(c) ==
    /\ \A q, r \in Fetches(c) : q = r
    /\ \A q \in Fetches(c) :
          /\ c.locked
          /\ q.kind = "difference" => q.from.pts = c.n.pts /\ q.from.qts = c.n.qts
          /\ q.kind = "state" => c.n.pts = 0 /\ (q.to # None => c.n.qts <= q.to.qts)

\* With the counters of c, g is what was given and b where the client began: no
\* event is given before the counters reach it, and none is left out below them,
\* for an event that takes no number (see UpdatesZero.cfg) would let them jump.
Follows(c, g, b) ==
    /\ \A e \in g : e.count > 0 => e.at <= c.n[e.box]
    /\ 0 \notin Counts => \A e \in log : b[e.box] < e.at /\ e.at <= c.n[e.box] => e \in g

\* The invariant the steps preserve, until a fetch outlives a logout.
UInv ==
    /\ Typed /\ Chained /\ Behind(client)
    /\ ~outlived => again = {} /\ Fetching(client) /\ Follows(client, got, base)

-----------------------------------------------------------------------------
(* Lemmas about the counters                                               *)

\* What is known of an event.
LEMMA EventIs ==
    ASSUME NEW e \in Events
    PROVE  /\ e.box \in {"pts", "qts"} /\ e.at \in Nat /\ e.at >= 1 /\ e.count \in Nat
           /\ e.box = "pts" => e.at <= MaxPts /\ e.count \in Counts
           /\ e.box = "qts" => e.at <= MaxQts /\ e.count = 1
<1>1. MaxPts \in Nat /\ MaxQts \in Nat /\ Counts \subseteq Nat
  BY UpdaterAssumption
<1>2. CASE e \in [box : {"pts"}, at : 1..MaxPts, count : Counts]
  <2>1. e.box = "pts" /\ e.at \in 1..MaxPts /\ e.count \in Counts
    BY <1>2
  <2>2. e.count \in Nat
    BY <1>1, <2>1
  <2> QED
    BY <1>1, <2>1, <2>2
<1>3. CASE e \in [box : {"qts"}, at : 1..MaxQts, count : {1}]
  BY <1>1, <1>3
<1> QED
  BY <1>2, <1>3 DEF Events

\* A counter moves on, or stays.
LEMMA AdvancedIs ==
    ASSUME NEW c \in Client, NEW key \in {"pts", "qts", "seq"}, NEW value \in Int,
           value <= (IF key = "pts" THEN MaxPts ELSE IF key = "qts" THEN MaxQts ELSE MaxSeq),
           NEW d, d = Advanced(c, key, value)
    PROVE  /\ d \in Client /\ d.locked = c.locked /\ d.asked = c.asked
           /\ \A k \in {"pts", "qts", "seq"} :
                d.n[k] = IF k = key /\ ~c.locked /\ value > c.n[k] THEN value ELSE c.n[k]
<1>1. CASE c.locked \/ value <= c.n[key]
  BY <1>1 DEF Advanced, Client, Numbers
<1>2. CASE ~c.locked /\ value > c.n[key]
  <2>1. c.n \in Numbers /\ value \in Nat
    BY <1>2 DEF Client, Numbers
  <2>2. /\ [c.n EXCEPT ![key] = value] \in Numbers
        /\ \A k \in {"pts", "qts", "seq"} :
             [c.n EXCEPT ![key] = value][k] = IF k = key THEN value ELSE c.n[k]
    BY <2>1 DEF Numbers
  <2>3. d = [c EXCEPT !.n = [c.n EXCEPT ![key] = value]]
    BY <1>2 DEF Advanced, Client, Numbers
  <2> QED
    BY <1>2, <2>2, <2>3 DEF Client
<1> QED
  BY <1>1, <1>2 DEF Client, Numbers

\* The keys of the counters.
Keys == {"pts", "qts", "seq"}

\* What a query carries.
LEMMA QueryIs ==
    ASSUME NEW c \in Client, NEW kind \in {"difference", "state", "lookup"}
    PROVE  /\ Query(c, kind) \in Queries
           /\ Query(c, kind).kind = kind /\ Query(c, kind).to = None
           /\ kind = "difference" => /\ Query(c, kind).from.pts = c.n.pts
                                     /\ Query(c, kind).from.qts = c.n.qts
           /\ kind # "difference" => /\ Query(c, kind).from.pts = 0
<1> DEFINE f == IF kind = "difference" THEN [b \in Boxes |-> c.n[b]] ELSE [b \in Boxes |-> 0]
<1>1. /\ f \in Reached
      /\ kind = "difference" => f.pts = c.n.pts /\ f.qts = c.n.qts
      /\ kind # "difference" => f.pts = 0
  BY UpdaterAssumption DEF Reached, Boxes, Client, Numbers
<1>2. Query(c, kind) = [kind |-> kind, old |-> FALSE, to |-> None, final |-> TRUE, from |-> f]
  BY DEF Query
<1> HIDE DEF f
<1> QED
  BY <1>1, <1>2 DEF Queries

\* A fetch is begun only when there is none.
LEMMA GetDifferenceIs ==
    ASSUME NEW c \in Client, Behind(c), made \in Numbers, NEW d, d = GetDifference(c)
    PROVE  /\ d \in Client /\ d.n = c.n /\ Behind(d)
           /\ Fetching(c) => Fetching(d)
<1>1. CASE c.locked
  BY <1>1 DEF GetDifference
<1>2. CASE ~c.locked
  <2> DEFINE kind == IF c.n.pts > 0 THEN "difference" ELSE "state"
             q == Query(c, kind)
  <2>1. d = [c EXCEPT !.locked = TRUE, !.asked = @ \cup {q}]
    BY <1>2 DEF GetDifference
  <2>2. kind \in {"difference", "state"}
    OBVIOUS
  <2>3. /\ q \in Queries /\ q.kind = kind /\ q.to = None
        /\ kind = "difference" => q.from.pts = c.n.pts /\ q.from.qts = c.n.qts
        /\ kind # "difference" => q.from.pts = 0
    BY <2>2, QueryIs
  <2>4. kind = "state" => c.n.pts = 0
    BY DEF Client, Numbers
  <2> HIDE DEF q, kind
  <2>5. d \in Client /\ d.n = c.n /\ d.locked /\ d.asked = c.asked \cup {q}
    BY <2>1, <2>3 DEF Client
  <2>6. Behind(d)
    <3>1. q.from.pts <= made.pts
      BY <2>2, <2>3 DEF Behind, Upto, Numbers
    <3> QED
      BY <2>3, <2>5, <3>1 DEF Behind
  <2>7. ASSUME Fetching(c)
        PROVE  Fetching(d)
    <3>1. Fetches(c) = {}
      BY <1>2, <2>7 DEF Fetching
    <3>2. Fetches(d) \subseteq {q}
      BY <2>5, <3>1 DEF Fetches
    <3> QED
      BY <2>2, <2>3, <2>4, <2>5, <3>2 DEF Fetching
  <2> QED
    BY <2>5, <2>6, <2>7
<1> QED
  BY <1>1, <1>2

\* A counter moves on to what the server has made: no fetch sees it.
LEMMA AdvancedKeeps ==
    ASSUME NEW c \in Client, Behind(c), made \in Numbers, NEW key \in Keys,
           NEW value \in Int, value <= made[key], NEW d, d = Advanced(c, key, value)
    PROVE  /\ d \in Client /\ Behind(d) /\ d.locked = c.locked /\ d.asked = c.asked
           /\ \A k \in Keys :
                d.n[k] = IF k = key /\ ~c.locked /\ value > c.n[k] THEN value ELSE c.n[k]
           /\ Fetching(c) => Fetching(d)
<1>1. value <= (IF key = "pts" THEN MaxPts ELSE IF key = "qts" THEN MaxQts ELSE MaxSeq)
  BY UpdaterAssumption DEF Keys, Numbers
<1>2. /\ d \in Client /\ d.locked = c.locked /\ d.asked = c.asked
      /\ \A k \in Keys :
           d.n[k] = IF k = key /\ ~c.locked /\ value > c.n[k] THEN value ELSE c.n[k]
  BY <1>1, AdvancedIs DEF Keys
<1>3. Behind(d)
  BY <1>2 DEF Behind, Upto, Keys
<1>4. ASSUME Fetching(c)
      PROVE  Fetching(d)
  <2>1. Fetches(d) = Fetches(c)
    BY <1>2 DEF Fetches
  <2>2. CASE c.locked
    <3>1. d.n.pts = c.n.pts /\ d.n.qts = c.n.qts
      BY <1>2, <2>2 DEF Keys
    <3> QED
      BY <1>2, <1>4, <2>1, <3>1 DEF Fetching
  <2>3. CASE ~c.locked
    BY <1>4, <2>1, <2>3 DEF Fetching
  <2> QED
    BY <2>2, <2>3
<1> QED
  BY <1>2, <1>3, <1>4

-----------------------------------------------------------------------------
(* Lemmas about pushes                                                     *)

\* What is taken is the next event of its box, or the first the client hears of,
\* or takes no number.
LEMMA VerdictIs ==
    ASSUME NEW c \in Client, NEW u \in Events
    PROVE  /\ Verdict(c, u) \in {"take", "drop", "fetch"}
           /\ Verdict(c, u) = "take" =>
                /\ ~c.locked
                /\ u.box = "pts" => c.n.pts = 0 \/ u.count = 0 \/ u.at = c.n.pts + u.count
                /\ u.box = "qts" => u.at = c.n.qts + u.count
<1>1. /\ u.box \in {"pts", "qts"} /\ u.at \in Nat /\ u.count \in Nat
      /\ c.n.pts \in Nat /\ c.n.qts \in Nat /\ c.locked \in BOOLEAN
  BY EventIs DEF Client, Numbers
<1>2. /\ PtsVerdict(c, u) \in {"take", "drop", "fetch"}
      /\ PtsVerdict(c, u) = "take" => c.n.pts = 0 \/ u.count = 0 \/ u.at = c.n.pts + u.count
  BY <1>1 DEF PtsVerdict
<1>3. /\ QtsVerdict(c, u) \in {"take", "fetch"}
      /\ QtsVerdict(c, u) = "take" => u.at = c.n.qts + u.count
  BY <1>1 DEF QtsVerdict
<1>4. CASE c.locked
  BY <1>4 DEF Verdict
<1>5. CASE ~c.locked /\ u.box = "pts"
  BY <1>2, <1>5 DEF Verdict
<1>6. CASE ~c.locked /\ u.box = "qts"
  BY <1>3, <1>6 DEF Verdict
<1> QED
  BY <1>1, <1>4, <1>5, <1>6
\* One update, alone or in a container, whether it is taken or not: with it a
\* goes on from b, where the client began.
LEMMA WorkedKeeps ==
    ASSUME made \in Numbers, log \subseteq Events, Chained,
           NEW c \in Client, Behind(c), NEW u \in log,
           NEW d, d = Worked(c, u),
           NEW g \in SUBSET log, NEW b \in Position,
           NEW h, h = IF Verdict(c, u) = "take" THEN g \cup {u} ELSE g,
           NEW a, a = IF Verdict(c, u) = "take" /\ u.box = "pts" /\ c.n.pts = 0
                      THEN [b EXCEPT !.pts = u.at - u.count] ELSE b
    PROVE  /\ d \in Client /\ Behind(d) /\ a \in Position
           /\ Fetching(c) => Fetching(d)
           /\ Follows(c, g, b) => Follows(d, h, a)
           /\ Verdict(c, u) = "take" /\ Follows(c, g, b) /\ u.count > 0 => u \notin g
           /\ Verdict(c, u) = "take" /\ u.box = "pts" => d.n.pts > 0
           /\ c.n.pts > 0 => d.n.pts > 0
<1>0. /\ u \in Events /\ u.box \in {"pts", "qts"} /\ u.at \in Nat /\ u.at >= 1 /\ u.count \in Nat
      /\ u.at <= made[u.box]
      /\ c.n.pts \in Nat /\ c.n.qts \in Nat
  BY EventIs DEF Chained, Client, Numbers
<1>1. a \in Position
  BY <1>0 DEF Position
<1>2. CASE Verdict(c, u) = "take"
  <2>1. d = Advanced(c, u.box, u.at)
    BY <1>2 DEF Worked
  <2>2. /\ ~c.locked
        /\ u.box = "pts" => c.n.pts = 0 \/ u.count = 0 \/ u.at = c.n.pts + u.count
        /\ u.box = "qts" => u.at = c.n.qts + u.count
    BY <1>0, <1>2, VerdictIs
  <2>3. /\ d \in Client /\ Behind(d) /\ (Fetching(c) => Fetching(d))
        /\ \A k \in Keys : d.n[k] = IF k = u.box /\ ~c.locked /\ u.at > c.n[k] THEN u.at ELSE c.n[k]
    <3>1. u.box \in Keys /\ u.at \in Int
      BY <1>0 DEF Keys
    <3> QED
      BY <1>0, <2>1, <3>1, AdvancedKeeps
  <2>4. \A k \in {"pts", "qts"} : d.n[k] \in Nat /\ c.n[k] \in Nat /\ c.n[k] <= d.n[k]
    BY <1>0, <2>3 DEF Keys
  <2>5. d.n[u.box] >= u.at /\ \A k \in {"pts", "qts"} : k # u.box => d.n[k] = c.n[k]
    BY <1>0, <2>2, <2>3, <2>4 DEF Keys
  <2>6. h = g \cup {u}
    BY <1>2
  <2>7. ASSUME Follows(c, g, b), u.count > 0, u \in g
        PROVE  FALSE
    <3>1. u.at <= c.n[u.box]
      BY <2>7 DEF Follows
    <3> QED
      BY <1>0, <2>2, <2>7, <3>1
  <2>8. ASSUME Follows(c, g, b)
        PROVE  Follows(d, h, a)
    <3>1. ASSUME NEW e \in h, e.count > 0
          PROVE  e.at <= d.n[e.box]
      <4>1. CASE e = u
        BY <2>5, <4>1
      <4>2. CASE e \in g
        <5>1. e.at <= c.n[e.box]
          BY <2>8, <3>1, <4>2 DEF Follows
        <5>2. e.box \in {"pts", "qts"} /\ e.at \in Nat
          BY <4>2, EventIs
        <5> QED
          BY <2>4, <5>1, <5>2
      <4> QED
        BY <2>6, <4>1, <4>2
    <3>2. ASSUME 0 \notin Counts, NEW e \in log, a[e.box] < e.at, e.at <= d.n[e.box], e # u
          PROVE  e \in g
      <4>1. /\ e.box \in {"pts", "qts"} /\ e.at \in Nat /\ e.count \in Nat
            /\ e.count > 0 /\ u.count > 0
        BY <1>0, <3>2, EventIs
      <4>2. b[e.box] < e.at /\ e.at <= c.n[e.box] => e \in g
        BY <2>8, <3>2 DEF Follows
      <4>3. CASE e.box # u.box
        <5>1. d.n[e.box] = c.n[e.box]
          BY <2>5, <4>1, <4>3
        <5>2. a[e.box] = b[e.box]
          BY <1>0, <4>1, <4>3 DEF Position
        <5> QED
          BY <3>2, <4>2, <5>1, <5>2
      <4>4. CASE e.box = u.box
        <5>1. e.at <= u.at - u.count \/ u.at <= e.at - e.count
          BY <3>2, <4>1, <4>4 DEF Chained, Apart
        <5>2. CASE u.box = "pts" /\ c.n.pts = 0
          <6>1. a.pts = u.at - u.count
            BY <1>2, <5>2 DEF Position
          <6>2. d.n["pts"] = u.at
            BY <1>0, <2>2, <2>3, <5>2 DEF Keys
          <6> QED
            BY <1>0, <3>2, <4>1, <4>4, <5>1, <5>2, <6>1, <6>2
        <5>3. CASE ~(u.box = "pts" /\ c.n.pts = 0)
          <6>1. a = b /\ u.at = c.n[u.box] + u.count
            BY <1>0, <2>2, <4>1, <5>3
          <6>2. d.n[u.box] = u.at
            BY <1>0, <2>2, <2>3, <4>1, <6>1 DEF Keys
          <6>3. c.n[u.box] \in Int /\ e.at <= u.at
            BY <1>0, <2>4, <3>2, <4>4, <6>2
          <6>4. e.at <= c.n[u.box]
            BY <1>0, <4>1, <5>1, <6>1, <6>3
          <6> QED
            BY <3>2, <4>2, <4>4, <6>1, <6>4
        <5> QED
          BY <5>2, <5>3
      <4> QED
        BY <4>3, <4>4
    <3> QED
      BY <2>6, <3>1, <3>2 DEF Follows
  <2> QED
    BY <1>0, <1>1, <1>2, <2>3, <2>4, <2>5, <2>7, <2>8
<1>3. CASE Verdict(c, u) = "fetch"
  <2>1. d = GetDifference(c) /\ h = g /\ a = b
    BY <1>3 DEF Worked
  <2>2. d \in Client /\ d.n = c.n /\ Behind(d) /\ (Fetching(c) => Fetching(d))
    BY <2>1, GetDifferenceIs
  <2>3. Follows(c, g, b) => Follows(d, h, a)
    BY <2>1, <2>2 DEF Follows
  <2> QED
    BY <1>1, <1>3, <2>2, <2>3
<1>4. CASE Verdict(c, u) = "drop"
  <2>1. d = c /\ h = g /\ a = b
    BY <1>4 DEF Worked
  <2> QED
    BY <1>1, <1>4, <2>1
<1> QED
  BY <1>0, <1>2, <1>3, <1>4, VerdictIs

\* A container of one or two updates is worked one after the other.
LEMMA AfterIs ==
    ASSUME NEW c, NEW us, Len(us) \in {1, 2}
    PROVE  /\ After(c, us, 0) = c /\ After(c, us, 1) = Worked(c, us[1])
           /\ Len(us) = 2 => After(c, us, 2) = Worked(Worked(c, us[1]), us[2])
<1> DEFINE step(f) == [k \in 0..Len(us) |-> IF k = 0 THEN c ELSE Worked(f[k - 1], us[k])]
           all3 == [k \in 0..Len(us) |-> IF k = 0 THEN c ELSE IF k = 1 THEN Worked(c, us[1])
                                         ELSE Worked(Worked(c, us[1]), us[2])]
           after == CHOOSE f : f = step(f)
<1>1. all3 = step(all3)
  <2>1. \A k \in 0..Len(us) : all3[k] = step(all3)[k]
    OBVIOUS
  <2> QED
    BY <2>1
<1>2. after = step(after)
  BY <1>1
<1>3. \A i : After(c, us, i) = after[i]
  BY DEF After
<1> HIDE DEF after
<1>4. after[0] = c
  BY <1>2
<1>5. after[1] = Worked(c, us[1])
  BY <1>2, <1>4
<1>6. Len(us) = 2 => after[2] = Worked(Worked(c, us[1]), us[2])
  BY <1>2, <1>5
<1> QED
  BY <1>3, <1>4, <1>5, <1>6
\* What the ghosts become when u reaches the client c: h is what was given.
Heard(c, u, g)  == IF Verdict(c, u) = "take" THEN g \cup {u} ELSE g
Begun(c, u, b)  == IF Verdict(c, u) = "take" /\ u.box = "pts" /\ c.n.pts = 0
                   THEN [b EXCEPT !.pts = u.at - u.count] ELSE b
Twice(c, u, g)  == IF Verdict(c, u) = "take" /\ u \in g /\ u.count > 0 THEN {u} ELSE {}

\* The ghosts after one update.
LEMMA GivenOne ==
    ASSUME NEW c, NEW u, Given(c, <<u>>)
    PROVE  /\ got' = Heard(c, u, got) /\ base' = Begun(c, u, base)
           /\ again' = again \cup Twice(c, u, got)
<1> DEFINE us == <<u>>
<1>1. Len(us) = 1 /\ us[1] = u /\ After(c, us, 0) = c
  BY AfterIs
<1>2. TakenOf(c, us) = IF Verdict(c, u) = "take" THEN {1} ELSE {}
  BY <1>1 DEF TakenOf
<1> HIDE DEF us
<1>3. CASE Verdict(c, u) = "take"
  <2>1. TakenOf(c, us) = {1}
    BY <1>2, <1>3
  <2>2. got' = got \cup {u}
    BY <1>1, <2>1 DEF Given, us
  <2>3. again' = again \cup {e \in {us[i] : i \in {j \in {1} : us[j] \in got
                                      \/ \E k \in {1} : k < j /\ us[k] = us[j]}} : e.count > 0}
    BY <2>1 DEF Given, us
  <2>4. base' = LET begins == {i \in {1} : us[i].box = "pts" /\ After(c, us, i - 1).n.pts = 0}
                IN  IF begins = {} THEN base
                    ELSE [base EXCEPT !.pts = us[CHOOSE i \in begins : TRUE].at
                                              - us[CHOOSE i \in begins : TRUE].count]
    BY <2>1 DEF Given, us
  <2>5. base' = Begun(c, u, base)
    BY <1>1, <1>3, <2>4 DEF Begun
  <2>6. again' = again \cup Twice(c, u, got)
    BY <1>1, <1>3, <2>3 DEF Twice
  <2> QED
    BY <1>3, <2>2, <2>5, <2>6 DEF Heard
<1>4. CASE Verdict(c, u) # "take"
  <2>1. TakenOf(c, us) = {}
    BY <1>2, <1>4
  <2>2. got' = got /\ again' = again /\ base' = base
    BY <2>1 DEF Given, us
  <2> QED
    BY <1>4, <2>2 DEF Heard, Begun, Twice
<1> QED
  BY <1>3, <1>4

\* The ghosts after two, of which the client cannot begin with both.
LEMMA GivenTwo ==
    ASSUME NEW c, NEW u, NEW v, Given(c, <<u, v>>), NEW d, d = Worked(c, u),
           Verdict(c, u) = "take" /\ u.box = "pts" => d.n.pts # 0
    PROVE  /\ got' = Heard(d, v, Heard(c, u, got))
           /\ base' = Begun(d, v, Begun(c, u, base))
           /\ again' = again \cup Twice(c, u, got) \cup Twice(d, v, Heard(c, u, got))
<1> DEFINE us == <<u, v>>
           t == TakenOf(c, us)
<1>1. Len(us) = 2 /\ us[1] = u /\ us[2] = v /\ After(c, us, 0) = c /\ After(c, us, 1) = d
  BY AfterIs
<1>2. /\ t \subseteq {1, 2}
      /\ 1 \in t <=> Verdict(c, u) = "take"
      /\ 2 \in t <=> Verdict(d, v) = "take"
  BY <1>1 DEF TakenOf
<1>3. /\ got' = got \cup {us[i] : i \in t}
      /\ again' = again \cup {e \in {us[i] : i \in {j \in t : us[j] \in got
                                      \/ \E k \in t : k < j /\ us[k] = us[j]}} : e.count > 0}
      /\ base' = LET begins == {i \in t : us[i].box = "pts" /\ After(c, us, i - 1).n.pts = 0}
                 IN  IF begins = {} THEN base
                     ELSE [base EXCEPT !.pts = us[CHOOSE i \in begins : TRUE].at
                                               - us[CHOOSE i \in begins : TRUE].count]
  BY DEF Given
<1> HIDE DEF us, t
<1>4. got' = Heard(d, v, Heard(c, u, got))
  BY <1>1, <1>2, <1>3 DEF Heard
<1>5. again' = again \cup Twice(c, u, got) \cup Twice(d, v, Heard(c, u, got))
  <2> DEFINE j2 == {j \in t : us[j] \in got \/ \E k \in t : k < j /\ us[k] = us[j]}
  <2>1. 1 \in j2 <=> Verdict(c, u) = "take" /\ u \in got
    BY <1>1, <1>2
  <2>2. 2 \in j2 <=> Verdict(d, v) = "take" /\ v \in Heard(c, u, got)
    BY <1>1, <1>2 DEF Heard
  <2>3. j2 \subseteq {1, 2} /\ again' = again \cup {e \in {us[i] : i \in j2} : e.count > 0}
    BY <1>2, <1>3
  <2> HIDE DEF j2
  <2>4. \A e : e \in {us[i] : i \in j2} <=> (1 \in j2 /\ e = u) \/ (2 \in j2 /\ e = v)
    BY <1>1, <2>3
  <2> QED
    BY <2>1, <2>2, <2>3, <2>4 DEF Twice
<1>6. base' = Begun(d, v, Begun(c, u, base))
  <2> DEFINE begins == {i \in t : us[i].box = "pts" /\ After(c, us, i - 1).n.pts = 0}
             e == us[CHOOSE i \in begins : TRUE]
  <2>1. 1 \in begins <=> Verdict(c, u) = "take" /\ u.box = "pts" /\ c.n.pts = 0
    BY <1>1, <1>2
  <2>2. 2 \in begins <=> Verdict(d, v) = "take" /\ v.box = "pts" /\ d.n.pts = 0
    BY <1>1, <1>2
  <2>3. begins \subseteq {1, 2}
    BY <1>2
  <2>4. base' = IF begins = {} THEN base ELSE [base EXCEPT !.pts = e.at - e.count]
    BY <1>3
  <2> HIDE DEF begins
  <2>5. CASE 1 \in begins
    <3>1. begins = {1} \/ begins = {1, 2}
      BY <2>3, <2>5
    <3> QED
      BY <1>1, <2>1, <2>2, <2>3, <2>4, <2>5 DEF Begun
  <2>6. CASE 1 \notin begins /\ 2 \in begins
    <3>1. begins = {2}
      BY <2>3, <2>6
    <3>2. e = v
      BY <1>1, <3>1
    <3>3. Begun(c, u, base) = base
      BY <2>1, <2>6 DEF Begun
    <3> QED
      BY <2>2, <2>4, <2>6, <3>1, <3>2, <3>3 DEF Begun
  <2>7. CASE begins = {}
    BY <2>1, <2>2, <2>4, <2>7 DEF Begun
  <2> QED
    BY <2>3, <2>5, <2>6, <2>7
<1> QED
  BY <1>4, <1>5, <1>6
\* A container reaches the client.
LEMMA GivenKeeps ==
    ASSUME Typed, Chained, Behind(client),
           NEW us \in Containers, Given(client, us), NEW d, d = After(client, us, Len(us))
    PROVE  /\ d \in Client /\ Behind(d) /\ base' \in Position /\ got' \subseteq log
           /\ again' \subseteq Events
           /\ Fetching(client) => Fetching(d)
           /\ Follows(client, got, base) => Follows(d, got', base') /\ again' = again
<1>0. made \in Numbers /\ log \subseteq Events /\ client \in Client /\ base \in Position
      /\ got \in SUBSET log /\ again \subseteq Events
  BY DEF Typed
<1>1. CASE \E u \in log : us = <<u>>
  <2> PICK u \in log : us = <<u>>
    BY <1>1
  <2> DEFINE h == Heard(client, u, got)
             a == Begun(client, u, base)
  <2>1. got' = h /\ base' = a /\ again' = again \cup Twice(client, u, got)
    BY GivenOne
  <2>2. d = Worked(client, u)
    <3>1. Len(us) = 1 /\ us[1] = u
      OBVIOUS
    <3> QED
      BY <3>1, AfterIs
  <2>3. h = (IF Verdict(client, u) = "take" THEN got \cup {u} ELSE got)
        /\ a = (IF Verdict(client, u) = "take" /\ u.box = "pts" /\ client.n.pts = 0
                THEN [base EXCEPT !.pts = u.at - u.count] ELSE base)
    BY DEF Heard, Begun
  <2> HIDE DEF h, a
  <2>4. /\ d \in Client /\ Behind(d) /\ a \in Position
        /\ Fetching(client) => Fetching(d)
        /\ Follows(client, got, base) => Follows(d, h, a)
        /\ Verdict(client, u) = "take" /\ Follows(client, got, base) /\ u.count > 0 => u \notin got
    BY <1>0, <2>2, <2>3, WorkedKeeps
  <2>5. h \subseteq log /\ Twice(client, u, got) \subseteq Events
    BY <1>0, <2>3 DEF Twice
  <2>6. Follows(client, got, base) => Twice(client, u, got) = {}
    BY <2>4 DEF Twice
  <2> QED
    BY <1>0, <2>1, <2>4, <2>5, <2>6
<1>2. CASE \E u, v \in log : us = <<u, v>>
  <2> PICK u \in log, v \in log : us = <<u, v>>
    BY <1>2
  <2> DEFINE m == Worked(client, u)
             g == Heard(client, u, got)
             b == Begun(client, u, base)
             h == Heard(m, v, g)
             a == Begun(m, v, b)
  <2>1. d = Worked(m, v)
    <3>1. Len(us) = 2 /\ us[1] = u /\ us[2] = v
      OBVIOUS
    <3> QED
      BY <3>1, AfterIs
  <2>2. g = (IF Verdict(client, u) = "take" THEN got \cup {u} ELSE got)
        /\ b = (IF Verdict(client, u) = "take" /\ u.box = "pts" /\ client.n.pts = 0
                THEN [base EXCEPT !.pts = u.at - u.count] ELSE base)
    BY DEF Heard, Begun
  <2>3. h = (IF Verdict(m, v) = "take" THEN g \cup {v} ELSE g)
        /\ a = (IF Verdict(m, v) = "take" /\ v.box = "pts" /\ m.n.pts = 0
                THEN [b EXCEPT !.pts = v.at - v.count] ELSE b)
    BY DEF Heard, Begun
  <2>4. m = Worked(client, u)
    OBVIOUS
  <2>5. Verdict(client, u) = "take" /\ u.box = "pts" => m.n.pts > 0
    BY <1>0, <2>4, <2>2, WorkedKeeps
  <2>6. /\ got' = h /\ base' = a
        /\ again' = again \cup Twice(client, u, got) \cup Twice(m, v, g)
    BY <2>5, GivenTwo
  <2> HIDE DEF m, g, b, h, a
  <2>7. /\ m \in Client /\ Behind(m) /\ b \in Position
        /\ Fetching(client) => Fetching(m)
        /\ Follows(client, got, base) => Follows(m, g, b)
        /\ Verdict(client, u) = "take" /\ Follows(client, got, base) /\ u.count > 0 => u \notin got
    BY <1>0, <2>4, <2>2, WorkedKeeps
  <2>8. g \in SUBSET log
    BY <1>0, <2>2
  <2>9. /\ d \in Client /\ Behind(d) /\ a \in Position
        /\ Fetching(m) => Fetching(d)
        /\ Follows(m, g, b) => Follows(d, h, a)
        /\ Verdict(m, v) = "take" /\ Follows(m, g, b) /\ v.count > 0 => v \notin g
    BY <1>0, <2>1, <2>3, <2>7, <2>8, WorkedKeeps
  <2>10. /\ h \subseteq log
         /\ Twice(client, u, got) \subseteq Events /\ Twice(m, v, g) \subseteq Events
    BY <1>0, <2>3, <2>8 DEF Twice
  <2>11. Follows(client, got, base) => Twice(client, u, got) = {} /\ Twice(m, v, g) = {}
    BY <2>7, <2>9 DEF Twice
  <2> QED
    BY <1>0, <2>6, <2>7, <2>9, <2>10, <2>11
<1>3. (\E u \in log : us = <<u>>) \/ (\E u, v \in log : us = <<u, v>>)
  BY DEF Containers
<1> QED
  BY <1>1, <1>2, <1>3

-----------------------------------------------------------------------------
(* The steps of the client                                                 *)

\* A step that leaves the server alone.
LEMMA Settles ==
    ASSUME UInv, UNCHANGED <<made, log, outlived>>,
           client' \in Client, Behind(client'), base' \in Position, got' \subseteq log,
           again' \subseteq Events,
           ~outlived => again' = {} /\ Fetching(client') /\ Follows(client', got', base')
    PROVE  UInv'
<1>1. Typed' /\ Chained'
  BY DEF UInv, Typed, Chained, Apart
<1>2. Behind(client)'
  BY DEF UInv, Behind
<1>3. (~outlived => again = {} /\ Fetching(client) /\ Follows(client, got, base))'
  BY DEF Follows, Fetching
<1> QED
  BY <1>1, <1>2, <1>3 DEF UInv

\* A push of its own.
LEMMA ShortKeeps ==
    ASSUME UInv, NEW u \in log, Short(u)
    PROVE  UInv'
<1>1. <<u>> \in Containers /\ Given(client, <<u>>) /\ client' = After(client, <<u>>, Len(<<u>>))
  <2>1. Len(<<u>>) = 1 /\ <<u>>[1] = u
    OBVIOUS
  <2> QED
    BY <2>1, AfterIs DEF Containers, Short
<1>2. /\ client' \in Client /\ Behind(client') /\ base' \in Position /\ got' \subseteq log
      /\ again' \subseteq Events
      /\ Fetching(client) => Fetching(client')
      /\ Follows(client, got, base) => Follows(client', got', base') /\ again' = again
  BY <1>1, GivenKeeps DEF UInv
<1> QED
  BY <1>2, Settles DEF UInv, Short

\* A container; its number is none of a fetch.
LEMMA ContainerKeeps ==
    ASSUME UInv, NEW us \in Containers, NEW start \in 0..made.seq, NEW seq \in start..made.seq,
           Container(us, start, seq)
    PROVE  UInv'
<1>0. Typed /\ Chained /\ Behind(client) /\ made \in Numbers /\ client \in Client
  BY DEF UInv, Typed
<1>1. CASE client' = Advanced(After(client, us, Len(us)), "seq", seq) /\ Given(client, us)
  <2> DEFINE d == After(client, us, Len(us))
  <2>1. d = After(client, us, Len(us))
    OBVIOUS
  <2> HIDE DEF d
  <2>2. /\ d \in Client /\ Behind(d) /\ base' \in Position /\ got' \subseteq log
        /\ again' \subseteq Events
        /\ Fetching(client) => Fetching(d)
        /\ Follows(client, got, base) => Follows(d, got', base') /\ again' = again
    BY <1>0, <1>1, <2>1, GivenKeeps
  <2>3. seq \in Int /\ seq <= made["seq"] /\ "seq" \in Keys
    BY <1>0 DEF Numbers, Keys
  <2>4. client' = Advanced(d, "seq", seq)
    BY <1>1, <2>1
  <2>5. /\ client' \in Client /\ Behind(client')
        /\ \A k \in Keys : client'.n[k] = IF k = "seq" /\ ~d.locked /\ seq > d.n[k]
                                          THEN seq ELSE d.n[k]
        /\ Fetching(d) => Fetching(client')
    BY <1>0, <2>2, <2>3, <2>4, AdvancedKeeps
  <2>6. client'.n["pts"] = d.n["pts"] /\ client'.n["qts"] = d.n["qts"]
    BY <2>5 DEF Keys
  <2>7. got' \subseteq Events /\ log \subseteq Events
    BY <1>0, <2>2 DEF Typed
  <2>8. Follows(d, got', base') => Follows(client', got', base')
    BY <2>6, <2>7, EventIs DEF Follows
  <2> QED
    BY <2>2, <2>5, <2>8, Settles DEF UInv, Container
<1>2. CASE client' = GetDifference(client) /\ UNCHANGED <<base, got, again>>
  <2>1. /\ client' \in Client /\ client'.n = client.n /\ Behind(client')
        /\ Fetching(client) => Fetching(client')
    BY <1>0, <1>2, GetDifferenceIs
  <2>2. Follows(client, got, base) => Follows(client', got', base')
    BY <1>2, <2>1 DEF Follows
  <2> QED
    BY <1>2, <2>1, <2>2, Settles DEF UInv, Container, Typed
<1> QED
  BY <1>1, <1>2 DEF Container

\* The application or the server asks for the difference.
LEMMA TooLongKeeps ==
    ASSUME UInv, TooLong
    PROVE  UInv'
<1>1. made \in Numbers /\ client \in Client /\ Behind(client)
  BY DEF UInv, Typed
<1>2. /\ client' \in Client /\ client'.n = client.n /\ Behind(client')
      /\ Fetching(client) => Fetching(client')
  BY <1>1, GetDifferenceIs DEF TooLong
<1>3. Follows(client, got, base) => Follows(client', got', base')
  BY <1>2 DEF Follows, TooLong
<1> QED
  BY <1>2, <1>3, Settles DEF UInv, TooLong, Typed
\* get_difference(true): nothing was given to a client without pts.
LEMMA SyncKeeps ==
    ASSUME UInv, SyncFromStart
    PROVE  UInv'
<1> DEFINE c == [client EXCEPT !.n.pts = 1]
           b == [base EXCEPT !.pts = 1]
<1>0. made \in Numbers /\ made.pts >= 1 /\ client \in Client /\ Behind(client) /\ base \in Position
      /\ got \subseteq Events /\ log \subseteq Events /\ ~client.locked /\ client.n.pts = 0
  BY DEF UInv, Typed, SyncFromStart
<1>1. /\ c \in Client /\ c.locked = client.locked /\ c.asked = client.asked
      /\ c.n.pts = 1 /\ c.n["pts"] = 1 /\ c.n["qts"] = client.n["qts"]
      /\ c.n.qts = client.n.qts /\ c.n.seq = client.n.seq
  BY <1>0, UpdaterAssumption DEF Client, Numbers
<1>2. Behind(c)
  BY <1>0, <1>1 DEF Behind, Upto, Numbers
<1>3. Fetching(client) => Fetching(c)
  <2>1. Fetches(c) = Fetches(client)
    BY <1>1 DEF Fetches
  <2> QED
    BY <1>0, <2>1 DEF Fetching
<1>4. b \in Position /\ b["pts"] = 1 /\ b["qts"] = base["qts"]
  BY <1>0 DEF Position
<1>5. client' = GetDifference(c) /\ base' = b
  BY DEF SyncFromStart
<1> HIDE DEF c, b
<1>6. /\ client' \in Client /\ client'.n = c.n /\ Behind(client')
      /\ Fetching(c) => Fetching(client')
  BY <1>0, <1>1, <1>2, <1>5, GetDifferenceIs
<1>7. ASSUME Follows(client, got, base)
      PROVE  Follows(client', got, b)
  <2>1. ASSUME NEW e \in got, e.count > 0
        PROVE  e.at <= client'.n[e.box]
    <3>1. /\ e.at <= client.n[e.box] /\ e.box \in {"pts", "qts"}
          /\ e.at >= 1 /\ e.at \in Nat
      BY <1>0, <1>7, <2>1, EventIs DEF Follows
    <3>2. e.box = "qts"
      BY <1>0, <3>1
    <3> QED
      BY <1>1, <1>6, <3>1, <3>2
  <2>2. ASSUME 0 \notin Counts, NEW e \in log, b[e.box] < e.at, e.at <= client'.n[e.box]
        PROVE  e \in got
    <3>1. e.box \in {"pts", "qts"} /\ e.at \in Nat
      BY <1>0, EventIs
    <3>2. CASE e.box = "pts"
      BY <1>1, <1>4, <1>6, <2>2, <3>1, <3>2
    <3>3. CASE e.box = "qts"
      BY <1>1, <1>4, <1>6, <1>7, <2>2, <3>1, <3>3 DEF Follows
    <3> QED
      BY <3>1, <3>2, <3>3
  <2> QED
    BY <2>1, <2>2 DEF Follows
<1> QED
  BY <1>0, <1>3, <1>4, <1>5, <1>6, <1>7, Settles DEF UInv, SyncFromStart, Typed

\* The timer asks what the server has.
LEMMA LookupKeeps ==
    ASSUME UInv, Lookup
    PROVE  UInv'
<1> DEFINE q == Query(client, "lookup")
<1>0. made \in Numbers /\ client \in Client /\ Behind(client)
  BY DEF UInv, Typed
<1>1. q \in Queries /\ q.kind = "lookup" /\ q.to = None /\ q.from.pts = 0
  BY <1>0, QueryIs
<1>2. client' = [client EXCEPT !.asked = @ \cup {q}]
  BY DEF Lookup
<1> HIDE DEF q
<1>3. /\ client' \in Client /\ client'.n = client.n /\ client'.locked = client.locked
      /\ client'.asked = client.asked \cup {q}
  BY <1>0, <1>1, <1>2 DEF Client
<1>4. Behind(client')
  BY <1>0, <1>1, <1>3 DEF Behind, Numbers
<1>5. Fetches(client') = Fetches(client)
  BY <1>1, <1>3 DEF Fetches
<1>6. Fetching(client) => Fetching(client')
  BY <1>3, <1>5 DEF Fetching
<1>7. Follows(client, got, base) => Follows(client', got', base')
  BY <1>3 DEF Follows, Lookup
<1> QED
  BY <1>3, <1>4, <1>6, <1>7, Settles DEF UInv, Lookup, Typed

-----------------------------------------------------------------------------
(* The answers                                                             *)

\* A query that is answered or has failed is gone.
LEMMA AnsweredIs ==
    ASSUME NEW c \in Client, Behind(c), NEW q \in c.asked, NEW d, d = Answered(c, q)
    PROVE  /\ d \in Client /\ d.n = c.n /\ d.locked = c.locked /\ d.asked = c.asked \ {q}
           /\ Behind(d)
           /\ Fetching(c) => Fetching(d)
<1>1. d \in Client /\ d.n = c.n /\ d.locked = c.locked /\ d.asked = c.asked \ {q}
  BY DEF Answered, Client
<1>2. Behind(d)
  BY <1>1 DEF Behind
<1>3. Fetches(d) \subseteq Fetches(c)
  BY <1>1 DEF Fetches
<1> QED
  BY <1>1, <1>2, <1>3 DEF Fetching

\* The answer to a fetch gives the lock back.
Unlocked(c, q) == [Answered(c, q) EXCEPT !.locked = FALSE]

\* Then there is no fetch.
LEMMA UnlockedIs ==
    ASSUME NEW c \in Client, Behind(c), NEW q \in Fetches(c),
           NEW d, d = Unlocked(c, q)
    PROVE  /\ d \in Client /\ d.n = c.n /\ ~d.locked /\ Behind(d)
           /\ Fetching(c) => Fetching(d)
<1>1. q \in c.asked
  BY DEF Fetches
<1>2. d \in Client /\ d.n = c.n /\ d.locked = FALSE /\ d.asked = c.asked \ {q}
  BY <1>1 DEF Unlocked, Answered, Client
<1>3. Behind(d)
  BY <1>2 DEF Behind
<1>4. ASSUME Fetching(c)
      PROVE  Fetching(d)
  <2>1. Fetches(d) = {}
    BY <1>2, <1>4 DEF Fetches, Fetching
  <2> QED
    BY <2>1 DEF Fetching
<1> QED
  BY <1>2, <1>3, <1>4

\* The counters go on to those of an answer.
LEMMA CaughtIs ==
    ASSUME made \in Numbers, NEW c \in Client, Behind(c), ~c.locked,
           NEW q \in Queries, q.to \in Numbers, Upto(q.to, made), NEW d, d = Caught(c, q)
    PROVE  /\ d \in Client /\ Behind(d)
           /\ Fetching(c) => Fetching(d)
           /\ \A k \in {"pts", "qts"} :
                d.n[k] = IF q.to[k] > c.n[k] THEN q.to[k] ELSE c.n[k]
<1> DEFINE x == Advanced(c, "pts", q.to.pts)
           y == Advanced(x, "qts", q.to.qts)
<1>0. /\ q.to["pts"] \in Int /\ q.to["qts"] \in Int /\ q.to["seq"] \in Int
      /\ q.to["pts"] <= made["pts"] /\ q.to["qts"] <= made["qts"] /\ q.to["seq"] <= made["seq"]
      /\ "pts" \in Keys /\ "qts" \in Keys /\ "seq" \in Keys
  BY DEF Upto, Numbers, Keys
<1>1. x = Advanced(c, "pts", q.to["pts"]) /\ y = Advanced(x, "qts", q.to["qts"])
  OBVIOUS
<1>2. d = y \/ d = Advanced(y, "seq", q.to["seq"])
  BY DEF Caught
<1> HIDE DEF x, y
<1>3. /\ x \in Client /\ Behind(x) /\ x.locked = c.locked
      /\ \A k \in Keys : x.n[k] = IF k = "pts" /\ ~c.locked /\ q.to["pts"] > c.n[k]
                                  THEN q.to["pts"] ELSE c.n[k]
      /\ Fetching(c) => Fetching(x)
  BY <1>0, <1>1, AdvancedKeeps
<1>4. /\ y \in Client /\ Behind(y) /\ y.locked = x.locked
      /\ \A k \in Keys : y.n[k] = IF k = "qts" /\ ~x.locked /\ q.to["qts"] > x.n[k]
                                  THEN q.to["qts"] ELSE x.n[k]
      /\ Fetching(x) => Fetching(y)
  BY <1>0, <1>1, <1>3, AdvancedKeeps
<1>5. CASE d = y
  BY <1>3, <1>4, <1>5 DEF Keys
<1>6. CASE d = Advanced(y, "seq", q.to["seq"])
  <2>1. /\ d \in Client /\ Behind(d)
        /\ \A k \in Keys : d.n[k] = IF k = "seq" /\ ~y.locked /\ q.to["seq"] > y.n[k]
                                    THEN q.to["seq"] ELSE y.n[k]
        /\ Fetching(y) => Fetching(d)
    BY <1>0, <1>4, <1>6, AdvancedKeeps
  <2> QED
    BY <1>3, <1>4, <2>1 DEF Keys
<1> QED
  BY <1>2, <1>5, <1>6
\* The difference: what lies between the counters it was asked for and those it
\* brings was not given yet, for they have not moved.
LEMMA DifferenceKeeps ==
    ASSUME UInv, NEW q \in client.asked, DifferenceAnswered(q)
    PROVE  UInv'
<1> DEFINE c == Unlocked(client, q)
           d == Caught(c, q)
           between == Between(q.from, q.to)
<1>0. /\ made \in Numbers /\ client \in Client /\ Behind(client) /\ base \in Position
      /\ got \subseteq log /\ log \subseteq Events /\ again \subseteq Events
      /\ q \in Queries /\ q.kind = "difference" /\ q.to # None /\ q \in Fetches(client)
  BY DEF UInv, Typed, DifferenceAnswered, Client, Fetches
<1>1. q.to \in Numbers /\ Upto(q.to, made) /\ q.from \in Reached
  BY <1>0 DEF Queries, Behind
<1>2. client' = IF q.final THEN d ELSE GetDifference(d)
  BY DEF DifferenceAnswered, Unlocked
<1>3. got' = got \cup between /\ again' = again \cup (got \cap between)
  BY DEF DifferenceAnswered
<1>4. c = Unlocked(client, q) /\ d = Caught(c, q)
  OBVIOUS
<1>5. /\ between \subseteq log
      /\ \A e \in log : e \in between <=>
           q.from[e.box] < e.at /\ e.at <= q.to[e.box] /\ e.count > 0
  BY DEF Between
<1> HIDE DEF c, d, between
<1>6. /\ c \in Client /\ c.n = client.n /\ ~c.locked /\ Behind(c)
      /\ Fetching(client) => Fetching(c)
  BY <1>0, <1>4, UnlockedIs
<1>7. /\ d \in Client /\ Behind(d)
      /\ Fetching(c) => Fetching(d)
      /\ \A k \in {"pts", "qts"} : d.n[k] = IF q.to[k] > c.n[k] THEN q.to[k] ELSE c.n[k]
  BY <1>0, <1>1, <1>4, <1>6, CaughtIs
<1>8. /\ client' \in Client /\ Behind(client') /\ client'.n = d.n
      /\ Fetching(client) => Fetching(client')
  BY <1>0, <1>2, <1>6, <1>7, GetDifferenceIs
<1>9. \A k \in {"pts", "qts"} :
        /\ client'.n[k] = IF q.to[k] > client.n[k] THEN q.to[k] ELSE client.n[k]
        /\ client.n[k] \in Int /\ q.to[k] \in Int /\ q.from[k] \in Int
  BY <1>0, <1>1, <1>6, <1>7, <1>8 DEF Client, Numbers, Reached
<1>10. ASSUME Fetching(client), Follows(client, got, base)
       PROVE  got \cap between = {} /\ Follows(client', got', base)
  <2>1. \A k \in {"pts", "qts"} : q.from[k] = client.n[k]
    BY <1>0, <1>10 DEF Fetching
  <2>2. \A e \in log : e.box \in {"pts", "qts"} /\ e.at \in Int /\ e.count \in Nat
                       /\ (e.count = 0 => 0 \in Counts)
    BY <1>0, EventIs
  <2>3. ASSUME NEW e \in got, e \in between
        PROVE  FALSE
    <3>1. e.at <= client.n[e.box]
      BY <1>0, <1>5, <1>10, <2>3 DEF Follows
    <3> QED
      BY <1>0, <1>5, <1>9, <2>1, <2>2, <2>3, <3>1
  <2>4. ASSUME NEW e \in got', e.count > 0
        PROVE  e.at <= client'.n[e.box]
    <3>1. CASE e \in got
      <4>1. e.at <= client.n[e.box]
        BY <1>10, <2>4, <3>1 DEF Follows
      <4> QED
        BY <1>0, <1>9, <2>2, <3>1, <4>1
    <3>2. CASE e \in between
      BY <1>5, <1>9, <2>2, <3>2
    <3> QED
      BY <1>3, <2>4, <3>1, <3>2
  <2>5. ASSUME 0 \notin Counts, NEW e \in log, base[e.box] < e.at, e.at <= client'.n[e.box]
        PROVE  e \in got'
    <3>1. CASE e.at <= client.n[e.box]
      BY <1>3, <1>10, <2>5, <3>1 DEF Follows
    <3>2. CASE e.at > client.n[e.box]
      <4>1. e.box \in {"pts", "qts"} /\ e.count > 0
        BY <2>2, <2>5
      <4>2. e.at <= q.to[e.box]
        BY <1>9, <2>2, <2>5, <3>2, <4>1
      <4> QED
        BY <1>3, <1>5, <2>1, <3>2, <4>1, <4>2
    <3> QED
      BY <1>9, <2>2, <3>1, <3>2
  <2> QED
    BY <2>3, <2>4, <2>5 DEF Follows
<1>11. got' \subseteq log /\ again' \subseteq Events
  BY <1>0, <1>3, <1>5
<1> QED
  BY <1>0, <1>3, <1>8, <1>10, <1>11, Settles DEF UInv, DifferenceAnswered

\* The state: the client begins where the answer says.
LEMMA StateKeeps ==
    ASSUME UInv, NEW q \in client.asked, StateAnswered(q)
    PROVE  UInv'
<1> DEFINE c == Unlocked(client, q)
<1>0. /\ made \in Numbers /\ client \in Client /\ Behind(client)
      /\ got \subseteq log /\ log \subseteq Events /\ again \subseteq Events
      /\ q \in Queries /\ q.kind = "state" /\ q.to # None /\ q \in Fetches(client)
  BY DEF UInv, Typed, StateAnswered, Client, Fetches
<1>1. q.to \in Numbers /\ Upto(q.to, made)
  BY <1>0 DEF Queries, Behind
<1>2. c = Unlocked(client, q) /\ client' = Caught(c, q)
  BY DEF StateAnswered, Unlocked
<1>3. /\ base' \in Position /\ base'["pts"] = q.to["pts"] /\ base'["qts"] = q.to["qts"]
  BY <1>1 DEF StateAnswered, Boxes, Position, Numbers
<1> HIDE DEF c
<1>4. /\ c \in Client /\ c.n = client.n /\ ~c.locked /\ Behind(c)
      /\ Fetching(client) => Fetching(c)
  BY <1>0, <1>2, UnlockedIs
<1>5. /\ client' \in Client /\ Behind(client')
      /\ Fetching(c) => Fetching(client')
      /\ \A k \in {"pts", "qts"} :
           client'.n[k] = IF q.to[k] > c.n[k] THEN q.to[k] ELSE c.n[k]
  BY <1>0, <1>1, <1>2, <1>4, CaughtIs
<1>6. ASSUME Fetching(client), Follows(client, got, base)
      PROVE  Follows(client', got, base')
  <2>1. client.n.pts = 0 /\ client.n.qts <= q.to.qts
    BY <1>0, <1>6 DEF Fetching
  <2>2. \A k \in {"pts", "qts"} : client'.n[k] = q.to[k] /\ client.n[k] <= q.to[k]
                                  /\ client.n[k] \in Int /\ q.to[k] \in Int
    BY <1>0, <1>1, <1>4, <1>5, <2>1 DEF Client, Numbers
  <2>3. \A e \in log : e.box \in {"pts", "qts"} /\ e.at \in Int
    BY <1>0, EventIs
  <2>4. ASSUME NEW e \in got, e.count > 0
        PROVE  e.at <= client'.n[e.box]
    <3>1. e.at <= client.n[e.box]
      BY <1>6, <2>4 DEF Follows
    <3> QED
      BY <1>0, <2>2, <2>3, <3>1
  <2>5. ASSUME NEW e \in log, base'[e.box] < e.at, e.at <= client'.n[e.box]
        PROVE  FALSE
    BY <1>3, <2>2, <2>3, <2>5
  <2> QED
    BY <2>4, <2>5 DEF Follows
<1> QED
  BY <1>0, <1>3, <1>4, <1>5, <1>6, Settles DEF UInv, StateAnswered

\* The lookup, or the failure of any query, takes it away.
LEMMA LookupAnsweredKeeps ==
    ASSUME UInv, NEW q \in client.asked, LookupAnswered(q) \/ Fails(q)
    PROVE  UInv'
<1> DEFINE c == Answered(client, q)
<1>0. made \in Numbers /\ client \in Client /\ Behind(client)
  BY DEF UInv, Typed
<1>1. c = Answered(client, q) /\ (client' = c \/ client' = GetDifference(c))
  BY DEF LookupAnswered, Fails
<1> HIDE DEF c
<1>2. /\ c \in Client /\ c.n = client.n /\ Behind(c)
      /\ Fetching(client) => Fetching(c)
  BY <1>0, <1>1, AnsweredIs
<1>3. /\ client' \in Client /\ client'.n = client.n /\ Behind(client')
      /\ Fetching(client) => Fetching(client')
  BY <1>0, <1>1, <1>2, GetDifferenceIs
<1>4. UNCHANGED <<made, log, base, got, again, outlived>>
  BY DEF LookupAnswered, Fails
<1>5. Follows(client, got, base) => Follows(client', got', base')
  BY <1>3, <1>4 DEF Follows
<1> QED
  BY <1>3, <1>4, <1>5, Settles DEF UInv, Typed

\* The server answers a fetch; with part of a difference, or with what it has made.
LEMMA ServeKeeps ==
    ASSUME UInv, NEW q \in client.asked, Serve(q)
    PROVE  UInv'
<1>0. /\ made \in Numbers /\ client \in Client /\ Behind(client) /\ log \subseteq Events /\ Chained
      /\ q \in Queries /\ q \in Fetches(client) /\ q.from.pts <= made.pts
  BY DEF UInv, Typed, Serve, Client, Fetches, Behind
<1>1. PICK n \in Numbers, final \in BOOLEAN :
        /\ client' = [client EXCEPT !.asked = (@ \ {q}) \cup {[q EXCEPT !.to = n, !.final = final]}]
        /\ Upto(n, made) /\ (q.kind = "state" => n = made)
  <2>1. CASE client' = [client EXCEPT !.asked = (@ \ {q}) \cup {[q EXCEPT !.to = made]}]
    <3>1. [q EXCEPT !.to = made] = [q EXCEPT !.to = made, !.final = q.final] /\ q.final \in BOOLEAN
      BY <1>0 DEF Queries
    <3>2. Upto(made, made)
      BY <1>0 DEF Upto, Numbers
    <3> QED
      BY <1>0, <2>1, <3>1, <3>2
  <2>2. CASE /\ q.kind = "difference"
             /\ \E n \in Stops(q.from) :
                  client' = [client EXCEPT !.asked =
                               (@ \ {q}) \cup {[q EXCEPT !.to = n, !.final = FALSE]}]
    <3>1. PICK n \in Stops(q.from) :
            client' = [client EXCEPT !.asked =
                         (@ \ {q}) \cup {[q EXCEPT !.to = n, !.final = FALSE]}]
      BY <2>2
    <3>2. n \in [pts : {q.from.pts} \cup {e.at : e \in {x \in log : x.box = "pts"}},
                 qts : q.from.qts..made.qts, seq : {0}]
      BY DEF Stops
    <3>3. q.from.pts \in 0..MaxPts /\ q.from.qts \in 0..MaxQts
      BY <1>0 DEF Queries, Reached
    <3>4. n.pts \in 0..MaxPts /\ n.pts <= made.pts
      <4>1. CASE n.pts = q.from.pts
        BY <1>0, <3>3, <4>1
      <4>2. CASE \E e \in log : e.box = "pts" /\ n.pts = e.at
        <5> PICK e \in log : e.box = "pts" /\ n.pts = e.at
          BY <4>2
        <5>1. e.at \in Nat /\ e.at <= MaxPts
          BY <1>0, EventIs
        <5>2. e.at <= made.pts
          BY <1>0 DEF Chained
        <5> QED
          BY <5>1, <5>2, UpdaterAssumption
      <4> QED
        BY <3>2, <4>1, <4>2
    <3>5. n.qts \in 0..MaxQts /\ n.qts <= made.qts /\ n.seq = 0 /\ 0 <= made.seq
      BY <1>0, <3>2, <3>3, UpdaterAssumption DEF Numbers
    <3>6. n \in Numbers /\ Upto(n, made)
      <4>1. n = [pts |-> n.pts, qts |-> n.qts, seq |-> n.seq]
        BY <3>2
      <4> QED
        BY <3>4, <3>5, <4>1, UpdaterAssumption DEF Numbers, Upto
    <3> QED
      BY <2>2, <3>1, <3>6
  <2> QED
    BY <2>1, <2>2 DEF Serve
<1> DEFINE r == [q EXCEPT !.to = n, !.final = final]
<1>2. r \in Queries /\ r.kind = q.kind /\ r.from = q.from /\ r.to = n
  BY <1>0 DEF Queries
<1>3. /\ client' \in Client /\ client'.n = client.n /\ client'.locked = client.locked
      /\ client'.asked = (client.asked \ {q}) \cup {r}
  BY <1>0, <1>1, <1>2 DEF Client
<1> HIDE DEF r
<1>4. Behind(client')
  BY <1>0, <1>1, <1>2, <1>3 DEF Behind
<1>5. ASSUME Fetching(client)
      PROVE  Fetching(client')
  <2>1. Fetches(client') = {r}
    BY <1>0, <1>2, <1>3, <1>5 DEF Fetches, Fetching
  <2>2. client.n.qts <= made.qts
    BY <1>0 DEF Behind, Upto
  <2> QED
    BY <1>0, <1>1, <1>2, <1>3, <1>5, <2>1, <2>2 DEF Fetching
<1>6. Follows(client, got, base) => Follows(client', got', base')
  BY <1>3 DEF Follows, Serve
<1> QED
  BY <1>3, <1>4, <1>5, <1>6, Settles DEF UInv, Serve, Typed
-----------------------------------------------------------------------------
(* The server, a logout, and any step                                      *)

\* A new event lies above all others of its box.
LEMMA MakeKeeps ==
    ASSUME UInv, NEW kind \in Boxes, NEW count \in Nat, Make(kind, count),
           kind = "pts" => count \in Counts, kind = "qts" => count = 1
    PROVE  UInv'
<1> DEFINE e == [box |-> kind, at |-> made[kind] + count, count |-> count]
<1>0. /\ made \in Numbers /\ made.pts >= 1 /\ client \in Client /\ Behind(client) /\ Chained
      /\ log \subseteq Events /\ kind \in {"pts", "qts"}
  BY DEF UInv, Typed, Boxes
<1>1. made[kind] \in Nat /\ made[kind] + count <= Limit(kind) /\ made[kind] + count >= 1
  BY <1>0 DEF Make, Numbers
<1>2. e \in Events /\ e.box = kind /\ e.at = made[kind] + count /\ e.count = count
  <2>1. e.at \in Nat /\ e.at >= 1
    BY <1>1
  <2>2. CASE kind = "pts"
    <3>1. made[kind] + count \in 1..MaxPts
      BY <1>1, <2>2, UpdaterAssumption DEF Limit
    <3> QED
      BY <2>2, <3>1 DEF Events
  <2>3. CASE kind = "qts"
    <3>1. made[kind] + count \in 1..MaxQts
      BY <1>1, <2>3, UpdaterAssumption DEF Limit
    <3> QED
      BY <2>3, <3>1 DEF Events
  <2> QED
    BY <1>0, <2>2, <2>3
<1>3. log' = log \cup {e}
  BY DEF Make
<1> HIDE DEF e
<1>4. /\ made' \in Numbers /\ made'[kind] = made[kind] + count
      /\ \A k \in Keys : made[k] \in Nat /\ made'[k] \in Nat /\ made[k] <= made'[k]
  <2>1. made' = [made EXCEPT ![kind] = made[kind] + count]
    BY DEF Make
  <2>2. CASE kind = "pts"
    BY <1>0, <1>1, <2>1, <2>2 DEF Numbers, Keys, Limit
  <2>3. CASE kind = "qts"
    BY <1>0, <1>1, <2>1, <2>3 DEF Numbers, Keys, Limit
  <2> QED
    BY <1>0, <2>2, <2>3
<1>5. Typed'
  <2>1. made'.pts >= 1
    BY <1>0, <1>4 DEF Keys
  <2> QED
    BY <1>2, <1>3, <1>4, <2>1 DEF UInv, Typed, Make
<1>6. Chained'
  <2>1. \A f \in log : /\ f.box \in {"pts", "qts"} /\ f.at \in Nat /\ f.count \in Nat
                       /\ f.at <= made[f.box]
    BY <1>0, EventIs DEF Chained
  <2>2. ASSUME NEW f \in log'
        PROVE  f.at <= made'[f.box]
    <3>1. CASE f = e
      BY <1>2, <1>4, <3>1, <1>1
    <3>2. CASE f \in log
      <4>1. f.box \in Keys /\ f.at \in Nat /\ f.at <= made[f.box]
        BY <2>1, <3>2 DEF Keys
      <4> QED
        BY <1>4, <4>1
    <3> QED
      BY <1>3, <3>1, <3>2
  <2>3. \A f \in log : Apart(e, f) /\ Apart(f, e)
    BY <1>1, <1>2, <2>1 DEF Apart
  <2>4. Apart(e, e)
    BY DEF Apart
  <2>5. \A f, g \in log' : Apart(f, g)
    BY <1>0, <1>3, <2>3, <2>4 DEF Chained
  <2> QED
    BY <2>2, <2>5 DEF Chained, Apart
<1>7. Behind(client)'
  <2>1. client' = client
    BY DEF Make
  <2>2. \A k \in Keys : client.n[k] \in Nat /\ client.n[k] <= made[k]
    BY <1>0 DEF Behind, Upto, Client, Numbers, Keys
  <2>3. Upto(client.n, made')
    BY <1>4, <2>2 DEF Upto, Keys
  <2>4. ASSUME NEW q \in client.asked
        PROVE  q.from.pts <= made'.pts /\ (q.to # None => Upto(q.to, made'))
    <3>1. q \in Queries /\ q.from.pts <= made.pts /\ (q.to # None => Upto(q.to, made))
      BY <1>0, <2>4 DEF Behind, Client
    <3>2. /\ q.from.pts \in Int
          /\ q.to # None => q.to.pts \in Int /\ q.to.qts \in Int /\ q.to.seq \in Int
      BY <3>1 DEF Queries, Reached, Numbers
    <3> QED
      BY <1>4, <3>1, <3>2 DEF Upto, Keys
  <2> QED
    BY <2>1, <2>3, <2>4 DEF Behind, Upto
<1>8. Follows(client, got, base) => Follows(client, got, base)'
  <2>1. client.n[kind] \in Int /\ client.n[kind] <= made[kind]
    BY <1>0 DEF Behind, Upto, Client, Numbers
  <2>2. 0 \notin Counts => ~(e.at <= client.n[e.box])
    BY <1>1, <1>2, <2>1, <1>0
  <2> QED
    BY <1>3, <2>2 DEF Follows, Make
<1>9. UNCHANGED <<client, again, outlived>>
  BY DEF Make
<1>10. Fetching(client) => Fetching(client)'
  BY <1>9 DEF Fetching, Fetches
<1> QED
  BY <1>5, <1>6, <1>7, <1>8, <1>9, <1>10 DEF UInv

\* The server numbers a container.
LEMMA NumberKeeps ==
    ASSUME UInv, Number
    PROVE  UInv'
<1>0. made \in Numbers /\ client \in Client /\ Behind(client) /\ Chained /\ log \subseteq Events
  BY DEF UInv, Typed
<1>1. /\ made' \in Numbers /\ made'.pts = made.pts /\ made'["pts"] = made["pts"]
      /\ made'.qts = made.qts /\ made'["qts"] = made["qts"] /\ made'.seq = made.seq + 1
  BY <1>0, UpdaterAssumption DEF Number, Numbers
<1>2. Typed'
  BY <1>1 DEF UInv, Typed, Number
<1>3. Chained'
  <2>1. \A e \in log : e.box \in {"pts", "qts"}
    BY <1>0, EventIs
  <2> QED
    BY <1>0, <1>1, <2>1 DEF Chained, Apart, Number
<1>4. Behind(client)'
  <2>1. client.n.seq \in Int /\ made.seq \in Int
    BY <1>0 DEF Client, Numbers
  <2>2. Upto(client.n, made')
    BY <1>0, <1>1, <2>1 DEF Behind, Upto
  <2>3. ASSUME NEW q \in client.asked, q.to # None
        PROVE  Upto(q.to, made')
    <3>1. q.to.seq \in Int /\ Upto(q.to, made)
      BY <1>0, <2>3 DEF Behind, Client, Queries, Numbers
    <3> QED
      BY <1>1, <2>1, <3>1 DEF Upto
  <2> QED
    BY <1>0, <1>1, <2>2, <2>3 DEF Behind, Upto, Number
<1>5. UNCHANGED <<log, client, base, got, again, outlived>>
  BY DEF Number
<1>6. (~outlived => again = {} /\ Fetching(client) /\ Follows(client, got, base))'
  BY <1>5 DEF UInv, Follows, Fetching, Fetches
<1> QED
  BY <1>2, <1>3, <1>4, <1>6 DEF UInv

\* A logout, and the login after it: a fetch either was none, or has outlived it.
LEMMA LogoutKeeps ==
    ASSUME UInv, Logout
    PROVE  UInv'
<1> DEFINE Older(q) == [q EXCEPT !.old = TRUE, !.to = None, !.final = TRUE]
<1>0. /\ made \in Numbers /\ made.pts >= 1 /\ client \in Client /\ Behind(client) /\ Chained
      /\ log \subseteq Events /\ got \subseteq log /\ base \in Position /\ outlived \in BOOLEAN
  BY DEF UInv, Typed
<1>1. /\ made' \in Numbers /\ made'.pts = made.pts /\ made'["pts"] = made["pts"]
      /\ made'.qts = 0 /\ made'.seq = made.seq
  BY <1>0, UpdaterAssumption DEF Logout, Numbers
<1>2. \A q \in client.asked :
        /\ Older(q) \in Queries /\ Older(q).kind = q.kind
        /\ Older(q).from = q.from /\ Older(q).to = None
  BY <1>0 DEF Client, Queries
<1>3. /\ client'.n \in Numbers /\ client'.n.pts = client.n.pts /\ client'.n["pts"] = client.n["pts"]
      /\ client'.n.qts = 0 /\ client'.n.seq = client.n.seq
      /\ client'.asked = {Older(q) : q \in client.asked} /\ client' \in Client
  <2>1. client' = [client EXCEPT !.locked = FALSE, !.n.qts = 0,
                                 !.asked = {Older(q) : q \in client.asked}]
    BY DEF Logout
  <2>2. {Older(q) : q \in client.asked} \subseteq Queries
    BY <1>2
  <2> DEFINE olders == {Older(q) : q \in client.asked}
             n == [client.n EXCEPT !.qts = 0]
  <2>3. client' = [client EXCEPT !.locked = FALSE, !.n = n, !.asked = olders]
    BY <1>0, <2>1 DEF Client, Numbers
  <2>4. /\ n \in Numbers /\ n.pts = client.n.pts /\ n["pts"] = client.n["pts"]
        /\ n.qts = 0 /\ n.seq = client.n.seq
    BY <1>0, UpdaterAssumption DEF Client, Numbers
  <2> HIDE DEF olders, n
  <2>5. client' \in Client /\ client'.n = n /\ client'.asked = olders
    BY <1>0, <2>2, <2>3, <2>4 DEF Client, olders
  <2> QED
    BY <2>4, <2>5 DEF olders
<1> HIDE DEF Older
<1>4. /\ log' = {e \in log : e.box = "pts"} /\ got' = {e \in got : e.box = "pts"}
      /\ base' \in Position /\ base'["pts"] = base["pts"] /\ again' = again
      /\ outlived' = (outlived \/ Fetches(client) # {})
  BY <1>0 DEF Logout, Position
<1>5. Typed'
  BY <1>0, <1>1, <1>3, <1>4 DEF UInv, Typed
<1>6. Chained'
  BY <1>0, <1>1, <1>4 DEF Chained, Apart
<1>7. Behind(client)'
  BY <1>0, <1>1, <1>2, <1>3 DEF Behind, Upto
<1>8. ASSUME ~outlived'
      PROVE  again' = {} /\ Fetching(client') /\ Follows(client, got, base)'
  <2>1. ~outlived /\ Fetches(client) = {}
    BY <1>0, <1>4, <1>8
  <2>2. Fetches(client') = {}
    BY <1>2, <1>3, <2>1 DEF Fetches
  <2>3. Follows(client, got, base)
    BY <2>1 DEF UInv
  <2>4. Follows(client, got, base)'
    BY <1>3, <1>4, <2>3 DEF Follows
  <2> QED
    BY <1>4, <2>1, <2>2, <2>4 DEF UInv, Fetching
<1> QED
  BY <1>5, <1>6, <1>7, <1>8 DEF UInv, Fetching, Fetches

\* Where the updates begin.
LEMMA UInit ==
    ASSUME Init
    PROVE  UInv
<1>1. PICK pts \in {0, 1} :
        /\ client = [n |-> [pts |-> pts, qts |-> 0, seq |-> 0], locked |-> FALSE, asked |-> {}]
        /\ base = [pts |-> pts, qts |-> 0]
  BY DEF Init
<1>2. /\ made = [pts |-> 1, qts |-> 0, seq |-> 1]
      /\ log = {} /\ got = {} /\ again = {} /\ outlived = FALSE
  BY DEF Init
<1>3. made \in Numbers /\ client.n \in Numbers
  BY <1>1, <1>2, UpdaterAssumption DEF Numbers
<1>4. Typed
  <2>1. client \in Client
    BY <1>1, <1>3 DEF Client
  <2>2. base \in Position
    BY <1>1 DEF Position
  <2>3. made.pts >= 1
    BY <1>2
  <2>4. log \subseteq Events /\ got \subseteq log /\ again \subseteq Events
    BY <1>2
  <2>5. outlived \in BOOLEAN
    BY <1>2, Zenon
  <2> QED
    BY <1>3, <2>1, <2>2, <2>3, <2>4, <2>5 DEF Typed
<1>5. Chained /\ Behind(client) /\ Fetching(client) /\ Follows(client, got, base)
  BY <1>1, <1>2 DEF Chained, Behind, Upto, Fetching, Fetches, Follows
<1> QED
  BY <1>2, <1>4, <1>5 DEF UInv

\* What stays as it is.
LEMMA UStays ==
    ASSUME UInv, UNCHANGED updates
    PROVE  UInv'
BY DEF UInv, updates, Typed, Chained, Apart, Behind, Upto, Fetching, Fetches, Follows

\* Any step of the updates.
LEMMA UStep ==
    ASSUME UInv, Next
    PROVE  UInv'
<1>1. CASE Push
  BY <1>1, ShortKeeps, ContainerKeeps, TooLongKeeps DEF Push
<1>2. CASE SyncFromStart
  BY <1>2, SyncKeeps
<1>3. CASE Lookup
  BY <1>3, LookupKeeps
<1>4. CASE Logout
  BY <1>4, LogoutKeeps
<1>5. CASE Server
  <2>1. CASE Number
    BY <2>1, NumberKeeps
  <2>2. CASE Make("qts", 1)
    BY <2>2, MakeKeeps DEF Boxes
  <2>3. CASE \E count \in Counts : Make("pts", count)
    BY <2>3, MakeKeeps, UpdaterAssumption DEF Boxes
  <2> QED
    BY <1>5, <2>1, <2>2, <2>3 DEF Server
<1>6. ASSUME NEW q \in client.asked, Answer(q) \/ Abort(q) \/ Fails(q)
      PROVE  UInv'
  <2>1. CASE Abort(q)
    BY <2>1, UStays DEF Abort, updates, UInv, Typed, Chained, Apart, Behind, Upto, Fetching,
                       Fetches, Follows
  <2> QED
    BY <1>6, <2>1, DifferenceKeeps, StateKeeps, LookupAnsweredKeeps, ServeKeeps DEF Answer
<1> QED
  BY <1>1, <1>2, <1>3, <1>4, <1>5, <1>6 DEF Next

-----------------------------------------------------------------------------
(* The updates: theorems                                                   *)

\* The invariant, in every behaviour of the application.
LEMMA AlwaysUInv == SpecApplication => []UInv
<1>1. InitApplication => UInv
  BY UInit DEF InitApplication
<1>2. UInv /\ [Updates \/ Calling \/ LogIn \/ Paging]_all => UInv'
  BY UStep, UStays DEF Updates, Calling, LogIn, Paging, all
<1> QED
  BY <1>1, <1>2, PTL DEF SpecApplication

\* At most one fetch is under way and it holds the lock; no event is given twice
\* to the application, although a difference is worked without a check and pushes
\* come before, within and after it; no counter is ahead of the server.
THEOREM EventsOnce == SpecApplication => []EachOnce
<1>1. UInv => EachOnce
  <2>1. UInv => TypeOK
    BY DEF UInv, Typed, TypeOK, Client, Behind, Upto
  <2>2. ASSUME UInv
        PROVE  OneFetch
    <3>1. ASSUME ~outlived
          PROVE  Cardinality(Fetches(client)) <= 1
      <4>1. CASE Fetches(client) = {}
        <5>1. Cardinality({}) = 0
          BY FS_EmptySet
        <5>2. Cardinality(Fetches(client)) = Cardinality({})
          BY <4>1
        <5> QED
          BY <5>1, <5>2
      <4>2. CASE \E q : Fetches(client) = {q}
        <5>1. Cardinality(Fetches(client)) = 1
          BY <4>2, FS_Singleton
        <5> QED
          BY <5>1
      <4>3. Fetches(client) = {} \/ \E q : Fetches(client) = {q}
        BY <2>2, <3>1 DEF UInv, Fetching
      <4> QED
        BY <4>1, <4>2, <4>3
    <3> QED
      BY <2>2, <3>1 DEF UInv, OneFetch, Fetching
  <2>3. UInv => NoneTwice
    BY DEF UInv, NoneTwice
  <2> QED
    BY <2>1, <2>2, <2>3 DEF EachOnce
<1> QED
  BY <1>1, AlwaysUInv, PTL

\* Every event that the client's counters have passed was given to the
\* application, if each event takes a number: with one that takes none
\* a counter may jump over events that were lost (UpdatesZero.cfg).
THEOREM NoneSkipped ==
    ASSUME 0 \notin Counts
    PROVE  SpecApplication => []NoneLost
<1>1. UInv => NoneLost
  BY DEF UInv, NoneLost, Follows
<1> QED
  BY <1>1, AlwaysUInv, PTL
-----------------------------------------------------------------------------
(* Logging in and out                                                      *)

\* The client of the login flows.
Owner == [loggedIn : BOOLEAN, phoneLock : BOOLEAN, passwordLock : BOOLEAN,
          unregistering : Int, waiting : Int, logging : BOOLEAN, dead : BOOLEAN]

\* Its parts keep their types.
LEMMA OwnerKeeps ==
    ASSUME owner \in Owner, L!Next
    PROVE  owner' \in Owner
<1>1. ASSUME NEW c \in Owner
      PROVE  L!LoggedIn(c) \in Owner /\ L!DoLogout(c) \in Owner
  <2>1. L!LoggedIn(c) \in Owner
    BY DEF L!LoggedIn, Owner
  <2>2. [c EXCEPT !.dead = TRUE] \in Owner /\ [c EXCEPT !.logging = TRUE] \in Owner
    BY DEF Owner
  <2>3. [c EXCEPT !.waiting = @ + 1] \in Owner
    BY DEF Owner
  <2> QED
    BY <2>1, <2>2, <2>3 DEF L!DoLogout
<1>2. ASSUME NEW f \in Flow, L!Login(f) \/ L!Steps(f)
      PROVE  owner' \in Owner
  <2>1. CASE L!SignInPhone(f)
    BY <2>1 DEF L!SignInPhone, Owner
  <2>2. CASE L!CodeSent(f) \/ L!SignInCode(f)
    BY <2>2 DEF L!CodeSent, L!SignInCode, Owner
  <2>3. CASE L!Login(f) \/ L!RegisterMe(f) \/ L!SignUpCode(f) \/ L!PasswordGot(f) \/ L!SelfAsked(f)
    BY <2>3 DEF L!Login, L!RegisterMe, L!SignUpCode, L!PasswordGot, L!SelfAsked
  <2>4. CASE L!SignedIn(f)
    BY <1>1, <2>4 DEF L!SignedIn
  <2>5. CASE L!PasswordNeeded(f) \/ L!PasswordAsked(f)
    BY <2>5 DEF L!PasswordNeeded, L!PasswordAsked, Owner
  <2>6. CASE L!Checked(f)
    <3>1. [owner EXCEPT !.passwordLock = FALSE] \in Owner
      BY DEF Owner
    <3> QED
      BY <1>1, <2>6, <3>1 DEF L!Checked
  <2> QED
    BY <1>2, <2>1, <2>2, <2>3, <2>4, <2>5, <2>6 DEF L!Steps
<1>3. CASE L!Logout
  <2>1. [owner EXCEPT !.unregistering = @ + 1] \in Owner
    BY DEF Owner
  <2> QED
    BY <1>1, <1>3, <2>1 DEF L!Logout
<1>4. CASE L!Unregistered
  <2>1. [owner EXCEPT !.unregistering = @ - 1] \in Owner
    BY DEF Owner
  <2> QED
    BY <1>1, <1>4, <2>1 DEF L!Unregistered
<1>5. CASE L!LoggedOut
  BY <1>5 DEF L!LoggedOut, Owner
<1>6. ASSUME NEW waiting \in Int, NEW logging \in BOOLEAN
      PROVE  [owner EXCEPT !.waiting = waiting, !.logging = logging] \in Owner
  <2> DEFINE c == [owner EXCEPT !.waiting = waiting]
  <2>1. [owner EXCEPT !.waiting = waiting, !.logging = logging] = [c EXCEPT !.logging = logging]
    OBVIOUS
  <2>2. c \in Owner
    BY DEF Owner
  <2> HIDE DEF c
  <2>3. [c EXCEPT !.logging = logging] \in Owner
    BY <2>2 DEF Owner
  <2> QED
    BY <2>1, <2>3
<1>7. CASE L!Configured
  <2>1. [owner EXCEPT !.dead = TRUE] \in Owner
    BY DEF Owner
  <2>2. [owner EXCEPT !.waiting = 0, !.logging = TRUE] \in Owner
    <3>1. 0 \in Int /\ TRUE \in BOOLEAN
      OBVIOUS
    <3> QED
      BY <1>6, <3>1, Zenon
  <2> QED
    BY <1>7, <2>1, <2>2 DEF L!Configured
<1>8. CASE L!GivenUp
  <2>1. owner.waiting - 1 \in Int
    BY DEF Owner
  <2> QED
    BY <1>6, <1>8, <2>1 DEF L!GivenUp
<1> QED
  BY <1>2, <1>3, <1>4, <1>5, <1>7, <1>8 DEF L!Next

\* What a step tells is so when it is told.
LEMMA ToldTrue ==
    ASSUME owner \in Owner, L!Next, told'.count # told.count
    PROVE  /\ told'.said = "logged_in" => owner'.loggedIn
           /\ told'.said = "logged_out" => ~owner'.loggedIn
<1>1. ASSUME NEW f \in Flow, L!Login(f) \/ L!Steps(f)
      PROVE  told'.said # "logged_out" /\ (told'.said = "logged_in" => owner'.loggedIn)
  <2>1. CASE L!Login(f) \/ L!RegisterMe(f) \/ L!SelfAsked(f)
    BY <2>1 DEF L!Login, L!RegisterMe, L!SelfAsked, L!Says
  <2>2. CASE L!CodeSent(f)
    BY <2>2 DEF L!CodeSent, L!Says
  <2>3. CASE L!SignedIn(f)
    BY <2>3 DEF L!SignedIn, L!Says, L!LoggedIn, Owner
  <2>4. CASE \/ L!SignInPhone(f) \/ L!SignInCode(f) \/ L!SignUpCode(f) \/ L!PasswordNeeded(f)
             \/ L!PasswordAsked(f) \/ L!PasswordGot(f) \/ L!Checked(f)
    BY <2>4 DEF L!SignInPhone, L!SignInCode, L!SignUpCode, L!PasswordNeeded, L!PasswordAsked,
                L!PasswordGot, L!Checked
  <2> QED
    BY <1>1, <2>1, <2>2, <2>3, <2>4 DEF L!Steps
<1>2. CASE L!Logout
  BY <1>2 DEF L!Logout, L!Says
<1>3. CASE L!LoggedOut
  <2>1. CASE told'.said = "logged_out"
    <3>1. owner' = [owner EXCEPT !.logging = FALSE, !.loggedIn = FALSE,
                                 !.phoneLock = FALSE, !.passwordLock = FALSE]
      BY <1>3, <2>1 DEF L!LoggedOut, L!Says
    <3>2. owner'.loggedIn = FALSE
      BY <3>1 DEF Owner
    <3> QED
      BY <2>1, <3>2
  <2>2. CASE told'.said = "not_logged_out"
    BY <2>2
  <2> QED
    BY <1>3, <2>1, <2>2 DEF L!LoggedOut, L!Says
<1>4. CASE L!GivenUp
  BY <1>4 DEF L!GivenUp, L!Says
<1>5. CASE L!Unregistered \/ L!Configured
  BY <1>5 DEF L!Unregistered, L!Configured
<1> QED
  BY <1>1, <1>2, <1>3, <1>4, <1>5 DEF L!Next

\* However many logins and logouts cross, the application is told "logged_in" of
\* a client that is logged in and "logged_out" of one that is not.
THEOREM TruthIsTold == SpecApplication => TruthTold
<1>1. InitApplication => owner \in Owner
  BY DEF InitApplication, L!Init, Owner
<1>2. owner \in Owner /\ [Updates \/ Calling \/ LogIn \/ Paging]_all => (owner \in Owner)'
  BY OwnerKeeps DEF Updates, Calling, LogIn, Paging, all, login
<1>3. owner \in Owner /\ [Updates \/ Calling \/ LogIn \/ Paging]_all
        => [told'.count # told.count =>
              /\ told'.said = "logged_in" => owner'.loggedIn
              /\ told'.said = "logged_out" => ~owner'.loggedIn]_(L!loginVars)
  BY ToldTrue DEF Updates, Calling, LogIn, Paging, all, login, L!loginVars
<1> QED
  BY <1>1, <1>2, <1>3, PTL DEF SpecApplication, TruthTold, L!TruthTold

-----------------------------------------------------------------------------
(* Lists fetched in pages                                                  *)

\* The state that the pages share, and an answer.
Paged == [kind : {"dialogs", "channels", "search", "participants"}, limit : Int, asked : Int,
          offset : Nat, max : Nat, got : Seq(Nat), pages : {0, 1, 2},
          at : {"asked", "told", "refused"}]

OnePage == [items : Seq(Nat), slice : BOOLEAN, count : Int]

\* The list at the server has the newest first.
Descending(s) == \A i, j \in 1..Len(s) : s[i] >= 1 /\ (i < j => s[i] > s[j])

\* s begins t, and s ends t.
Begins(s, t) == Len(s) <= Len(t) /\ \A i \in 1..Len(s) : s[i] = t[i]

Ends(s, t) ==
    Len(s) <= Len(t) /\ \A i \in 1..Len(s) : s[i] = t[i + (Len(t) - Len(s))]

\* How much of the list is wanted in the state c.
Goal(c) == IF c.asked >= 0 /\ c.asked < Len(first) THEN c.asked ELSE Len(first)

\* The lists of which something is promised: nothing is taken away from them,
\* nothing is added in front of what is counted, and there is one page of channels.
Promised(c) ==
    /\ gone = 0
    /\ c.kind = "participants" => added = 0
    /\ c.kind = "channels" => c.pages <= 1

\* A page that is asked for in the state c comes from the list s: the server holds
\* the list of the first page, behind what was added to it since.
Stands(s) == Ends(first, s) /\ Len(s) - Len(first) <= added

\* What is still to be asked for in the state c, for each kind of list.
Rest(c) == IF c.kind \in {"dialogs", "channels"} THEN c.limit - Len(c.got) ELSE c.limit

\* Before the first page nothing is known; after it, the items taken begin the
\* list and say where the next page starts.
Asking(c) ==
    /\ c.pages = 0 => c.got = <<>> /\ c.offset = 0 /\ c.max = 0 /\ c.limit = c.asked
    /\ c.pages > 0 =>
          /\ c.got # <<>> /\ Begins(c.got, first)
          /\ c.kind \in {"dialogs", "search"} => c.max = c.got[Len(c.got)]
    /\ c.kind # "search" => c.limit = c.asked
    /\ c.kind # "participants" => c.asked >= 0
    /\ c.asked >= 0 => Len(c.got) <= c.asked
    /\ c.kind = "participants" => c.offset = Len(c.got)
    /\ c.kind = "search" =>
          /\ c.offset = 0 /\ c.limit >= 0 /\ c.limit <= c.asked - Len(c.got)
          /\ c.pages > 0 =>
                c.limit = c.asked - Len(c.got) \/ Len(c.got) + c.limit >= Len(first)

\* The answer p goes on after what the state c has; it is empty when nothing is left,
\* and its count is that of a list with the first one in it.
Goes(c, p) ==
    /\ Len(p.items) <= Len(first) - Len(c.got)
    /\ \A i \in 1..Len(p.items) : p.items[i] = first[i + Len(c.got)]
    /\ p.items = <<>> => Len(c.got) = Len(first) \/ Rest(c) = 0
    /\ Rest(c) >= 0 => Len(p.items) <= Rest(c)
    /\ p.count >= Len(first) /\ (c.pages = 0 => p.count = Len(first))
    /\ p.slice <=> Len(p.items) < p.count

\* What was told: the beginning of the list, as much as was wanted.
Complete(c) == Begins(c.got, first) /\ Len(c.got) = Goal(c)

\* No more participants are taken than are wanted.
Bounded(c) == c.kind = "participants" /\ c.limit > 0 => Len(c.got) <= c.limit

PagesTyped ==
    /\ list \in Seq(Nat) /\ first \in Seq(Nat)
    /\ st \in Paged /\ page \in OnePage
    /\ added \in Nat /\ gone \in Nat

PInv ==
    /\ PagesTyped
    /\ gone = 0 => Descending(list)
    /\ Bounded(st)
    /\ page # P!Nothing => st.at = "asked"
    /\ st.at = "told" => st.pages > 0
    /\ Promised(st) =>
          /\ st.pages > 0 \/ page # P!Nothing => Stands(list)
          /\ st.at = "asked" => Asking(st)
          /\ page # P!Nothing /\ ~(st.kind = "channels" /\ st.pages > 0) => Goes(st, page)
          /\ st.at = "told" => Complete(st)

\* What a part of a list is.
LEMMA SomeIs ==
    ASSUME NEW s \in Seq(Nat), NEW k \in Nat, NEW n \in Nat
    PROVE  /\ P!Some(s, k, n) \in Seq(Nat)
           /\ k <= Len(s) => /\ Len(P!Some(s, k, n)) = IF k + n > Len(s) THEN Len(s) - k ELSE n
                             /\ \A i \in 1..Len(P!Some(s, k, n)) : P!Some(s, k, n)[i] = s[i + k]
<1> DEFINE m == IF k + n > Len(s) THEN Len(s) ELSE k + n
           t == SubSeq(s, k + 1, m)
<1>1. P!Some(s, k, n) = t
  BY DEF P!Some
<1>2. m \in Nat /\ m <= Len(s)
  OBVIOUS
<1>3. CASE k <= Len(s)
  <2>1. k + 1 \in 1..(Len(s) + 1) /\ m \in k..Len(s) /\ m - k = IF k + n > Len(s) THEN Len(s) - k ELSE n
    BY <1>3
  <2> HIDE DEF m
  <2>2. t \in Seq(Nat) /\ Len(t) = m - k
    BY <1>3, <1>2, <2>1
  <2>3. \A i \in 1..Len(t) : t[i] = s[i + k]
    BY <1>3, <1>2, <2>1, <2>2
  <2> QED
    BY <1>1, <2>1, <2>2, <2>3
<1>4. CASE ~(k <= Len(s))
  <2>1. m < k + 1
    BY <1>4
  <2> HIDE DEF m
  <2>2. t = <<>>
    BY <1>2, <2>1
  <2>3. <<>> \in Seq(Nat)
    OBVIOUS
  <2> HIDE DEF t
  <2>4. P!Some(s, k, n) \in Seq(Nat)
    BY <1>1, <2>2, <2>3
  <2> QED
    BY <1>4, <2>4
<1> QED
  BY <1>3, <1>4

\* How many items come before those that are older than m.
LEMMA NotOlderIs ==
    ASSUME NEW s \in Seq(Nat)
    PROVE  /\ P!NotOlder(s, 0) = 0
           /\ \A m \in Nat : P!NotOlder(s, m) \in Nat
           /\ \A k \in 1..Len(s) : Descending(s) => P!NotOlder(s, s[k]) = k
<1> DEFINE At(m) == {i \in 1..Len(s) : m # 0 /\ s[i] >= m}
<1>0. ASSUME NEW m \in Nat
      PROVE  P!NotOlder(s, m) = Cardinality(At(m))
  BY DEF P!NotOlder, P!Cardinality, P!IsFiniteSet, Cardinality, IsFiniteSet
<1>1. P!NotOlder(s, 0) = 0
  BY <1>0, FS_EmptySet
<1>2. ASSUME NEW m \in Nat
      PROVE  P!NotOlder(s, m) \in Nat
  <2>1. IsFiniteSet(1..Len(s)) /\ At(m) \subseteq 1..Len(s)
    BY FS_Interval
  <2>2. IsFiniteSet(At(m))
    BY <2>1, FS_Subset
  <2> QED
    BY <1>0, <2>2, FS_CardinalityType
<1>3. ASSUME NEW k \in 1..Len(s), Descending(s)
      PROVE  P!NotOlder(s, s[k]) = k
  <2>1. At(s[k]) = 1..k
    BY <1>3 DEF Descending
  <2>2. Cardinality(1..k) = k
    BY FS_Interval
  <2>3. s[k] \in Nat
    OBVIOUS
  <2> HIDE DEF At
  <2>4. P!NotOlder(s, s[k]) = Cardinality(At(s[k]))
    BY <1>0, <2>3
  <2> QED
    BY <2>1, <2>2, <2>4
<1> QED
  BY <1>1, <1>2, <1>3

\* How much the server gives.
LEMMA GivenIs ==
    ASSUME NEW m \in Int
    PROVE  /\ P!Given(m) \in Nat
           /\ m >= 0 => P!Given(m) <= m
           /\ P!Given(m) = 0 => m = 0
BY PagesAssumption DEF P!Given

\* Items that go on where t ends make a longer beginning.
LEMMA GoesOn ==
    ASSUME NEW t \in Seq(Nat), NEW items \in Seq(Nat), NEW s \in Seq(Nat),
           Begins(t, s), Len(items) <= Len(s) - Len(t),
           \A i \in 1..Len(items) : items[i] = s[i + Len(t)]
    PROVE  /\ t \o items \in Seq(Nat) /\ Len(t \o items) = Len(t) + Len(items)
           /\ Begins(t \o items, s)
           /\ items # <<>> \/ t # <<>> => t \o items # <<>>
           /\ items = <<>> => t \o items = t
<1>1. t \o items \in Seq(Nat) /\ Len(t \o items) = Len(t) + Len(items)
  OBVIOUS
<1>2. ASSUME NEW i \in 1..Len(t \o items)
      PROVE  (t \o items)[i] = s[i]
  <2>1. CASE i <= Len(t)
    BY <1>1, <2>1 DEF Begins
  <2>2. CASE i > Len(t)
    <3>1. i - Len(t) \in 1..Len(items) /\ (i - Len(t)) + Len(t) = i
      BY <1>1, <2>2
    <3>2. (t \o items)[i] = items[i - Len(t)]
      BY <1>1, <2>2
    <3> QED
      BY <3>1, <3>2
  <2> QED
    BY <2>1, <2>2
<1>3. Begins(t \o items, s)
  BY <1>1, <1>2 DEF Begins
<1>4. items # <<>> => Len(items) > 0
  OBVIOUS
<1>5. t # <<>> => Len(t) > 0
  OBVIOUS
<1>6. items # <<>> \/ t # <<>> => t \o items # <<>>
  BY <1>1, <1>4, <1>5
<1>7. items = <<>> => t \o items = t
  OBVIOUS
<1> QED
  BY <1>1, <1>3, <1>6, <1>7

\* Where the list goes on for the state c.
Where(c) ==
    CASE c.kind = "dialogs" -> P!NotOlder(list, c.max)
      [] c.kind = "search"  -> P!NotOlder(list, c.max) + c.offset
      [] OTHER              -> c.offset

\* What the server answers.
LEMMA PageIs ==
    ASSUME PagesTyped
    PROVE  /\ P!PageFor(st) \in OnePage /\ P!PageFor(st) # P!Nothing
           /\ P!PageFor(st).count = Len(list)
           /\ P!PageFor(st).slice <=> Len(P!PageFor(st).items) < Len(list)
           /\ Where(st) \in Nat
           /\ P!PageFor(st).items = P!Some(list, Where(st), P!Given(Rest(st)))
<1> DEFINE items == P!Some(list, Where(st), P!Given(Rest(st)))
<1>1. /\ st.kind \in {"dialogs", "channels", "search", "participants"}
      /\ st.offset \in Nat /\ st.max \in Nat /\ st.limit \in Int /\ st.got \in Seq(Nat)
      /\ list \in Seq(Nat)
  BY DEF PagesTyped, Paged
<1>2. P!NotOlder(list, st.max) \in Nat
  BY <1>1, NotOlderIs
<1>3. Where(st) \in Nat
  BY <1>1, <1>2 DEF Where
<1>4. Rest(st) \in Int
  BY <1>1 DEF Rest
<1>5. items \in Seq(Nat)
  BY <1>1, <1>3, <1>4, SomeIs, GivenIs
<1>6. P!PageFor(st) = [items |-> items, slice |-> Len(items) < Len(list), count |-> Len(list)]
  <2>1. CASE st.kind = "dialogs"
    BY <2>1 DEF P!PageFor, P!AskedDialogs, Where, Rest
  <2>2. CASE st.kind = "channels"
    BY <2>2 DEF P!PageFor, P!AskedDialogs, Where, Rest
  <2>3. CASE st.kind = "search"
    BY <2>3 DEF P!PageFor, P!AskedMessages, Where, Rest
  <2>4. CASE st.kind = "participants"
    BY <2>4 DEF P!PageFor, P!AskedParticipants, Where, Rest
  <2> QED
    BY <1>1, <2>1, <2>2, <2>3, <2>4
<1> HIDE DEF items
<1>7. Len(list) \in Nat
  BY <1>1
<1>8. P!PageFor(st) \in OnePage
  BY <1>5, <1>6, <1>7 DEF OnePage
<1>9. P!PageFor(st).count = Len(list) /\ P!Nothing.count = -1
  BY <1>6 DEF P!Nothing
<1>10. P!PageFor(st) # P!Nothing
  BY <1>7, <1>9
<1>11. P!PageFor(st).items = items /\ P!PageFor(st).slice = (Len(items) < Len(list))
  BY <1>6
<1> QED
  BY <1>3, <1>8, <1>9, <1>10, <1>11 DEF items

\* Where the list goes on when something is promised: behind the items taken.
LEMMA WhereIs ==
    ASSUME PagesTyped, Descending(list), Promised(st), Asking(st),
           ~(st.kind = "channels" /\ st.pages > 0),
           NEW f \in Seq(Nat), Ends(f, list), Len(list) - Len(f) <= added,
           st.pages > 0 => f = first,
           st.pages = 0 => f = list
    PROVE  Where(st) = Len(list) - Len(f) + Len(st.got) /\ Len(st.got) <= Len(f)
<1>1. /\ st.kind \in {"dialogs", "channels", "search", "participants"}
      /\ st.got \in Seq(Nat) /\ st.pages \in {0, 1, 2} /\ list \in Seq(Nat)
  BY DEF PagesTyped, Paged
<1>2. CASE st.pages = 0
  <2>1. st.got = <<>> /\ st.offset = 0 /\ st.max = 0 /\ f = list
    BY <1>2 DEF Asking
  <2>2. Len(st.got) = 0
    BY <2>1
  <2>3. P!NotOlder(list, 0) = 0
    BY <1>1, NotOlderIs
  <2>4. Where(st) = 0
    BY <1>1, <2>1, <2>3 DEF Where
  <2> QED
    BY <1>1, <2>1, <2>2, <2>4
<1>3. CASE st.pages > 0
  <2>1. f = first /\ st.got # <<>> /\ Begins(st.got, f)
    BY <1>3 DEF Asking
  <2>2. Len(st.got) \in 1..Len(f) /\ Len(f) <= Len(list)
    BY <1>1, <2>1 DEF Begins, Ends
  <2> DEFINE k == Len(st.got) + (Len(list) - Len(f))
  <2>3. k \in 1..Len(list)
    BY <1>1, <2>2
  <2>4. CASE st.kind \in {"dialogs", "search"}
    <3>1. st.max = st.got[Len(st.got)] /\ (st.kind = "search" => st.offset = 0)
      BY <1>3, <2>4 DEF Asking
    <3>2. st.got[Len(st.got)] = f[Len(st.got)]
      BY <2>1, <2>2 DEF Begins
    <3>3. f[Len(st.got)] = list[k]
      BY <2>2 DEF Ends
    <3>4. P!NotOlder(list, list[k]) = k
      BY <1>1, <2>3, NotOlderIs
    <3>5. Where(st) = k
      <4>1. k + 0 = k
        BY <2>3
      <4> HIDE DEF k
      <4> QED
        BY <2>4, <3>1, <3>2, <3>3, <3>4, <4>1 DEF Where
    <3> QED
      BY <1>1, <2>2, <3>5
  <2>5. CASE st.kind = "participants"
    <3>1. added = 0 /\ st.offset = Len(st.got)
      BY <2>5 DEF Promised, Asking
    <3>2. Len(list) = Len(f)
      BY <1>1, <2>2, <3>1
    <3>3. Where(st) = Len(st.got)
      BY <2>5, <3>1 DEF Where
    <3> QED
      BY <2>2, <3>2, <3>3
  <2> QED
    BY <1>1, <1>3, <2>4, <2>5
<1> QED
  BY <1>1, <1>2, <1>3

LEMMA PageServed ==
    ASSUME PInv, P!Serve
    PROVE  PInv'
<1>1. /\ st.at = "asked" /\ page = P!Nothing /\ page' = P!PageFor(st)
      /\ first' = (IF st.pages = 0 THEN list ELSE first)
      /\ UNCHANGED <<list, st, added, gone>>
  BY DEF P!Serve
<1>2. PagesTyped /\ st \in Paged /\ list \in Seq(Nat) /\ first \in Seq(Nat)
      /\ st.pages \in {0, 1, 2} /\ st.got \in Seq(Nat) /\ added \in Nat
  BY DEF PInv, PagesTyped, Paged
<1>3. page' \in OnePage /\ page' # P!Nothing
      /\ page'.count = Len(list) /\ (page'.slice <=> Len(page'.items) < Len(list))
      /\ Where(st) \in Nat
      /\ page'.items = P!Some(list, Where(st), P!Given(Rest(st)))
  BY <1>1, <1>2, PageIs
<1>4. PagesTyped'
  BY <1>1, <1>2, <1>3 DEF PagesTyped
<1>5. ASSUME Promised(st)
      PROVE  /\ Stands(list)'
             /\ Asking(st)'
             /\ ~(st.kind = "channels" /\ st.pages > 0) => Goes(st, page)'
  <2> DEFINE f == first'
             k == Len(list) - Len(f) + Len(st.got)
  <2>1. f \in Seq(Nat) /\ (st.pages > 0 => f = first) /\ (st.pages = 0 => f = list)
    BY <1>1, <1>2
  <2>2. Ends(f, list) /\ Len(list) - Len(f) <= added
    <3>1. CASE st.pages = 0
      <4>1. Ends(list, list)
        BY <1>2 DEF Ends
      <4> QED
        BY <1>2, <2>1, <3>1, <4>1
    <3>2. CASE st.pages > 0
      BY <1>5, <2>1, <3>2 DEF PInv, Stands
    <3> QED
      BY <1>2, <3>1, <3>2
  <2>3. Stands(list)'
    BY <1>1, <2>2 DEF Stands
  <2>4. Asking(st)
    BY <1>1, <1>5 DEF PInv
  <2>5. Asking(st)'
    <3>1. CASE st.pages = 0
      BY <1>1, <2>4, <3>1 DEF Asking
    <3>2. CASE st.pages > 0
      <4>1. first' = first
        BY <2>1, <3>2
      <4> QED
        BY <1>1, <2>4, <4>1 DEF Asking
    <3> QED
      BY <1>2, <3>1, <3>2
  <2>6. ASSUME ~(st.kind = "channels" /\ st.pages > 0)
        PROVE  Goes(st, page)'
    <3>1. Descending(list)
      BY <1>5 DEF PInv, Promised
    <3>2. Where(st) = k /\ Len(st.got) <= Len(f)
      <4> HIDE DEF f
      <4> QED
        BY <1>2, <1>5, <2>1, <2>2, <2>4, <2>6, <3>1, WhereIs
    <3>3. Rest(st) \in Int
      BY <1>2 DEF Rest, Paged
    <3> DEFINE n == P!Given(Rest(st))
               items == page'.items
    <3>4. n \in Nat /\ (Rest(st) >= 0 => n <= Rest(st)) /\ (n = 0 => Rest(st) = 0)
      BY <3>3, GivenIs
    <3>5. k \in Nat /\ k <= Len(list) /\ Len(f) <= Len(list) /\ Len(list) - k = Len(f) - Len(st.got)
      <4>1. Len(f) <= Len(list)
        BY <2>2 DEF Ends
      <4> HIDE DEF f
      <4> QED
        BY <1>2, <2>1, <3>2, <4>1
    <3>6. items = P!Some(list, k, n)
      BY <1>3, <3>2
    <3> HIDE DEF f, k, n, items
    <3>7. /\ items \in Seq(Nat)
          /\ Len(items) = IF k + n > Len(list) THEN Len(list) - k ELSE n
          /\ \A i \in 1..Len(items) : items[i] = list[i + k]
      BY <1>2, <3>4, <3>5, <3>6, SomeIs
    <3>8. Len(items) <= Len(f) - Len(st.got) /\ Len(items) <= n
      <4>1. Len(list) - k = Len(f) - Len(st.got) /\ Len(list) \in Nat
        BY <1>2, <3>5
      <4>2. n \in Nat /\ k \in Nat
        BY <3>4, <3>5
      <4>3. CASE k + n > Len(list)
        <5>1. Len(items) = Len(list) - k
          BY <3>7, <4>3
        <5> QED
          BY <4>1, <4>2, <4>3, <5>1
      <4>4. CASE ~(k + n > Len(list))
        <5>1. Len(items) = n
          BY <3>7, <4>4
        <5> QED
          BY <4>1, <4>2, <4>4, <5>1
      <4> QED
        BY <4>3, <4>4
    <3>9. items = <<>> => Len(st.got) = Len(f) \/ Rest(st) = 0
      <4>1. items = <<>> => Len(items) = 0
        OBVIOUS
      <4> QED
        BY <1>2, <2>1, <3>4, <3>5, <3>7, <4>1
    <3>10. ASSUME NEW i \in 1..Len(items)
           PROVE  items[i] = f[i + Len(st.got)]
      <4>1. i + Len(st.got) \in 1..Len(f)
        <5>1. Len(items) \in Nat /\ Len(f) \in Nat /\ Len(st.got) \in Nat
          BY <1>2, <2>1, <3>7
        <5> QED
          BY <3>8, <5>1
      <4>2. f[i + Len(st.got)] = list[(i + Len(st.got)) + (Len(list) - Len(f))]
        BY <2>2, <4>1 DEF Ends
      <4>3. i + k = (i + Len(st.got)) + (Len(list) - Len(f))
        BY <1>2, <2>1, <3>7 DEF k
      <4> QED
        BY <3>7, <4>2, <4>3
    <3>11. Rest(st) >= 0 => Len(items) <= Rest(st)
      BY <3>3, <3>4, <3>7, <3>8
    <3>12. page'.count >= Len(f) /\ (st.pages = 0 => page'.count = Len(f))
           /\ (page'.slice <=> Len(items) < page'.count)
      BY <1>2, <1>3, <2>1, <3>5 DEF items
    <3>13. st' = st /\ f = first' /\ items = page'.items /\ Rest(st)' = Rest(st)
      BY <1>1 DEF f, items, Rest
    <3> QED
      BY <3>8, <3>9, <3>10, <3>11, <3>12, <3>13 DEF Goes
  <2> QED
    BY <2>3, <2>5, <2>6
<1>6. Promised(st)' <=> Promised(st)
  BY <1>1 DEF Promised
<1>7. (st.at = "asked")' /\ (gone = 0 => Descending(list))' /\ Bounded(st)'
  BY <1>1 DEF PInv, Bounded
<1> QED
  BY <1>1, <1>4, <1>5, <1>6, <1>7 DEF PInv

LEMMA PageRefused ==
    ASSUME PInv, P!Refused
    PROVE  PInv'
<1>1. /\ st.at = "asked" /\ page = P!Nothing
      /\ st' = [st EXCEPT !.at = "refused", !.got = <<>>]
      /\ UNCHANGED <<list, first, page, added, gone>>
  BY DEF P!Refused
<1>2. st \in Paged
  BY DEF PInv, PagesTyped
<1>3. <<>> \in Seq(Nat) /\ Len(<<>>) = 0
  OBVIOUS
<1>4. /\ st' \in Paged /\ st'.at = "refused" /\ st'.got = <<>>
      /\ st'.kind = st.kind /\ st'.pages = st.pages /\ st'.limit = st.limit
  BY <1>1, <1>2, <1>3 DEF Paged
<1>5. PagesTyped'
  BY <1>1, <1>4 DEF PInv, PagesTyped
<1>6. Bounded(st)'
  <2>1. st.limit \in Int
    BY <1>2 DEF Paged
  <2> QED
    BY <1>3, <1>4, <2>1 DEF Bounded
<1>7. Promised(st)' <=> Promised(st)
  BY <1>1, <1>4 DEF Promised
<1>8. Stands(list)' <=> Stands(list)
  BY <1>1 DEF Stands
<1> QED
  BY <1>1, <1>4, <1>5, <1>6, <1>7, <1>8 DEF PInv

\* An item in front of the others.
LEMMA InFront ==
    ASSUME NEW s \in Seq(Nat), Descending(s), NEW x \in Nat \ {0},
           s # <<>> => x > s[1]
    PROVE  /\ <<x>> \o s \in Seq(Nat) /\ Len(<<x>> \o s) = Len(s) + 1
           /\ Descending(<<x>> \o s)
           /\ \A f \in Seq(Nat) : Ends(f, s) => Ends(f, <<x>> \o s)
<1> DEFINE t == <<x>> \o s
<1>1. <<x>> \in Seq(Nat) /\ Len(<<x>>) = 1
  OBVIOUS
<1>2. t \in Seq(Nat) /\ Len(t) = Len(s) + 1
  BY <1>1
<1>3. t[1] = x /\ \A i \in 2..Len(t) : t[i] = s[i - 1]
  BY <1>1, <1>2
<1> HIDE DEF t
<1>4. \A i \in 2..Len(t) : i - 1 \in 1..Len(s)
  BY <1>2
<1>5. ASSUME NEW i \in 1..Len(s)
      PROVE  x > s[i] /\ s[i] >= 1
  <2>1. s # <<>> /\ 1 \in 1..Len(s)
    OBVIOUS
  <2>2. s[i] \in Nat /\ s[1] \in Nat
    BY <2>1
  <2>3. i = 1 \/ s[1] > s[i]
    BY <2>1 DEF Descending
  <2> QED
    BY <2>1, <2>2, <2>3 DEF Descending
<1>6. ASSUME NEW i \in 1..Len(t), NEW j \in 1..Len(t)
      PROVE  t[i] >= 1 /\ (i < j => t[i] > t[j])
  <2>1. CASE i = 1
    <3>1. i < j => j \in 2..Len(t)
      BY <1>2, <2>1
    <3> QED
      BY <1>3, <1>4, <1>5, <2>1, <3>1
  <2>2. CASE i # 1
    <3>1. i \in 2..Len(t) /\ (i < j => j \in 2..Len(t) /\ i - 1 < j - 1)
      BY <1>2, <2>2
    <3> QED
      BY <1>3, <1>4, <3>1 DEF Descending
  <2> QED
    BY <2>1, <2>2
<1>7. ASSUME NEW f \in Seq(Nat), Ends(f, s)
      PROVE  Ends(f, t)
  <2>1. Len(f) <= Len(t)
    BY <1>2, <1>7 DEF Ends
  <2>2. ASSUME NEW i \in 1..Len(f)
        PROVE  f[i] = t[i + (Len(t) - Len(f))]
    <3> DEFINE j == i + (Len(t) - Len(f))
    <3>1. j \in 2..Len(t) /\ j - 1 = i + (Len(s) - Len(f))
      BY <1>2, <1>7 DEF Ends
    <3>2. f[i] = s[i + (Len(s) - Len(f))]
      BY <1>7 DEF Ends
    <3> HIDE DEF j
    <3>3. t[j] = s[j - 1]
      BY <1>3, <3>1
    <3> QED
      BY <3>1, <3>2, <3>3 DEF j
  <2> QED
    BY <2>1, <2>2 DEF Ends
<1> QED
  BY <1>2, <1>6, <1>7 DEF t, Descending

LEMMA ListChanged ==
    ASSUME PInv, P!Change
    PROVE  PInv'
<1>1. st.at = "asked" /\ UNCHANGED <<first, st, page>>
  BY DEF P!Change
<1>2. list \in Seq(Nat) /\ first \in Seq(Nat) /\ added \in Nat /\ gone \in Nat
  BY DEF PInv, PagesTyped
<1>3. Bounded(st)' /\ (page # P!Nothing => st.at = "asked")' /\ (st.at = "told" => st.pages > 0)'
  BY <1>1 DEF PInv, Bounded
<1>4. CASE /\ added' = added + 1 /\ UNCHANGED gone
           /\ list' = <<(IF list = <<>> THEN 0 ELSE list[1]) + 10>> \o list
  <2> DEFINE x == (IF list = <<>> THEN 0 ELSE list[1]) + 10
  <2>1. list # <<>> => list[1] \in Nat
    BY <1>2
  <2>2. x \in Nat \ {0} /\ (list # <<>> => x > list[1])
    BY <2>1
  <2>3. list' = <<x>> \o list
    BY <1>4
  <2> HIDE DEF x
  <2>4. list' \in Seq(Nat)
    <3>1. <<x>> \in Seq(Nat)
      BY <2>2
    <3> QED
      BY <1>2, <2>3, <3>1
  <2>5. PagesTyped'
    BY <1>1, <1>2, <1>4, <2>4 DEF PInv, PagesTyped
  <2>6. gone = 0 => Descending(list)' /\ Len(list') = Len(list) + 1
                    /\ (Ends(first, list) => Ends(first, list'))
    BY <1>2, <2>2, <2>3, InFront DEF PInv
  <2>7. Promised(st)' => Promised(st) /\ gone = 0
    BY <1>1, <1>2, <1>4 DEF Promised
  <2>8. ASSUME Promised(st), Stands(list)
        PROVE  Stands(list)'
    BY <1>1, <1>2, <1>4, <2>6, <2>8 DEF Stands, Promised
  <2>9. Promised(st) => Asking(st)' /\ (Goes(st, page) => Goes(st, page)')
    BY <1>1 DEF PInv, Asking, Goes, Rest
  <2> QED
    BY <1>1, <1>3, <1>4, <2>5, <2>6, <2>7, <2>8, <2>9 DEF PInv
<1>5. CASE gone' = gone + 1 /\ UNCHANGED added /\ \E i \in DOMAIN list : list' = P!RemoveAt(list, i)
  <2>1. list' \in Seq(Nat)
    <3>1. PICK i \in 1..Len(list) : list' = P!RemoveAt(list, i)
      BY <1>2, <1>5
    <3>2. SubSeq(list, 1, i - 1) \in Seq(Nat) /\ SubSeq(list, i + 1, Len(list)) \in Seq(Nat)
      BY <1>2
    <3>3. list' = SubSeq(list, 1, i - 1) \o SubSeq(list, i + 1, Len(list))
      BY <3>1 DEF P!RemoveAt
    <3> QED
      BY <3>2, <3>3
  <2>2. gone' # 0
    BY <1>2, <1>5
  <2>3. PagesTyped'
    BY <1>1, <1>2, <1>5, <2>1 DEF PInv, PagesTyped
  <2> QED
    BY <1>3, <2>2, <2>3 DEF PInv, Promised
<1> QED
  BY <1>4, <1>5 DEF P!Change

LEMMA Joined ==
    \A s, t \in Seq(Nat) : /\ s \o t \in Seq(Nat) /\ Len(s \o t) = Len(s) + Len(t)
                          /\ Len(s) \in Nat /\ Len(t) \in Nat /\ Len(s \o t) \in Nat
OBVIOUS

\* What the state d is that an answer leaves.
Taken(d) ==
    /\ d \in Paged /\ d.kind = st.kind
    /\ d.pages > 0 /\ (d.pages = 1 => st.pages = 0)
    /\ d.at \in {"asked", "told"} /\ Bounded(d)
    /\ Promised(d) => /\ d.at = "asked" => Asking(d)
                      /\ d.at = "told" => Complete(d)

\* What is known when an answer is taken.
LEMMA WhenTaken ==
    ASSUME PInv, page # P!Nothing,
           NEW d, d.kind = st.kind, d.pages > 0, d.pages = 1 => st.pages = 0,
           d.pages \in {0, 1, 2}, Promised(d)
    PROVE  /\ Promised(st) /\ ~(st.kind = "channels" /\ st.pages > 0)
           /\ Asking(st) /\ Goes(st, page)
           /\ Begins(st.got, first)
           /\ st.got \o page.items \in Seq(Nat)
           /\ Len(st.got \o page.items) = Len(st.got) + Len(page.items)
           /\ Begins(st.got \o page.items, first)
           /\ page.items # <<>> \/ st.got # <<>> => st.got \o page.items # <<>>
<1>1. st \in Paged /\ page \in OnePage /\ first \in Seq(Nat) /\ st.at = "asked"
  BY DEF PInv, PagesTyped
<1>2. /\ st.got \in Seq(Nat) /\ page.items \in Seq(Nat) /\ st.pages \in {0, 1, 2}
      /\ st.kind \in {"dialogs", "channels", "search", "participants"}
  BY <1>1 DEF Paged, OnePage
<1>3. Promised(st) /\ ~(st.kind = "channels" /\ st.pages > 0)
  BY <1>2 DEF Promised
<1>4. Asking(st) /\ Goes(st, page)
  BY <1>1, <1>3 DEF PInv
<1>5. Begins(st.got, first)
  <2>1. CASE st.pages = 0
    <3>1. st.got = <<>>
      BY <1>4, <2>1 DEF Asking
    <3>2. Len(st.got) = 0 /\ Len(first) >= 0
      BY <1>1, <3>1
    <3> QED
      BY <3>2 DEF Begins
  <2>2. CASE st.pages > 0
    BY <1>4, <2>2 DEF Asking
  <2> QED
    BY <1>2, <2>1, <2>2
<1>6. Len(page.items) <= Len(first) - Len(st.got)
      /\ \A i \in 1..Len(page.items) : page.items[i] = first[i + Len(st.got)]
  BY <1>4 DEF Goes
<1> QED
  BY <1>1, <1>2, <1>3, <1>4, <1>5, <1>6, GoesOn

LEMMA DialogsTaken ==
    ASSUME PInv, page # P!Nothing, st.kind \in {"dialogs", "channels"}
    PROVE  Taken(P!Dialogs(st, page))
<1> DEFINE both == st.got \o page.items
           n == Len(page.items)
           on == /\ page.items # <<>> /\ Len(both) < st.limit
                 /\ page.slice /\ Len(both) < page.count
           d == P!Dialogs(st, page)
           m == [st EXCEPT !.got = both, !.pages = P!More(@)]
<1> HIDE DEF d, m, on, both, n
<1>1. st \in Paged /\ page \in OnePage /\ first \in Seq(Nat) /\ st.at = "asked"
  BY DEF PInv, PagesTyped
<1>2. /\ st.got \in Seq(Nat) /\ page.items \in Seq(Nat) /\ st.pages \in {0, 1, 2}
      /\ st.limit \in Int /\ st.asked \in Int /\ page.count \in Int /\ page.slice \in BOOLEAN
  BY <1>1 DEF Paged, OnePage
<1>3. both \in Seq(Nat) /\ Len(both) = Len(st.got) + n
      /\ n \in Nat /\ Len(st.got) \in Nat /\ Len(first) \in Nat /\ Len(both) \in Nat
  BY <1>1, <1>2, Joined DEF both, n
<1>4. page.items # <<>> => both # <<>>
  <2>1. page.items # <<>> => n > 0
    BY <1>2 DEF n
  <2>2. both = <<>> => Len(both) = 0
    OBVIOUS
  <2> QED
    BY <1>3, <2>1, <2>2
<1>5. d = IF on THEN [m EXCEPT !.max = IF st.kind = "dialogs" THEN both[Len(both)] ELSE 0]
          ELSE [m EXCEPT !.at = "told"]
  BY <1>1 DEF P!Dialogs, P!Ended, P!Last, Paged, d, m, on, both
<1>6. P!More(st.pages) \in {1, 2} /\ (P!More(st.pages) = 1 => st.pages = 0)
  BY <1>2 DEF P!More
<1>7. m \in Paged
  BY <1>1, <1>3, <1>6 DEF Paged, m
<1>8. /\ m.kind = st.kind /\ m.limit = st.limit /\ m.asked = st.asked /\ m.offset = st.offset
      /\ m.max = st.max /\ m.got = both /\ m.pages = P!More(st.pages) /\ m.at = "asked"
  BY <1>1 DEF Paged, m
<1>9. CASE on
  <2> DEFINE z == IF st.kind = "dialogs" THEN both[Len(both)] ELSE 0
  <2>1. z \in Nat
    <3>1. Len(both) \in 1..Len(both)
      <4>1. both # <<>>
        BY <1>4, <1>9 DEF on
      <4> QED
        BY <1>3, <4>1
    <3>2. both[Len(both)] \in Nat
      BY <1>3, <3>1
    <3> QED
      BY <3>2
  <2>2. d = [m EXCEPT !.max = z]
    BY <1>5, <1>9
  <2> HIDE DEF z
  <2>3. /\ d \in Paged /\ d.kind = st.kind /\ d.limit = st.limit /\ d.asked = st.asked
        /\ d.max = z /\ d.got = both /\ d.pages = P!More(st.pages) /\ d.at = "asked"
    BY <1>7, <1>8, <2>1, <2>2 DEF Paged
  <2>4. ASSUME Promised(d)
        PROVE  Asking(d)
    <3>1. Asking(st) /\ Begins(both, first)
      BY <1>6, <2>3, <2>4, WhenTaken DEF both
    <3>2. st.limit = st.asked /\ st.asked >= 0
      BY <3>1 DEF Asking
    <3>3. Len(both) <= st.asked
      BY <1>2, <1>3, <1>9, <3>2 DEF on
    <3>4. both # <<>>
      BY <1>4, <1>9 DEF on
    <3> QED
      BY <1>6, <2>3, <3>1, <3>2, <3>3, <3>4 DEF Asking, z
  <2>5. Bounded(d)
    BY <2>3 DEF Bounded
  <2> QED
    BY <1>6, <2>3, <2>4, <2>5 DEF Taken, d
<1>10. CASE ~on
  <2>1. d = [m EXCEPT !.at = "told"]
    BY <1>5, <1>10
  <2>2. /\ d \in Paged /\ d.kind = st.kind /\ d.limit = st.limit /\ d.asked = st.asked
        /\ d.got = both /\ d.pages = P!More(st.pages) /\ d.at = "told"
    BY <1>7, <1>8, <2>1 DEF Paged
  <2>3. ASSUME Promised(d)
        PROVE  Complete(d)
    <3>1. Asking(st) /\ Goes(st, page) /\ Begins(both, first)
      BY <1>6, <2>2, <2>3, WhenTaken DEF both
    <3>2. st.limit = st.asked /\ st.asked >= 0 /\ Len(st.got) <= st.asked
      BY <3>1 DEF Asking
    <3>3. /\ n <= Len(first) - Len(st.got)
          /\ page.items = <<>> => Len(st.got) = Len(first) \/ st.limit - Len(st.got) = 0
          /\ st.limit - Len(st.got) >= 0 => n <= st.limit - Len(st.got)
          /\ page.count >= Len(first) /\ (page.slice <=> n < page.count)
      BY <3>1 DEF Goes, Rest, n
    <3>4. page.items = <<>> => n = 0
      BY DEF n
    <3>6. page.items = <<>> \/ Len(both) >= st.limit \/ n >= page.count \/ Len(both) >= page.count
      BY <1>2, <1>10, <1>3, <3>3 DEF on
    <3>7. Len(both) = IF st.asked >= 0 /\ st.asked < Len(first) THEN st.asked ELSE Len(first)
      <4> DEFINE l == Len(both)
                 k == Len(st.got)
                 a == st.asked
                 f == Len(first)
      <4>1. /\ l \in Nat /\ k \in Nat /\ f \in Nat /\ n \in Nat /\ a \in Int
            /\ l = k + n /\ a >= 0 /\ n <= f - k /\ (a - k >= 0 => n <= a - k) /\ k <= a
        BY <1>2, <1>3, <3>2, <3>3
      <4>2. l >= f \/ l >= a \/ (n = 0 /\ (k = f \/ a - k = 0))
        <5>1. CASE page.items = <<>>
          BY <3>2, <3>3, <3>4, <5>1
        <5>2. CASE l >= st.limit
          BY <3>2, <5>2
        <5>3. CASE n >= page.count \/ l >= page.count
          BY <1>2, <3>3, <4>1, <5>3
        <5> QED
          BY <3>6, <5>1, <5>2, <5>3
      <4> HIDE DEF l, k, a, f
      <4>3. l = IF a >= 0 /\ a < f THEN a ELSE f
        BY <4>1, <4>2
      <4> QED
        BY <4>3 DEF l, a, f
    <3> QED
      BY <2>2, <3>1, <3>7 DEF Complete, Goal
  <2>4. Bounded(d)
    BY <2>2 DEF Bounded
  <2> QED
    BY <1>6, <2>2, <2>3, <2>4 DEF Taken, d
<1> QED
  BY <1>9, <1>10

LEMMA SearchTaken ==
    ASSUME PInv, page # P!Nothing, st.kind = "search"
    PROVE  Taken(P!Searched(st, page))
<1> DEFINE both == st.got \o page.items
           n == Len(page.items)
           have == st.offset + n
           left == IF st.limit - n + have >= page.count
                   THEN IF page.count > have THEN page.count - have ELSE 0
                   ELSE st.limit - n
           m == [st EXCEPT !.got = both, !.pages = P!More(@), !.limit = left]
           z == IF both = <<>> THEN 0 ELSE both[Len(both)]
           d == P!Searched(st, page)
<1> HIDE DEF d, m, z, left, have, both, n
<1>1. st \in Paged /\ page \in OnePage /\ first \in Seq(Nat) /\ st.at = "asked"
  BY DEF PInv, PagesTyped
<1>2. /\ st.got \in Seq(Nat) /\ page.items \in Seq(Nat) /\ st.pages \in {0, 1, 2}
      /\ st.limit \in Int /\ st.asked \in Int /\ page.count \in Int /\ page.slice \in BOOLEAN
      /\ st.offset \in Nat
  BY <1>1 DEF Paged, OnePage
<1>3. both \in Seq(Nat) /\ Len(both) = Len(st.got) + n
      /\ n \in Nat /\ Len(st.got) \in Nat /\ Len(first) \in Nat /\ Len(both) \in Nat
  BY <1>1, <1>2, Joined DEF both, n
<1>4. left \in Int
  BY <1>2, <1>3 DEF left, have
<1>5. d = IF left <= 0 \/ ~page.slice THEN [m EXCEPT !.at = "told"]
          ELSE [m EXCEPT !.offset = 0, !.max = z]
  BY <1>1 DEF P!Searched, P!Ended, P!Last, Paged, d, m, z, left, have, both, n
<1>6. P!More(st.pages) \in {1, 2} /\ (P!More(st.pages) = 1 => st.pages = 0)
  BY <1>2 DEF P!More
<1>7. m \in Paged
  BY <1>1, <1>3, <1>4, <1>6 DEF Paged, m
<1>8. /\ m.kind = st.kind /\ m.limit = left /\ m.asked = st.asked /\ m.offset = st.offset
      /\ m.max = st.max /\ m.got = both /\ m.pages = P!More(st.pages) /\ m.at = "asked"
  BY <1>1 DEF Paged, m
\* What is left to ask for, when something is promised.
<1>9. ASSUME Promised([kind |-> st.kind, pages |-> P!More(st.pages)])
      PROVE  /\ Begins(both, first) /\ (page.items # <<>> \/ st.got # <<>> => both # <<>>)
             /\ page.items = <<>> => n = 0
             /\ left >= 0 /\ left <= st.asked - Len(both)
             /\ left = st.asked - Len(both) \/ Len(both) + left >= Len(first)
             /\ st.asked >= 0 /\ Len(both) <= st.asked
             /\ n <= Len(first) - Len(st.got) /\ page.count >= Len(first)
             /\ (page.slice <=> n < page.count)
             /\ left > 0 /\ page.slice => both # <<>>
  <2> DEFINE c == [kind |-> st.kind, pages |-> P!More(st.pages)]
  <2>1. c.kind = st.kind /\ c.pages = P!More(st.pages)
    OBVIOUS
  <2> HIDE DEF c
  <2>2. Promised(c)
    BY <1>9 DEF c
  <2>3. /\ Asking(st) /\ Goes(st, page) /\ Begins(both, first)
        /\ (page.items # <<>> \/ st.got # <<>> => both # <<>>)
    BY <1>6, <2>1, <2>2, WhenTaken DEF both
  <2>4. /\ st.pages = 0 => st.got = <<>> /\ st.limit = st.asked
        /\ st.pages > 0 => st.got # <<>>
        /\ st.asked >= 0 /\ st.offset = 0 /\ st.limit >= 0
        /\ st.limit <= st.asked - Len(st.got)
        /\ st.pages > 0 => st.limit = st.asked - Len(st.got) \/ Len(st.got) + st.limit >= Len(first)
    BY <2>3 DEF Asking
  <2>5. /\ n <= Len(first) - Len(st.got)
        /\ page.items = <<>> => Len(st.got) = Len(first) \/ st.limit = 0
        /\ st.limit >= 0 => n <= st.limit
        /\ page.count >= Len(first) /\ (st.pages = 0 => page.count = Len(first))
        /\ (page.slice <=> n < page.count)
    BY <2>3 DEF Goes, Rest, n
  <2>6. page.items = <<>> => n = 0
    BY DEF n
  <2>7. st.limit = st.asked - Len(st.got) \/ Len(st.got) + st.limit >= Len(first)
    <3>1. CASE st.pages = 0
      <4>1. Len(st.got) = 0
        BY <2>4, <3>1
      <4> QED
        BY <1>2, <2>4, <3>1, <4>1
    <3>2. CASE st.pages > 0
      BY <2>4, <3>2
    <3> QED
      BY <1>2, <3>1, <3>2
  <2> DEFINE l == st.limit
             k == Len(st.got)
             a == st.asked
             f == Len(first)
             c2 == page.count
  <2>8. /\ l \in Nat /\ k \in Nat /\ f \in Nat /\ n \in Nat /\ a \in Nat /\ c2 \in Nat
        /\ l <= a - k /\ n <= f - k /\ n <= l /\ c2 >= f /\ (l = a - k \/ k + l >= f)
    BY <1>2, <1>3, <2>4, <2>5, <2>7
  <2>9. left = IF l >= c2 THEN IF c2 > n THEN c2 - n ELSE 0 ELSE l - n
    <3>1. have = n /\ st.limit - n + have = st.limit
      BY <1>2, <1>3, <2>4 DEF have
    <3> QED
      BY <3>1 DEF left
  <2>10. Len(both) = k + n
    BY <1>3
  <2> HIDE DEF l, k, a, f, c2
  <2>11. /\ left >= 0 /\ left <= a - (k + n)
         /\ left = a - (k + n) \/ (k + n) + left >= f
         /\ k + n <= a
    <3>1. CASE l >= c2
      <4>1. CASE c2 > n
        BY <2>8, <2>9, <3>1, <4>1
      <4>2. CASE ~(c2 > n)
        BY <2>8, <2>9, <3>1, <4>2
      <4> QED
        BY <4>1, <4>2
    <3>2. CASE ~(l >= c2)
      BY <2>8, <2>9, <3>2
    <3> QED
      BY <3>1, <3>2
  <2>12. ASSUME left > 0, page.slice, both = <<>>
         PROVE  FALSE
    <3>1. page.items = <<>> /\ st.got = <<>> /\ n = 0 /\ st.pages = 0
      BY <1>2, <2>3, <2>4, <2>6, <2>12
    <3>2. Len(st.got) = 0
      BY <3>1
    <3>3. Len(first) = 0 \/ st.limit = 0
      BY <2>5, <3>1, <3>2
    <3>4. page.count = Len(first) /\ n < page.count
      BY <2>5, <2>12, <3>1
    <3>5. st.limit = 0
      BY <1>3, <3>1, <3>3, <3>4
    <3>6. left = 0
      BY <2>8, <2>9, <3>1, <3>5 DEF l, c2
    <3> QED
      BY <2>12, <3>6
  <2> QED
    BY <2>3, <2>4, <2>5, <2>6, <2>10, <2>11, <2>12 DEF k, a, f
<1>10. CASE ~(left <= 0 \/ ~page.slice)
  <2>1. z \in Nat /\ (both # <<>> => z = both[Len(both)])
    <3>1. both # <<>> => Len(both) \in 1..Len(both)
      BY <1>3
    <3>2. both # <<>> => both[Len(both)] \in Nat
      BY <1>3, <3>1
    <3> QED
      BY <3>2 DEF z
  <2>2. d = [m EXCEPT !.offset = 0, !.max = z]
    BY <1>5, <1>10
  <2>3. /\ d \in Paged /\ d.kind = st.kind /\ d.limit = left /\ d.asked = st.asked /\ d.offset = 0
        /\ d.max = z /\ d.got = both /\ d.pages = P!More(st.pages) /\ d.at = "asked"
    BY <1>7, <1>8, <2>1, <2>2 DEF Paged
  <2>4. ASSUME Promised(d)
        PROVE  Asking(d)
    <3>1. Promised([kind |-> st.kind, pages |-> P!More(st.pages)])
      BY <2>3, <2>4 DEF Promised
    <3>2. both # <<>>
      BY <1>4, <1>9, <1>10, <3>1
    <3> QED
      BY <1>6, <1>9, <2>1, <2>3, <3>1, <3>2 DEF Asking
  <2>5. Bounded(d)
    BY <2>3 DEF Bounded
  <2> QED
    BY <1>6, <2>3, <2>4, <2>5 DEF Taken, d
<1>11. CASE left <= 0 \/ ~page.slice
  <2>1. d = [m EXCEPT !.at = "told"]
    BY <1>5, <1>11
  <2>2. /\ d \in Paged /\ d.kind = st.kind /\ d.asked = st.asked
        /\ d.got = both /\ d.pages = P!More(st.pages) /\ d.at = "told"
    BY <1>7, <1>8, <2>1 DEF Paged
  <2>3. ASSUME Promised(d)
        PROVE  Complete(d)
    <3>1. Promised([kind |-> st.kind, pages |-> P!More(st.pages)])
      BY <2>2, <2>3 DEF Promised
    <3>2. Len(both) <= Len(first)
      BY <1>9, <3>1 DEF Begins
    <3>3. left = 0 \/ n >= page.count
      <4>1. left >= 0 /\ (page.slice <=> n < page.count)
        BY <1>9, <3>1
      <4>2. CASE left <= 0
        BY <1>4, <4>1, <4>2
      <4>3. CASE ~page.slice
        BY <1>2, <1>3, <4>1, <4>3
      <4> QED
        BY <1>11, <4>2, <4>3
    <3>4. Len(both) = st.asked \/ Len(both) >= Len(first)
      <4>1. CASE left = 0
        <5>1. left = st.asked - Len(both) \/ Len(both) + left >= Len(first)
          BY <1>9, <3>1
        <5> QED
          BY <1>2, <1>3, <4>1, <5>1
      <4>2. CASE n >= page.count
        <5>1. page.count >= Len(first)
          BY <1>9, <3>1
        <5> QED
          BY <1>2, <1>3, <4>2, <5>1
      <4> QED
        BY <3>3, <4>1, <4>2
    <3>5. st.asked >= 0 /\ Len(both) <= st.asked /\ Begins(both, first)
      BY <1>9, <3>1
    <3>6. Len(both) = IF st.asked >= 0 /\ st.asked < Len(first) THEN st.asked ELSE Len(first)
      <4> DEFINE l == Len(both)
                 a == st.asked
                 f == Len(first)
      <4>1. /\ l \in Nat /\ f \in Nat /\ a \in Int /\ a >= 0
            /\ l <= f /\ l <= a /\ (l = a \/ l >= f)
        BY <1>2, <1>3, <3>2, <3>4, <3>5
      <4> HIDE DEF l, a, f
      <4>2. l = IF a >= 0 /\ a < f THEN a ELSE f
        BY <4>1
      <4> QED
        BY <4>2 DEF l, a, f
    <3> QED
      BY <2>2, <3>5, <3>6 DEF Complete, Goal
  <2>4. Bounded(d)
    BY <2>2 DEF Bounded
  <2> QED
    BY <1>6, <2>2, <2>3, <2>4 DEF Taken, d
<1> QED
  BY <1>10, <1>11

LEMMA ParticipantsTaken ==
    ASSUME PInv, page # P!Nothing, st.kind = "participants"
    PROVE  Taken(P!Participants(st, page))
<1> DEFINE n == Len(page.items)
           take == IF st.limit > 0 /\ n > st.limit - Len(st.got) THEN st.limit - Len(st.got) ELSE n
           some == P!Some(page.items, 0, take)
           both == st.got \o some
           m == [st EXCEPT !.got = both, !.offset = @ + take, !.pages = P!More(@)]
           d == P!Participants(st, page)
<1> HIDE DEF n, take, some, both, m, d
<1>1. st \in Paged /\ page \in OnePage /\ first \in Seq(Nat) /\ st.at = "asked" /\ Bounded(st)
  BY DEF PInv, PagesTyped
<1>2. /\ st.got \in Seq(Nat) /\ page.items \in Seq(Nat) /\ st.pages \in {0, 1, 2}
      /\ st.limit \in Int /\ st.asked \in Int /\ st.offset \in Nat
  BY <1>1 DEF Paged, OnePage
<1>3. n \in Nat /\ Len(st.got) \in Nat /\ Len(first) \in Nat
  BY <1>1, <1>2, Joined DEF n
<1>4. take \in Nat /\ take <= n /\ (st.limit > 0 => take <= st.limit - Len(st.got))
  <2>1. st.limit > 0 => Len(st.got) <= st.limit
    BY <1>1 DEF Bounded
  <2> QED
    BY <1>2, <1>3, <2>1 DEF take
<1>5. /\ some \in Seq(Nat) /\ Len(some) = take
      /\ \A i \in 1..take : some[i] = page.items[i]
  <2>1. 0 + take = take /\ 0 \in Nat /\ ~(take > n)
    BY <1>3, <1>4
  <2>2. 0 <= Len(page.items)
    BY <1>3 DEF n
  <2>3. Len(some) = take
    BY <1>2, <1>4, <2>1, <2>2, SomeIs DEF some, n
  <2>4. \A i \in 1..Len(some) : some[i] = page.items[i + 0]
    BY <1>2, <1>4, <2>1, <2>2, SomeIs DEF some
  <2>5. some \in Seq(Nat)
    BY <1>2, <1>4, <2>1, SomeIs DEF some
  <2>6. \A i \in 1..take : i + 0 = i
    OBVIOUS
  <2> QED
    BY <2>3, <2>4, <2>5, <2>6
<1>6. both \in Seq(Nat) /\ Len(both) = Len(st.got) + take /\ Len(both) \in Nat
  BY <1>2, <1>5, Joined DEF both
<1>7. d = IF take = 0 \/ (st.limit > 0 /\ Len(both) = st.limit) THEN [m EXCEPT !.at = "told"] ELSE m
  BY <1>1 DEF P!Participants, P!Ended, Paged, d, m, both, some, take, n
<1>8. P!More(st.pages) \in {1, 2} /\ (P!More(st.pages) = 1 => st.pages = 0)
  BY <1>2 DEF P!More
<1>9. st.offset + take \in Nat
  BY <1>2, <1>4
<1>10. m \in Paged
  BY <1>1, <1>6, <1>8, <1>9 DEF Paged, m
<1>11. /\ m.kind = st.kind /\ m.limit = st.limit /\ m.asked = st.asked
       /\ m.offset = st.offset + take /\ m.got = both /\ m.pages = P!More(st.pages) /\ m.at = "asked"
  BY <1>1 DEF Paged, m
<1>12. st.limit > 0 => Len(both) <= st.limit
  BY <1>2, <1>3, <1>4, <1>6
\* What is taken, when something is promised.
<1>13. ASSUME Promised(m)
       PROVE  /\ Begins(both, first) /\ (take # 0 => both # <<>>)
              /\ st.limit = st.asked /\ st.offset = Len(st.got)
              /\ st.asked >= 0 => Len(both) <= st.asked
              /\ take = 0 => Len(st.got) = Len(first) \/ Len(st.got) = st.limit
  <2>1. Asking(st) /\ Goes(st, page) /\ Begins(st.got, first)
    BY <1>8, <1>11, <1>13, WhenTaken
  <2>2. st.limit = st.asked /\ st.offset = Len(st.got) /\ (st.asked >= 0 => Len(st.got) <= st.asked)
    BY <2>1 DEF Asking
  <2>3. /\ n <= Len(first) - Len(st.got)
        /\ \A i \in 1..n : page.items[i] = first[i + Len(st.got)]
        /\ page.items = <<>> => Len(st.got) = Len(first) \/ st.limit = 0
        /\ st.limit >= 0 => n <= st.limit
    BY <2>1 DEF Goes, Rest, n
  <2>4. Len(some) <= Len(first) - Len(st.got)
    BY <1>3, <1>4, <1>5, <2>3
  <2>5. \A i \in 1..Len(some) : some[i] = first[i + Len(st.got)]
    <3>1. \A i \in 1..take : i \in 1..n
      BY <1>3, <1>4
    <3> QED
      BY <1>5, <2>3, <3>1
  <2>6. Begins(both, first) /\ (some # <<>> => both # <<>>)
    BY <1>1, <1>2, <1>5, <2>1, <2>4, <2>5, GoesOn DEF both
  <2>7. take # 0 => some # <<>>
    BY <1>5
  <2>8. st.asked >= 0 => Len(both) <= st.asked
    <3>1. CASE st.asked > 0
      BY <1>12, <2>2, <3>1
    <3>2. CASE st.asked = 0
      <4>1. n = 0 /\ Len(st.got) = 0
        BY <1>3, <2>2, <2>3, <3>2
      <4>2. take = 0
        BY <1>4, <4>1
      <4> QED
        BY <1>6, <3>2, <4>1, <4>2
    <3> QED
      BY <1>2, <3>1, <3>2
  <2>9. take = 0 => Len(st.got) = Len(first) \/ Len(st.got) = st.limit
    <3>1. CASE n = 0
      <4>1. page.items = <<>>
        BY <1>2, <3>1 DEF n
      <4>2. CASE Len(st.got) = Len(first)
        BY <4>2
      <4>3. CASE st.limit = 0
        BY <1>3, <2>2, <4>3
      <4> QED
        BY <2>3, <4>1, <4>2, <4>3
    <3>2. CASE n # 0
      BY <1>2, <1>3, <3>2 DEF take
    <3> QED
      BY <3>1, <3>2
  <2> QED
    BY <2>2, <2>6, <2>7, <2>8, <2>9
<1>14. CASE ~(take = 0 \/ (st.limit > 0 /\ Len(both) = st.limit))
  <2>1. d = m
    BY <1>7, <1>14
  <2>2. ASSUME Promised(m)
        PROVE  Asking(m)
    <3>1. /\ both # <<>> /\ Begins(both, first) /\ st.limit = st.asked
          /\ (st.asked >= 0 => Len(both) <= st.asked)
      BY <1>13, <1>14, <2>2
    <3>2. st.offset + take = Len(both)
      BY <1>6, <1>13, <2>2
    <3> QED
      BY <1>8, <1>11, <3>1, <3>2 DEF Asking
  <2>3. Bounded(m)
    BY <1>11, <1>12 DEF Bounded
  <2> QED
    BY <1>8, <1>10, <1>11, <2>1, <2>2, <2>3 DEF Taken, d
<1>15. CASE take = 0 \/ (st.limit > 0 /\ Len(both) = st.limit)
  <2>1. d = [m EXCEPT !.at = "told"]
    BY <1>7, <1>15
  <2>2. /\ d \in Paged /\ d.kind = st.kind /\ d.asked = st.asked /\ d.limit = st.limit
        /\ d.got = both /\ d.pages = P!More(st.pages) /\ d.at = "told"
    BY <1>10, <1>11, <2>1 DEF Paged
  <2>3. ASSUME Promised(d)
        PROVE  Complete(d)
    <3>1. Promised(m)
      BY <1>11, <2>2, <2>3 DEF Promised
    <3>2. Begins(both, first) /\ st.limit = st.asked /\ (st.asked >= 0 => Len(both) <= st.asked)
      BY <1>13, <3>1
    <3>3. Len(both) <= Len(first)
      BY <3>2 DEF Begins
    <3>4. Len(both) = Len(first) \/ (st.asked >= 0 /\ Len(both) = st.asked)
      <4>1. CASE take = 0
        <5>1. Len(both) = Len(st.got)
          BY <1>3, <1>6, <4>1
        <5>2. Len(st.got) = Len(first) \/ Len(st.got) = st.limit
          BY <1>13, <3>1, <4>1
        <5> QED
          BY <1>3, <3>2, <5>1, <5>2
      <4>2. CASE st.limit > 0 /\ Len(both) = st.limit
        BY <1>2, <3>2, <4>2
      <4> QED
        BY <1>15, <4>1, <4>2
    <3>5. Len(both) = IF st.asked >= 0 /\ st.asked < Len(first) THEN st.asked ELSE Len(first)
      BY <1>2, <1>3, <1>6, <3>2, <3>3, <3>4
    <3> QED
      BY <2>2, <3>2, <3>5 DEF Complete, Goal
  <2>4. Bounded(d)
    BY <1>12, <2>2 DEF Bounded
  <2> QED
    BY <1>8, <2>2, <2>3, <2>4 DEF Taken, d
<1> QED
  BY <1>14, <1>15

LEMMA PageTaken ==
    ASSUME PInv, P!Take
    PROVE  PInv'
<1>1. /\ page # P!Nothing /\ page' = P!Nothing
      /\ UNCHANGED <<list, first, added, gone>>
      /\ st' = CASE st.kind \in {"dialogs", "channels"} -> P!Dialogs(st, page)
                 [] st.kind = "search"                  -> P!Searched(st, page)
                 [] st.kind = "participants"            -> P!Participants(st, page)
  BY DEF P!Take
<1>2. st.kind \in {"dialogs", "channels", "search", "participants"}
      /\ st.pages \in {0, 1, 2} /\ st.at = "asked" /\ PagesTyped
  BY <1>1 DEF PInv, PagesTyped, Paged
<1>3. Taken(st')
  <2>1. CASE st.kind \in {"dialogs", "channels"}
    <3>1. st' = P!Dialogs(st, page)
      BY <1>1, <2>1
    <3> QED
      BY <1>1, <2>1, <3>1, DialogsTaken
  <2>2. CASE st.kind = "search"
    <3>1. st' = P!Searched(st, page)
      BY <1>1, <2>2
    <3> QED
      BY <1>1, <2>2, <3>1, SearchTaken
  <2>3. CASE st.kind = "participants"
    <3>1. st' = P!Participants(st, page)
      BY <1>1, <2>3
    <3> QED
      BY <1>1, <2>3, <3>1, ParticipantsTaken
  <2> QED
    BY <1>2, <2>1, <2>2, <2>3
<1>4. st' \in Paged /\ Bounded(st') /\ st'.pages > 0
  BY <1>3 DEF Taken
<1>5. page' \in OnePage
  <2>1. <<>> \in Seq(Nat)
    OBVIOUS
  <2> QED
    BY <1>1, <2>1 DEF P!Nothing, OnePage
<1>6. PagesTyped'
  BY <1>1, <1>2, <1>4, <1>5 DEF PagesTyped
<1>7. ASSUME Promised(st)'
      PROVE  /\ Stands(list)'
             /\ (st.at = "asked")' => Asking(st)'
             /\ (st.at = "told")' => Complete(st)'
  <2>1. Promised(st')
    BY <1>1, <1>7 DEF Promised
  <2>2. /\ st'.kind = st.kind /\ (st'.pages = 1 => st.pages = 0) /\ st'.pages \in {0, 1, 2}
        /\ st'.at = "asked" => Asking(st')
        /\ st'.at = "told" => Complete(st')
    BY <1>3, <2>1 DEF Taken, Paged
  <2>3. Promised(st)
    BY <1>1, <1>4, <2>1, <2>2, WhenTaken
  <2>4. Stands(list)'
    BY <1>1, <2>3 DEF PInv, Stands
  <2>5. first' = first
    BY <1>1
  <2>6. Asking(st') => Asking(st)'
    BY <2>5 DEF Asking
  <2>7. Complete(st') => Complete(st)'
    BY <2>5 DEF Complete, Goal
  <2> QED
    BY <2>2, <2>4, <2>6, <2>7
<1>8. Bounded(st)' /\ (st.at = "told" => st.pages > 0)' /\ (gone = 0 => Descending(list))'
  BY <1>1, <1>4 DEF Bounded, PInv
<1> QED
  BY <1>1, <1>6, <1>7, <1>8 DEF PInv

LEMMA PInit == InitApplication => PInv
<1> SUFFICES ASSUME P!Init
             PROVE  PInv
  BY DEF InitApplication
<1>1. PICK n \in Sizes : list = [i \in 1..n |-> n + 1 - i]
  BY DEF P!Init
<1>2. n \in Nat
  BY PagesAssumption
<1>3. list \in Seq(Nat) /\ Len(list) = n
  BY <1>1, <1>2
<1>4. Descending(list)
  BY <1>1, <1>2, <1>3 DEF Descending
<1>5. PICK kind \in {"dialogs", "channels", "search", "participants"}, l \in Limits :
          /\ l = -1 => kind = "participants"
          /\ st = [kind |-> kind, limit |-> l, asked |-> l, offset |-> 0, max |-> 0,
                   got |-> <<>>, pages |-> 0, at |-> "asked"]
  BY DEF P!Init
<1>6. l \in Int /\ l >= -1 /\ (kind # "participants" => l >= 0)
  BY <1>5, PagesAssumption
<1>7. <<>> \in Seq(Nat) /\ Len(<<>>) = 0
  OBVIOUS
<1>8. st \in Paged
  BY <1>5, <1>6, <1>7 DEF Paged
<1>9. /\ st.kind = kind /\ st.limit = l /\ st.asked = l /\ st.offset = 0 /\ st.max = 0
      /\ st.got = <<>> /\ st.pages = 0 /\ st.at = "asked"
  BY <1>5
<1>10. first = <<>> /\ page = P!Nothing /\ added = 0 /\ gone = 0
  BY DEF P!Init
<1>11. page \in OnePage
  BY <1>7, <1>10 DEF P!Nothing, OnePage
<1>12. PagesTyped
  BY <1>3, <1>7, <1>8, <1>10, <1>11 DEF PagesTyped
<1>13. Bounded(st)
  BY <1>6, <1>7, <1>9 DEF Bounded
<1>14. Asking(st)
  BY <1>6, <1>7, <1>9 DEF Asking
<1> QED
  BY <1>4, <1>9, <1>10, <1>12, <1>13, <1>14 DEF PInv

LEMMA PStep == PInv /\ [Updates \/ Calling \/ LogIn \/ Paging]_all => PInv'
<1> SUFFICES ASSUME PInv, [Updates \/ Calling \/ LogIn \/ Paging]_all
             PROVE  PInv'
  OBVIOUS
<1>1. CASE Paging
  BY <1>1, PageServed, PageTaken, PageRefused, ListChanged DEF Paging, P!Next
<1>2. CASE UNCHANGED pages
  <2>1. UNCHANGED <<list, first, st, page, added, gone>>
    BY <1>2 DEF pages
  <2>2. (PagesTyped <=> PagesTyped') /\ (Bounded(st) <=> Bounded(st)')
    BY <2>1 DEF PagesTyped, Bounded
  <2>3. (Promised(st) <=> Promised(st)') /\ (Stands(list) <=> Stands(list)')
    BY <2>1 DEF Promised, Stands
  <2>4. (Asking(st) <=> Asking(st)') /\ (Complete(st) <=> Complete(st)')
    BY <2>1 DEF Asking, Complete, Goal
  <2>5. Goes(st, page) <=> Goes(st, page)'
    BY <2>1 DEF Goes, Rest
  <2> QED
    BY <2>1, <2>2, <2>3, <2>4, <2>5 DEF PInv
<1> QED
  BY <1>1, <1>2 DEF Updates, Calling, LogIn, all

LEMMA AlwaysPInv == SpecApplication => []PInv
BY PInit, PStep, PTL DEF SpecApplication

\* Items that begin a list and are as many as the first n are those.
LEMMA SameItems ==
    ASSUME NEW s \in Seq(Nat), NEW t \in Seq(Nat), Len(s) = Len(t),
           \A i \in 1..Len(s) : s[i] = t[i]
    PROVE  s = t
OBVIOUS

\* A list that nothing was taken from is given as it was when the first page was
\* made, each item once, whatever its length, that of the pages and the number that
\* was asked for, and however much is added meanwhile; the participants only if
\* nothing is added, the dialogs of channels only if one page is enough.
THEOREM ListsAreWhole == SpecApplication => []Listed
<1>1. PInv => Listed
  <2> SUFFICES ASSUME PInv
               PROVE  Listed
    OBVIOUS
  <2> SUFFICES ASSUME st.at = "told", Promised(st)
               PROVE  st.got = P!Wanted(first)
    <3>1. st \in Paged /\ added \in Nat
      BY DEF PInv, PagesTyped
    <3>2. st.kind \in {"dialogs", "channels", "search", "participants"} /\ st.pages \in {0, 1, 2}
      BY <3>1 DEF Paged
    <3>3. gone = 0 => \/ Promised(st)
                      \/ st.kind = "participants" /\ added > 0
                      \/ st.kind = "channels" /\ st.pages > 1
      BY <3>1, <3>2 DEF Promised
    <3> QED
      BY <3>2, <3>3 DEF Listed, P!Listed
  <2>1. /\ st.got \in Seq(Nat) /\ first \in Seq(Nat) /\ st.asked \in Int
        /\ Begins(st.got, first) /\ Len(st.got) = Goal(st)
    BY DEF PInv, PagesTyped, Paged, Complete
  <2>2. CASE st.asked < 0
    <3>1. Len(st.got) = Len(first)
      BY <2>1, <2>2 DEF Goal
    <3>2. st.got = first
      BY <2>1, <3>1, SameItems DEF Begins
    <3> QED
      BY <2>2, <3>2 DEF P!Wanted
  <2>3. CASE ~(st.asked < 0)
    <3> DEFINE k == 0
               w == P!Some(first, k, st.asked)
    <3>0. k = 0
      OBVIOUS
    <3>1. st.asked \in Nat /\ k \in Nat /\ k <= Len(first) /\ Len(first) \in Nat
      BY <2>1, <2>3
    <3> HIDE DEF k
    <3>2. w \in Seq(Nat)
      BY <2>1, <3>1, SomeIs
    <3>3. Len(w) = IF k + st.asked > Len(first) THEN Len(first) - k ELSE st.asked
      BY <2>1, <3>1, SomeIs
    <3>4. \A i \in 1..Len(w) : w[i] = first[i + k]
      BY <2>1, <3>1, SomeIs
    <3> HIDE DEF w
    <3>5. Len(st.got) = Len(w)
      BY <2>1, <3>0, <3>1, <3>3 DEF Goal
    <3>6. \A i \in 1..Len(st.got) : st.got[i] = w[i]
      <4>1. \A i \in 1..Len(w) : i + k = i
        BY <3>0
      <4> QED
        BY <2>1, <3>4, <3>5, <4>1 DEF Begins
    <3>7. st.got = w
      BY <2>1, <3>2, <3>5, <3>6, SameItems
    <3> QED
      BY <2>3, <3>0, <3>7 DEF w, P!Wanted
  <2> QED
    BY <2>2, <2>3
<1> QED
  BY <1>1, AlwaysPInv, PTL

=============================================================================
