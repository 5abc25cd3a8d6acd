------------------------- MODULE SecretChatSeqProofs -------------------------
(***************************************************************************)
(* Proofs about SecretChatSeq, for every bound, every choice of the        *)
(* real-time ends and with deletes, failing queries and restarts.          *)
(***************************************************************************)
EXTENDS SecretChatSeq, TLAPS

\* The one-line helpers of Process and the timers stand for their bodies.
USE DEF NextExpected, Unacknowledged, Unconsumed, ServedEarly, GivesUp

-----------------------------------------------------------------------------
(* Lemmas about the operators                                              *)

\* There are two sides.
LEMMA OtherSide ==
    ASSUME NEW p \in Side
    PROVE  /\ Other(p) \in Side
           /\ Other(p) # p
           /\ Other(Other(p)) = p
  BY DEF Side, Other

\* Dropping contents keeps numbers and acknowledgements, and only turns texts
\* that T names into blanks.
LEMMA DroppedMessages ==
    ASSUME NEW S \in SUBSET Message, NEW T
    PROVE  /\ Dropped(S, T) \subseteq Message
           /\ \A m \in Dropped(S, T) :
                \/ m \in S
                \/ \E k \in S : /\ k.kind = "text" /\ k.id \in T
                                /\ m = Blank(k)
           /\ \A k \in S : ~(k.kind = "text" /\ k.id \in T) => k \in Dropped(S, T)
  BY DEF Dropped, Blank, Message, Kinds

\* The same, for a side and the one that is named.
LEMMA TwoSides ==
    ASSUME NEW p \in Side, NEW q \in Side, q = Other(p)
    PROVE  /\ p # q /\ Other(q) = p
           /\ \A r \in Side : r = p \/ r = q
  BY DEF Side, Other

\* Dropping the content keeps the numbers.
LEMMA BlankMessage ==
    ASSUME NEW m \in Message
    PROVE  /\ Blank(m) \in Message
           /\ Blank(m).seq = m.seq /\ Blank(m).ack = m.ack
           /\ Blank(m).kind = "blank"
  BY DEF Blank, Message, Kinds

\* What is sent again comes from the storage.
LEMMA WantedStored ==
    ASSUME NEW p, NEW B
    PROVE  Wanted(p, B) \subseteq stOut[p]
  BY DEF Wanted, Within

\* What is in memory of the outgoing messages are messages.
LEMMA OutgoingLoadedMessages ==
    ASSUME TypeOK, NEW p \in Side
    PROVE  OutgoingLoaded(p) \subseteq Message
  BY DEF TypeOK, OutgoingLoaded, Within

\* A new message has the numbers of its sender.
LEMMA NewMessageType ==
    ASSUME TypeOK, NEW p \in Side, NEW kind \in Kinds,
           NEW id \in Nat, NEW lo \in Nat, NEW hi \in Nat
    PROVE  /\ NewMessage(p, kind, id, lo, hi) \in Message
           /\ NewMessage(p, kind, id, lo, hi).seq = outSeq[p]
           /\ NewMessage(p, kind, id, lo, hi).ack = inSeq[p]
           /\ NewMessage(p, kind, id, lo, hi).kind = kind
           /\ NewMessage(p, kind, id, lo, hi).id = id
  BY DEF NewMessage, Message, TypeOK

-----------------------------------------------------------------------------
(* Type correctness                                                        *)

\* The part of TypeOK that sending changes.
LEMMA SendType ==
    ASSUME TypeOK, NEW p \in Side, NEW m \in Message, Send(p, m)
    PROVE  /\ outSeq' \in [Side -> Nat]
           /\ inSeq' \in [Side -> Nat]
           /\ stOut' \in [Side -> SUBSET Message]
           /\ stIn' \in [Side -> SUBSET Message]
           /\ unOut' \in [Side -> SUBSET Message]
           /\ loadedOut' \in [Side -> BOOLEAN]
           /\ net' \in [Side -> SUBSET Message]
           /\ texts' \in [Side -> SUBSET Nat]
           /\ lost' \in [Side -> Nat]
  <1>1. OutgoingLoaded(p) \subseteq Message
    BY OutgoingLoadedMessages
  <1>2. net' \in [Side -> SUBSET Message] /\ lost' \in [Side -> Nat]
    <2>1. CASE net' = [net EXCEPT ![Other(p)] = @ \cup {m}] /\ lost' = lost
      BY <2>1, OtherSide DEF TypeOK
    <2>2. CASE lost' = [lost EXCEPT ![p] = @ + 1] /\ net' = net
      BY <2>2 DEF TypeOK
    <2> QED
      BY <2>1, <2>2 DEF Send, Transmit
  <1>3. unOut' \in [Side -> SUBSET Message]
    BY <1>1 DEF Send, TypeOK
  <1>4. texts' \in [Side -> SUBSET Nat]
    BY DEF Send, TypeOK, Message
  <1> QED
    BY <1>2, <1>3, <1>4 DEF Send, TypeOK

\* The part of TypeOK that processing a batch changes.
LEMMA ProcessType ==
    ASSUME TypeOK, NEW p \in Side, NEW A, NEW B \in SUBSET Message,
           NEW Q \in SUBSET Message, Process(p, A, B, Q)
    PROVE  /\ inSeq' \in [Side -> Nat]
           /\ loadedIn' \in [Side -> BOOLEAN]
           /\ unIn' \in [Side -> SUBSET Message]
           /\ stIn' \in [Side -> SUBSET Message]
           /\ net' \in [Side -> SUBSET Message]
           /\ stOut' \in [Side -> SUBSET Message]
           /\ unOut' \in [Side -> SUBSET Message]
           /\ got' \in [Side -> [Numbers -> Nat]]
           /\ gone' \in [Side -> SUBSET Nat]
  <1> DEFINE ids  == Targets(B)
             look == IF ids # {} /\ ~loadedIn[p] THEN Loadable(p) ELSE Q
             hit  == ids \cap {m.id : m \in {k \in look : k.kind = "text"}}
  <1>1. PICK last \in B :
           /\ inSeq' = [inSeq EXCEPT ![p] = NextExpected(last)]
           /\ loadedIn' = [loadedIn EXCEPT ![p] = @ \/ ids # {}]
           /\ unIn' = [unIn EXCEPT ![p] = {m \in Dropped(look, hit) : m.seq \notin Seqs(B)}]
           /\ stIn' = [stIn EXCEPT ![p] = Unconsumed(Dropped(@, hit), last.seq)]
           /\ net' = [net EXCEPT ![p] = @ \ A, ![Other(p)] = @ \cup Wanted(p, B)]
           /\ stOut' = [stOut EXCEPT ![p] = Unacknowledged(@, last.ack)]
           /\ unOut' = [unOut EXCEPT ![p] = Unacknowledged(@, last.ack)]
           /\ got' = [got EXCEPT ![p] = [s \in Numbers |->
                         IF \E m \in B : m.kind = "text" /\ m.seq = s THEN @[s] + 1 ELSE @[s]]]
           /\ gone' = [gone EXCEPT ![p] = @ \cup (ids \ hit)]
    BY DEF Process
  <1>2. look \subseteq Message
    BY DEF Loadable, TypeOK
  <1>3. Dropped(look, hit) \subseteq Message /\ Dropped(stIn[p], hit) \subseteq Message
    BY <1>2, DroppedMessages DEF TypeOK
  <1>4. ids \subseteq Nat
    BY DEF Targets, Message
  <1> HIDE DEF look, hit, ids
  <1>5. inSeq' \in [Side -> Nat]
    BY <1>1 DEF TypeOK, Message
  <1>6. loadedIn' \in [Side -> BOOLEAN]
    BY <1>1 DEF TypeOK
  <1>7. unIn' \in [Side -> SUBSET Message] /\ stIn' \in [Side -> SUBSET Message]
    BY <1>1, <1>3 DEF TypeOK
  <1>8. net' \in [Side -> SUBSET Message]
    BY <1>1, WantedStored, OtherSide DEF TypeOK
  <1>9. stOut' \in [Side -> SUBSET Message] /\ unOut' \in [Side -> SUBSET Message]
    BY <1>1 DEF TypeOK
  <1>10. got' \in [Side -> [Numbers -> Nat]]
    BY <1>1 DEF TypeOK
  <1>11. gone' \in [Side -> SUBSET Nat]
    BY <1>1, <1>4 DEF TypeOK
  <1> QED
    BY <1>5, <1>6, <1>7, <1>8, <1>9, <1>10, <1>11

\* The part of TypeOK that parking changes.
LEMMA ParkType ==
    ASSUME TypeOK, NEW p \in Side, NEW m \in Message, Park(p, m)
    PROVE  /\ stIn' \in [Side -> SUBSET Message]
           /\ unIn' \in [Side -> SUBSET Message]
           /\ loadedIn' \in [Side -> BOOLEAN]
           /\ fill' \in [Side -> BOOLEAN]
  <1> DEFINE q == IF loadedIn[p] THEN unIn[p] ELSE Loadable(p)
  <1>1. q \subseteq Message
    BY DEF Loadable, TypeOK
  <1>2. unIn' = [unIn EXCEPT ![p] = IF m.seq \in Seqs(q) THEN q ELSE q \cup {m}]
    BY DEF Park
  <1> HIDE DEF q
  <1>3. unIn' \in [Side -> SUBSET Message]
    BY <1>1, <1>2 DEF TypeOK
  <1> QED
    BY <1>3 DEF Park, TypeOK

\* The part of TypeOK that a restart changes.
LEMMA ForgetVolatileType ==
    ASSUME TypeOK, NEW p \in Side, ForgetVolatile(p)
    PROVE  /\ unOut' \in [Side -> SUBSET Message]
           /\ loadedOut' \in [Side -> BOOLEAN]
           /\ unIn' \in [Side -> SUBSET Message]
           /\ loadedIn' \in [Side -> BOOLEAN]
           /\ fill' \in [Side -> BOOLEAN]
           /\ skip' \in [Side -> BOOLEAN]
  BY DEF ForgetVolatile, TypeOK

\* The copies on their way stay messages when stored ones join them.
LEMMA NetType ==
    ASSUME TypeOK, NEW p \in Side, NEW A, NEW S \in SUBSET stOut[p],
           net' = [net EXCEPT ![p] = @ \ A, ![Other(p)] = @ \cup S]
    PROVE  net' \in [Side -> SUBSET Message]
  BY OtherSide DEF TypeOK

\* Every step keeps the types.
LEMMA StepTypeOK == TypeOK /\ [Next]_vars => TypeOK'
  <1> SUFFICES ASSUME TypeOK, [Next]_vars
               PROVE  TypeOK'
    OBVIOUS
  <1> USE DEF persisted, volatile, ghosts
  <1>1. ASSUME NEW p \in Side, SendText(p)
        PROVE  TypeOK'
    <2>1. NewMessage(p, "text", outSeq[p], 0, 0) \in Message
      BY NewMessageType DEF Kinds, TypeOK
    <2>2. Send(p, NewMessage(p, "text", outSeq[p], 0, 0))
      BY <1>1 DEF SendText
    <2> QED
      BY <1>1, <2>1, <2>2, SendType DEF SendText, TypeOK
  <1>2. ASSUME NEW p \in Side, SendDelete(p)
        PROVE  TypeOK'
    <2>1. PICK id \in texts[p] : Send(p, NewMessage(p, "delete", id, 0, 0))
      BY <1>2 DEF SendDelete
    <2>2. NewMessage(p, "delete", id, 0, 0) \in Message
      BY NewMessageType DEF Kinds, TypeOK
    <2> QED
      BY <1>2, <2>1, <2>2, SendType DEF SendDelete, TypeOK
  <1>3. ASSUME NEW p \in Side, SendAgain(p)
        PROVE  TypeOK'
    <2>1. PICK t \in stOut[p] :
            \/ /\ unOut' = [unOut EXCEPT ![p] = OutgoingLoaded(p)]
               /\ loadedOut' = [loadedOut EXCEPT ![p] = TRUE]
               /\ net' = [net EXCEPT ![Other(p)] = @ \cup Within(stOut[p], t.seq, t.seq)]
               /\ UNCHANGED <<persisted, unIn, loadedIn, fill, skip, ghosts>>
            \/ /\ Send(p, NewMessage(p, "text", t.id, 0, 0))
               /\ UNCHANGED <<unIn, loadedIn, fill, skip, got, gone, restarts>>
      BY <1>3 DEF SendAgain
    <2>2. CASE /\ Send(p, NewMessage(p, "text", t.id, 0, 0))
               /\ UNCHANGED <<unIn, loadedIn, fill, skip, got, gone, restarts>>
      <3>1. t.id \in Nat
        BY DEF TypeOK, Message
      <3>2. NewMessage(p, "text", t.id, 0, 0) \in Message
        BY <3>1 DEF NewMessage, Message, Kinds, TypeOK
      <3> QED
        BY <2>2, <3>2, SendType DEF TypeOK
    <2>3. CASE /\ unOut' = [unOut EXCEPT ![p] = OutgoingLoaded(p)]
               /\ loadedOut' = [loadedOut EXCEPT ![p] = TRUE]
               /\ net' = [net EXCEPT ![Other(p)] = @ \cup Within(stOut[p], t.seq, t.seq)]
               /\ UNCHANGED <<persisted, unIn, loadedIn, fill, skip, ghosts>>
      <3>1. Within(stOut[p], t.seq, t.seq) \subseteq Message
        BY DEF Within, TypeOK
      <3>2. net' \in [Side -> SUBSET Message]
        BY <2>3, <3>1, OtherSide DEF TypeOK
      <3>3. unOut' \in [Side -> SUBSET Message]
        BY <2>3, OutgoingLoadedMessages DEF TypeOK
      <3> QED
        BY <2>3, <3>2, <3>3 DEF TypeOK
    <2> QED
      BY <2>1, <2>2, <2>3
  <1>4. ASSUME NEW p \in Side, NEW m \in net[p], ReceiveStale(p, m)
        PROVE  TypeOK'
    BY <1>4 DEF ReceiveStale, TypeOK
  <1>5. ASSUME NEW p \in Side, NEW m \in net[p], ReceiveAhead(p, m)
        PROVE  TypeOK'
    <2>1. (IF m.kind = "resend" THEN Blank(m) ELSE m) \in Message
      BY BlankMessage DEF TypeOK
    <2>2. net' \in [Side -> SUBSET Message]
      BY <1>5, WantedStored, NetType DEF ReceiveAhead
    <2> QED
      BY <1>5, <2>1, <2>2, ParkType DEF ReceiveAhead, TypeOK
  <1>6. ASSUME NEW p \in Side, NEW m \in net[p], ReceiveNext(p, m)
        PROVE  TypeOK'
    <2> DEFINE Q == IF m.seq \in Seqs(unIn[p]) THEN unIn[p] ELSE unIn[p] \cup {m}
               B == RunFrom(Q, inSeq[p])
    <2>1. Q \subseteq Message /\ B \subseteq Message
      BY DEF RunFrom, TypeOK
    <2>2. /\ Process(p, {m}, B, Q \ B)
          /\ UNCHANGED <<outSeq, loadedOut, fill, skip, texts, restarts, lost>>
      BY <1>6 DEF ReceiveNext
    <2> HIDE DEF Q, B
    <2>3. Q \ B \in SUBSET Message
      BY <2>1
    <2> QED
      BY <2>1, <2>2, <2>3, ProcessType DEF TypeOK
  <1>7. ASSUME NEW p \in Side, FillHole(p)
        PROVE  TypeOK'
    <2>1. CASE unIn[p] = {} /\ fill' = [fill EXCEPT ![p] = FALSE]
                 /\ UNCHANGED <<persisted, unOut, loadedOut, unIn, loadedIn, skip, net, ghosts>>
      BY <2>1 DEF TypeOK
    <2>2. CASE /\ HoleIsAhead(p)
               /\ \E m \in unIn[p] :
                     /\ IsFirst(m, unIn[p])
                     /\ Send(p, NewMessage(p, "resend", 0, inSeq[p], m.seq - 1))
               /\ fill' = [fill EXCEPT ![p] = FALSE]
               /\ skip' = [skip EXCEPT ![p] = @ \/ p \in RealTime]
               /\ UNCHANGED <<unIn, loadedIn, got, gone, restarts>>
      <3>1. PICK m \in unIn[p] :
               /\ m.seq > inSeq[p]
               /\ Send(p, NewMessage(p, "resend", 0, inSeq[p], m.seq - 1))
        BY <2>2 DEF HoleIsAhead
      <3>2. inSeq[p] \in Nat /\ m.seq - 1 \in Nat
        BY <3>1 DEF TypeOK, Message
      <3>3. NewMessage(p, "resend", 0, inSeq[p], m.seq - 1) \in Message
        BY <3>2, outSeq[p] \in Nat DEF NewMessage, Message, Kinds, TypeOK
      <3> QED
        BY <2>2, <3>1, <3>3, SendType DEF TypeOK
    <2>3. CASE ForgetVolatile(p) /\ UNCHANGED <<persisted, net, ghosts>>
      BY <2>3, ForgetVolatileType DEF TypeOK
    <2> QED
      BY <1>7, <2>1, <2>2, <2>3 DEF FillHole
  <1>8. ASSUME NEW p \in Side, SkipHole(p)
        PROVE  TypeOK'
    <2>1. /\ skip' \in [Side -> BOOLEAN]
          /\ fill' \in [Side -> BOOLEAN]
          /\ UNCHANGED <<outSeq, loadedOut, texts, restarts, lost>>
      BY <1>8 DEF SkipHole, TypeOK
    <2>2. CASE UNCHANGED <<inSeq, loadedIn, unIn, stIn, net, stOut, unOut, got, gone>>
      BY <2>1, <2>2 DEF TypeOK
    <2>3. CASE \E m \in unIn[p] : Process(p, {}, RunFrom(unIn[p], m.seq), unIn[p])
      <3>1. PICK m \in unIn[p] : Process(p, {}, RunFrom(unIn[p], m.seq), unIn[p])
        BY <2>3
      <3>2. RunFrom(unIn[p], m.seq) \in SUBSET Message /\ unIn[p] \in SUBSET Message
        BY DEF RunFrom, TypeOK
      <3> QED
        BY <2>1, <3>1, <3>2, ProcessType DEF TypeOK
    <2> QED
      BY <1>8, <2>2, <2>3 DEF SkipHole
  <1>9. ASSUME NEW p \in Side, Restart(p)
        PROVE  TypeOK'
    BY <1>9, ForgetVolatileType DEF Restart, TypeOK
  <1>10. CASE UNCHANGED vars
    BY <1>10 DEF vars, TypeOK
  <1> QED
    BY <1>1, <1>2, <1>3, <1>4, <1>5, <1>6, <1>7, <1>8, <1>9, <1>10 DEF Next, Receive

\* Every variable keeps its type.
THEOREM TypeCorrect == Spec => []TypeOK
  <1>1. Init => TypeOK
    BY DEF Init, TypeOK, Numbers
  <1> QED
    BY <1>1, StepTypeOK, PTL DEF Spec

-----------------------------------------------------------------------------
(* The inductive invariant: one lemma per way a step changes the numbering *)

\* A step that gives no number and consumes none keeps the numbering of p
\* when the copies of p that are left are genuine.
LEMMA CopiesKept ==
    ASSUME IInv, NEW p \in Side,
           UNCHANGED <<outSeq, inSeq, texts>>,
           \A m \in Copies(p)' : m \in Copies(p) \/ Genuine(p, m)
    PROVE  Numbered(p)'
  <1>1. Numbered(p)
    BY DEF IInv
  <1>2. \A m : Genuine(p, m)' <=> Genuine(p, m)
    BY DEF Genuine
  <1> QED
    BY <1>1, <1>2 DEF Numbered

\* Retained and Delivery depend on what is numbered, consumed, stored by the
\* sender and given to the application.
LEMMA PromisesKept ==
    ASSUME IInv, UNCHANGED <<outSeq, inSeq, texts, stOut, got>>
    PROVE  Retained' /\ Delivery'
  BY DEF IInv, Retained, Delivery, Seqs

\* What send_message() searches is all that is stored, loaded or not.
LEMMA OutgoingIsStored ==
    ASSUME IInv, NEW p \in Side
    PROVE  OutgoingLoaded(p) = stOut[p]
  <1>1. outSeq[p] \in Nat /\ \A k \in stOut[p] : k \in Message /\ k.seq < outSeq[p]
    BY DEF IInv, Numbered, Copies, Genuine, TypeOK
  <1>2. CASE loadedOut[p]
    BY <1>2 DEF IInv, OutgoingLoaded, Loaded
  <1>3. CASE ~loadedOut[p]
    <2>1. OutgoingLoaded(p) = {k \in stOut[p] : 0 <= k.seq /\ k.seq <= outSeq[p]}
      BY <1>3 DEF OutgoingLoaded, Within
    <2>2. \A k \in stOut[p] : 0 <= k.seq /\ k.seq <= outSeq[p]
      BY <1>1 DEF Message
    <2> QED
      BY <2>1, <2>2
  <1> QED
    BY <1>2, <1>3

\* Numbering a new message.
LEMMA SendKeeps ==
    ASSUME IInv, NEW p \in Side, NEW m \in Message, Send(p, m),
           m.seq = outSeq[p], m.ack = inSeq[p],
           m.kind = "text" => m.id = m.seq,
           m.kind = "delete" => m.id < m.seq,
           UNCHANGED <<unIn, loadedIn, got, gone>>
    PROVE  /\ Retained' /\ Delivery'
           /\ \A r \in Side : Numbered(r)' /\ Loaded(r)' /\ GoneIsConsumed(r)'
  <1> DEFINE q == Other(p)
  <1>1. /\ q \in Side /\ p # q /\ Other(q) = p /\ Other(p) = q
        /\ \A r \in Side : r = p \/ r = q
    BY OtherSide, TwoSides
  <1> HIDE DEF q
  <1>2. TypeOK /\ outSeq[p] \in Nat /\ outSeq[q] \in Nat /\ inSeq[p] \in Nat /\ inSeq[q] \in Nat
    BY <1>1 DEF IInv, TypeOK
  <1>3. /\ Numbered(p) /\ Numbered(q) /\ Loaded(p) /\ Loaded(q)
        /\ GoneIsConsumed(p) /\ GoneIsConsumed(q)
    BY <1>1 DEF IInv
  <1>4. /\ outSeq' = [outSeq EXCEPT ![p] = @ + 1]
        /\ stOut' = [stOut EXCEPT ![p] = @ \cup {m}]
        /\ unOut' = [unOut EXCEPT ![p] = OutgoingLoaded(p) \cup {m}]
        /\ loadedOut' = [loadedOut EXCEPT ![p] = TRUE]
        /\ texts' = [texts EXCEPT ![p] = IF m.kind = "text" THEN @ \cup {m.seq} ELSE @]
        /\ UNCHANGED <<inSeq, stIn>>
    BY DEF Send
  <1>5. net' = [net EXCEPT ![q] = @ \cup {m}] \/ net' = net
    BY <1>1 DEF Send, Transmit
  <1>6. /\ outSeq'[p] = outSeq[p] + 1 /\ outSeq'[q] = outSeq[q]
        /\ stOut'[p] = stOut[p] \cup {m} /\ stOut'[q] = stOut[q]
        /\ unOut'[p] = OutgoingLoaded(p) \cup {m} /\ unOut'[q] = unOut[q]
        /\ loadedOut'[q] = loadedOut[q]
        /\ texts'[p] = (IF m.kind = "text" THEN texts[p] \cup {m.seq} ELSE texts[p])
        /\ texts'[q] = texts[q]
    BY <1>1, <1>2, <1>4 DEF TypeOK
  <1>7. net'[q] \subseteq net[q] \cup {m} /\ net'[p] = net[p]
    BY <1>1, <1>2, <1>5 DEF TypeOK
  <1>8. Genuine(p, m)'
    BY <1>2, <1>3, <1>4, <1>6 DEF Genuine, Numbered
  <1>9. \A k \in Copies(p) : Genuine(p, k)'
    <2> TAKE k \in Copies(p)
    <2>1. k \in Message
      BY <1>1, <1>2 DEF Copies, TypeOK
    <2>2. Genuine(p, k)
      BY <1>3 DEF Numbered
    <2> QED
      BY <1>2, <1>4, <1>6, <2>1, <2>2 DEF Genuine, Message
  <1>10. Copies(p)' \subseteq Copies(p) \cup {m}
    BY <1>1, <1>4, <1>6, <1>7 DEF Copies
  <1>11. Numbered(p)'
    <2>1. \A s \in texts'[p] : s < outSeq'[p]
      BY <1>2, <1>3, <1>6 DEF Numbered, TypeOK
    <2>2. inSeq'[q] <= outSeq'[p]
      BY <1>1, <1>2, <1>3, <1>4, <1>6 DEF Numbered
    <2>3. outSeq'[p] <= MaxSeq[p]
      BY <1>2, <1>6, ConstantsAssumption DEF Send
    <2> QED
      BY <1>1, <1>8, <1>9, <1>10, <2>1, <2>2, <2>3 DEF Numbered
  <1>12. Numbered(q)'
    <2>1. Copies(q)' \subseteq Copies(q)
      BY <1>1, <1>4, <1>6, <1>7 DEF Copies
    <2>2. \A k \in Copies(q) : Genuine(q, k)'
      BY <1>3, <1>4, <1>6 DEF Numbered, Genuine
    <2> QED
      BY <1>1, <1>3, <1>4, <1>6, <2>1, <2>2 DEF Numbered
  <1>13. OutgoingLoaded(p) = stOut[p]
    BY OutgoingIsStored
  <1>14. Loaded(p)' /\ Loaded(q)'
    BY <1>3, <1>4, <1>6, <1>13 DEF Loaded
  <1>15. Retained'
    <2>1. /\ inSeq[q]..outSeq[p] - 1 \subseteq Seqs(stOut[p])
          /\ inSeq[p]..outSeq[q] - 1 \subseteq Seqs(stOut[q])
      BY <1>1 DEF IInv, Retained
    <2>2. Seqs(stOut'[p]) = Seqs(stOut[p]) \cup {outSeq[p]}
      BY <1>6 DEF Seqs
    <2>3. inSeq'[q]..outSeq'[p] - 1 \subseteq Seqs(stOut'[p])
      <3>1. inSeq'[q] = inSeq[q] /\ outSeq'[p] - 1 = outSeq[p]
        BY <1>2, <1>4, <1>6
      <3>2. ASSUME NEW s \in inSeq[q]..outSeq[p]
            PROVE  s \in Seqs(stOut[p]) \cup {outSeq[p]}
        <4>1. s = outSeq[p] \/ s \in inSeq[q]..outSeq[p] - 1
          BY <1>2
        <4> QED
          BY <2>1, <4>1
      <3> QED
        BY <2>2, <3>1, <3>2
    <2>4. inSeq'[p]..outSeq'[q] - 1 \subseteq Seqs(stOut'[q])
      BY <1>4, <1>6, <2>1
    <2> QED
      BY <1>1, <2>3, <2>4 DEF Retained, Seqs
  <1>16. Delivery'
    <2>1. \A s \in texts'[p] : s \in texts[p] \/ s >= inSeq[q]
      BY <1>1, <1>2, <1>3, <1>6 DEF Numbered
    <2> QED
      BY <1>1, <1>2, <1>4, <1>6, <2>1 DEF IInv, Delivery, Numbers
  <1>17. GoneIsConsumed(p)' /\ GoneIsConsumed(q)'
    BY <1>3, <1>4 DEF GoneIsConsumed
  <1> QED
    BY <1>1, <1>11, <1>12, <1>14, <1>15, <1>16, <1>17

\* What holds of a batch B that process_messages() is given: it has the numbers
\* from in_seq_no on - without a hole unless p skips -, and what stays parked
\* lies behind it.
Batch(p, B, Q) ==
    /\ B \subseteq net[p] \cup unIn[p]
    /\ Q \subseteq unIn[p]
    /\ \A m \in B : m.seq >= inSeq[p]
    /\ p \notin RealTime => \A m \in B : inSeq[p]..m.seq \subseteq Seqs(B)
    /\ \A k \in Q : k.seq \in Seqs(B) \/ \A m \in B : k.seq > m.seq
    /\ ~loadedIn[p] => Q = {} /\ \A m \in B : m.seq = inSeq[p]

\* A run has no hole, and what is not in it lies behind it.
LEMMA RunFromRun ==
    ASSUME NEW S \in SUBSET Message, NEW n \in Nat
    PROVE  /\ RunFrom(S, n) \subseteq S
           /\ \A m \in RunFrom(S, n) : m.seq >= n /\ n..m.seq \subseteq Seqs(RunFrom(S, n))
           /\ \A k \in S : k.seq >= n =>
                 k \in RunFrom(S, n) \/ \A m \in RunFrom(S, n) : k.seq > m.seq
  <1>1. \A m \in S : m.seq \in Nat
    BY DEF Message
  <1>2. ASSUME NEW m \in RunFrom(S, n), NEW k \in S, k.seq >= n, k.seq <= m.seq
        PROVE  k \in RunFrom(S, n)
    <2>1. n..k.seq \subseteq n..m.seq
      BY <1>1, <1>2 DEF RunFrom
    <2> QED
      BY <1>2, <2>1 DEF RunFrom
  <1>3. ASSUME NEW m \in RunFrom(S, n), NEW s \in n..m.seq
        PROVE  s \in Seqs(RunFrom(S, n))
    <2>1. PICK k \in S : k.seq = s
      BY DEF RunFrom, Seqs
    <2>2. k.seq >= n /\ k.seq <= m.seq
      BY <1>1, <2>1 DEF RunFrom
    <2> QED
      BY <1>2, <2>1, <2>2 DEF Seqs
  <1>4. ASSUME NEW k \in S, k.seq >= n, k \notin RunFrom(S, n), NEW m \in RunFrom(S, n)
        PROVE  k.seq > m.seq
    <2>1. m.seq \in Nat /\ k.seq \in Nat
      BY <1>1 DEF RunFrom
    <2> QED
      BY <1>2, <1>4, <2>1
  <1> QED
    BY <1>3, <1>4 DEF RunFrom

\* What an arriving message is processed with is a batch.
LEMMA ReceiveNextBatch ==
    ASSUME IInv, NEW p \in Side, NEW m \in net[p], ReceiveNext(p, m)
    PROVE  /\ \E B, Q : Batch(p, B, Q) /\ Process(p, {m}, B, Q)
           /\ UNCHANGED <<outSeq, loadedOut, fill, skip, texts, restarts, lost>>
  <1> DEFINE Q == IF m.seq \in Seqs(unIn[p]) THEN unIn[p] ELSE unIn[p] \cup {m}
             B == RunFrom(Q, inSeq[p])
  <1>1. /\ m.seq = inSeq[p]
        /\ Process(p, {m}, B, Q \ B)
        /\ UNCHANGED <<outSeq, loadedOut, fill, skip, texts, restarts, lost>>
    BY DEF ReceiveNext
  <1>2. /\ m \in Message /\ inSeq[p] \in Nat
        /\ unIn[p] \in SUBSET Message /\ Q \in SUBSET Message
    BY DEF IInv, TypeOK
  <1>3. \A k \in Q : k.seq >= inSeq[p]
    BY <1>1, <1>2 DEF IInv, Loaded
  <1>4. /\ B \subseteq Q
        /\ \A k \in B : k.seq >= inSeq[p] /\ inSeq[p]..k.seq \subseteq Seqs(B)
        /\ \A k \in Q : k.seq >= inSeq[p] => k \in B \/ \A b \in B : k.seq > b.seq
    BY <1>2, RunFromRun
  <1>5. ASSUME ~loadedIn[p]
        PROVE  Q = {m} /\ B = {m}
    <2>1. Q = {m}
      BY <1>5 DEF IInv, Loaded, Seqs
    <2>2. inSeq[p]..m.seq \subseteq Seqs({m})
      BY <1>1, <1>2 DEF Seqs
    <2> QED
      BY <1>1, <1>2, <2>1, <2>2 DEF RunFrom
  <1>6. Batch(p, B, Q \ B)
    <2>1. B \subseteq net[p] \cup unIn[p] /\ Q \ B \subseteq unIn[p]
      <3>1. Q \subseteq unIn[p] \cup {m}
        OBVIOUS
      <3>2. m \in Q => m \in B
        <4>1. m.seq \in Nat
          BY <1>2 DEF Message
        <4>2. m \in Q => m.seq >= inSeq[p] /\ inSeq[p]..m.seq \subseteq Seqs(Q)
          BY <1>1, <4>1 DEF Seqs
        <4> HIDE DEF Q
        <4> QED
          BY <4>2 DEF RunFrom
      <3> HIDE DEF Q, B
      <3> QED
        BY <1>4, <3>1, <3>2
    <2>2. ~loadedIn[p] => Q \ B = {} /\ \A k \in B : k.seq = inSeq[p]
      BY <1>1, <1>5
    <2> HIDE DEF Q, B
    <2> QED
      BY <1>3, <1>4, <2>1, <2>2 DEF Batch
  <1> QED
    BY <1>1, <1>6

\* What the skip timer has processed is a batch.
LEMMA SkipHoleBatch ==
    ASSUME IInv, NEW p \in Side, NEW m \in unIn[p], IsFirst(m, unIn[p]), skip[p]
    PROVE  Batch(p, RunFrom(unIn[p], m.seq), unIn[p])
  <1> DEFINE B == RunFrom(unIn[p], m.seq)
  <1>1. /\ unIn[p] \in SUBSET Message /\ m.seq \in Nat /\ inSeq[p] \in Nat
        /\ m.seq >= inSeq[p] /\ loadedIn[p] /\ p \in RealTime
    BY DEF IInv, TypeOK, Loaded, SkipIsRealTime, Message
  <1>2. /\ B \subseteq unIn[p]
        /\ \A k \in B : k.seq >= m.seq
        /\ \A k \in unIn[p] : k.seq >= m.seq => k \in B \/ \A b \in B : k.seq > b.seq
    BY <1>1, RunFromRun
  <1> HIDE DEF B
  <1>3. \A k \in unIn[p] : k.seq \in Nat /\ k.seq >= m.seq
    BY <1>1 DEF IsFirst, Message
  <1>4. \A k \in B : k.seq >= inSeq[p]
    BY <1>1, <1>2, <1>3
  <1>5. \A k \in unIn[p] : k.seq \in Seqs(B) \/ \A b \in B : k.seq > b.seq
    BY <1>2, <1>3 DEF Seqs
  <1> QED
    BY <1>1, <1>2, <1>4, <1>5 DEF Batch, B

\* What p has parked after a step it had before, and what is still in memory has
\* not left the storage.
StillParked(p) ==
    /\ stIn'[p] \subseteq stIn[p]
    /\ unIn'[p] \subseteq stIn[p] \cup unIn[p]
    /\ unIn'[p] \cap stIn[p] \subseteq stIn'[p]

\* Processing a batch keeps what the end promises, and says what is left.
LEMMA ProcessKeeps ==
    ASSUME IInv, NEW p \in Side, NEW A, NEW B, NEW Q,
           Batch(p, B, Q), Process(p, A, B, Q),
           UNCHANGED <<outSeq, loadedOut, texts>>
    PROVE  /\ Retained' /\ Delivery'
           /\ \A r \in Side : Numbered(r)' /\ Loaded(r)' /\ GoneIsConsumed(r)'
           /\ \A r \in Side : Copies(r)' \subseteq Copies(r) /\ StillParked(r)
           /\ \E last \in B :
                /\ inSeq' = [inSeq EXCEPT ![p] = last.seq + 1]
                /\ inSeq[p] <= last.seq /\ last.seq < outSeq[Other(p)]
                /\ \A m \in B : m.seq <= last.seq
                /\ got' = [got EXCEPT ![p] = [s \in Numbers |->
                     IF \E m \in B : m.kind = "text" /\ m.seq = s THEN @[s] + 1 ELSE @[s]]]
  <1> DEFINE q    == Other(p)
             ids  == Targets(B)
             look == IF ids # {} /\ ~loadedIn[p] THEN Loadable(p) ELSE Q
             hit  == ids \cap {m.id : m \in {k \in look : k.kind = "text"}}
  <1>1. /\ q \in Side /\ p # q /\ Other(q) = p /\ Other(p) = q
        /\ \A r \in Side : r = p \/ r = q
    BY OtherSide, TwoSides
  <1>2. PICK last \in B :
           /\ IsLast(last, B)
           /\ inSeq' = [inSeq EXCEPT ![p] = NextExpected(last)]
           /\ loadedIn' = [loadedIn EXCEPT ![p] = @ \/ ids # {}]
           /\ unIn' = [unIn EXCEPT ![p] = {m \in Dropped(look, hit) : m.seq \notin Seqs(B)}]
           /\ stIn' = [stIn EXCEPT ![p] = Unconsumed(Dropped(@, hit), last.seq)]
           /\ net' = [net EXCEPT ![p] = @ \ A, ![q] = @ \cup Wanted(p, B)]
           /\ stOut' = [stOut EXCEPT ![p] = Unacknowledged(@, last.ack)]
           /\ unOut' = [unOut EXCEPT ![p] = Unacknowledged(@, last.ack)]
           /\ got' = [got EXCEPT ![p] = [s \in Numbers |->
                         IF \E m \in B : m.kind = "text" /\ m.seq = s THEN @[s] + 1 ELSE @[s]]]
           /\ gone' = [gone EXCEPT ![p] = @ \cup (ids \ hit)]
    BY DEF Process
  <1>3. /\ TypeOK /\ outSeq[p] \in Nat /\ outSeq[q] \in Nat
        /\ inSeq[p] \in Nat /\ inSeq[q] \in Nat
    BY <1>1 DEF IInv, TypeOK
  <1>4. /\ Numbered(p) /\ Numbered(q) /\ Loaded(p) /\ Loaded(q)
        /\ GoneIsConsumed(p) /\ GoneIsConsumed(q)
    BY <1>1 DEF IInv
  <1> USE DEF Batch
  <1>5. \A m \in B : m \in Message /\ Genuine(q, m)
    BY <1>1, <1>3, <1>4 DEF Numbered, Copies, TypeOK
  <1>6. look \subseteq Copies(q) /\ stIn[p] \subseteq Copies(q)
    BY <1>1 DEF Loadable, Copies
  <1>7. Copies(q) \subseteq Message /\ \A m \in Copies(q) : Genuine(q, m)
    BY <1>1, <1>3, <1>4 DEF Numbered, Copies, TypeOK
  <1>8. last \in Message /\ last.seq \in Nat /\ last.ack \in Nat /\ Genuine(q, last)
    BY <1>5 DEF Message
  <1>9. \A m \in B : m.seq <= last.seq
    BY <1>2 DEF IsLast
  <1>10. inSeq[p] <= last.seq /\ last.seq < outSeq[q] /\ last.ack <= inSeq[q]
    BY <1>8 DEF Genuine
  <1>11. ASSUME NEW i \in ids
         PROVE  i \in Nat /\ i < last.seq
    <2>1. PICK d \in B : d.kind = "delete" /\ i = d.id
      BY DEF Targets
    <2> QED
      BY <1>5, <1>8, <1>9, <2>1 DEF Genuine, Message
  <1>12. \A k \in look : k.seq \in Seqs(B) \/ k.seq > last.seq
    <2>1. \A k \in Loadable(p) : k.seq >= inSeq[p] + 1
      BY DEF Loadable
    <2>2. CASE ids # {} /\ ~loadedIn[p]
      <3>1. look = Loadable(p) /\ last.seq = inSeq[p]
        BY <2>2
      <3>2. Loadable(p) \subseteq Message
        BY <1>3 DEF Loadable, TypeOK
      <3> QED
        BY <1>3, <2>1, <3>1, <3>2 DEF Message
    <2>3. CASE ~(ids # {} /\ ~loadedIn[p])
      BY <1>2, <2>3
    <2> QED
      BY <2>2, <2>3
  <1>13. ASSUME NEW S \in SUBSET Copies(q), NEW m \in Dropped(S, hit), m.seq > last.seq
         PROVE  m \in S
    <2>1. S \in SUBSET Message
      BY <1>7
    <2>2. CASE \E k \in S : k.kind = "text" /\ k.id \in hit /\ m = Blank(k)
      <3>1. PICK k \in S : k.kind = "text" /\ k.id \in hit /\ m = Blank(k)
        BY <2>2
      <3>2. k \in Message /\ k.id = k.seq /\ k.id < last.seq
        BY <1>7, <1>11, <3>1 DEF Genuine
      <3>3. m.seq = k.seq
        BY <3>1, <3>2, BlankMessage
      <3> QED
        BY <1>8, <1>13, <3>2, <3>3 DEF Message
    <2> QED
      BY <2>1, <2>2, DroppedMessages
  <1>14. \A m \in unIn'[p] : m \in look /\ m.seq > last.seq
    <2> TAKE m \in unIn'[p]
    <2>1. m \in Dropped(look, hit) /\ m.seq \notin Seqs(B)
      BY <1>2, <1>3 DEF TypeOK
    <2>2. PICK k \in look : m.seq = k.seq
      <3>1. look \in SUBSET Message
        BY <1>6, <1>7
      <3> QED
        BY <2>1, <3>1, DroppedMessages, BlankMessage
    <2>3. m.seq > last.seq
      BY <1>12, <2>1, <2>2
    <2> QED
      BY <1>6, <1>13, <2>1, <2>3
  <1>15. stIn'[p] \subseteq stIn[p]
    <2>1. \A m \in stIn'[p] : m \in Dropped(stIn[p], hit) /\ m.seq > last.seq
      BY <1>2, <1>3 DEF TypeOK
    <2> QED
      BY <1>6, <1>13, <2>1
  <1>23. StillParked(p)
    <2>1. look \subseteq stIn[p] \cup unIn[p]
      BY DEF Loadable
    <2>2. ASSUME NEW k \in stIn[p], k.seq > last.seq
          PROVE  k \in stIn'[p]
      <3>1. k \in Message /\ Genuine(q, k) /\ k.seq \in Nat
        BY <1>6, <1>7 DEF Message
      <3>2. ~(k.kind = "text" /\ k.id \in hit)
        BY <1>8, <1>11, <2>2, <3>1 DEF Genuine
      <3>3. k \in Dropped(stIn[p], hit)
        BY <1>3, <3>2, DroppedMessages DEF TypeOK
      <3> QED
        BY <1>2, <1>3, <2>2, <3>3 DEF TypeOK
    <2> QED
      BY <1>14, <1>15, <2>1, <2>2 DEF StillParked
  <1> HIDE DEF q, ids, look, hit
  <1>16. /\ inSeq'[p] = last.seq + 1 /\ inSeq'[q] = inSeq[q]
         /\ unIn'[q] = unIn[q] /\ stIn'[q] = stIn[q] /\ loadedIn'[q] = loadedIn[q]
         /\ net'[p] = net[p] \ A /\ net'[q] = net[q] \cup Wanted(p, B)
         /\ stOut'[p] = {m \in stOut[p] : m.seq >= last.ack} /\ stOut'[q] = stOut[q]
         /\ unOut'[p] = {m \in unOut[p] : m.seq >= last.ack} /\ unOut'[q] = unOut[q]
         /\ got'[q] = got[q]
         /\ gone'[p] = gone[p] \cup (ids \ hit) /\ gone'[q] = gone[q]
    BY <1>1, <1>2, <1>3 DEF TypeOK
  <1>17. Numbered(q)'
    <2>1. Copies(q)' \subseteq Copies(q)
      BY <1>1, <1>6, <1>14, <1>15, <1>16 DEF Copies
    <2>2. \A m \in Copies(q) : Genuine(q, m)'
      BY <1>7, <1>16 DEF Genuine
    <2>3. inSeq'[p] <= outSeq'[q]
      BY <1>3, <1>8, <1>10, <1>16
    <2> QED
      BY <1>1, <1>4, <2>1, <2>2, <2>3 DEF Numbered
  <1>18. Numbered(p)'
    <2>1. Copies(p)' \subseteq Copies(p)
      BY <1>1, <1>16, WantedStored DEF Copies
    <2>2. ASSUME NEW m \in Copies(p)
          PROVE  Genuine(p, m)'
      <3>1. m \in Message /\ Genuine(p, m)
        BY <1>1, <1>3, <1>4 DEF Numbered, Copies, TypeOK
      <3> QED
        BY <1>3, <1>8, <1>10, <1>16, <3>1 DEF Genuine, Message
    <2> QED
      BY <1>1, <1>4, <1>16, <2>1, <2>2 DEF Numbered
  <1>19. Loaded(p)' /\ Loaded(q)'
    <2>1. \A m \in unIn'[p] : m.seq >= inSeq'[p]
      <3> TAKE m \in unIn'[p]
      <3>1. m \in Message /\ m.seq > last.seq
        BY <1>6, <1>7, <1>14
      <3> QED
        BY <1>8, <1>16, <3>1 DEF Message
    <2>2. ~loadedIn'[p] => unIn'[p] = {}
      <3>1. ~loadedIn'[p] => ~loadedIn[p] /\ ids = {}
        BY <1>2, <1>3 DEF TypeOK
      <3>2. ~loadedIn[p] /\ ids = {} => look = {}
        BY DEF look
      <3> QED
        BY <1>14, <3>1, <3>2
    <2> QED
      BY <1>4, <1>16, <2>1, <2>2 DEF Loaded
  <1>20. Retained'
    <2>1. /\ inSeq[q]..outSeq[p] - 1 \subseteq Seqs(stOut[p])
          /\ inSeq[p]..outSeq[q] - 1 \subseteq Seqs(stOut[q])
      BY <1>1 DEF IInv, Retained
    <2>2. inSeq'[q]..outSeq'[p] - 1 \subseteq Seqs(stOut'[p])
      <3> SUFFICES ASSUME NEW s \in inSeq[q]..outSeq[p] - 1
                   PROVE  s \in Seqs(stOut'[p])
        BY <1>16
      <3>1. PICK m \in stOut[p] : s = m.seq
        BY <2>1 DEF Seqs
      <3>2. m \in stOut'[p]
        BY <1>3, <1>8, <1>10, <1>16, <3>1
      <3> QED
        BY <3>1, <3>2 DEF Seqs
    <2>3. inSeq'[p]..outSeq'[q] - 1 \subseteq Seqs(stOut'[q])
      BY <1>3, <1>8, <1>10, <1>16, <2>1
    <2> QED
      BY <1>1, <2>2, <2>3 DEF Retained, Seqs
  <1>21. Delivery'
    <2>1. ASSUME NEW s \in Numbers
          PROVE  /\ got'[p][s] <= 1
                 /\ s >= inSeq'[p] => got'[p][s] = 0
                 /\ s < inSeq'[p] /\ s \in texts'[q] /\ p \notin RealTime => got'[p][s] = 1
      <3>1. /\ got[p][s] \in Nat /\ got[p][s] <= 1
            /\ s >= inSeq[p] => got[p][s] = 0
            /\ s < inSeq[p] /\ s \in texts[q] /\ p \notin RealTime => got[p][s] = 1
        BY <1>1, <1>3 DEF IInv, Delivery, TypeOK
      <3>2. got'[p][s] = (IF \E m \in B : m.kind = "text" /\ m.seq = s
                            THEN got[p][s] + 1 ELSE got[p][s])
        BY <1>2, <1>3 DEF TypeOK
      <3>3. CASE \E m \in B : m.kind = "text" /\ m.seq = s
        <4>1. s >= inSeq[p] /\ s <= last.seq /\ s \in Nat
          BY <1>5, <1>9, <3>3 DEF Message
        <4> QED
          BY <1>3, <1>8, <1>16, <3>1, <3>2, <3>3, <4>1
      <3>4. CASE ~\E m \in B : m.kind = "text" /\ m.seq = s
        <4>1. s \in Int
          BY ConstantsAssumption DEF Numbers
        <4>2. s >= inSeq'[p] => s >= inSeq[p]
          BY <1>3, <1>8, <1>10, <1>16, <4>1
        <4>3. ASSUME s >= inSeq[p], s < inSeq'[p], p \notin RealTime
              PROVE  s \notin texts[q]
          <5>1. s \in inSeq[p]..last.seq
            BY <1>3, <1>8, <1>16, <4>1, <4>3
          <5>2. PICK m \in B : m.seq = s
            BY <4>3, <5>1 DEF Seqs
          <5> QED
            BY <1>5, <3>4, <5>2 DEF Genuine
        <4> QED
          BY <1>3, <3>1, <3>2, <3>4, <4>1, <4>2, <4>3
      <3> QED
        BY <3>3, <3>4
    <2>2. ASSUME NEW s \in Numbers
          PROVE  /\ got'[q][s] <= 1
                 /\ s >= inSeq'[q] => got'[q][s] = 0
                 /\ s < inSeq'[q] /\ s \in texts'[p] /\ q \notin RealTime => got'[q][s] = 1
      BY <1>1, <1>16 DEF IInv, Delivery
    <2> QED
      BY <1>1, <2>1, <2>2 DEF Delivery, Numbers
  <1>22. GoneIsConsumed(p)' /\ GoneIsConsumed(q)'
    <2>1. ASSUME NEW i \in gone[p] \cup ids
          PROVE  i < last.seq + 1
      <3>1. CASE i \in gone[p]
        <4>1. i \in Nat /\ i < inSeq[p]
          BY <1>3, <1>4, <3>1 DEF GoneIsConsumed, TypeOK
        <4> QED
          BY <1>3, <1>8, <1>10, <4>1
      <3>2. CASE i \in ids
        BY <1>8, <1>11, <3>2
      <3> QED
        BY <3>1, <3>2
    <2> QED
      BY <1>4, <1>16, <2>1 DEF GoneIsConsumed
  <1>24. Copies(p)' \subseteq Copies(p) /\ Copies(q)' \subseteq Copies(q)
    BY <1>1, <1>6, <1>14, <1>15, <1>16, WantedStored DEF Copies
  <1>25. StillParked(q)
    BY <1>16 DEF StillParked
  <1> QED
    BY <1>1, <1>2, <1>9, <1>10, <1>17, <1>18, <1>19, <1>20, <1>21, <1>22, <1>23, <1>24, <1>25

-----------------------------------------------------------------------------
(* The inductive invariant                                                 *)

\* The state at the beginning.
LEMMA InitIInv == Init => IInv
  <1> SUFFICES ASSUME Init
               PROVE  IInv
    OBVIOUS
  <1>1. TypeOK
    BY DEF Init, TypeOK, Numbers
  <1>2. Retained /\ Delivery
    BY OtherSide DEF Init, Retained, Delivery, Numbers
  <1>3. ASSUME NEW p \in Side
        PROVE  Numbered(p) /\ Loaded(p) /\ SkipIsRealTime(p) /\ GoneIsConsumed(p)
    BY OtherSide, ConstantsAssumption
    DEF Init, Numbered, Copies, Loaded, SkipIsRealTime, GoneIsConsumed
  <1> QED
    BY <1>1, <1>2, <1>3 DEF IInv

\* What a step does to the numbering: it gives a number, consumes some, or only
\* moves copies.
Sends(p) ==
    \E m \in Message :
        /\ Send(p, m)
        /\ m.seq = outSeq[p] /\ m.ack = inSeq[p]
        /\ m.kind = "text" => m.id = m.seq
        /\ m.kind = "delete" => m.id < m.seq
        /\ UNCHANGED <<unIn, loadedIn, got, gone>>

\* A batch of p is processed.
Consumes(p) ==
    /\ \E A, B, Q : Batch(p, B, Q) /\ Process(p, A, B, Q)
    /\ UNCHANGED <<outSeq, loadedOut, texts>>

\* Copies are moved, stored or dropped; no number is given and none consumed.
Moves ==
    /\ UNCHANGED <<outSeq, inSeq, texts, stOut, got, gone>>
    /\ \A r \in Side : Numbered(r)' /\ Loaded(r)'

\* The steps, one by one: a text is numbered,
LEMMA TextSends ==
    ASSUME IInv, NEW p \in Side, SendText(p)
    PROVE  Sends(p)
  <1> DEFINE m == NewMessage(p, "text", outSeq[p], 0, 0)
  <1>1. /\ m \in Message /\ m.seq = outSeq[p] /\ m.ack = inSeq[p]
        /\ m.kind = "text" /\ m.id = outSeq[p]
    BY DEF NewMessage, Message, Kinds, IInv, TypeOK
  <1> HIDE DEF m
  <1> QED
    BY <1>1 DEF SendText, Sends, m

\* a delete is numbered,
LEMMA DeleteSends ==
    ASSUME IInv, NEW p \in Side, SendDelete(p)
    PROVE  Sends(p)
  <1>1. PICK id \in texts[p] : Send(p, NewMessage(p, "delete", id, 0, 0))
    BY DEF SendDelete
  <1> DEFINE m == NewMessage(p, "delete", id, 0, 0)
  <1>2. id \in Nat /\ id < outSeq[p]
    BY DEF IInv, TypeOK, Numbered
  <1>3. /\ m \in Message /\ m.seq = outSeq[p] /\ m.ack = inSeq[p]
        /\ m.kind = "delete" /\ m.id = id
    BY <1>2 DEF NewMessage, Message, Kinds, IInv, TypeOK
  <1>4. Send(p, m)
    BY <1>1
  <1> HIDE DEF m
  <1> QED
    BY <1>2, <1>3, <1>4 DEF SendDelete, Sends

\* A text sent again is found under the number it has: send_message() never
\* gives it another one.
LEMMA SendAgainMoves ==
    ASSUME IInv, NEW p \in Side, SendAgain(p)
    PROVE  Moves
  <1>1. PICK t \in {m \in stOut[p] : m.kind = "text"} :
           \/ /\ t \in OutgoingLoaded(p)
              /\ unOut' = [unOut EXCEPT ![p] = OutgoingLoaded(p)]
              /\ loadedOut' = [loadedOut EXCEPT ![p] = TRUE]
              /\ net' = [net EXCEPT ![Other(p)] = @ \cup Within(stOut[p], t.seq, t.seq)]
              /\ UNCHANGED <<persisted, unIn, loadedIn, fill, skip, ghosts>>
           \/ t \notin OutgoingLoaded(p)
    BY DEF SendAgain
  <1>2. OutgoingLoaded(p) = stOut[p]
    BY OutgoingIsStored
  <1>3. /\ unOut' = [unOut EXCEPT ![p] = stOut[p]]
        /\ loadedOut' = [loadedOut EXCEPT ![p] = TRUE]
        /\ net' = [net EXCEPT ![Other(p)] = @ \cup Within(stOut[p], t.seq, t.seq)]
        /\ UNCHANGED <<outSeq, inSeq, stOut, stIn, unIn, loadedIn, texts, got, gone>>
    BY <1>1, <1>2 DEF persisted, ghosts
  <1>4. Within(stOut[p], t.seq, t.seq) \subseteq stOut[p]
    BY DEF Within
  <1>5. ASSUME NEW r \in Side
        PROVE  Numbered(r)'
    <2>1. Copies(r)' \subseteq Copies(r)
      BY <1>3, <1>4, OtherSide, TwoSides DEF Copies, IInv, TypeOK
    <2> QED
      BY <1>3, <2>1, CopiesKept
  <1>6. ASSUME NEW r \in Side
        PROVE  Loaded(r)'
    BY <1>3 DEF IInv, Loaded, TypeOK
  <1> QED
    BY <1>3, <1>5, <1>6 DEF Moves

\* a copy that is late is dropped,
LEMMA StaleMoves ==
    ASSUME IInv, NEW p \in Side, NEW m \in net[p], ReceiveStale(p, m)
    PROVE  Moves
  <1>1. /\ net' = [net EXCEPT ![p] = @ \ {m}]
        /\ UNCHANGED <<outSeq, inSeq, stOut, stIn, unOut, loadedOut, unIn, loadedIn,
                       texts, got, gone>>
    BY DEF ReceiveStale, persisted, volatile, ghosts
  <1>2. ASSUME NEW r \in Side
        PROVE  Numbered(r)'
    <2>1. Copies(r)' \subseteq Copies(r)
      BY <1>1, OtherSide DEF Copies, IInv, TypeOK
    <2> QED
      BY <1>1, <2>1, CopiesKept
  <1>3. ASSUME NEW r \in Side
        PROVE  Loaded(r)'
    BY <1>1 DEF IInv, Loaded
  <1> QED
    BY <1>1, <1>2, <1>3 DEF Moves

\* a copy that is early is parked,
LEMMA AheadMoves ==
    ASSUME IInv, NEW p \in Side, NEW m \in net[p], ReceiveAhead(p, m)
    PROVE  Moves
  <1> DEFINE q == Other(p)
             b == IF m.kind = "resend" THEN Blank(m) ELSE m
             old == IF loadedIn[p] THEN unIn[p] ELSE Loadable(p)
  <1>1. /\ q \in Side /\ p # q /\ Other(q) = p /\ Other(p) = q
        /\ \A r \in Side : r = p \/ r = q
    BY OtherSide, TwoSides
  <1>2. /\ m.seq > inSeq[p]
        /\ stIn' = [stIn EXCEPT ![p] = {k \in @ : k.seq # b.seq} \cup {b}]
        /\ unIn' = [unIn EXCEPT ![p] = IF b.seq \in Seqs(old) THEN old ELSE old \cup {b}]
        /\ loadedIn' = [loadedIn EXCEPT ![p] = TRUE]
        /\ net' = [net EXCEPT ![p] = @ \ {m}, ![q] = @ \cup Wanted(p, {m})]
        /\ UNCHANGED <<outSeq, inSeq, stOut, unOut, loadedOut, texts, got, gone>>
    BY DEF ReceiveAhead, Park, ghosts
  <1>3. /\ TypeOK /\ inSeq[p] \in Nat /\ m \in Message
        /\ Loaded(p) /\ Loaded(q) /\ Genuine(q, m)
    BY <1>1 DEF IInv, TypeOK, Numbered, Copies
  <1>4. Genuine(q, b) /\ b.seq = m.seq
    BY <1>3, BlankMessage DEF Genuine
  <1>5. old \subseteq stIn[p] \cup unIn[p] /\ \A k \in old : k.seq >= inSeq[p]
    <2>1. \A k \in Loadable(p) : k \in stIn[p] /\ k.seq >= inSeq[p]
      <3> TAKE k \in Loadable(p)
      <3>1. k \in stIn[p] /\ k.seq >= inSeq[p] + 1 /\ k.seq \in Nat
        BY <1>3 DEF Loadable, TypeOK, Message
      <3> QED
        BY <1>3, <3>1
    <2> QED
      BY <1>3, <2>1 DEF Loaded
  <1> HIDE DEF q, b, old
  <1>6. /\ stIn'[p] \subseteq stIn[p] \cup {b} /\ stIn'[q] = stIn[q]
        /\ unIn'[p] \subseteq old \cup {b} /\ unIn'[q] = unIn[q]
        /\ loadedIn'[p] /\ loadedIn'[q] = loadedIn[q]
        /\ net'[p] \subseteq net[p] /\ net'[q] = net[q] \cup Wanted(p, {m})
    BY <1>1, <1>2, <1>3 DEF TypeOK
  <1>7. Numbered(p)'
    <2>1. Copies(p)' \subseteq Copies(p)
      BY <1>1, <1>2, <1>6, WantedStored DEF Copies
    <2> QED
      BY <1>2, <2>1, CopiesKept
  <1>8. Numbered(q)'
    <2>1. Copies(q)' \subseteq Copies(q) \cup {b}
      BY <1>1, <1>2, <1>5, <1>6 DEF Copies
    <2> QED
      BY <1>1, <1>2, <1>4, <2>1, CopiesKept
  <1>9. Loaded(p)'
    <2>1. \A k \in unIn'[p] : k.seq >= inSeq'[p]
      BY <1>2, <1>3, <1>4, <1>5, <1>6 DEF Message
    <2> QED
      BY <1>2, <1>3, <1>6, <2>1 DEF Loaded
  <1>10. Loaded(q)'
    BY <1>2, <1>3, <1>6 DEF Loaded
  <1> QED
    BY <1>1, <1>2, <1>7, <1>8, <1>9, <1>10 DEF Moves

\* A restart, and a failed assertion, empty what is in memory.
LEMMA ForgetVolatileMoves ==
    ASSUME IInv, NEW p \in Side, ForgetVolatile(p),
           UNCHANGED <<persisted, net, texts, got, gone>>
    PROVE  Moves
  <1>1. ASSUME NEW r \in Side
        PROVE  Numbered(r)'
    <2>1. Copies(r)' \subseteq Copies(r)
      BY OtherSide DEF Copies, ForgetVolatile, persisted, IInv, TypeOK
    <2> QED
      BY <2>1, CopiesKept DEF persisted
  <1>2. ASSUME NEW r \in Side
        PROVE  Loaded(r)'
    BY DEF IInv, Loaded, ForgetVolatile, persisted, TypeOK
  <1> QED
    BY <1>1, <1>2 DEF Moves, persisted

\* a hole is asked for, or the timer finds none,
LEMMA FillHoleStep ==
    ASSUME IInv, NEW p \in Side, FillHole(p)
    PROVE  Moves \/ Sends(p)
  <1>1. CASE /\ fill' = [fill EXCEPT ![p] = FALSE]
             /\ UNCHANGED <<persisted, unOut, loadedOut, unIn, loadedIn, skip, net, ghosts>>
    <2>1. ASSUME NEW r \in Side
          PROVE  Numbered(r)' /\ Loaded(r)'
      BY <1>1 DEF IInv, Numbered, Copies, Genuine, Loaded, persisted, ghosts
    <2> QED
      BY <1>1, <2>1 DEF Moves, persisted, ghosts
  <1>2. CASE /\ HoleIsAhead(p)
             /\ \E m \in unIn[p] :
                   /\ IsFirst(m, unIn[p])
                   /\ Send(p, NewMessage(p, "resend", 0, inSeq[p], m.seq - 1))
             /\ UNCHANGED <<unIn, loadedIn, got, gone, restarts>>
    <2>1. PICK m \in unIn[p] :
             /\ m.seq > inSeq[p]
             /\ Send(p, NewMessage(p, "resend", 0, inSeq[p], m.seq - 1))
      BY <1>2 DEF HoleIsAhead
    <2> DEFINE r == NewMessage(p, "resend", 0, inSeq[p], m.seq - 1)
    <2>2. inSeq[p] \in Nat /\ m.seq - 1 \in Nat
      BY <2>1 DEF IInv, TypeOK, Message
    <2>3. r \in Message /\ r.seq = outSeq[p] /\ r.ack = inSeq[p] /\ r.kind = "resend"
      BY <2>2 DEF NewMessage, Message, Kinds, IInv, TypeOK
    <2>4. Send(p, r)
      BY <2>1
    <2> HIDE DEF r
    <2> QED
      BY <1>2, <2>3, <2>4 DEF Sends
  <1>3. CASE ForgetVolatile(p) /\ UNCHANGED <<persisted, net, ghosts>>
    BY <1>3, ForgetVolatileMoves DEF ghosts
  <1> QED
    BY <1>1, <1>2, <1>3 DEF FillHole

\* and a hole is given up.
LEMMA SkipHoleStep ==
    ASSUME IInv, NEW p \in Side, SkipHole(p)
    PROVE  Moves \/ Consumes(p)
  <1>1. skip[p] /\ UNCHANGED <<outSeq, loadedOut, texts, restarts, lost>>
    BY DEF SkipHole
  <1>2. CASE UNCHANGED <<inSeq, loadedIn, unIn, stIn, net, stOut, unOut, got, gone>>
    <2>1. ASSUME NEW r \in Side
          PROVE  Numbered(r)' /\ Loaded(r)'
      BY <1>1, <1>2 DEF IInv, Numbered, Copies, Genuine, Loaded
    <2> QED
      BY <1>1, <1>2, <2>1 DEF Moves
  <1>3. CASE \E m \in unIn[p] :
                /\ IsFirst(m, unIn[p])
                /\ Process(p, {}, RunFrom(unIn[p], m.seq), unIn[p])
    BY <1>1, <1>3, SkipHoleBatch DEF Consumes
  <1> QED
    BY <1>2, <1>3 DEF SkipHole

\* Every step is of one of the three kinds.
LEMMA StepKinds ==
    ASSUME IInv, [Next]_vars
    PROVE  Moves \/ \E p \in Side : Sends(p) \/ Consumes(p)
  <1>1. ASSUME NEW p \in Side, SendText(p) \/ SendDelete(p)
        PROVE  Sends(p)
    BY <1>1, TextSends, DeleteSends
  <1>2. ASSUME NEW p \in Side, SendAgain(p)
        PROVE  Moves
    BY <1>2, SendAgainMoves
  <1>3. ASSUME NEW p \in Side, NEW m \in net[p], Receive(p, m)
        PROVE  Moves \/ Consumes(p)
    <2>1. CASE ReceiveStale(p, m)
      BY <2>1, StaleMoves
    <2>2. CASE ReceiveAhead(p, m)
      BY <2>2, AheadMoves
    <2>3. CASE ReceiveNext(p, m)
      BY <2>3, ReceiveNextBatch DEF Consumes
    <2> QED
      BY <1>3, <2>1, <2>2, <2>3 DEF Receive
  <1>4. ASSUME NEW p \in Side, FillHole(p) \/ SkipHole(p)
        PROVE  Moves \/ Sends(p) \/ Consumes(p)
    BY <1>4, FillHoleStep, SkipHoleStep
  <1>5. ASSUME NEW p \in Side, Restart(p)
        PROVE  Moves
    BY <1>5, ForgetVolatileMoves DEF Restart
  <1>6. CASE UNCHANGED vars
    <2>1. ASSUME NEW r \in Side
          PROVE  Numbered(r)' /\ Loaded(r)'
      BY <1>6 DEF vars, IInv, Numbered, Copies, Genuine, Loaded
    <2> QED
      BY <1>6, <2>1 DEF vars, Moves
  <1> QED
    BY <1>1, <1>2, <1>3, <1>4, <1>5, <1>6 DEF Next

\* The skip-hole timer is only ever started in real time.
LEMMA SkipStaysRealTime ==
    ASSUME IInv, [Next]_vars
    PROVE  \A r \in Side : SkipIsRealTime(r)'
  <1> SUFFICES ASSUME NEW r \in Side
               PROVE  SkipIsRealTime(r)'
    OBVIOUS
  <1>1. SkipIsRealTime(r) /\ skip \in [Side -> BOOLEAN]
    BY DEF IInv, TypeOK
  <1>2. ASSUME NEW p \in Side, SendText(p) \/ SendDelete(p) \/ SendAgain(p)
        PROVE  skip' = skip
    BY <1>2 DEF SendText, SendDelete, SendAgain
  <1>3. ASSUME NEW p \in Side, NEW m \in net[p], Receive(p, m)
        PROVE  skip' = skip
    BY <1>3 DEF Receive, ReceiveStale, ReceiveAhead, ReceiveNext, volatile
  <1>4. ASSUME NEW p \in Side, FillHole(p)
        PROVE  SkipIsRealTime(r)'
    BY <1>1, <1>4 DEF FillHole, ForgetVolatile, SkipIsRealTime
  <1>5. ASSUME NEW p \in Side, SkipHole(p) \/ Restart(p)
        PROVE  SkipIsRealTime(r)'
    BY <1>1, <1>5 DEF SkipHole, Restart, ForgetVolatile, SkipIsRealTime
  <1>6. CASE UNCHANGED vars
    BY <1>1, <1>6 DEF vars, SkipIsRealTime
  <1>7. CASE skip' = skip
    BY <1>1, <1>7 DEF SkipIsRealTime
  <1> QED
    BY <1>2, <1>3, <1>4, <1>5, <1>6, <1>7 DEF Next

\* Every step keeps the invariant.
LEMMA StepIInv == IInv /\ [Next]_vars => IInv'
  <1> SUFFICES ASSUME IInv, [Next]_vars
               PROVE  IInv'
    OBVIOUS
  <1>1. TypeOK'
    BY StepTypeOK DEF IInv
  <1>2. \A r \in Side : SkipIsRealTime(r)'
    BY SkipStaysRealTime
  <1>3. CASE Moves
    <2>1. Retained' /\ Delivery'
      BY <1>3, PromisesKept DEF Moves
    <2>2. \A r \in Side : GoneIsConsumed(r)'
      BY <1>3 DEF Moves, IInv, GoneIsConsumed
    <2> QED
      BY <1>1, <1>2, <1>3, <2>1, <2>2 DEF Moves, IInv
  <1>4. ASSUME NEW p \in Side, Sends(p)
        PROVE  IInv'
    BY <1>1, <1>2, <1>4, SendKeeps DEF Sends, IInv
  <1>5. ASSUME NEW p \in Side, Consumes(p)
        PROVE  IInv'
    BY <1>1, <1>2, <1>5, ProcessKeeps DEF Consumes, IInv
  <1> QED
    BY <1>3, <1>4, <1>5, StepKinds

\* The invariant is inductive: it holds in every reachable state.
THEOREM Inductive == Spec => []IInv
  BY InitIInv, StepIInv, PTL DEF Spec

\* No message leaves the sender's storage before the receiver has processed it
\* (process_messages() trims the storage by the peer's in_seq_no).
THEOREM NothingTrimmedEarly == Spec => []Retained
  <1>1. IInv => Retained
    BY DEF IInv
  <1> QED
    BY <1>1, Inductive, PTL

\* A text that is sent again while unacknowledged keeps its number
\* (send_message() finds it among what it has loaded).
THEOREM OneNumber == Spec => []OneNumberPerText
  <1>1. IInv => OneNumberPerText
    BY DEF IInv, Numbered, Copies, Genuine, OneNumberPerText
  <1> QED
    BY <1>1, Inductive, PTL

\* Every text is given to the application once, when in_seq_no passes its
\* number; at most once where holes are skipped.
THEOREM DeliveredOnce == Spec => []Delivery
  <1>1. IInv => Delivery
    BY DEF IInv
  <1> QED
    BY <1>1, Inductive, PTL

\* No text is given to the application after it was told the text is deleted.
THEOREM DeletedStaysDeleted == Spec => NoDeliveryAfterDelete
  <1> DEFINE A == \A p \in Side : \A s \in gone[p] : got'[p][s] = got[p][s]
  <1>1. ASSUME IInv, [Next]_vars
        PROVE  A
    <2>1. CASE Moves
      BY <2>1 DEF Moves
    <2>2. ASSUME NEW p \in Side, Sends(p)
          PROVE  A
      BY <2>2 DEF Sends
    <2>3. ASSUME NEW p \in Side, Consumes(p)
          PROVE  A
      <3>1. PICK B, Q : Batch(p, B, Q) /\ \E C : Process(p, C, B, Q)
        BY <2>3 DEF Consumes
      <3>2. TypeOK /\ Numbered(Other(p)) /\ GoneIsConsumed(p)
        BY <1>1, OtherSide DEF IInv
      <3>3. \A m \in B : m \in Message /\ m.seq >= inSeq[p]
        BY <3>1, <3>2 DEF Batch, TypeOK
      <3>4. got' = [got EXCEPT ![p] = [s \in Numbers |->
                IF \E m \in B : m.kind = "text" /\ m.seq = s THEN @[s] + 1 ELSE @[s]]]
        BY <3>1 DEF Process
      <3>5. ASSUME NEW s \in gone[p]
            PROVE  got'[p][s] = got[p][s]
        <4>1. s \in Nat /\ inSeq[p] \in Nat
          BY <3>2 DEF TypeOK
        <4>2. s < inSeq[p]
          BY <3>2 DEF GoneIsConsumed
        <4>3. ~\E m \in B : m.seq = s
          BY <3>3, <4>1, <4>2 DEF Message
        <4>4. s \in Numbers
          <5>1. /\ outSeq[Other(p)] \in Nat /\ MaxSeq[Other(p)] \in Nat /\ Other(p) \in Side
                /\ inSeq[p] <= outSeq[Other(p)] /\ outSeq[Other(p)] <= MaxSeq[Other(p)]
            BY <3>2, OtherSide, ConstantsAssumption DEF TypeOK, Numbered
          <5>2. s \in 0..MaxSeq[Other(p)] - 1
            BY <4>1, <4>2, <5>1
          <5> QED
            BY <5>1, <5>2 DEF Numbers
        <4> QED
          BY <3>2, <3>4, <4>3, <4>4 DEF TypeOK
      <3>6. ASSUME NEW r \in Side, r # p
            PROVE  got'[r] = got[r]
        BY <3>2, <3>4, <3>6 DEF TypeOK
      <3> QED
        BY <3>5, <3>6
    <2> QED
      BY <1>1, <2>1, <2>2, <2>3, StepKinds
  <1>2. A => [A]_<<gone, got>>
    OBVIOUS
  <1> QED
    BY <1>1, Inductive, PTL DEF Spec, NoDeliveryAfterDelete

-----------------------------------------------------------------------------
(* The chat implements SecretChatOrder                                     *)

\* To give a number is a step of the abstract specification,
LEMMA SendsIsNumber ==
    ASSUME IInv, NEW p \in Side, Sends(p)
    PROVE  Order!Number(p)
  <1>1. PICK m \in Message : Send(p, m) /\ m.seq = outSeq[p] /\ UNCHANGED got
    BY DEF Sends
  <1>2. texts' = texts \/ texts' = [texts EXCEPT ![p] = @ \cup {outSeq[p]}]
    BY <1>1 DEF Send, IInv, TypeOK
  <1> QED
    BY <1>1, <1>2 DEF Send, Order!Number

\* and so is to process a batch, of whatever size.
LEMMA ConsumesIsConsume ==
    ASSUME IInv, NEW p \in Side, Consumes(p)
    PROVE  Order!Consume(p)
  <1> DEFINE q == Other(p)
  <1>1. PICK A, B, Q : Batch(p, B, Q) /\ Process(p, A, B, Q)
    BY DEF Consumes
  <1>2. UNCHANGED <<outSeq, loadedOut, texts>>
    BY DEF Consumes
  <1>3. PICK last \in B :
           /\ inSeq' = [inSeq EXCEPT ![p] = last.seq + 1]
           /\ inSeq[p] <= last.seq /\ last.seq < outSeq[q]
           /\ \A m \in B : m.seq <= last.seq
           /\ got' = [got EXCEPT ![p] = [s \in Numbers |->
                IF \E m \in B : m.kind = "text" /\ m.seq = s THEN @[s] + 1 ELSE @[s]]]
    BY <1>1, <1>2, ProcessKeeps
  <1>4. /\ TypeOK /\ q \in Side /\ inSeq[p] \in Nat /\ outSeq[q] \in Nat
        /\ MaxSeq[q] \in Nat /\ outSeq[q] <= MaxSeq[q]
    BY OtherSide, ConstantsAssumption DEF IInv, Numbered, TypeOK
  <1>5. \A m \in B : m \in Message /\ m.seq >= inSeq[p] /\ (m.kind = "text" <=> m.seq \in texts[q])
    BY <1>1, <1>4, OtherSide DEF Batch, IInv, Numbered, Copies, Genuine, TypeOK
  <1>6. last.seq \in Nat
    BY <1>5 DEF Message
  <1> DEFINE n == last.seq + 1
             D == {m.seq : m \in {k \in B : k.kind = "text"}}
             T == {s \in inSeq[p]..n - 1 : s \in texts[q]}
  <1>7. D \subseteq T
    BY <1>3, <1>4, <1>5, <1>6 DEF Message
  <1>8. p \notin RealTime => T \subseteq D
    <2> SUFFICES ASSUME p \notin RealTime, NEW s \in T
                 PROVE  s \in D
      OBVIOUS
    <2>1. s \in inSeq[p]..last.seq
      BY <1>4, <1>6
    <2>2. PICK m \in B : m.seq = s
      BY <1>1, <2>1 DEF Batch, Seqs
    <2> QED
      BY <1>5, <2>2
  <1>9. n \in inSeq[p] + 1..outSeq[q]
    BY <1>3, <1>4, <1>6
  <1>10. got' = [got EXCEPT ![p] = [s \in Numbers |-> IF s \in D THEN @[s] + 1 ELSE @[s]]]
    <2>1. \A s : s \in D <=> \E m \in B : m.kind = "text" /\ m.seq = s
      OBVIOUS
    <2> HIDE DEF D
    <2> QED
      BY <1>3, <2>1
  <1>11. inSeq' = [inSeq EXCEPT ![p] = n]
    BY <1>3
  <1>12. Order!Other(p) = q /\ Order!Numbers = Numbers
    BY DEF Order!Other, Other, Order!Numbers, Numbers, Order!Side, Side
  <1> HIDE DEF q, n, D
  <1> QED
    BY <1>2, <1>7, <1>8, <1>9, <1>10, <1>11, <1>12 DEF Order!Consume

\* Holes, resends, duplicates, failing queries and restarts are invisible in
\* the numbering and in what the application is given.
THEOREM Refinement == Spec => OrderSpec
  <1>1. Init => Order!Init
    BY DEF Init, Order!Init, Order!Side, Side, Order!Numbers, Numbers
  <1>2. IInv /\ [Next]_vars => [Order!Next]_Order!vars
    <2> SUFFICES ASSUME IInv, [Next]_vars
                 PROVE  [Order!Next]_Order!vars
      OBVIOUS
    <2>1. CASE Moves
      BY <2>1 DEF Moves, Order!vars
    <2>2. ASSUME NEW p \in Side, Sends(p)
          PROVE  Order!Next
      BY <2>2, SendsIsNumber DEF Order!Next, Order!Side, Side
    <2>3. ASSUME NEW p \in Side, Consumes(p)
          PROVE  Order!Next
      BY <2>3, ConsumesIsConsume DEF Order!Next, Order!Side, Side
    <2> QED
      BY <2>1, <2>2, <2>3, StepKinds
  <1> QED
    BY <1>1, <1>2, Inductive, PTL DEF Spec, OrderSpec, Order!Spec
-----------------------------------------------------------------------------
(* What is parked is stored                                                *)

\* A message as it is parked: of a resend action nothing but the number is left.
AsParked(m) == IF m.kind = "resend" THEN Blank(m) ELSE m

\* Under one number of p there is one message, wherever its copies are.
OneContent(p) == \A m, k \in Copies(p) : m.seq = k.seq => AsParked(m) = AsParked(k)

\* The invariant of parking: a copy that comes again replaces what is stored, but
\* not what is in memory, so that both have to be the same.
Parked(p) ==
    /\ unIn[p] \subseteq stIn[p]
    /\ \A m \in stIn[p] : m.kind # "resend"
    /\ OneContent(p)

\* The invariant of parking, of both ends.
PInv == \A p \in Side : Parked(p)

\* At the beginning nothing is parked.
LEMMA InitParked == Init => PInv
  BY OtherSide DEF Init, PInv, Parked, OneContent, Copies

\* A step after which there are no new copies, and nothing new is parked.
LEMMA StillParkedKeeps ==
    ASSUME PInv, \A r \in Side : Copies(r)' \subseteq Copies(r) /\ StillParked(r)
    PROVE  PInv'
  <1> SUFFICES ASSUME NEW r \in Side
               PROVE  Parked(r)'
    BY DEF PInv
  <1>1. Parked(r) /\ Copies(r)' \subseteq Copies(r) /\ StillParked(r)
    BY DEF PInv
  <1>2. unIn'[r] \subseteq stIn'[r]
    BY <1>1 DEF Parked, StillParked
  <1>3. \A m \in stIn'[r] : m.kind # "resend"
    BY <1>1 DEF Parked, StillParked
  <1>4. OneContent(r)'
    BY <1>1 DEF Parked, OneContent, AsParked, Blank
  <1> QED
    BY <1>2, <1>3, <1>4 DEF Parked

\* A new message has a number that no copy has.
LEMMA SendsParked ==
    ASSUME IInv, PInv, NEW p \in Side, Sends(p)
    PROVE  PInv'
  <1> DEFINE q == Other(p)
  <1>1. /\ q \in Side /\ p # q /\ Other(q) = p /\ Other(p) = q
        /\ \A r \in Side : r = p \/ r = q
    BY OtherSide, TwoSides
  <1> HIDE DEF q
  <1>2. PICK m \in Message : Send(p, m) /\ m.seq = outSeq[p] /\ UNCHANGED unIn
    BY DEF Sends
  <1>3. /\ stOut' = [stOut EXCEPT ![p] = @ \cup {m}] /\ UNCHANGED stIn
        /\ net' = [net EXCEPT ![q] = @ \cup {m}] \/ net' = net
    BY <1>1, <1>2 DEF Send, Transmit
  <1>4. /\ stOut'[p] = stOut[p] \cup {m} /\ stOut'[q] = stOut[q]
        /\ net'[q] \subseteq net[q] \cup {m} /\ net'[p] = net[p]
    BY <1>1, <1>3 DEF IInv, TypeOK
  <1>5. Copies(p)' \subseteq Copies(p) \cup {m} /\ Copies(q)' \subseteq Copies(q)
    BY <1>1, <1>2, <1>3, <1>4 DEF Copies
  <1>6. \A k \in Copies(p) : k.seq # m.seq
    <2> TAKE k \in Copies(p)
    <2>1. k \in Message /\ Genuine(p, k) /\ outSeq[p] \in Nat
      BY <1>1 DEF IInv, TypeOK, Numbered, Copies
    <2> QED
      BY <1>2, <2>1 DEF Genuine, Message
  <1>7. Parked(p) /\ Parked(q)
    BY <1>1 DEF PInv
  <1>8. OneContent(p)' /\ OneContent(q)'
    BY <1>5, <1>6, <1>7 DEF Parked, OneContent, AsParked, Blank
  <1>9. Parked(p)' /\ Parked(q)'
    BY <1>2, <1>3, <1>7, <1>8 DEF Parked
  <1> QED
    BY <1>1, <1>9 DEF PInv

\* A copy that is parked takes the place of those with its number: they are the
\* same.
LEMMA AheadParked ==
    ASSUME IInv, PInv, NEW p \in Side, NEW m \in net[p], ReceiveAhead(p, m)
    PROVE  PInv'
  <1> DEFINE q == Other(p)
             b == AsParked(m)
             old == IF loadedIn[p] THEN unIn[p] ELSE Loadable(p)
  <1>1. /\ q \in Side /\ p # q /\ Other(q) = p /\ Other(p) = q
        /\ \A r \in Side : r = p \/ r = q
    BY OtherSide, TwoSides
  <1>2. /\ stIn' = [stIn EXCEPT ![p] = {k \in @ : k.seq # b.seq} \cup {b}]
        /\ unIn' = [unIn EXCEPT ![p] = IF b.seq \in Seqs(old) THEN old ELSE old \cup {b}]
        /\ net' = [net EXCEPT ![p] = @ \ {m}, ![q] = @ \cup Wanted(p, {m})]
        /\ UNCHANGED stOut
    BY DEF ReceiveAhead, Park, AsParked
  <1>3. /\ TypeOK /\ m \in Message /\ m \in Copies(q)
        /\ Copies(q) \subseteq Message
        /\ Parked(p) /\ Parked(q)
    BY <1>1 DEF IInv, TypeOK, Copies, PInv
  <1>4. b.seq = m.seq /\ b.kind # "resend" /\ AsParked(b) = b
    BY <1>3, BlankMessage DEF AsParked
  <1>5. old \subseteq stIn[p] /\ stIn[p] \subseteq Copies(q)
    BY <1>1, <1>3 DEF Loadable, Parked, Copies
  <1>6. ASSUME NEW k \in stIn[p], k.seq = b.seq
        PROVE  k = b
    <2>1. AsParked(k) = AsParked(m)
      BY <1>3, <1>4, <1>5, <1>6 DEF Parked, OneContent
    <2>2. AsParked(k) = k
      BY <1>3 DEF Parked, AsParked
    <2> QED
      BY <2>1, <2>2
  <1> HIDE DEF q, b, old
  <1>7. /\ stIn'[p] = stIn[p] \cup {b} /\ stIn'[q] = stIn[q]
        /\ unIn'[p] \subseteq old \cup {b} /\ unIn'[q] = unIn[q]
        /\ net'[p] \subseteq net[p] /\ net'[q] = net[q] \cup Wanted(p, {m})
    BY <1>1, <1>2, <1>3, <1>6 DEF TypeOK
  <1>8. /\ Copies(p)' \subseteq Copies(p)
        /\ Copies(q)' \subseteq Copies(q) \cup {b}
    BY <1>1, <1>2, <1>5, <1>7, WantedStored DEF Copies
  <1>9. OneContent(p)'
    BY <1>3, <1>8 DEF Parked, OneContent, AsParked, Blank
  <1>10. OneContent(q)'
    <2>1. \A k \in Copies(q) : k.seq = b.seq => AsParked(k) = b
      BY <1>3, <1>4 DEF Parked, OneContent, b
    <2>2. \A k, l \in Copies(q) \cup {b} : k.seq = l.seq => AsParked(k) = AsParked(l)
      BY <1>3, <1>4, <2>1 DEF Parked, OneContent
    <2> QED
      BY <1>8, <2>2 DEF OneContent, AsParked, Blank
  <1>11. Parked(p)' /\ Parked(q)'
    BY <1>3, <1>4, <1>5, <1>7, <1>9, <1>10 DEF Parked
  <1> QED
    BY <1>1, <1>11 DEF PInv

\* The steps that move copies without parking any.
LEMMA OthersParked ==
    ASSUME IInv, NEW p \in Side,
           \/ SendAgain(p)
           \/ \E m \in net[p] : ReceiveStale(p, m)
           \/ Restart(p)
           \/ FillHole(p) /\ ~Sends(p)
           \/ SkipHole(p) /\ ~Consumes(p)
    PROVE  \A r \in Side : Copies(r)' \subseteq Copies(r) /\ StillParked(r)
  <1> USE DEF persisted, volatile, ghosts
  <1>1. TypeOK
    BY DEF IInv
  <1>2. ASSUME NEW m \in net[p], ReceiveStale(p, m), NEW r \in Side
        PROVE  Copies(r)' \subseteq Copies(r) /\ StillParked(r)
    BY <1>1, <1>2, OtherSide DEF ReceiveStale, Copies, StillParked, TypeOK
  <1>3. ASSUME ForgetVolatile(p), UNCHANGED <<persisted, net>>, NEW r \in Side
        PROVE  Copies(r)' \subseteq Copies(r) /\ StillParked(r)
    BY <1>1, <1>3, OtherSide DEF ForgetVolatile, Copies, StillParked, TypeOK
  <1>4. ASSUME UNCHANGED <<stOut, stIn, unIn, net>>, NEW r \in Side
        PROVE  Copies(r)' \subseteq Copies(r) /\ StillParked(r)
    BY <1>4 DEF Copies, StillParked
  <1>5. ASSUME SendAgain(p), NEW r \in Side
        PROVE  Copies(r)' \subseteq Copies(r) /\ StillParked(r)
    <2>1. PICK t \in stOut[p] :
             /\ net' = [net EXCEPT ![Other(p)] = @ \cup Within(stOut[p], t.seq, t.seq)]
             /\ UNCHANGED <<stOut, stIn, unIn>>
      BY <1>5, OutgoingIsStored DEF SendAgain
    <2>2. Within(stOut[p], t.seq, t.seq) \subseteq stOut[p]
      BY DEF Within
    <2> QED
      BY <1>1, <2>1, <2>2, OtherSide, TwoSides DEF Copies, StillParked, TypeOK
  <1>6. CASE FillHole(p) /\ ~Sends(p)
    <2>1. \/ UNCHANGED <<stOut, stIn, unIn, net>>
          \/ ForgetVolatile(p) /\ UNCHANGED <<persisted, net>>
      <3>1. CASE HoleIsAhead(p) /\ \E m \in unIn[p] :
                   /\ Send(p, NewMessage(p, "resend", 0, inSeq[p], m.seq - 1))
                   /\ UNCHANGED <<unIn, loadedIn, got, gone, restarts>>
        <4>1. PICK m \in unIn[p] :
                 /\ m.seq > inSeq[p]
                 /\ Send(p, NewMessage(p, "resend", 0, inSeq[p], m.seq - 1))
          BY <3>1 DEF HoleIsAhead
        <4> DEFINE r == NewMessage(p, "resend", 0, inSeq[p], m.seq - 1)
        <4>2. inSeq[p] \in Nat /\ m.seq - 1 \in Nat
          BY <4>1 DEF IInv, TypeOK, Message
        <4>3. r \in Message /\ r.seq = outSeq[p] /\ r.ack = inSeq[p] /\ r.kind = "resend"
          BY <4>2 DEF NewMessage, Message, Kinds, IInv, TypeOK
        <4>4. Send(p, r)
          BY <4>1
        <4> HIDE DEF r
        <4> QED
          BY <1>6, <3>1, <4>3, <4>4 DEF Sends
      <3> QED
        BY <1>6, <3>1 DEF FillHole
    <2> QED
      BY <1>3, <1>4, <2>1
  <1>7. CASE SkipHole(p) /\ ~Consumes(p)
    <2>1. UNCHANGED <<stOut, stIn, unIn, net>>
      <3>1. CASE \E m \in unIn[p] :
                   /\ IsFirst(m, unIn[p])
                   /\ Process(p, {}, RunFrom(unIn[p], m.seq), unIn[p])
        BY <1>7, <3>1, SkipHoleBatch DEF SkipHole, Consumes
      <3> QED
        BY <1>7, <3>1 DEF SkipHole
    <2> QED
      BY <1>4, <2>1
  <1>8. CASE Restart(p)
    BY <1>3, <1>8 DEF Restart
  <1> QED
    BY <1>2, <1>5, <1>6, <1>7, <1>8

\* Processing parks nothing.
LEMMA ConsumesParked ==
    ASSUME IInv, PInv, NEW p \in Side, Consumes(p)
    PROVE  PInv'
  <1>1. \A r \in Side : Copies(r)' \subseteq Copies(r) /\ StillParked(r)
    BY ProcessKeeps DEF Consumes
  <1> QED
    BY <1>1, StillParkedKeeps

\* Every step keeps the invariant of parking.
LEMMA StepParked ==
    ASSUME IInv, PInv, [Next]_vars
    PROVE  PInv'
  <1>1. CASE UNCHANGED vars
    BY <1>1 DEF vars, PInv, Parked, OneContent, Copies, AsParked, Blank
  <1>2. ASSUME NEW p \in Side, SendText(p) \/ SendDelete(p)
        PROVE  PInv'
    BY <1>2, TextSends, DeleteSends, SendsParked
  <1>3. ASSUME NEW p \in Side, NEW m \in net[p], Receive(p, m)
        PROVE  PInv'
    <2>1. CASE ReceiveStale(p, m)
      <3>1. \A r \in Side : Copies(r)' \subseteq Copies(r) /\ StillParked(r)
        BY <2>1, OthersParked
      <3> QED
        BY <3>1, StillParkedKeeps
    <2>2. CASE ReceiveAhead(p, m)
      BY <2>2, AheadParked
    <2>3. CASE ReceiveNext(p, m)
      BY <2>3, ReceiveNextBatch, ConsumesParked DEF Consumes
    <2> QED
      BY <1>3, <2>1, <2>2, <2>3 DEF Receive
  <1>4. ASSUME NEW p \in Side, SendAgain(p) \/ FillHole(p) \/ SkipHole(p) \/ Restart(p)
        PROVE  PInv'
    <2>1. CASE Sends(p) \/ Consumes(p)
      BY <2>1, SendsParked, ConsumesParked
    <2>2. CASE ~Sends(p) /\ ~Consumes(p)
      <3>1. \A r \in Side : Copies(r)' \subseteq Copies(r) /\ StillParked(r)
        BY <1>4, <2>2, OthersParked
      <3> QED
        BY <3>1, StillParkedKeeps
    <2> QED
      BY <2>1, <2>2
  <1> QED
    BY <1>1, <1>2, <1>3, <1>4 DEF Next

\* What is parked in memory is stored with the same content, whatever copies come
\* again and whatever is deleted meanwhile (queue_unconfirmed_incoming_message()):
\* a restart forgets nothing that was accepted.
THEOREM NothingParkedIsLost == Spec => []ParkedIsStored
  <1>1. IInv /\ PInv /\ [Next]_vars => PInv'
    BY StepParked
  <1>2. PInv => ParkedIsStored
    BY DEF PInv, Parked, ParkedIsStored
  <1> QED
    BY <1>1, <1>2, InitParked, Inductive, PTL DEF Spec

=============================================================================
