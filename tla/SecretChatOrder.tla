--------------------------- MODULE SecretChatOrder ---------------------------
(***************************************************************************)
(* What a secret chat promises its two ends: each end numbers its messages *)
(* and the other end consumes them in that order, the application being    *)
(* given every text exactly once - or, at an end with real-time quality of *)
(* service, at most once.                                                  *)
(***************************************************************************)
EXTENDS Integers

CONSTANTS
    MaxSeq,     \* bound: sequence numbers p may use are below MaxSeq[p]
    RealTime    \* the ends that may skip

Side == {"admin", "member"}
Other(p) == IF p = "admin" THEN "member" ELSE "admin"

VARIABLES
    sent,       \* how many messages an end has numbered
    consumed,   \* how many of the other end's messages an end has consumed
    texts,      \* the numbers of an end's messages that are texts
    got         \* how often a number was given to an end's application

vars == <<sent, consumed, texts, got>>

Numbers == UNION {0..MaxSeq[p] - 1 : p \in Side}

Init ==
    /\ sent = [p \in Side |-> 0]
    /\ consumed = [p \in Side |-> 0]
    /\ texts = [p \in Side |-> {}]
    /\ got = [p \in Side |-> [s \in Numbers |-> 0]]

Number(p) ==
    /\ sent[p] < MaxSeq[p]
    /\ sent' = [sent EXCEPT ![p] = @ + 1]
    /\ \/ texts' = texts
       \/ texts' = [texts EXCEPT ![p] = @ \cup {sent[p]}]
    /\ UNCHANGED <<consumed, got>>

\* The messages up to n are consumed at once; D are those the application sees.
Consume(p) ==
    \E n \in consumed[p] + 1..sent[Other(p)] :
    \E D \in SUBSET {s \in consumed[p]..n - 1 : s \in texts[Other(p)]} :
        /\ p \notin RealTime => D = {s \in consumed[p]..n - 1 : s \in texts[Other(p)]}
        /\ consumed' = [consumed EXCEPT ![p] = n]
        /\ got' = [got EXCEPT ![p] = [s \in Numbers |->
                      IF s \in D THEN @[s] + 1 ELSE @[s]]]
        /\ UNCHANGED <<sent, texts>>

Next == \E p \in Side : Number(p) \/ Consume(p)

Spec == Init /\ [][Next]_vars

=============================================================================
