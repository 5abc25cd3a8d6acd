--------------------------- MODULE MCSecretChatSeq ---------------------------
(* Values for the bounds of SecretChatSeq: so many for the admin, so many  *)
(* for the member, and what gets lost.                                  *)
EXTENDS SecretChatSeq

Bound(admin, member) == [p \in Side |-> IF p = "admin" THEN admin ELSE member]

B00 == Bound(0, 0)
B01 == Bound(0, 1)
B11 == Bound(1, 1)
B20 == Bound(2, 0)
B21 == Bound(2, 1)
B22 == Bound(2, 2)
B30 == Bound(3, 0)
B33 == Bound(3, 3)
B40 == Bound(4, 0)
B41 == Bound(4, 1)
B42 == Bound(4, 2)

Reliable  == [p \in Side |-> {}]
TextsLost == [p \in Side |-> {"text"}]
AskLost   == [p \in Side |-> IF p = "member" THEN {"text", "resend"} ELSE {"text"}]

=============================================================================
