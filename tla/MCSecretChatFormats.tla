-------------------------- MODULE MCSecretChatFormats --------------------------
(***************************************************************************)
(* The order of a secret chat and the formats for TLC: two ends exchange    *)
(* messages (SecretChatSeq), or one of the halves of MCFormats runs.        *)
(***************************************************************************)
EXTENDS MCSecretChatSeq, MCFormats

chatAndFormats == <<vars, formats>>

InitChatFormats == Init /\ half \in Halves \union {"order"} /\ InitHalves

NextOrder  == half = "order" /\ Next /\ UNCHANGED formats
NextOfHalf == NextFormats /\ UNCHANGED vars

SpecChatFormats == InitChatFormats /\ [][NextOrder \/ NextOfHalf]_chatAndFormats
=============================================================================
