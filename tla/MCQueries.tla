------------------------------ MODULE MCQueries ------------------------------
(* Queries for TLC: which query is of which kind. *)
EXTENDS Queries

CONSTANTS qPlain, qLogin, qLogout

Kinds == [q \in Query |-> CASE q = qPlain -> "plain" [] q = qLogin -> "login" [] q = qLogout -> "logout"]
=============================================================================
