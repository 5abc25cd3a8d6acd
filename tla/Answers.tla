-------------------------------- MODULE Answers --------------------------------
(***************************************************************************)
(* query::handle_result() (query/query.cpp): the answer to a query is       *)
(* checked by skip, read by fetch_ds, given to the query and released.  The *)
(* answer comes word by word, after a beginning that there may be, so that  *)
(* what was cut off is handled too.  An answer may come packed: it is       *)
(* inflated to a buffer of its own, and the packed string is all there is   *)
(* in the other.                                                            *)
(***************************************************************************)
EXTENDS SerializerText

CONSTANTS
    Awaited,        \* the types of the answers that queries wait for, each with
                    \* a beginning of an answer: [type, answer]
    AnswerWords,    \* the words that the rest of an answer is made of
    MaxRest         \* a bound: the words after the beginning

VARIABLE query      \* the answer so far, and how it was handled

Outcomes == {"waiting", "refused", "trailing", "answered", "broken"}

\* A query that waits for an answer of a type.
InitAnswers ==
    \E w \in Awaited :
        query = [type |-> w.type, answer |-> w.answer, more |-> MaxRest,
                 outcome |-> "waiting", given |-> NullPtr, held |-> 0]

ReceiveWord(w) ==
    /\ query.outcome = "waiting"
    /\ query.more > 0
    /\ query' = [query EXCEPT !.answer = Append(@, w), !.more = @ - 1]

\* handle_result(): an answer that skip refuses, or that has words left, fails
\* an assert; so does one that fetch_ds cannot read, or does not read to its
\* end, after skip accepted it.
Handled(end, f) ==
    IF end = Refused THEN [query EXCEPT !.outcome = "refused"]
    ELSE IF end < Len(query.answer) THEN [query EXCEPT !.outcome = "trailing"]
    ELSE IF f.at # Len(query.answer) \/ f.ds = NullPtr
         THEN [query EXCEPT !.outcome = "broken", !.held = f.blocks]
    ELSE [query EXCEPT !.outcome = "answered", !.given = f.ds,
                       !.held = f.blocks - FreeAny(f.ds, query.type)]

HandleResult ==
    /\ query.outcome = "waiting"
    /\ query.answer # <<>>
    /\ query' = Handled(SkipAny(query.answer, 0, query.type),
                        FetchAny(query.answer, 0, query.type))

NextAnswers == HandleResult \/ \E w \in AnswerWords : ReceiveWord(w)

-----------------------------------------------------------------------------
(* Properties                                                              *)

\* What skip accepts, fetch_ds reads to its end without failing an assert, and
\* free_ds releases all that fetch_ds allocated: the asserts of fetch_ds are
\* guarded by skip alone, and the three are generated by different code.
Guarded == query.outcome # "broken" /\ query.held = 0

\* The value given to the query, written by store_ds, is the answer; and so are
\* the words that store makes of the text that fetch prints, with or without
\* the names of the fields.
WrittenBack ==
    query.outcome = "answered" =>
        /\ StoreAny(query.given, query.type) = query.answer
        /\ \A p \in {PrintAny(query.answer, 0, query.type, names) : names \in BOOLEAN} :
               /\ p.at = Len(query.answer)
               /\ ReadAny(p.text, query.type) = Read(<<>>, query.answer)

\* skip, fetch_ds, free_ds, store_ds, fetch and store agree on every answer.
RoundTrip == Guarded /\ WrittenBack
=============================================================================
