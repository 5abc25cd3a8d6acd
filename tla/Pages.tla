-------------------------------- MODULE Pages --------------------------------
(***************************************************************************)
(* Lists fetched in pages: query_get_dialogs, query_search_message and      *)
(* query_channels_get_participants.                                        *)
(*                                                                         *)
(* The answer of one page decides whether the same query is sent again and  *)
(* for what, while the list at the server changes: items are added in front *)
(* (a new message, a dialog, a member who joined) and taken away.  Items    *)
(* are numbers, the newest is the largest.                                  *)
(***************************************************************************)
EXTENDS Integers, FiniteSets, Sequences, SequencesExt

CONSTANTS
    Sizes,      \* lengths of the list at the start
    Limits,     \* how much is asked for; -1: all participants
    PageMax,    \* the most the server gives at once
    MaxNew,     \* items added meanwhile
    MaxGone     \* items taken away meanwhile

VARIABLES
    list,       \* the list at the server
    first,      \* the list when the first page was made
    st,         \* the state that the pages share, and what it is a list of
    page,       \* the answer on its way, or Nothing
    added, gone

pageVars == <<list, first, st, page, added, gone>>

Nothing == [items |-> <<>>, slice |-> FALSE, count |-> -1]

-----------------------------------------------------------------------------
\* The server.

\* At most n of the items of s after the first k.
Some(s, k, n) == SubSeq(s, k + 1, IF k + n > Len(s) THEN Len(s) ELSE k + n)

\* How many items of s, the newest first, are not older than m; none if m is 0.
NotOlder(s, m) == Cardinality({i \in 1..Len(s) : m # 0 /\ s[i] >= m})

\* How many the server gives when m are asked for.
Given(m) == IF m < 0 \/ m > PageMax THEN PageMax ELSE m

\* What assemble() asks for in the state c: dialogs after a peer, those of
\* channels from an offset,
AskedDialogs(c) ==
    IF c.kind = "dialogs"
    THEN Some(list, NotOlder(list, c.max), Given(c.limit - Len(c.got)))
    ELSE Some(list, c.offset, Given(c.limit - Len(c.got)))

\* messages older than one, participants from an offset.
AskedMessages(c) ==
    Some(list, NotOlder(list, c.max) + c.offset, Given(c.limit))

AskedParticipants(c) == Some(list, c.offset, Given(c.limit))

PageFor(c) ==
    LET items == CASE c.kind = "participants" -> AskedParticipants(c)
                   [] c.kind = "search"       -> AskedMessages(c)
                   [] OTHER                   -> AskedDialogs(c)
    IN  [items |-> items, slice |-> Len(items) < Len(list), count |-> Len(list)]

-----------------------------------------------------------------------------
\* The answers.

Ended(c) == [c EXCEPT !.at = "told"]

\* The pages taken: none, one or more.
More(n) == IF n = 0 THEN 1 ELSE 2

\* Mutant of Dialogs: the peer the next page starts at is not remembered.
DialogsAgain(c, p) ==
    LET d == [c EXCEPT !.got = @ \o p.items, !.pages = More(@)] IN
    IF p.items # <<>> /\ Len(d.got) < d.limit /\ p.slice /\ Len(d.got) < p.count
    THEN d ELSE Ended(d)

\* query_get_dialogs::on_answer(): the next page of the dialogs starts after
\* the last peer; that of channels is asked for with the old offset.
Dialogs(c, p) ==
    LET d == [c EXCEPT !.got = @ \o p.items, !.pages = More(@)] IN
    IF p.items # <<>> /\ Len(d.got) < d.limit /\ p.slice /\ Len(d.got) < p.count
    THEN [d EXCEPT !.max = IF c.kind = "dialogs" THEN Last(d.got) ELSE 0]
    ELSE Ended(d)

\* query_search_message::on_answer(): what is left to ask for is bounded by
\* the count of the server; the next page has the messages before the last.
Searched(c, p) ==
    LET n    == Len(p.items)
        rest == c.limit - n
        have == c.offset + n
        left == IF rest + have >= p.count THEN IF p.count > have THEN p.count - have ELSE 0
                ELSE rest
        d    == [c EXCEPT !.got = @ \o p.items, !.pages = More(@), !.limit = left]
    IN  IF left <= 0 \/ ~p.slice THEN Ended(d)
        ELSE [d EXCEPT !.offset = 0, !.max = IF d.got = <<>> THEN 0 ELSE Last(d.got)]

\* query_channels_get_participants::on_answer(): no more than the limit is
\* taken, and an empty page is the last.
Participants(c, p) ==
    LET n    == Len(p.items)
        take == IF c.limit > 0 /\ n > c.limit - Len(c.got) THEN c.limit - Len(c.got) ELSE n
        d    == [c EXCEPT !.got = @ \o Some(p.items, 0, take), !.offset = @ + take,
                          !.pages = More(@)]
    IN  IF take = 0 \/ (d.limit > 0 /\ Len(d.got) = d.limit) THEN Ended(d) ELSE d

-----------------------------------------------------------------------------

\* The calls: get_dialog_list(), get_channels_dialog_list(), search_message()
\* and get_channel_participants().
Init ==
    /\ \E n \in Sizes : list = [i \in 1..n |-> n + 1 - i]
    /\ first = <<>>
    /\ \E kind \in {"dialogs", "channels", "search", "participants"}, l \in Limits :
          /\ l = -1 => kind = "participants"
          /\ st = [kind |-> kind, limit |-> l, asked |-> l, offset |-> 0, max |-> 0,
                   got |-> <<>>, pages |-> 0, at |-> "asked"]
    /\ page = Nothing /\ added = 0 /\ gone = 0

\* The server makes the page, the client takes it or is refused.
Serve ==
    /\ st.at = "asked" /\ page = Nothing
    /\ page' = PageFor(st)
    /\ first' = IF st.pages = 0 THEN list ELSE first
    /\ UNCHANGED <<list, st, added, gone>>

Take ==
    /\ page # Nothing
    /\ st' = CASE st.kind \in {"dialogs", "channels"} -> Dialogs(st, page)
               [] st.kind = "search"                  -> Searched(st, page)
               [] st.kind = "participants"            -> Participants(st, page)
    /\ page' = Nothing
    /\ UNCHANGED <<list, first, added, gone>>

\* An error loses the pages before it: the callback gets an empty list.
\* on_error() of the three classes.
Refused ==
    /\ st.at = "asked" /\ page = Nothing
    /\ st' = [st EXCEPT !.at = "refused", !.got = <<>>]
    /\ UNCHANGED <<list, first, page, added, gone>>

\* The list changes.
Change ==
    /\ st.at = "asked"
    /\ \/ /\ added < MaxNew /\ added' = added + 1 /\ UNCHANGED gone
          /\ list' = <<(IF list = <<>> THEN 0 ELSE list[1]) + 10>> \o list
       \/ /\ gone < MaxGone /\ gone' = gone + 1 /\ UNCHANGED added
          /\ \E i \in DOMAIN list : list' = RemoveAt(list, i)
    /\ UNCHANGED <<first, st, page>>

Next == Serve \/ Take \/ Refused \/ Change

Spec     == Init /\ [][Next]_pageVars
FairSpec == Spec /\ WF_pageVars(Serve) /\ WF_pageVars(Take)

-----------------------------------------------------------------------------
\* Properties.

\* What was asked for, of a list.
Wanted(s) == IF st.asked < 0 THEN s ELSE Some(s, 0, st.asked)

\* A list that nothing was taken from is given as it was when the first page
\* was made: each item once, in order, none missing, however much is added
\* in the meantime; the participants and the dialogs of channels are counted
\* from the front, so that a new one shifts them.  The dialogs of channels
\* are never more than one page.
Listed ==
    st.at = "told" /\ gone = 0 /\ st.asked # 0 =>
        CASE st.kind \in {"search", "dialogs"} -> st.got = Wanted(first)
          [] st.kind = "participants"          -> st.got = Wanted(first) \/ added > 0
          [] st.kind = "channels"              -> st.got = Wanted(first) \/ st.pages > 1

\* The pages come to an end, whatever is added and taken away; a search only
\* if nothing is taken away.
PagesEnd == st.at = "asked" ~> (st.at # "asked" \/ (st.kind = "search" /\ gone > 0))
=============================================================================
