-------------------------------- MODULE Calls --------------------------------
(***************************************************************************)
(* The calls of the application (user_agent.cpp) and the queries they make  *)
(* (src/src/query).                                                         *)
(*                                                                         *)
(* A call checks whom it is for, may answer at once, and otherwise sends a  *)
(* query; the query's class says what the application is told, and in which *)
(* order, when the answer, an error or a time-out comes.  What a query asks *)
(* for and what it brings is abstracted to the kinds of things the          *)
(* application is told, one string each:                                    *)
(*                                                                         *)
(*   "yes", "no"        the callback of the call, with its verdict           *)
(*   "users", "chats"   user_fetched(), chat_fetched() of all in the answer  *)
(*   "messages"         new_messages() with the messages of the answer       *)
(*   "pending"          new_messages() with a message not sent yet           *)
(*   "sent", "failed"   what became of that message                          *)
(*   "updates"          work_any_updates() of the answer                     *)
(*   "affected"         the check of the answer's pts, and set_pts()         *)
(*   "secret"           the call goes on in the secret chat (SecretChatSeq)  *)
(*   "more"             the query is sent again for another page (Pages)     *)
(*   "late"             an update of the answer was not processed            *)
(*   the rest           one event of the callback each                       *)
(*                                                                         *)
(* The account's message box is beside them: the server numbers its events  *)
(* and the client counts those it has handed over (Updater in full).        *)
(***************************************************************************)
EXTENDS Integers, FiniteSets, Sequences, SequencesExt, TLC

CONSTANTS
    Second,     \* the calls made beside the first, <<name, target>>
    MaxEvents,  \* events of the message box
    MaxPushes   \* pushes of others' events on their way

VARIABLES
    call,       \* the two calls: name, target, where it is, what it said
    box         \* the message box: the server's count, the client's, the fetch

callVars == <<call, box>>

-----------------------------------------------------------------------------
\* The classes of queries.

\* A query: the answers it can process, what an error tells, and what the
\* end of its time tells; most are sent again instead (<<>>).
\* query::on_answer(), on_error(), on_timeout() of a class with a callback.
Asks == [answers |-> {<<"yes">>}, errors |-> {<<"no">>}, late |-> <<>>]

query_add_contacts         == [Asks EXCEPT !.answers = {<<"users", "yes">>}]
query_block_or_unblock_user == Asks
query_channels_set_about   == Asks
query_delete_contact       == Asks
query_export_card          == Asks
query_export_chat_link     == Asks
query_get_notify_settings  == Asks
query_get_privacy_rules    == Asks
query_get_tos              == Asks
query_register_device      == Asks
query_send_inline_query_to_bot == Asks
query_send_typing_status   == Asks
query_update_notify_settings == Asks
query_update_status        == Asks

\* The callback is given a list that nothing was put into.
query_get_contacts == [Asks EXCEPT !.answers = {<<"users", "empty", "yes">>}]

\* Any error but 400 and 600 calls back no one.
query_check_username == [Asks EXCEPT !.errors = {<<"no">>, <<>>}]

\* What is found is given to the callback and not announced.
query_search_contact == Asks

query_resolve_username == [Asks EXCEPT !.answers = {<<"users", "chats", "yes">>}]

\* The card of a user that cannot be created.
query_import_card == [Asks EXCEPT !.answers = {<<"users", "yes">>, <<"no">>}]

query_set_profile_name == [Asks EXCEPT !.answers = {<<"users", "yes">>}]

\* The full user, unless it is empty.
query_user_info == [Asks EXCEPT !.answers = {<<"users", "yes">>, <<"no">>}]

query_get_blocked_users == [Asks EXCEPT !.answers = {<<"users", "yes">>}]

query_channel_get_participant ==
    [Asks EXCEPT !.answers = {<<"users", "participants", "yes">>}]

query_channels_get_participants ==
    [Asks EXCEPT !.answers = {<<"users", "participants", "yes">>, <<"users", "more">>}]

\* Without participants only what describes the channel is told.
query_get_channel_info ==
    [Asks EXCEPT !.answers = {<<"users", "chats", "participants", "info", "yes">>,
                              <<"users", "chats", "info", "yes">>}]

query_get_chat_info ==
    [Asks EXCEPT !.answers = {<<"users", "chats", "participants", "yes">>,
                              <<"users", "chats", "yes">>}]

query_get_dialogs ==
    [Asks EXCEPT !.answers = {<<"chats", "users", "settings", "messages", "yes">>,
                              <<"chats", "users", "settings", "messages", "more">>}]

query_get_history ==
    [Asks EXCEPT !.answers = {<<"chats", "users", "messages", "yes">>}]

\* A single message that does not exist is refused by the client.
query_get_messages ==
    [Asks EXCEPT !.answers = {<<"users", "chats", "messages", "yes">>,
                              <<"users", "chats", "messages", "no">>}]

query_search_message ==
    [Asks EXCEPT !.answers = {<<"chats", "users", "messages", "yes">>,
                              <<"chats", "users", "messages", "more">>}]

\* Called by no call: get_channel_difference() refuses before.
query_get_channel_difference ==
    [Asks EXCEPT !.answers = {<<"yes">>, <<"users", "chats", "messages", "yes">>,
                              <<"users", "chats", "messages", "more">>}]

\* The deletion is announced before its number is checked.
query_delete_message == [Asks EXCEPT !.answers = {<<"deleted", "affected", "yes">>}]

\* In a channel there is no number to check.
query_mark_message_read == [Asks EXCEPT !.answers = {<<"affected", "read", "yes">>}]

\* Mutant of query_messages_send_message: as query_send_messages, on_error()
\* leaves the message as it is.
FailsUntold == [Asks EXCEPT !.answers = {<<"updates", "yes">>}]

query_messages_send_message ==
    [Asks EXCEPT !.answers = {<<"updates", "yes">>}, !.errors = {<<"no", "failed">>}]

query_send_messages == [Asks EXCEPT !.answers = {<<"updates", "yes">>}]

\* Mutant of query_create_chat: the time-out is not told.
CreatesUntold == [Asks EXCEPT !.answers = {<<"updates", "yes">>}, !.late = <<"gone">>]

query_create_chat ==
    [Asks EXCEPT !.answers = {<<"updates", "yes">>}, !.late = <<"no">>]

query_unregister_device == [Asks EXCEPT !.late = <<"no">>]

\* The application is asked for the code with a closure that holds the query
\* weakly: the query is gone when the code comes, or when the answer to
\* query_set_phone does.
query_send_change_code == [Asks EXCEPT !.answers = {<<"prompt">>}]

\* Likewise the passwords; but those given within the prompt are sent with
\* query_update_password_settings, which holds the callback.
query_get_and_set_password ==
    [Asks EXCEPT !.answers = {<<"prompt">>, <<"prompt", "yes">>, <<"prompt", "no">>}]

-----------------------------------------------------------------------------
\* The calls of user_agent: the targets they may be made for (others fail an
\* assertion of the code), those answered at once and what they are told
\* then, what is told before the query is sent, the query, whether it holds
\* the message being sent, and what is told on top of a success.


Peers == {"user", "chat", "channel"}

\* A call for one of the targets that sends the query.
Sends(targets, query) ==
    [to |-> targets, here |-> <<>>, first |-> <<>>, query |-> query,
     holds |-> FALSE, then |-> <<>>]

\* The same call, refusing some targets.
But(refused, c) ==
    [c EXCEPT !.to = @ \cup refused, !.here = [t \in refused |-> <<"no">>]]

\* send_text_message(): in a secret chat the chat sends it, if there is one.
TextCalls ==
    "send_text_message" :>
        [But({"unknown chat"}, Sends(Peers, query_messages_send_message)) EXCEPT
            !.first = <<"pending">>, !.holds = TRUE,
            !.to = @ \cup {"secret"},
            !.here = @ @@ ("secret" :> <<"secret">>)]

\* mark_message_read() and mark_encrypted_message_read(): the secret chat is
\* not given the callback.
ReadCalls ==
    "mark_message_read" :>
        [But({"unknown chat"}, Sends(Peers, query_mark_message_read)) EXCEPT
            !.to = @ \cup {"secret"},
            !.here = @ @@ ("secret" :> <<"dropped">>)]

\* From get_history() to resolve_username().
ListCalls ==
    [get_history              |-> Sends(Peers, query_get_history),
     get_dialog_list          |-> Sends({"all"}, query_get_dialogs),
     get_channels_dialog_list |-> Sends({"all"}, query_get_dialogs),
     set_profile_name         |-> Sends({"self"}, query_set_profile_name),
     set_username             |-> Sends({"self"}, query_set_profile_name),
     check_username           |-> Sends({"self"}, query_check_username),
     search_contact           |-> Sends({"all"}, query_search_contact),
     resolve_username         |-> Sends({"all"}, query_resolve_username)]

\* From forward_messages() to forward_media(): nothing goes to a secret chat;
\* forward_message() takes nothing from one either.
ForwardCalls ==
    [forward_messages |-> But({"secret"}, Sends(Peers, query_send_messages)),
     forward_message  |-> But({"secret", "from secret"}, Sends(Peers, query_send_messages)),
     send_contact     |-> But({"secret"}, Sends(Peers, query_send_messages)),
     forward_media    |-> But({"secret"}, Sends(Peers, query_send_messages))]

\* send_location(): the class of the query does not settle the message.
LocationCalls ==
    "send_location" :>
        [But({"unknown chat"}, Sends(Peers, query_send_messages)) EXCEPT
            !.first = <<"pending">>, !.holds = TRUE,
            !.to = @ \cup {"secret"},
            !.here = @ @@ ("secret" :> <<"secret">>)]

\* From rename_chat() to get_channel_participant_self().
ChannelCalls ==
    [rename_chat     |-> Sends({"chat"}, query_send_messages),
     rename_channel  |-> Sends({"channel"}, query_send_messages),
     join_channel    |-> Sends({"channel"}, query_send_messages),
     leave_channel   |-> Sends({"channel"}, query_send_messages),
     delete_channel  |-> Sends({"channel"}, query_send_messages),
     edit_channel_title   |-> Sends({"channel"}, query_send_messages),
     set_channel_about    |-> Sends({"channel"}, query_channels_set_about),
     set_channel_username |-> Sends({"channel"}, query_channels_set_about),
     set_channel_participant_role |-> Sends({"channel"}, query_send_messages),
     get_channel_participants     |-> Sends({"channel"}, query_channels_get_participants),
     get_channel_participant_self |-> Sends({"channel"}, query_channel_get_participant)]

\* From get_chat_info() to delete_contact(), which announces the deletion.
InfoCalls ==
    [get_chat_info    |-> Sends({"chat"}, query_get_chat_info),
     get_channel_info |-> Sends({"channel"}, query_get_channel_info),
     get_user_info    |-> But({"chat", "channel"}, Sends({"user"}, query_user_info)),
     add_contacts     |-> Sends({"all"}, query_add_contacts),
     delete_contact   |->
        [But({"chat", "channel"}, Sends({"user"}, query_delete_contact)) EXCEPT
            !.then = <<"deleted">>]]

\* search_message().
SearchCalls ==
    "search_message" :> But({"secret"}, Sends(Peers \cup {"all"}, query_search_message))

\* get_channel_difference(): the channel it makes has no pts, so it never asks.
DifferenceCalls ==
    "get_channel_difference" :> But({"channel"}, Sends({}, query_get_channel_difference))

\* From add_user_to_chat() to create_channel(); inviting no one succeeds.
MemberCalls ==
    [add_user_to_chat       |-> Sends({"user"}, query_send_messages),
     delete_user_from_chat  |-> Sends({"user"}, query_send_messages),
     invite_user_to_channel |->
        [Sends({"user", "none"}, query_send_messages) EXCEPT !.here = "none" :> <<"yes">>],
     delete_user_from_channel |-> Sends({"user"}, query_send_messages),
     create_group_chat      |-> But({"chat", "channel"}, Sends({"user"}, query_create_chat)),
     create_channel         |-> Sends({"all"}, query_create_chat)]

\* From delete_message() to start_bot(); a deletion in a secret chat is not
\* given the callback.
MessageCalls ==
    [delete_message |->
        [But({"unknown chat"}, Sends(Peers, query_delete_message)) EXCEPT
            !.to = @ \cup {"secret"},
            !.here = @ @@ ("secret" :> <<"dropped">>)],
     export_card    |-> Sends({"self"}, query_export_card),
     import_card    |-> Sends({"all"}, query_import_card),
     start_bot      |-> Sends({"user"}, query_send_messages)]

\* From send_typing_status() to export_channel_link().
LinkCalls ==
    [send_typing_status  |-> But({"secret"}, Sends(Peers, query_send_typing_status)),
     get_message         |-> Sends({"all"}, query_get_messages),
     export_chat_link    |-> But({"user", "channel"}, Sends({"chat"}, query_export_chat_link)),
     import_chat_link    |-> Sends({"all"}, query_send_messages),
     export_channel_link |-> But({"user", "chat"}, Sends({"channel"}, query_export_chat_link))]

\* From send_broadcast(), to a thousand users at most, to get_blocked_users().
UserCalls ==
    [send_broadcast |->
        [But({"too many"}, Sends({"user"}, query_send_messages)) EXCEPT
            !.first = <<"pending">>],
     block_user     |-> But({"chat", "channel"}, Sends({"user"}, query_block_or_unblock_user)),
     unblock_user   |-> But({"chat", "channel"}, Sends({"user"}, query_block_or_unblock_user)),
     get_blocked_users |-> Sends({"all"}, query_get_blocked_users)]

\* From update_notify_settings() to migrate_group_chat().
SettingCalls ==
    [update_notify_settings |-> Sends(Peers, query_update_notify_settings),
     get_notify_settings    |-> Sends(Peers, query_get_notify_settings),
     get_terms_of_service   |-> Sends({"all"}, query_get_tos),
     register_device        |-> Sends({"self"}, query_register_device),
     unregister_device      |-> Sends({"self"}, query_unregister_device),
     migrate_group_chat     |-> Sends({"chat"}, query_send_messages)]

\* update_password_settings() and set_phone_number().
PromptCalls ==
    [update_password_settings |-> Sends({"self"}, query_get_and_set_password),
     set_phone_number         |-> Sends({"self"}, query_send_change_code)]

\* update_contact_list().
ContactCalls == "update_contact_list" :> Sends({"all"}, query_get_contacts)

\* update_status().
StatusCalls == "update_status" :> Sends({"self"}, query_update_status)

\* get_privacy_rules() and send_inline_query_to_bot().
PrivacyCalls ==
    [get_privacy_rules        |-> Sends({"self"}, query_get_privacy_rules),
     send_inline_query_to_bot |-> Sends({"user"}, query_send_inline_query_to_bot)]

Api == TextCalls @@ ReadCalls @@ ListCalls @@ ForwardCalls @@ LocationCalls
       @@ ChannelCalls @@ InfoCalls @@ SearchCalls @@ DifferenceCalls @@ MemberCalls
       @@ MessageCalls @@ LinkCalls @@ UserCalls @@ SettingCalls @@ ContactCalls
       @@ StatusCalls @@ PrivacyCalls @@ PromptCalls

-----------------------------------------------------------------------------
\* The message box.

\* What the client makes of event n.
Verdict(n) ==
    IF n <= box.pts THEN "known"
    ELSE IF n > box.pts + 1 THEN "hole"
    ELSE IF box.fetch # "none" THEN "locked" ELSE "next"

\* A hole has the difference fetched, unless it is being fetched.
Checked(b, n) ==
    CASE Verdict(n) = "next" -> [b EXCEPT !.pts = n]
      [] Verdict(n) = "hole" /\ b.fetch = "none" -> [b EXCEPT !.fetch = "asked"]
      [] OTHER -> b

\* The updates of the answer to call c, event n: a short one, for a message
\* that the query holds, or a container, which names the message first.
Handed(c, n, short) ==
    IF box.fetch # "none" THEN <<"late">>
    ELSE IF short THEN IF Verdict(n) = "next" THEN <<"sent">> ELSE <<"late">>
    ELSE <<"users", "chats">>
         \o (IF "pending" \in ToSet(c.said) THEN <<"sent">> ELSE <<>>)
         \o (IF Verdict(n) = "next" THEN <<"messages">> ELSE <<"late">>)

\* The steps of an answer as the application sees them.
Shown(c, answer, short) ==
    FlattenSeq([i \in DOMAIN answer |->
        CASE answer[i] = "updates"  -> Handed(c, c.event, short)
          [] answer[i] = "affected" -> <<>>
          [] answer[i] = "yes"      -> Api[c.api].then \o <<"yes">>
          [] OTHER -> <<answer[i]>>])

\* The box after an answer: its updates are checked unless the client is
\* locked, the number of a deletion in any case, also that of a channel.
Boxed(c, answer) ==
    IF c.event = 0 \/ (answer[1] = "updates" /\ box.fetch # "none") THEN box
    ELSE Checked(box, c.event)

-----------------------------------------------------------------------------

\* A call is made beside one of Second or alone.
Init ==
    /\ \E api \in DOMAIN Api : \E t \in Api[api].to, s \in Second :
           call = [i \in {1, 2} |->
                      [api |-> IF i = 1 THEN api ELSE s[1],
                       to  |-> IF i = 1 THEN t ELSE s[2],
                       at  |-> "new", event |-> 0, pages |-> 0, said |-> <<>>]]
    /\ box = [server |-> 1, pushed |-> {}, pts |-> 1, fetch |-> "none"]

Def(i) == Api[call[i].api]

\* The call is answered at once or sends its query.
Make(i) ==
    /\ call[i].at = "new"
    /\ call' = IF call[i].to \in DOMAIN Def(i).here
               THEN [call EXCEPT ![i].at = "done", ![i].said = Def(i).here[call[i].to]]
               ELSE [call EXCEPT ![i].at = "sent", ![i].said = Def(i).first]
    /\ UNCHANGED box

\* Does an answer of the query carry a number of a message box?
Numbered(i) ==
    \E a \in Def(i).query.answers : \E k \in DOMAIN a :
        a[k] = "updates" \/ (a[k] = "affected" /\ call[i].to # "channel")

\* The server executes the query; an event of the account gets its number,
\* and the deletion in a channel that of the channel.
Serve(i) ==
    /\ call[i].at = "sent"
    /\ IF call[i].api = "delete_message" /\ call[i].to = "channel"
       THEN /\ \E n \in 1..MaxEvents :
                   call' = [call EXCEPT ![i].at = "served", ![i].event = n]
            /\ UNCHANGED box
       ELSE IF Numbered(i)
       THEN /\ box.server < MaxEvents
            /\ call' = [call EXCEPT ![i].at = "served", ![i].event = box.server + 1]
            /\ box' = [box EXCEPT !.server = @ + 1]
       ELSE call' = [call EXCEPT ![i].at = "served"] /\ UNCHANGED box

\* The answer is processed; a page that is not the last asks for the next.
Answer(i) ==
    /\ call[i].at = "served"
    /\ \E a \in Def(i).query.answers, short \in BOOLEAN :
          /\ short => Def(i).holds
          /\ "more" \in ToSet(a) => call[i].pages = 0
          /\ call' = [call EXCEPT
                ![i].at    = IF "more" \in ToSet(a) THEN "sent" ELSE "done",
                ![i].pages = @ + 1,
                ![i].said  = @ \o Shown(call[i], a, short)]
          /\ box' = Boxed(call[i], a)

\* The server refuses the query.
Refuse(i) ==
    /\ call[i].at = "sent"
    /\ \E e \in Def(i).query.errors :
          call' = [call EXCEPT ![i].at = "done", ![i].said = @ \o <<"refused">> \o e]
    /\ UNCHANGED box

\* The time of the query is over, before or after the server executes it.
GiveUp(i) ==
    /\ call[i].at \in {"sent", "served"} /\ Def(i).query.late # <<>>
    /\ call' = [call EXCEPT ![i].at = "done", ![i].said = @ \o Def(i).query.late]
    /\ UNCHANGED box

\* An event of others is pushed, and processed in any order.
Push ==
    /\ box.server < MaxEvents /\ Cardinality(box.pushed) < MaxPushes
    /\ box' = [box EXCEPT !.server = @ + 1, !.pushed = @ \cup {box.server + 1}]
    /\ UNCHANGED call

Pushed(n) ==
    /\ n \in box.pushed
    /\ box' = [(IF box.fetch # "none" THEN box ELSE Checked(box, n)) EXCEPT !.pushed = @ \ {n}]
    /\ UNCHANGED call

\* The difference: the server answers with all there is, the client takes it
\* and is unlocked.
Fetch ==
    /\ \/ /\ box.fetch = "asked"
          /\ box' = [box EXCEPT !.fetch = ToString(box.server)]
       \/ \E n \in 1..MaxEvents :
             /\ box.fetch = ToString(n)
             /\ box' = [box EXCEPT !.fetch = "none", !.pts = IF n > @ THEN n ELSE @]
    /\ UNCHANGED call

Next ==
    \/ \E i \in {1, 2} : Make(i) \/ Serve(i) \/ Answer(i) \/ Refuse(i) \/ GiveUp(i)
    \/ Push \/ (\E n \in 1..MaxEvents : Pushed(n)) \/ Fetch

Spec == Init /\ [][Next]_callVars

-----------------------------------------------------------------------------
\* Properties.

\* How often the callback of a call was called.
Told(c) == Len(SelectSeq(c.said, LAMBDA e : e \in {"yes", "no"}))

\* Those the code never tells: what is done in a secret chat without the
\* callback or goes on there, what is prompted for and answered later, and a
\* name that could not be checked.
Unheard(c) ==
    \/ "prompt" \in ToSet(c.said) /\ Told(c) = 0
    \/ ToSet(c.said) \cap {"dropped", "secret"} # {}
    \/ c.api = "check_username" /\ Told(c) = 0

\* Each call is told once, when it ends, whatever becomes of its query; only
\* the calls that Unheard() names are not told at all.
ToldOnce ==
    \A i \in {1, 2} :
        Told(call[i]) = IF call[i].at = "done" /\ ~Unheard(call[i]) THEN 1 ELSE 0

\* A message that was shown as pending is shown as sent or failed in the end,
\* unless the answer came while a difference was fetched or out of order; a
\* location or a broadcast that is refused stays pending.
Settled ==
    \A i \in {1, 2} : call[i].at = "done" /\ "pending" \in ToSet(call[i].said) =>
        ToSet(call[i].said) \cap
            (IF call[i].api = "send_text_message" THEN {"sent", "failed", "late"}
             ELSE {"sent", "failed", "late", "refused"}) # {}
=============================================================================
