-------------------------------- MODULE Upload --------------------------------
(***************************************************************************)
(* Uploads (transfer_manager.cpp, upload_task.cpp and                      *)
(* query_upload_file_part.cpp).  A task sends the parts of a document, as  *)
(* many at a time as its client has connections, and beside them its       *)
(* thumbnail; after the last part it sends the message that carries the    *)
(* document, whose outcome is that of the upload.                          *)
(***************************************************************************)
EXTENDS Integers, FiniteSets

CONSTANTS
    Tasks,           \* the calls of upload_document()
    Id,              \* Id[t]: the id of the message, as the application gives it
    Parts,           \* Parts[t]: the number of parts; 0 for a file that is
                     \* empty or has more than MAX_PARTS
    Thumbs,          \* the tasks that upload a thumbnail
    MaxConnections,  \* max_connections() of the active client
    None

VARIABLES
    task,      \* upload_task of t
    uploads,   \* m_uploads: the task registered under a message id
    inflight,  \* the parts of t whose queries have neither answer nor error
    sending    \* the tasks whose message has neither answer nor error

vars == <<task, uploads, inflight, sending>>

Ids == {Id[t] : t \in Tasks}

\* The part number the thumbnail is given, and those of the document.
Thumb == -1
Document(t) == 0..Parts[t] - 1
Numbers == {Thumb} \cup UNION {Document(t) : t \in Tasks}

Finished == {"succeeded", "failed", "cancelled"}
Status   == {"none", "waiting", "connecting", "uploading"} \cup Finished

\* next is part_num; stored and told are ghosts: the parts the server has
\* confirmed, and the final statuses that the callback was given.
Task == [status : Status, cancel : BOOLEAN, next : Nat, running : SUBSET Numbers,
         stored : SUBSET Numbers, told : SUBSET Finished]

NewTask == [status |-> "none", cancel |-> FALSE, next |-> 0, running |-> {},
            stored |-> {}, told |-> {}]

Init ==
    /\ task = [t \in Tasks |-> NewTask]
    /\ uploads = [i \in Ids |-> None]
    /\ inflight = [t \in Tasks |-> {}]
    /\ sending = {}

-----------------------------------------------------------------------------
(* The task                                                                *)

\* set_status(): every status is reported.
SetStatus(d, s) ==
    [d EXCEPT !.status = s, !.told = IF s \in Finished THEN @ \cup {s} ELSE @]

\* Mutant: the message is sent whatever happened to the parts.
AlwaysSends(d) == TRUE

\* upload_end() goes on to the message.
SendsMessage(d) == d.status = "uploading"

\* upload_end() of t with d in place of its task.  Only the first end finds the
\* id registered; the message may be refused at once (the secret chat or the
\* client is gone).
End(t, d) ==
    \/ /\ uploads[Id[t]] = None
       /\ task' = [task EXCEPT ![t] = d]
       /\ UNCHANGED <<uploads, sending>>
    \/ /\ uploads[Id[t]] # None
       /\ uploads' = [uploads EXCEPT ![Id[t]] = None]
       /\ \/ /\ ~SendsMessage(d)
             /\ task' = [task EXCEPT ![t] = d]
             /\ UNCHANGED sending
          \/ /\ SendsMessage(d)
             /\ task' = [task EXCEPT ![t] = d]
             /\ sending' = sending \cup {t}
          \/ /\ SendsMessage(d)
             /\ task' = [task EXCEPT ![t] = SetStatus(d, "failed")]
             /\ UNCHANGED sending

-----------------------------------------------------------------------------
(* Starting and cancelling                                                 *)

\* The parts upload_multiple_parts() sends first: a connection is left to the
\* thumbnail.
FirstParts(t) ==
    {k \in Document(t) : k < IF t \in Thumbs THEN MaxConnections - 1 ELSE MaxConnections}

FirstQueries(t) == FirstParts(t) \cup IF t \in Thumbs THEN {Thumb} ELSE {}

\* upload_document() of a file that is empty or too big.
Refuse(t) ==
    /\ task[t].status = "none"
    /\ Parts[t] = 0
    /\ task' = [task EXCEPT ![t] = SetStatus(@, "failed")]
    /\ UNCHANGED <<uploads, inflight, sending>>

\* upload_document(): the id is registered, whether or not it is already.  The
\* client refuses the queries R at once, the parts U cannot be read, or the
\* thumbnail is too big; each of them ends the task, but not the loop.
Start(t) ==
    /\ task[t].status = "none"
    /\ Parts[t] # 0
    /\ \E R \in SUBSET FirstQueries(t) : \E U \in SUBSET (FirstParts(t) \ R) :
       LET d == [SetStatus(task[t], "waiting") EXCEPT
                    !.next = Cardinality(FirstParts(t)),
                    !.running = FirstParts(t) \ R]
       IN /\ inflight' = [inflight EXCEPT ![t] = FirstQueries(t) \ (R \cup U)]
          /\ \/ /\ R \cup U = {}
                /\ task' = [task EXCEPT ![t] = d]
                /\ uploads' = [uploads EXCEPT ![Id[t]] = t]
             \/ /\ R \cup U # {}
                /\ task' = [task EXCEPT ![t] = SetStatus(d, "failed")]
                /\ uploads' = [uploads EXCEPT ![Id[t]] = None]
    /\ UNCHANGED sending

\* cancel_upload() only leaves a mark.
Cancel(t) ==
    /\ uploads[Id[t]] = t
    /\ task' = [task EXCEPT ![t].cancel = TRUE]
    /\ UNCHANGED <<uploads, inflight, sending>>

-----------------------------------------------------------------------------
(* Answers                                                                 *)

\* check_cancelled()
Cancelled(d) == d.cancel \/ d.status = "cancelled"

Taken(t, k) == inflight' = [inflight EXCEPT ![t] = @ \ {k}]

\* The task after the answer k.
Stored(t, k) ==
    [task[t] EXCEPT !.running = @ \ {k}, !.stored = @ \cup {k}]

\* The query of part k fails.
PartFails(t, k) ==
    /\ Taken(t, k)
    /\ End(t, SetStatus([task[t] EXCEPT !.running = @ \ {k}], "failed"))

\* The part is stored, but the task was cancelled.
PartCancelled(t, k) ==
    /\ Cancelled(task[t])
    /\ Taken(t, k)
    /\ End(t, SetStatus(Stored(t, k), "cancelled"))

\* Mutant: the status of the connection is kept.
AsConnected(d) == d

Uploading(d) ==
    IF d.status \in {"waiting", "connecting"} THEN SetStatus(d, "uploading") ELSE d

\* Mutant: the last part to be sent completes the document.
AllSent(d) == TRUE

\* There is a part to send, and every part that was sent is stored.
HasMore(t, d) == d.next < Parts[t]
AllStored(d)  == d.running = {}

\* upload_part_finished(): send the next part, or end after the last one.  The
\* next part is refused at once, or cannot be read, in the second disjunct.
PartStored(t, k) ==
    /\ ~Cancelled(task[t])
    /\ LET d == Uploading(Stored(t, k))
           n == d.next
           next == [d EXCEPT !.next = n + 1, !.running = @ \cup {n}]
       IN \/ /\ HasMore(t, d)
             /\ task' = [task EXCEPT ![t] = next]
             /\ inflight' = [inflight EXCEPT ![t] = (@ \ {k}) \cup {n}]
             /\ UNCHANGED <<uploads, sending>>
          \/ /\ HasMore(t, d)
             /\ Taken(t, k)
             /\ \E r \in {d.running, next.running} :
                   End(t, SetStatus([next EXCEPT !.running = r], "failed"))
          \/ /\ ~HasMore(t, d) /\ AllStored(d)
             /\ Taken(t, k)
             /\ End(t, d)
          \/ /\ ~HasMore(t, d) /\ ~AllStored(d)
             /\ Taken(t, k)
             /\ task' = [task EXCEPT ![t] = d]
             /\ UNCHANGED <<uploads, sending>>

PartEnds(t, k) == PartFails(t, k) \/ PartCancelled(t, k) \/ PartStored(t, k)

\* A query of t that has not ended is sent, or sent again; or its connection
\* changes.
StatusChanges(t) ==
    /\ inflight[t] # {}
    /\ task[t].status \notin Finished
    /\ \E s \in {"waiting", "connecting", "uploading"} :
          task' = [task EXCEPT ![t] = SetStatus(@, s)]
    /\ UNCHANGED <<uploads, inflight, sending>>

\* The query of the message ends.
MessageEnds(t) ==
    /\ t \in sending
    /\ sending' = sending \ {t}
    /\ \E s \in {"succeeded", "failed"} : task' = [task EXCEPT ![t] = SetStatus(@, s)]
    /\ UNCHANGED <<uploads, inflight>>

Next ==
    \E t \in Tasks :
        \/ Refuse(t)
        \/ Start(t)
        \/ Cancel(t)
        \/ StatusChanges(t)
        \/ \E k \in inflight[t] : PartEnds(t, k)
        \/ MessageEnds(t)

Spec == Init /\ [][Next]_vars

\* Queries end, as long as there are any: the query layer sends each again until
\* there is an answer or an error.
QueryEnds == \E t \in Tasks : MessageEnds(t) \/ \E k \in inflight[t] : PartEnds(t, k)

Fairness == WF_vars(QueryEnds)

FairSpec == Spec /\ Fairness

-----------------------------------------------------------------------------
(* Properties                                                              *)

\* Every variable holds a value of its kind.
TypeOK ==
    /\ task \in [Tasks -> Task]
    /\ uploads \in [Ids -> Tasks \cup {None}]
    /\ inflight \in [Tasks -> SUBSET Numbers]
    /\ sending \subseteq Tasks

\* The message is sent after every part of the document is stored, whatever the
\* order of the answers and of the thumbnail's among them.
MessageHasDocument ==
    \A t \in Tasks :
        t \in sending \/ "succeeded" \in task[t].told => Document(t) \subseteq task[t].stored

\* The message names the thumbnail after the thumbnail is stored: upload_end()
\* comes after all parts.
MessageHasThumb ==
    \A t \in Thumbs : t \in sending => Thumb \in task[t].stored

\* Without a thumbnail, no upload is reported as a success and also as failed or
\* cancelled, though the parts on their way at its end go on being handled.
OneVerdict ==
    \A t \in Tasks \ Thumbs :
        "succeeded" \in task[t].told => task[t].told = {"succeeded"}

\* After an upload was reported as cancelled no part of it is sent any more, and
\* no message unless it was on its way.
CancelStops ==
    [][\A t \in Tasks : "cancelled" \in task[t].told =>
          inflight'[t] \subseteq inflight[t] /\ (t \in sending' => t \in sending)]_vars

\* Every upload is reported as finished, one way or the other.
Reported ==
    \A t \in Tasks : task[t].status # "none" ~> task[t].told # {}

=============================================================================
