------------------------------- MODULE Download -------------------------------
(***************************************************************************)
(* Downloads (transfer_manager.cpp, download_task.cpp and                  *)
(* query_download_file_part.cpp).  A task asks for the parts of a file, as *)
(* many at a time as its client has connections; each answer is written to *)
(* the file, an encrypted one in the order of the parts, and asks for the  *)
(* next part.  The task ends at its last part, at its first failure or at  *)
(* the first answer after it was cancelled, while other parts may still be *)
(* on their way.                                                           *)
(***************************************************************************)
EXTENDS Integers, FiniteSets

CONSTANTS
    Tasks,           \* the calls of download_document() and ..._by_file_location()
    Id,              \* Id[t]: the download id the application gives
    File,            \* File[t]: the path, made of the access hash
    Parts,           \* Parts[t]: the number of parts, 0 when the size is unknown
    Located,         \* the tasks of download_by_file_location()
    Encrypted,       \* the tasks of encrypted documents
    MaxConnections,  \* max_connections() of the client
    None

ASSUME DownloadAssumption ==
    /\ Parts \in [Tasks -> Nat]
    /\ Located \subseteq Tasks /\ Encrypted \subseteq Tasks \ Located
    /\ MaxConnections \in Nat \ {0}
    /\ None \notin Tasks

VARIABLES
    task,       \* download_task of t
    downloads,  \* m_downloads: the task registered under an id
    inflight,   \* the parts of t whose queries have neither answer nor error
    dir,        \* the download directory: the content a path names
    content     \* content[t]: the parts that are right in the file t created

vars == <<task, downloads, inflight, dir, content>>

Ids == {Id[t] : t \in Tasks}
Files == {File[t] : t \in Tasks}

\* The parts the whole file has.
Whole(t) == 0..(IF Parts[t] = 0 THEN 0 ELSE Parts[t] - 1)
Offsets  == UNION {Whole(t) : t \in Tasks}

Finished == {"succeeded", "failed", "cancelled"}
Status   == {"none", "waiting", "connecting", "downloading"} \cup Finished

\* An entry of running_parts: none, one without data, with the bytes of the
\* answer being handled, or with a copy of its own.
Part == {"none", "asked", "borrowed", "copied"}

NoParts == [k \in Offsets |-> "none"]

\* next is the part at "offset", written the one at "decryption_offset"; told
\* is a ghost, the final statuses that the callback was given.
Task == [status : Status, cancel : BOOLEAN, named : BOOLEAN, next : Nat,
         running : [Offsets -> Part], written : Nat,
         stream : Tasks \cup {None}, told : SUBSET Finished]

NewTask == [status |-> "none", cancel |-> FALSE, named |-> FALSE, next |-> 0,
            running |-> NoParts, written |-> 0, stream |-> None, told |-> {}]

Init ==
    /\ task = [t \in Tasks |-> NewTask]
    /\ downloads = [i \in Ids |-> None]
    /\ inflight = [t \in Tasks |-> {}]
    /\ dir = [f \in Files |-> None]
    /\ content = [t \in Tasks |-> {}]

-----------------------------------------------------------------------------
(* The task                                                                *)

\* set_status(): every status is reported.
SetStatus(d, s) ==
    [d EXCEPT !.status = s, !.told = IF s \in Finished THEN @ \cup {s} ELSE @]

\* The task after a failure, before download_end().
Broken(d) == [SetStatus(d, "failed") EXCEPT !.running = NoParts]

\* Mutant: the name of the file is kept.
KeepsName(d) == [d EXCEPT !.stream = None]

\* The task without its file.
Discarded(d) == [d EXCEPT !.stream = None, !.named = FALSE]

\* download_end() keeps the file.
EndsWell(d) == d.status = "downloading" \/ ~d.named

\* download_end() of t with d in place of its task and F for the directory.
\* Only the first end finds the id registered.
End(t, d, F) ==
    \/ /\ downloads[Id[t]] = None
       /\ task' = [task EXCEPT ![t] = d]
       /\ dir' = F
       /\ UNCHANGED downloads
    \/ /\ downloads[Id[t]] # None
       /\ downloads' = [downloads EXCEPT ![Id[t]] = None]
       /\ \/ /\ EndsWell(d)
             /\ task' = [task EXCEPT ![t] = SetStatus([d EXCEPT !.stream = None], "succeeded")]
             /\ dir' = F
          \/ /\ ~EndsWell(d)
             /\ task' = [task EXCEPT ![t] = Discarded(d)]
             /\ dir' = [F EXCEPT ![File[t]] = None]

-----------------------------------------------------------------------------
(* Starting and cancelling                                                 *)

\* The parts download_multiple_parts(), or the single download_part() of an
\* unknown size, asks for.
FirstParts(t) ==
    IF Parts[t] = 0
    THEN IF t \in Located THEN {0} ELSE {}
    ELSE {k \in 0..Parts[t] - 1 : k < MaxConnections}

\* A call that makes no task: the id is taken, the location names no data
\* centre, or the key does not fit its fingerprint.
Refuse(t) ==
    /\ task[t].status = "none"
    /\ \/ downloads[Id[t]] # None
       \/ t \in Located
       \/ t \in Encrypted
    /\ task' = [task EXCEPT ![t] = SetStatus(@, "failed")]
    /\ UNCHANGED <<downloads, inflight, dir, content>>

\* download_document() or download_by_file_location(); the client refuses the
\* queries R at once (it is logging out, or cannot send).  The loop goes on
\* after a refusal, which has ended the task.
Start(t) ==
    /\ task[t].status = "none"
    /\ downloads[Id[t]] = None
    /\ \E R \in SUBSET FirstParts(t) :
       LET first == FirstParts(t)
           kept  == {k \in first : \A r \in R : r < k}
           d     == [SetStatus(task[t], "waiting") EXCEPT
                        !.named = first # {}, !.next = Cardinality(first),
                        !.running = [k \in Offsets |-> IF k \in kept THEN "asked" ELSE "none"]]
       IN /\ inflight' = [inflight EXCEPT ![t] = first \ R]
          /\ \/ /\ R = {}
                /\ task' = [task EXCEPT ![t] = d]
                /\ downloads' = [downloads EXCEPT ![Id[t]] = t]
                /\ dir' = dir
             \/ /\ R # {}
                /\ task' = [task EXCEPT ![t] = Discarded(SetStatus(d, "failed"))]
                /\ downloads' = downloads
                /\ dir' = [dir EXCEPT ![File[t]] = None]
    /\ UNCHANGED content

\* cancel_download() only leaves a mark.
Cancel(t) ==
    /\ downloads[Id[t]] = t
    /\ task' = [task EXCEPT ![t].cancel = TRUE]
    /\ UNCHANGED <<downloads, inflight, dir, content>>

-----------------------------------------------------------------------------
(* Answers                                                                 *)

\* check_cancelled()
Cancelled(d) == d.cancel \/ d.status = "cancelled"

Taken(t, k) == inflight' = [inflight EXCEPT ![t] = @ \ {k}]

\* The first answer of a task that was cancelled ends it.
PartCancelled(t, k) ==
    /\ Cancelled(task[t])
    /\ Taken(t, k)
    /\ End(t, [SetStatus(task[t], "cancelled") EXCEPT !.running = NoParts], dir)
    /\ UNCHANGED content

\* on_error(): nothing is opened.
PartFails(t, k) ==
    /\ Taken(t, k)
    /\ End(t, Broken(task[t]), dir)
    /\ UNCHANGED content

\* The file cannot be opened: because it has no name any more, or anyway.
OpenFails(t, k) ==
    /\ ~Cancelled(task[t])
    /\ task[t].stream = None
    /\ Taken(t, k)
    /\ End(t, Broken(task[t]), dir)
    /\ UNCHANGED content

\* The task, the directory and the contents once the file is open: the first
\* answer truncates what the path names, or creates it.
CanOpen(t) == task[t].stream # None \/ task[t].named
Opens(t)   == task[t].stream = None
Stream(t)  ==
    IF ~Opens(t) THEN task[t].stream
    ELSE IF dir[File[t]] = None THEN t ELSE dir[File[t]]
DirOpen(t) == IF Opens(t) THEN [dir EXCEPT ![File[t]] = Stream(t)] ELSE dir
ContentOpen(t) == IF Opens(t) THEN [content EXCEPT ![Stream(t)] = {}] ELSE content

\* An answer without bytes.
PartEmpty(t, k) ==
    /\ ~Cancelled(task[t]) /\ CanOpen(t)
    /\ Taken(t, k)
    /\ End(t, [Broken(task[t]) EXCEPT !.stream = Stream(t)], DirOpen(t))
    /\ content' = ContentOpen(t)

\* Mutant: what has arrived is decrypted whatever comes before it.
InAnyOrder(d) == {j \in Offsets : d.running[j] \in {"borrowed", "copied"}}

\* Mutant: each answer decrypts one part.
OneAtATime(d) == {j \in Offsets : j = d.written /\ d.running[j] \in {"borrowed", "copied"}}

\* The parts that can be decrypted: those that follow the last one without a gap.
Decryptable(d) ==
    {j \in Offsets : j >= d.written /\ \A i \in d.written..j :
                        d.running[i] \in {"borrowed", "copied"}}

\* The parts the answer k writes.
Written(t, k) ==
    IF t \in Encrypted
    THEN Decryptable([task[t] EXCEPT !.running[k] = "borrowed"])
    ELSE {k}

\* What is right of the parts W once they are decrypted: the cipher is chained,
\* a part depends on all that was decrypted before it.
Right(t, W) ==
    IF t \in Encrypted
    THEN {j \in W : j = task[t].written + Cardinality({i \in W : i < j})}
    ELSE W

\* What is kept of an answer that was not decrypted, when the parts W were: it is
\* copied if there are none, otherwise the parts W are erased and nothing else.
Kept(W) == IF W = {} THEN "copied" ELSE "borrowed"

\* running_parts after the parts W were written on the answer k.
Remaining(t, k, W) ==
    [j \in Offsets |-> IF j \in W THEN "none"
                       ELSE IF j = k THEN Kept(W)
                       ELSE task[t].running[j]]

\* Every part asked for has been written.
AllArrived(d) == \A j \in Offsets : d.running[j] = "none"

\* There is a part to ask for.
HasMore(t, d) == d.next < Parts[t]

\* Mutant: the status of the connection is kept.
AsConnected(d) == d

Downloading(d) ==
    IF d.status \in {"waiting", "connecting"} THEN SetStatus(d, "downloading") ELSE d

\* download_part_finished() with the bytes of part k: write them, and ask for
\* the next part, or end after the last one.
PartArrives(t, k) ==
    /\ ~Cancelled(task[t]) /\ CanOpen(t)
    /\ LET W == Written(t, k)
           d == Downloading([task[t] EXCEPT !.stream = Stream(t),
                                            !.written = @ + Cardinality(W),
                                            !.running = Remaining(t, k, W)])
           n == d.next
           next == [d EXCEPT !.next = n + 1, !.running[n] = "asked"]
       IN /\ content' = [ContentOpen(t) EXCEPT ![Stream(t)] = @ \cup Right(t, W)]
          /\ \/ /\ HasMore(t, d)
                /\ task' = [task EXCEPT ![t] = next]
                /\ inflight' = [inflight EXCEPT ![t] = (@ \ {k}) \cup {n}]
                /\ dir' = DirOpen(t)
                /\ UNCHANGED downloads
             \/ /\ HasMore(t, d)   \* the client refuses the next query at once
                /\ Taken(t, k)
                /\ End(t, Broken(next), DirOpen(t))
             \/ /\ ~HasMore(t, d) /\ AllArrived(d)
                /\ Taken(t, k)
                /\ End(t, d, DirOpen(t))
             \/ /\ ~HasMore(t, d) /\ ~AllArrived(d)
                /\ Taken(t, k)
                /\ task' = [task EXCEPT ![t] = d]
                /\ dir' = DirOpen(t)
                /\ UNCHANGED downloads

\* The query of part k ends, one way or the other.
PartEnds(t, k) ==
    \/ PartCancelled(t, k) \/ PartFails(t, k) \/ OpenFails(t, k)
    \/ PartEmpty(t, k) \/ PartArrives(t, k)

\* A query of t that has not ended is sent, or sent again; or its connection
\* changes.
StatusChanges(t) ==
    /\ inflight[t] # {}
    /\ task[t].status \notin Finished
    /\ \E s \in {"waiting", "connecting", "downloading"} :
          task' = [task EXCEPT ![t] = SetStatus(@, s)]
    /\ UNCHANGED <<downloads, inflight, dir, content>>

Next ==
    \E t \in Tasks :
        \/ Refuse(t)
        \/ Start(t)
        \/ Cancel(t)
        \/ StatusChanges(t)
        \/ \E k \in inflight[t] : PartEnds(t, k)

Spec == Init /\ [][Next]_vars

\* Queries end, as long as there are any: the query layer sends each again until
\* there is an answer or an error.
QueryEnds == \E t \in Tasks : \E k \in inflight[t] : PartEnds(t, k)

Fairness == WF_vars(QueryEnds)

FairSpec == Spec /\ Fairness

-----------------------------------------------------------------------------
(* Properties                                                              *)

\* Every variable holds a value of its kind.
TypeOK ==
    /\ task \in [Tasks -> Task]
    /\ downloads \in [Ids -> Tasks \cup {None}]
    /\ inflight \in [Tasks -> SUBSET Offsets]
    /\ dir \in [Files -> Tasks \cup {None}]
    /\ content \in [Tasks -> SUBSET Offsets]

\* When download_end() reports a success the file has every part, each in its
\* place and decrypted in order - whatever the order of the answers, the state
\* of the connection, or the requests to cancel that came too late.
FileComplete ==
    [][\A t \in Tasks :
          "succeeded" \in task'[t].told \ task[t].told =>
              /\ dir'[File[t]] # None
              /\ content'[dir'[File[t]]] = Whole(t)]_vars

\* A download that failed or was cancelled leaves no file, and the parts that
\* arrive after its end do not bring it back.
NoPartialFile ==
    \A t \in Tasks :
        task[t].told # {} /\ "succeeded" \notin task[t].told => dir[File[t]] = None

\* running_parts never keeps a pointer into an answer that has been handled.  The
\* answer is copied only when nothing was decrypted (download_data::own_data), so
\* this rests on every decrypted run beginning with the part that has just come:
\* no part that could have been decrypted is left over from an earlier answer.
NothingBorrowed ==
    \A t \in Tasks : \A k \in Offsets : task[t].running[k] # "borrowed"

\* No download is reported both as a success and as failed or cancelled
\* (download_end(): the id is gone once a download has finished).
FailureIsFinal ==
    \A t \in Tasks : "succeeded" \in task[t].told => task[t].told = {"succeeded"}

\* Every download is reported as finished, one way or the other.
Reported ==
    \A t \in Tasks : task[t].status # "none" ~> task[t].told # {}

=============================================================================
