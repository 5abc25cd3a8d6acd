----------------------------- MODULE UploadProofs -----------------------------
(***************************************************************************)
(* Uploads, for any number of tasks, parts and connections, and whichever   *)
(* ids the application gives them: two uploads may share one.               *)
(***************************************************************************)
EXTENDS Upload, FiniteSetTheorems, TLAPS

\* What the constants are: Parts[t] is a number, a client has a connection.
UploadAssumption ==
    /\ Parts \in [Tasks -> Nat]
    /\ MaxConnections \in Nat \ {0}
    /\ None \notin Tasks

-----------------------------------------------------------------------------
(* The inductive invariant                                                 *)

\* A task between upload_document() and its end.
Active == {"waiting", "connecting", "uploading"}

\* A task that has not ended was not reported as ended.
Untold(t) == task[t].status \notin Finished => task[t].told = {}

\* Before the call nothing is sent.
Unused(t) == task[t].status = "none" => inflight[t] = {}

\* Of a task that goes on, each part that was sent is stored or awaited, and
\* what is on its way, beside the thumbnail's, is awaited.
Accounted(t) ==
    task[t].status \in Active =>
        /\ \A k \in 0..task[t].next - 1 : k \in task[t].stored \cup task[t].running
        /\ t \notin Thumbs => inflight[t] \subseteq task[t].running

\* The message carries the whole document.
Whole(t) ==
    t \in sending \/ "succeeded" \in task[t].told => Document(t) \subseteq task[t].stored

\* While the message of a document without thumbnail is on its way, and after it
\* has arrived, there is nothing else left of the task.
Last(t) ==
    t \notin Thumbs =>
        /\ t \in sending => task[t].status = "uploading" /\ inflight[t] = {}
        /\ "succeeded" \in task[t].told =>
              /\ task[t].status = "succeeded" /\ task[t].told = {"succeeded"}
              /\ t \notin sending /\ inflight[t] = {}

\* A task is reported as cancelled only after it was asked to stop.
Asked(t) == task[t].status = "cancelled" \/ "cancelled" \in task[t].told => task[t].cancel

\* All of this, of one task.
Sound(t) == Untold(t) /\ Unused(t) /\ Accounted(t) /\ Whole(t) /\ Last(t) /\ Asked(t)

\* The invariant the steps preserve.
IInv == TypeOK /\ \A t \in Tasks : Sound(t)

-----------------------------------------------------------------------------
(* The operators on a task                                                 *)

\* SetStatus() gives the status, adds a final one to what was told, and leaves
\* the rest of the task alone.
LEMMA SetStatusFields ==
    ASSUME NEW d \in Task, NEW s \in Status
    PROVE  /\ SetStatus(d, s) \in Task
           /\ SetStatus(d, s).status = s
           /\ SetStatus(d, s).told = IF s \in Finished THEN d.told \cup {s} ELSE d.told
           /\ SetStatus(d, s).cancel = d.cancel
           /\ SetStatus(d, s).next = d.next
           /\ SetStatus(d, s).running = d.running
           /\ SetStatus(d, s).stored = d.stored
BY DEF SetStatus, Task, Status, Finished

\* The parts that are sent first are numbered from 0: next is the first of the
\* others.
LEMMA FirstPartsCount ==
    ASSUME UploadAssumption, NEW t \in Tasks
    PROVE  /\ Cardinality(FirstParts(t)) \in Nat
           /\ FirstParts(t) = 0..Cardinality(FirstParts(t)) - 1
           /\ FirstParts(t) \subseteq Document(t)
<1> DEFINE most == IF t \in Thumbs THEN MaxConnections - 1 ELSE MaxConnections
           n == IF Parts[t] < most THEN Parts[t] ELSE most
<1>1. Parts[t] \in Nat /\ most \in Nat /\ n \in Nat
  BY DEF UploadAssumption
<1>2. FirstParts(t) = 0..n - 1
  <2>1. \A k \in Int : k \in Document(t) /\ k < most <=> k \in 0..n - 1
    BY <1>1 DEF Document
  <2> QED
    BY <2>1 DEF FirstParts, Document
<1> HIDE DEF n
<1>3. Cardinality(0..n - 1) = n
  <2>1. Cardinality(0..n - 1) = IF 0 > n - 1 THEN 0 ELSE n - 1 - 0 + 1
    BY <1>1, FS_Interval
  <2> QED
    BY <1>1, <2>1
<1> QED
  BY <1>1, <1>2, <1>3 DEF FirstParts

\* The numbers of a task's parts are numbers.
LEMMA DocumentNumbers ==
    ASSUME NEW t \in Tasks
    PROVE  Document(t) \subseteq Numbers /\ Thumb \in Numbers /\ Thumb \notin Document(t)
BY DEF Document, Numbers, Thumb

\* What upload_end() may do to t: keep the task it is given, or find the message
\* refused; and only a task that still uploads sends its message.
LEMMA EndEffect ==
    ASSUME TypeOK, UploadAssumption, NEW t \in Tasks, NEW d \in Task, End(t, d)
    PROVE  /\ uploads' \in [Ids -> Tasks \cup {None}]
           /\ \/ task' = [task EXCEPT ![t] = d] /\ sending' = sending
              \/ /\ d.status = "uploading"
                 /\ task' = [task EXCEPT ![t] = d] /\ sending' = sending \cup {t}
              \/ /\ d.status = "uploading"
                 /\ task' = [task EXCEPT ![t] = SetStatus(d, "failed")] /\ sending' = sending
<1>1. Id[t] \in Ids
  BY DEF Ids
<1> QED
  BY <1>1 DEF End, SendsMessage, TypeOK

\* A step of t is sound when it leaves a sound task and touches no other.
LEMMA OnlyOne ==
    ASSUME IInv, NEW t \in Tasks, NEW e \in Task, NEW Q \in SUBSET Numbers,
           task' = [task EXCEPT ![t] = e],
           inflight' = [inflight EXCEPT ![t] = Q],
           uploads' \in [Ids -> Tasks \cup {None}],
           sending' \in {sending, sending \cup {t}, sending \ {t}},
           Sound(t)'
    PROVE  IInv'
<1>1. TypeOK'
  BY DEF IInv, TypeOK
<1>2. ASSUME NEW u \in Tasks, u # t
      PROVE  Sound(u)'
  <2>1. /\ task'[u] = task[u] /\ inflight'[u] = inflight[u]
        /\ u \in sending' <=> u \in sending
    BY <1>2 DEF IInv, TypeOK
  <2>2. Sound(u)
    BY DEF IInv
  <2> QED
    BY <2>1, <2>2 DEF Sound, Untold, Unused, Accounted, Whole, Last, Asked
<1> QED
  BY <1>1, <1>2 DEF IInv

-----------------------------------------------------------------------------
(* The steps                                                               *)

\* Before the first call every task is unused.
LEMMA InitIInv == UploadAssumption /\ Init => IInv
<1> SUFFICES ASSUME UploadAssumption, Init PROVE IInv
  OBVIOUS
<1>1. NewTask \in Task
  BY DEF NewTask, Task, Status
<1>2. TypeOK
  BY <1>1 DEF Init, TypeOK
<1>3. ASSUME NEW t \in Tasks PROVE Sound(t)
  BY DEF Init, NewTask, Sound, Untold, Unused, Accounted, Whole, Last, Asked, Active
<1> QED
  BY <1>2, <1>3 DEF IInv

\* A file that is empty or too big fails at once.
LEMMA RefusePreserves ==
    ASSUME UploadAssumption, IInv, NEW t \in Tasks, Refuse(t)
    PROVE  IInv'
<1> DEFINE e == SetStatus(task[t], "failed")
<1>1. task[t] \in Task /\ inflight[t] \in SUBSET Numbers /\ Sound(t)
  BY DEF IInv, TypeOK
<1>2. /\ e \in Task /\ e.status = "failed" /\ e.told = task[t].told \cup {"failed"}
      /\ e.stored = task[t].stored /\ e.cancel = task[t].cancel
  BY <1>1, SetStatusFields DEF Status, Finished
<1>3. task' = [task EXCEPT ![t] = e] /\ task'[t] = e
  BY DEF Refuse, IInv, TypeOK
<1> HIDE DEF e
<1>4. Sound(t)'
  BY <1>1, <1>2, <1>3
  DEF Refuse, Sound, Untold, Unused, Accounted, Whole, Last, Asked, Active, Finished
<1>5. inflight' = [inflight EXCEPT ![t] = inflight[t]]
  BY DEF Refuse, IInv, TypeOK
<1> QED
  BY <1>1, <1>2, <1>3, <1>4, <1>5, OnlyOne DEF Refuse, IInv, TypeOK

\* The first queries, those that are refused and those whose part cannot be read.
LEMMA StartPreserves ==
    ASSUME UploadAssumption, IInv, NEW t \in Tasks, Start(t)
    PROVE  IInv'
<1>1. task[t] \in Task /\ Sound(t) /\ task[t].status = "none" /\ Id[t] \in Ids
  BY DEF IInv, TypeOK, Start, Ids
<1>2. PICK R \in SUBSET FirstQueries(t), U \in SUBSET FirstParts(t) :
        LET d == [SetStatus(task[t], "waiting") EXCEPT
                     !.next = Cardinality(FirstParts(t)),
                     !.running = FirstParts(t) \ R]
        IN /\ inflight' = [inflight EXCEPT ![t] = FirstQueries(t) \ (R \cup U)]
           /\ \/ /\ task' = [task EXCEPT ![t] = d]
                 /\ R \cup U = {}
                 /\ uploads' = [uploads EXCEPT ![Id[t]] = t]
              \/ /\ task' = [task EXCEPT ![t] = SetStatus(d, "failed")]
                 /\ uploads' = [uploads EXCEPT ![Id[t]] = None]
  BY DEF Start
<1> DEFINE w == SetStatus(task[t], "waiting")
           d == [w EXCEPT !.next = Cardinality(FirstParts(t)), !.running = FirstParts(t) \ R]
           f == SetStatus(d, "failed")
<1>3. /\ w \in Task /\ w.status = "waiting" /\ w.told = task[t].told
      /\ w.stored = task[t].stored /\ w.cancel = task[t].cancel
  BY <1>1, SetStatusFields DEF Status, Finished
<1>4. /\ Cardinality(FirstParts(t)) \in Nat
      /\ FirstParts(t) = 0..Cardinality(FirstParts(t)) - 1
      /\ FirstParts(t) \subseteq Numbers
  BY FirstPartsCount, DocumentNumbers
<1>5. /\ d \in Task /\ d.status = "waiting" /\ d.told = task[t].told
      /\ d.stored = task[t].stored /\ d.cancel = task[t].cancel
      /\ d.next = Cardinality(FirstParts(t)) /\ d.running = FirstParts(t) \ R
  <2> HIDE DEF w
  <2> QED
    BY <1>3, <1>4 DEF Task
<1>6. /\ f \in Task /\ f.status = "failed" /\ f.told = task[t].told \cup {"failed"}
      /\ f.stored = task[t].stored /\ f.cancel = task[t].cancel
  <2> HIDE DEF d
  <2> QED
    BY <1>5, SetStatusFields DEF Status, Finished
<1>7. /\ FirstQueries(t) \subseteq Numbers
      /\ t \notin Thumbs => FirstQueries(t) = FirstParts(t)
  BY <1>4, DocumentNumbers DEF FirstQueries
<1>8. UNCHANGED sending
  BY DEF Start
<1> HIDE DEF w, d, f
<1> DEFINE Q == FirstQueries(t) \ (R \cup U)
<1>9. /\ inflight' = [inflight EXCEPT ![t] = Q] /\ Q \in SUBSET Numbers /\ inflight'[t] = Q
  BY <1>2, <1>7 DEF IInv, TypeOK
<1>10. CASE R \cup U = {} /\ task' = [task EXCEPT ![t] = d]
            /\ uploads' = [uploads EXCEPT ![Id[t]] = t]
  <2>1. task'[t] = d
    BY <1>10 DEF IInv, TypeOK
  <2>2. Sound(t)'
    BY <1>1, <1>4, <1>5, <1>7, <1>8, <1>9, <1>10, <2>1
    DEF Sound, Untold, Unused, Accounted, Whole, Last, Asked, Active, Finished
  <2>3. uploads' \in [Ids -> Tasks \cup {None}]
    BY <1>1, <1>10 DEF IInv, TypeOK
  <2> QED
    BY <1>5, <1>8, <1>9, <1>10, <2>2, <2>3, OnlyOne
<1>11. CASE task' = [task EXCEPT ![t] = f] /\ uploads' = [uploads EXCEPT ![Id[t]] = None]
  <2>1. task'[t] = f
    BY <1>11 DEF IInv, TypeOK
  <2>2. Sound(t)'
    BY <1>1, <1>6, <1>8, <2>1
    DEF Sound, Untold, Unused, Accounted, Whole, Last, Asked, Active, Finished
  <2>3. uploads' \in [Ids -> Tasks \cup {None}]
    BY <1>1, <1>11 DEF IInv, TypeOK
  <2> QED
    BY <1>6, <1>8, <1>9, <1>11, <2>2, <2>3, OnlyOne
<1> QED
  BY <1>2, <1>10, <1>11 DEF d, f, w

\* A mark, for the next answer to find.
LEMMA CancelPreserves ==
    ASSUME UploadAssumption, IInv, NEW t \in Tasks, Cancel(t)
    PROVE  IInv'
<1> DEFINE e == [task[t] EXCEPT !.cancel = TRUE]
<1>1. task[t] \in Task /\ inflight[t] \in SUBSET Numbers /\ Sound(t)
  BY DEF IInv, TypeOK
<1>2. /\ e \in Task /\ e.cancel /\ e.status = task[t].status /\ e.told = task[t].told
      /\ e.stored = task[t].stored /\ e.running = task[t].running /\ e.next = task[t].next
  BY <1>1 DEF Task
<1>3. task' = [task EXCEPT ![t] = e] /\ task'[t] = e
  BY DEF Cancel, IInv, TypeOK
<1> HIDE DEF e
<1>4. Sound(t)'
  BY <1>1, <1>2, <1>3 DEF Cancel, Sound, Untold, Unused, Accounted, Whole, Last, Asked
<1>5. inflight' = [inflight EXCEPT ![t] = inflight[t]]
  BY DEF Cancel, IInv, TypeOK
<1> QED
  BY <1>1, <1>2, <1>3, <1>4, <1>5, OnlyOne DEF Cancel, IInv, TypeOK

\* The status of a query or of its connection.
LEMMA StatusPreserves ==
    ASSUME UploadAssumption, IInv, NEW t \in Tasks, StatusChanges(t)
    PROVE  IInv'
<1>1. /\ task[t] \in Task /\ inflight[t] \in SUBSET Numbers /\ Sound(t)
      /\ inflight[t] # {} /\ task[t].status \notin Finished
  BY DEF IInv, TypeOK, StatusChanges
<1>2. PICK s \in Active : task' = [task EXCEPT ![t] = SetStatus(task[t], s)]
  BY DEF StatusChanges, Active
<1> DEFINE e == SetStatus(task[t], s)
<1>3. /\ e \in Task /\ e.status = s /\ e.told = task[t].told /\ e.cancel = task[t].cancel
      /\ e.stored = task[t].stored /\ e.running = task[t].running /\ e.next = task[t].next
  BY <1>1, SetStatusFields DEF Status, Finished, Active
<1>4. task' = [task EXCEPT ![t] = e] /\ task'[t] = e
  BY <1>2 DEF IInv, TypeOK
<1> HIDE DEF e
<1>5. task[t].status \in Active
  BY <1>1 DEF Sound, Unused, Task, Status, Active, Finished
<1>6. Sound(t)'
  BY <1>1, <1>3, <1>4, <1>5
  DEF StatusChanges, Sound, Untold, Unused, Accounted, Whole, Last, Asked, Active, Finished
<1>7. inflight' = [inflight EXCEPT ![t] = inflight[t]]
  BY DEF StatusChanges, IInv, TypeOK
<1> QED
  BY <1>1, <1>3, <1>4, <1>6, <1>7, OnlyOne DEF StatusChanges, IInv, TypeOK

\* The answer to the message is the outcome of the upload.
LEMMA MessagePreserves ==
    ASSUME UploadAssumption, IInv, NEW t \in Tasks, MessageEnds(t)
    PROVE  IInv'
<1>1. task[t] \in Task /\ inflight[t] \in SUBSET Numbers /\ Sound(t) /\ t \in sending
  BY DEF IInv, TypeOK, MessageEnds
<1>2. PICK s \in {"succeeded", "failed"} : task' = [task EXCEPT ![t] = SetStatus(task[t], s)]
  BY DEF MessageEnds
<1> DEFINE e == SetStatus(task[t], s)
<1>3. /\ e \in Task /\ e.status = s /\ e.told = task[t].told \cup {s}
      /\ e.cancel = task[t].cancel /\ e.stored = task[t].stored
  BY <1>1, SetStatusFields DEF Status, Finished
<1>4. task' = [task EXCEPT ![t] = e] /\ task'[t] = e
  BY <1>2 DEF IInv, TypeOK
<1> HIDE DEF e
<1>5. sending' = sending \ {t} /\ inflight' = [inflight EXCEPT ![t] = inflight[t]]
  BY DEF MessageEnds, IInv, TypeOK
<1>6. Sound(t)'
  BY <1>1, <1>3, <1>4, <1>5
  DEF MessageEnds, Sound, Untold, Unused, Accounted, Whole, Last, Asked, Active, Finished
<1> QED
  BY <1>1, <1>3, <1>4, <1>5, <1>6, OnlyOne DEF MessageEnds, IInv, TypeOK

\* A task that ends without its message is sound, whatever was awaited of it.
LEMMA EndPreserves ==
    ASSUME UploadAssumption, IInv, NEW t \in Tasks, NEW k \in inflight[t],
           task[t].status # "none",
           NEW b \in Task, NEW s \in {"failed", "cancelled"},
           s = "cancelled" => b.cancel,
           b.told = task[t].told, b.cancel = task[t].cancel,
           task[t].stored \subseteq b.stored,
           Taken(t, k), End(t, SetStatus(b, s))
    PROVE  IInv'
<1> DEFINE e == SetStatus(b, s)
<1>1. task[t] \in Task /\ inflight[t] \in SUBSET Numbers /\ Sound(t)
  BY DEF IInv, TypeOK
<1>2. /\ e \in Task /\ e.status = s /\ e.told = task[t].told \cup {s}
      /\ e.cancel = task[t].cancel /\ e.stored = b.stored
  BY SetStatusFields DEF Status, Finished
<1> HIDE DEF e
<1>3. End(t, e)
  BY DEF e
<1>4. /\ task' = [task EXCEPT ![t] = e] /\ sending' = sending
      /\ uploads' \in [Ids -> Tasks \cup {None}]
  BY <1>2, <1>3, EndEffect DEF IInv
<1>5. task'[t] = e
  BY <1>4 DEF IInv, TypeOK
<1> DEFINE Q == inflight[t] \ {k}
<1>6. inflight' = [inflight EXCEPT ![t] = Q] /\ Q \in SUBSET Numbers /\ inflight'[t] = Q
  BY <1>1 DEF Taken, IInv, TypeOK
<1>7. Sound(t)'
  BY <1>1, <1>2, <1>4, <1>5, <1>6
  DEF Sound, Untold, Unused, Accounted, Whole, Last, Asked, Active, Finished
<1> QED
  BY <1>2, <1>4, <1>6, <1>7, OnlyOne

\* The task after an answer: a part more is stored, one less awaited, and nothing
\* else is new but perhaps that it uploads.
LEMMA StoredFields ==
    ASSUME TypeOK, NEW t \in Tasks, NEW k \in inflight[t]
    PROVE  \A d \in {Stored(t, k), Uploading(Stored(t, k))} :
              /\ d \in Task /\ d.told = task[t].told /\ d.cancel = task[t].cancel
              /\ d.next = task[t].next /\ d.running = task[t].running \ {k}
              /\ d.stored = task[t].stored \cup {k}
              /\ \/ d.status = task[t].status
                 \/ task[t].status \in {"waiting", "connecting"} /\ d.status = "uploading"
<1> DEFINE d == Stored(t, k)
<1>1. task[t] \in Task /\ k \in Numbers
  BY DEF TypeOK
<1>2. /\ d \in Task /\ d.told = task[t].told /\ d.cancel = task[t].cancel
      /\ d.next = task[t].next /\ d.running = task[t].running \ {k}
      /\ d.stored = task[t].stored \cup {k} /\ d.status = task[t].status
  BY <1>1 DEF Stored, Task
<1> HIDE DEF d
<1>3. \/ Uploading(d) = d
      \/ d.status \in {"waiting", "connecting"} /\ Uploading(d) = SetStatus(d, "uploading")
  BY DEF Uploading
<1>4. LET e == SetStatus(d, "uploading")
      IN /\ e \in Task /\ e.told = d.told /\ e.cancel = d.cancel /\ e.next = d.next
         /\ e.running = d.running /\ e.stored = d.stored /\ e.status = "uploading"
  BY <1>2, SetStatusFields DEF Status, Finished
<1> QED
  BY <1>2, <1>3, <1>4 DEF d

\* on_error() of a part.
LEMMA PartFailsPreserves ==
    ASSUME UploadAssumption, IInv, NEW t \in Tasks, NEW k \in inflight[t], PartFails(t, k)
    PROVE  IInv'
<1> DEFINE b == [task[t] EXCEPT !.running = @ \ {k}]
<1>1. task[t] \in Task /\ Sound(t)
  BY DEF IInv, TypeOK
<1>2. b \in Task /\ b.told = task[t].told /\ b.cancel = task[t].cancel /\ b.stored = task[t].stored
  BY <1>1 DEF Task
<1>3. task[t].status # "none"
  BY <1>1 DEF Sound, Unused
<1>4. Taken(t, k) /\ End(t, SetStatus(b, "failed"))
  BY DEF PartFails
<1> HIDE DEF b
<1> QED
  BY <1>2, <1>3, <1>4, EndPreserves

\* An answer that finds the task cancelled.
LEMMA PartCancelledPreserves ==
    ASSUME UploadAssumption, IInv, NEW t \in Tasks, NEW k \in inflight[t], PartCancelled(t, k)
    PROVE  IInv'
<1> DEFINE b == Stored(t, k)
<1>1. TypeOK /\ Sound(t)
  BY DEF IInv
<1>2. b \in Task /\ b.told = task[t].told /\ b.cancel = task[t].cancel
      /\ b.stored = task[t].stored \cup {k}
  BY <1>1, StoredFields
<1>3. task[t].status # "none" /\ task[t].cancel
  BY <1>1 DEF Sound, Unused, Asked, PartCancelled, Cancelled
<1>4. Taken(t, k) /\ End(t, SetStatus(b, "cancelled"))
  BY DEF PartCancelled
<1> HIDE DEF b
<1> QED
  BY <1>2, <1>3, <1>4, EndPreserves

\* An answer that is taken: the next part is sent, the task ends or it waits for
\* the others.
LEMMA PartStoredPreserves ==
    ASSUME UploadAssumption, IInv, NEW t \in Tasks, NEW k \in inflight[t], PartStored(t, k)
    PROVE  IInv'
<1> DEFINE d == Uploading(Stored(t, k))
           n == d.next
           next == [d EXCEPT !.next = n + 1, !.running = @ \cup {n}]
<1>1. /\ TypeOK /\ Sound(t) /\ task[t] \in Task /\ k \in Numbers
      /\ inflight[t] \in SUBSET Numbers /\ ~Cancelled(task[t])
  BY DEF IInv, TypeOK, PartStored
<1>2. /\ d \in Task /\ d.told = task[t].told /\ d.cancel = task[t].cancel
      /\ d.next = task[t].next /\ d.running = task[t].running \ {k}
      /\ d.stored = task[t].stored \cup {k}
      /\ \/ d.status = task[t].status
         \/ task[t].status \in {"waiting", "connecting"} /\ d.status = "uploading"
  BY <1>1, StoredFields
<1>3. task[t].status # "none" /\ n \in Nat
  BY <1>1, <1>2 DEF Sound, Unused, Task
<1>4. \/ HasMore(t, d) /\ task' = [task EXCEPT ![t] = next]
         /\ inflight' = [inflight EXCEPT ![t] = (@ \ {k}) \cup {n}]
         /\ UNCHANGED <<uploads, sending>>
      \/ HasMore(t, d) /\ Taken(t, k)
         /\ \E r \in {d.running, next.running} :
               End(t, SetStatus([next EXCEPT !.running = r], "failed"))
      \/ ~HasMore(t, d) /\ AllStored(d) /\ Taken(t, k) /\ End(t, d)
      \/ ~HasMore(t, d) /\ ~AllStored(d) /\ Taken(t, k)
         /\ task' = [task EXCEPT ![t] = d] /\ UNCHANGED <<uploads, sending>>
  BY DEF PartStored
<1> HIDE DEF d
<1>5. HasMore(t, d) =>
        /\ n \in Numbers /\ next \in Task /\ next.told = d.told /\ next.cancel = d.cancel
        /\ next.next = n + 1 /\ next.running = d.running \cup {n}
        /\ next.stored = d.stored /\ next.status = d.status
  <2>1. HasMore(t, d) => n \in Document(t)
    BY <1>3 DEF HasMore, Document, UploadAssumption
  <2>2. HasMore(t, d) => n \in Numbers
    BY <2>1, DocumentNumbers
  <2>3. n \in Numbers => d.running \cup {n} \in SUBSET Numbers
    BY <1>2 DEF Task
  <2> SUFFICES ASSUME HasMore(t, d)
               PROVE  /\ n \in Numbers /\ next \in Task /\ next.told = d.told
                      /\ next.cancel = d.cancel /\ next.stored = d.stored
                      /\ next.next = n + 1 /\ next.running = d.running \cup {n}
                      /\ next.status = d.status
    OBVIOUS
  <2>4. n + 1 \in Nat
    BY <1>3
  <2> HIDE DEF n
  <2> QED
    BY <1>2, <2>2, <2>3, <2>4 DEF Task
<1>6. ~HasMore(t, d) => Document(t) \subseteq 0..n - 1
  BY <1>3 DEF HasMore, Document, UploadAssumption
<1>7. CASE HasMore(t, d) /\ task' = [task EXCEPT ![t] = next]
           /\ inflight' = [inflight EXCEPT ![t] = (@ \ {k}) \cup {n}]
           /\ UNCHANGED <<uploads, sending>>
  <2> DEFINE Q == (inflight[t] \ {k}) \cup {n}
  <2>1. Q \in SUBSET Numbers /\ inflight' = [inflight EXCEPT ![t] = Q] /\ inflight'[t] = Q
    BY <1>1, <1>5, <1>7 DEF TypeOK
  <2>2. task'[t] = next
    BY <1>1, <1>7 DEF TypeOK
  <2> HIDE DEF next, n
  <2>3. Accounted(t)'
    <3>1. n = task[t].next
      BY <1>2 DEF n
    <3>2. d.status \in Active => \A j \in 0..n : j \in next.stored \cup next.running
      BY <1>1, <1>2, <1>3, <1>5, <1>7, <3>1 DEF Sound, Accounted, Active
    <3>3. d.status \in Active /\ t \notin Thumbs => Q \subseteq next.running
      BY <1>1, <1>2, <1>5, <1>7, <3>1 DEF Sound, Accounted, Active
    <3> QED
      BY <1>3, <1>5, <1>7, <2>1, <2>2, <3>2, <3>3 DEF Accounted
  <2>4. Sound(t)'
    BY <1>1, <1>2, <1>5, <1>7, <2>2, <2>3
    DEF Sound, Untold, Unused, Whole, Last, Asked, Active, Finished
  <2> QED
    BY <1>1, <1>5, <1>7, <2>1, <2>4, OnlyOne DEF TypeOK
<1>8. CASE HasMore(t, d) /\ Taken(t, k)
           /\ \E r \in {d.running, next.running} :
                 End(t, SetStatus([next EXCEPT !.running = r], "failed"))
  <2>1. PICK r \in {d.running, next.running} :
              End(t, SetStatus([next EXCEPT !.running = r], "failed"))
    BY <1>8
  <2> DEFINE b == [next EXCEPT !.running = r]
  <2>2. r \subseteq Numbers
    BY <1>2, <1>5, <1>8 DEF Task
  <2> HIDE DEF next
  <2>3. b \in Task /\ b.told = next.told /\ b.cancel = next.cancel /\ b.stored = next.stored
    BY <1>5, <1>8, <2>2 DEF Task
  <2> HIDE DEF b
  <2> QED
    BY <1>2, <1>3, <1>5, <1>8, <2>1, <2>3, EndPreserves DEF b
<1>9. CASE /\ ~HasMore(t, d)
           /\ Taken(t, k)
           /\ \/ AllStored(d) /\ End(t, d)
              \/ task' = [task EXCEPT ![t] = d] /\ UNCHANGED <<uploads, sending>>
  <2> DEFINE Q == inflight[t] \ {k}
  <2>1. Q \in SUBSET Numbers /\ inflight' = [inflight EXCEPT ![t] = Q] /\ inflight'[t] = Q
    BY <1>1, <1>9 DEF Taken, TypeOK
  <2>2. d.status \in Active =>
          /\ \A j \in 0..n - 1 : j \in d.stored \cup d.running
          /\ t \notin Thumbs => Q \subseteq d.running
    BY <1>1, <1>2 DEF Sound, Accounted, Active
  <2>3. CASE task' = [task EXCEPT ![t] = d] /\ sending' = sending
             /\ uploads' \in [Ids -> Tasks \cup {None}]
    <3>1. task'[t] = d
      BY <1>1, <2>3 DEF TypeOK
    <3>2. Sound(t)'
      BY <1>1, <1>2, <2>1, <2>2, <2>3, <3>1
      DEF Sound, Untold, Unused, Accounted, Whole, Last, Asked, Active, Finished
    <3> QED
      BY <1>2, <2>1, <2>3, <3>2, OnlyOne
  <2>4. CASE /\ AllStored(d) /\ d.status = "uploading"
             /\ task' = [task EXCEPT ![t] = d] /\ sending' = sending \cup {t}
             /\ uploads' \in [Ids -> Tasks \cup {None}]
    <3>1. task'[t] = d
      BY <1>1, <2>4 DEF TypeOK
    <3>2. Document(t) \subseteq d.stored
      BY <1>6, <1>9, <2>2, <2>4 DEF AllStored, Active
    <3>3. Sound(t)'
      BY <1>1, <1>2, <2>1, <2>2, <2>4, <3>1, <3>2
      DEF Sound, Untold, Unused, Accounted, Whole, Last, Asked, Active, Finished, AllStored
    <3> QED
      BY <1>2, <2>1, <2>4, <3>3, OnlyOne
  <2>5. CASE /\ d.status = "uploading"
             /\ task' = [task EXCEPT ![t] = SetStatus(d, "failed")] /\ sending' = sending
             /\ uploads' \in [Ids -> Tasks \cup {None}]
    <3> DEFINE e == SetStatus(d, "failed")
    <3>1. /\ e \in Task /\ e.status = "failed" /\ e.told = d.told \cup {"failed"}
          /\ e.stored = d.stored /\ e.cancel = d.cancel
      BY <1>2, SetStatusFields DEF Status, Finished
    <3>2. task'[t] = e
      BY <1>1, <2>5 DEF TypeOK
    <3> HIDE DEF e
    <3>3. Sound(t)'
      BY <1>1, <1>2, <2>1, <2>5, <3>1, <3>2
      DEF Sound, Untold, Unused, Accounted, Whole, Last, Asked, Active, Finished
    <3> QED
      BY <2>1, <2>5, <3>1, <3>3, OnlyOne DEF e
  <2>6. CASE AllStored(d) /\ End(t, d)
    BY <1>1, <1>2, <2>3, <2>4, <2>5, <2>6, EndEffect
  <2>7. CASE task' = [task EXCEPT ![t] = d] /\ UNCHANGED <<uploads, sending>>
    BY <1>1, <2>3, <2>7 DEF TypeOK
  <2> QED
    BY <1>9, <2>6, <2>7
<1> QED
  BY <1>4, <1>7, <1>8, <1>9

\* Every step preserves the invariant.
LEMMA StepIInv == UploadAssumption /\ IInv /\ [Next]_vars => IInv'
<1> SUFFICES ASSUME UploadAssumption, IInv, [Next]_vars PROVE IInv'
  OBVIOUS
<1>1. CASE Next
  <2> SUFFICES ASSUME NEW t \in Tasks,
                      \/ Refuse(t) \/ Start(t) \/ Cancel(t) \/ StatusChanges(t)
                      \/ \E k \in inflight[t] : PartEnds(t, k)
                      \/ MessageEnds(t)
               PROVE  IInv'
    BY <1>1 DEF Next
  <2> QED
    BY RefusePreserves, StartPreserves, CancelPreserves, StatusPreserves, MessagePreserves,
       PartFailsPreserves, PartCancelledPreserves, PartStoredPreserves DEF PartEnds
<1>2. CASE UNCHANGED vars
  BY <1>2 DEF vars, IInv, TypeOK, Sound, Untold, Unused, Accounted, Whole, Last, Asked
<1> QED
  BY <1>1, <1>2

\* The invariant holds in every state.
LEMMA Invariance == UploadAssumption => (Spec => []IInv)
<1> SUFFICES ASSUME UploadAssumption PROVE Spec => []IInv
  BY DEF UploadAssumption
<1> QED
  BY InitIInv, StepIInv, PTL DEF Spec

-----------------------------------------------------------------------------
(* The properties                                                          *)

\* The message of an upload is sent after every part of the document was stored,
\* whatever the order of the answers, the failures and the cancellations, for any
\* document and any number of uploads under the same id (upload_end()).
THEOREM MessageIsWhole == UploadAssumption => (Spec => [](TypeOK /\ MessageHasDocument))
<1> SUFFICES ASSUME UploadAssumption PROVE Spec => [](TypeOK /\ MessageHasDocument)
  BY DEF UploadAssumption
<1>1. IInv => TypeOK /\ MessageHasDocument
  BY DEF IInv, Sound, Whole, MessageHasDocument
<1> QED
  BY <1>1, Invariance, PTL

\* An upload without thumbnail that was reported as a success is reported as
\* nothing else: no part of it is on its way when its message is.
THEOREM OneReport == UploadAssumption => (Spec => []OneVerdict)
<1> SUFFICES ASSUME UploadAssumption PROVE Spec => []OneVerdict
  BY DEF UploadAssumption
<1>1. IInv => OneVerdict
  BY DEF IInv, Sound, Last, OneVerdict
<1> QED
  BY <1>1, Invariance, PTL

\* No step of an upload that was reported as cancelled sends anything.
LEMMA StepStops == UploadAssumption /\ IInv /\ [Next]_vars =>
    \A t \in Tasks : "cancelled" \in task[t].told =>
        inflight'[t] \subseteq inflight[t] /\ (t \in sending' => t \in sending)
<1> SUFFICES ASSUME UploadAssumption, IInv, [Next]_vars,
                    NEW t \in Tasks, "cancelled" \in task[t].told
             PROVE  inflight'[t] \subseteq inflight[t] /\ (t \in sending' => t \in sending)
  OBVIOUS
<1>1. TypeOK /\ Sound(t) /\ task[t].cancel /\ task[t].status # "none"
  BY DEF IInv, Sound, Asked, Untold, Finished
<1>2. CASE UNCHANGED vars
  BY <1>2 DEF vars
<1>3. ASSUME NEW u \in Tasks, u # t,
             \/ Refuse(u) \/ Start(u) \/ Cancel(u) \/ StatusChanges(u)
             \/ \E k \in inflight[u] : PartEnds(u, k)
             \/ MessageEnds(u)
      PROVE  inflight'[t] = inflight[t] /\ (t \in sending' => t \in sending)
  BY <1>1, <1>3 DEF TypeOK, Refuse, Start, Cancel, StatusChanges, MessageEnds, PartEnds,
     PartFails, PartCancelled, PartStored, Taken, End
<1>4. CASE Refuse(t) \/ Start(t) \/ Cancel(t) \/ StatusChanges(t) \/ MessageEnds(t)
  BY <1>1, <1>4 DEF Refuse, Start, Cancel, StatusChanges, MessageEnds
<1>5. ASSUME NEW k \in inflight[t], PartEnds(t, k)
      PROVE  inflight'[t] \subseteq inflight[t] /\ (t \in sending' => t \in sending)
  <2>1. ~PartStored(t, k)
    BY <1>1 DEF PartStored, Cancelled
  <2>2. Taken(t, k) /\ \E b \in Task : \E s \in {"failed", "cancelled"} : End(t, SetStatus(b, s))
    <3>1. [task[t] EXCEPT !.running = @ \ {k}] \in Task
      BY <1>1 DEF TypeOK, Task
    <3> QED
      BY <1>1, <1>5, <2>1, <3>1, StoredFields DEF PartEnds, PartFails, PartCancelled
  <2>3. PICK b \in Task, s \in {"failed", "cancelled"} : End(t, SetStatus(b, s))
    BY <2>2
  <2>4. SetStatus(b, s) \in Task /\ SetStatus(b, s).status = s
    BY SetStatusFields DEF Status, Finished
  <2>5. sending' = sending
    BY <1>1, <2>3, <2>4, EndEffect
  <2> QED
    BY <1>1, <2>2, <2>5 DEF Taken, TypeOK
<1> QED
  BY <1>2, <1>3, <1>4, <1>5 DEF Next

\* After an upload was reported as cancelled no part of it is sent any more, and
\* no message unless it was on its way (check_cancelled() at every answer).
THEOREM CancelIsFinal == UploadAssumption => (Spec => CancelStops)
<1> SUFFICES ASSUME UploadAssumption PROVE Spec => CancelStops
  BY DEF UploadAssumption
<1> QED
  BY Invariance, StepStops, PTL DEF Spec, CancelStops
=============================================================================
