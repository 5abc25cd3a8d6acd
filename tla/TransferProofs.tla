---------------------------- MODULE TransferProofs ----------------------------
(***************************************************************************)
(* Downloads, for any number of tasks, parts and connections, when each has *)
(* an id and a file of its own; and both halves of the transfer manager,    *)
(* with the theorems of UploadProofs about the uploads.                     *)
(***************************************************************************)
EXTENDS MCTransfers, FiniteSetTheorems, WellFoundedInduction, TLAPS

\* What the downloads ask of the application: no id serves twice, and no two of
\* them are of the same file.  (With one id for two, see SpecReuse.)
Distinct ==
    \A t, u \in Tasks : t # u => Id[t] # Id[u] /\ File[t] # File[u]

-----------------------------------------------------------------------------
(* The inductive invariant                                                 *)

\* A task between the call and its end.
Active == {"waiting", "connecting", "downloading"}

\* Before the call there is nothing.
Fresh(t) ==
    task[t].status = "none" =>
        /\ task[t].told = {} /\ task[t].stream = None /\ ~task[t].named
        /\ task[t].written = 0 /\ content[t] = {}
        /\ inflight[t] = {} /\ downloads[Id[t]] = None /\ dir[File[t]] = None

\* A download that has ended is not registered and has closed its file: after a
\* success nothing is on its way, after a failure the file is gone for good.
Ended(t) ==
    task[t].status \in Finished =>
        /\ task[t].told # {} /\ task[t].stream = None /\ downloads[Id[t]] = None
        /\ "succeeded" \in task[t].told => task[t].told = {"succeeded"} /\ inflight[t] = {}
        /\ "succeeded" \notin task[t].told => ~task[t].named /\ dir[File[t]] = None

\* A download that goes on is registered; what is on its way is awaited, and
\* until its file is open all is.
Going(t) ==
    task[t].status \in Active =>
        /\ task[t].told = {} /\ downloads[Id[t]] = t
        /\ task[t].stream \in {None, t}
        /\ task[t].stream = t => dir[File[t]] = t
        /\ inflight[t] # {} => task[t].named
        /\ \A k \in inflight[t] : task[t].running[k] = "asked"
        /\ 0..task[t].next - 1 \subseteq Whole(t)
        /\ \A k \in Offsets : k >= task[t].next => task[t].running[k] = "none"
        /\ task[t].stream = None =>
              /\ task[t].written = 0
              /\ \A k \in 0..task[t].next - 1 : task[t].running[k] = "asked"

\* Each part asked for is awaited or in the file.
Plain(t) ==
    t \notin Encrypted /\ task[t].status \in Active =>
        /\ content[t] \subseteq Whole(t)
        /\ \A k \in 0..task[t].next - 1 :
              \/ task[t].running[k] = "asked"
              \/ task[t].running[k] = "none" /\ k \in content[t]

\* An encrypted file is right up to the part that comes next, which is awaited;
\* the later ones are awaited or wait.
Chained(t) ==
    t \in Encrypted /\ task[t].status \in Active =>
        /\ task[t].written <= task[t].next
        /\ task[t].stream = t => content[t] = 0..task[t].written - 1
        /\ \A k \in 0..task[t].written - 1 : task[t].running[k] = "none"
        /\ \A k \in task[t].written..task[t].next - 1 : task[t].running[k] \in {"asked", "copied"}
        /\ task[t].written < task[t].next => task[t].running[task[t].written] = "asked"

\* All of this, of one download.
Sound(t) ==
    /\ dir[File[t]] \in {None, t}
    /\ \A k \in Offsets : task[t].running[k] # "borrowed"
    /\ Fresh(t) /\ Ended(t) /\ Going(t) /\ Plain(t) /\ Chained(t)

\* The invariant the steps preserve.
IInv == TypeOK /\ \A t \in Tasks : Sound(t)

-----------------------------------------------------------------------------
(* The operators on a task                                                 *)

\* set_status() gives the status, adds a final one to what was told, and leaves
\* the rest of the task alone.
LEMMA SetStatusFields ==
    ASSUME NEW d \in Task, NEW s \in Status
    PROVE  /\ SetStatus(d, s) \in Task
           /\ SetStatus(d, s).status = s
           /\ SetStatus(d, s).told = IF s \in Finished THEN d.told \cup {s} ELSE d.told
           /\ SetStatus(d, s).cancel = d.cancel /\ SetStatus(d, s).named = d.named
           /\ SetStatus(d, s).next = d.next /\ SetStatus(d, s).running = d.running
           /\ SetStatus(d, s).written = d.written /\ SetStatus(d, s).stream = d.stream
BY DEF SetStatus, Task, Status, Finished

\* A task without its file, and with or without its name.
LEMMA ClosedFields ==
    ASSUME NEW d \in Task
    PROVE  /\ Discarded(d) \in Task /\ Discarded(d).stream = None /\ ~Discarded(d).named
           /\ Discarded(d).status = d.status /\ Discarded(d).told = d.told
           /\ Discarded(d).running = d.running
           /\ LET c == [d EXCEPT !.stream = None]
              IN /\ c \in Task /\ c.stream = None /\ c.named = d.named
                 /\ c.status = d.status /\ c.told = d.told /\ c.running = d.running
BY DEF Discarded, Task

\* A broken task awaits nothing.
LEMMA BrokenFields ==
    ASSUME NEW d \in Task
    PROVE  /\ Broken(d) \in Task /\ Broken(d).status = "failed"
           /\ Broken(d).told = d.told \cup {"failed"} /\ Broken(d).running = NoParts
           /\ Broken(d).named = d.named /\ Broken(d).stream = d.stream
<1> DEFINE f == SetStatus(d, "failed")
<1>1. /\ f \in Task /\ f.status = "failed" /\ f.told = d.told \cup {"failed"}
      /\ f.named = d.named /\ f.stream = d.stream
  BY SetStatusFields DEF Status, Finished
<1>2. NoParts \in [Offsets -> Part]
  BY DEF NoParts, Part
<1> HIDE DEF f
<1>3. Broken(d) = [f EXCEPT !.running = NoParts]
  BY DEF Broken, f
<1> QED
  BY <1>1, <1>2, <1>3 DEF Task

\* A set of numbers has a least one.
LEMMA Least ==
    ASSUME NEW S, S \subseteq Nat, S # {}
    PROVE  \E x \in S : \A y \in S : x <= y
<1>1. PICK x \in S : \A y \in S : <<y, x>> \notin OpToRel(<, Nat)
  BY NatLessThanWellFounded, WFMin, Zenon
<1>2. \A y \in S : ~(y < x)
  BY <1>1 DEF OpToRel
<1> QED
  BY <1>2

\* An interval has as many numbers as it is long.
LEMMA RunLength ==
    ASSUME NEW a \in Nat, NEW b \in Nat, a <= b
    PROVE  Cardinality(a..b - 1) = b - a
<1>1. Cardinality(a..b - 1) = IF a > b - 1 THEN 0 ELSE b - 1 - a + 1
  BY FS_Interval
<1> QED
  BY <1>1

\* The parts of a file are numbered from 0.
LEMMA WholeOffsets ==
    ASSUME NEW t \in Tasks
    PROVE  Whole(t) \subseteq Offsets /\ Offsets \subseteq Nat
BY DownloadAssumption DEF Whole, Offsets

\* The parts that are asked for first are the first of the file.
LEMMA FirstPartsCount ==
    ASSUME NEW t \in Tasks
    PROVE  /\ Cardinality(FirstParts(t)) \in Nat
           /\ FirstParts(t) = 0..Cardinality(FirstParts(t)) - 1
           /\ FirstParts(t) \subseteq Whole(t)
<1> DEFINE n == IF Parts[t] = 0 THEN IF t \in Located THEN 1 ELSE 0
                ELSE IF Parts[t] < MaxConnections THEN Parts[t] ELSE MaxConnections
<1>1. n \in Nat /\ Parts[t] \in Nat
  BY DownloadAssumption
<1>2. FirstParts(t) = 0..n - 1
  <2>1. CASE Parts[t] = 0
    <3>1. {0} = 0..1 - 1 /\ {} = 0..0 - 1
      OBVIOUS
    <3> QED
      BY <2>1, <3>1 DEF FirstParts
  <2>2. CASE Parts[t] # 0
    <3>1. FirstParts(t) = {k \in 0..Parts[t] - 1 : k < MaxConnections}
      BY <2>2 DEF FirstParts
    <3> QED
      BY <1>1, <2>2, <3>1, DownloadAssumption
  <2> QED
    BY <2>1, <2>2
<1>3. 0..n - 1 \subseteq Whole(t)
  BY <1>1, DownloadAssumption DEF Whole
<1> HIDE DEF n
<1>4. Cardinality(0..n - 1) = n - 0
  BY <1>1, RunLength
<1> QED
  BY <1>1, <1>2, <1>3, <1>4

-----------------------------------------------------------------------------
(* The ends                                                                *)

\* A step of t is sound when it leaves t sound: it touches nothing of another.
LEMMA OnlyOne ==
    ASSUME Distinct, IInv, NEW t \in Tasks, NEW e \in Task, NEW Q \in SUBSET Offsets,
           NEW x \in {None, t}, NEW y \in {None, t}, NEW C \in SUBSET Offsets,
           task' = [task EXCEPT ![t] = e],
           inflight' = [inflight EXCEPT ![t] = Q],
           downloads' = [downloads EXCEPT ![Id[t]] = x],
           dir' = [dir EXCEPT ![File[t]] = y],
           content' = [content EXCEPT ![t] = C],
           Sound(t)'
    PROVE  IInv'
<1>1. TypeOK'
  BY DEF IInv, TypeOK
<1>2. ASSUME NEW u \in Tasks, u # t
      PROVE  Sound(u)'
  <2>1. Id[u] \in Ids /\ File[u] \in Files /\ Id[u] # Id[t] /\ File[u] # File[t]
    BY <1>2 DEF Ids, Files, Distinct
  <2>2. /\ task'[u] = task[u] /\ inflight'[u] = inflight[u] /\ content'[u] = content[u]
        /\ downloads'[Id[u]] = downloads[Id[u]] /\ dir'[File[u]] = dir[File[u]]
    BY <1>2, <2>1 DEF IInv, TypeOK
  <2>3. Sound(u)
    BY DEF IInv
  <2> QED
    BY <2>2, <2>3 DEF Sound, Fresh, Ended, Going, Plain, Chained
<1> QED
  BY <1>1, <1>2 DEF IInv

\* Where the state of t is kept.
LEMMA Places ==
    ASSUME TypeOK, NEW t \in Tasks
    PROVE  /\ task[t] \in Task /\ inflight[t] \in SUBSET Offsets /\ content[t] \in SUBSET Offsets
           /\ Id[t] \in Ids /\ File[t] \in Files
           /\ \A e \in Task : [task EXCEPT ![t] = e][t] = e
           /\ \A Q \in SUBSET Offsets : [inflight EXCEPT ![t] = Q][t] = Q
           /\ \A C \in SUBSET Offsets : [content EXCEPT ![t] = C][t] = C
           /\ \A x : [downloads EXCEPT ![Id[t]] = x][Id[t]] = x
           /\ \A y : [dir EXCEPT ![File[t]] = y][File[t]] = y
           /\ inflight = [inflight EXCEPT ![t] = inflight[t]]
           /\ content = [content EXCEPT ![t] = content[t]]
           /\ downloads = [downloads EXCEPT ![Id[t]] = downloads[Id[t]]]
           /\ dir = [dir EXCEPT ![File[t]] = dir[File[t]]]
BY DEF TypeOK, Ids, Files

\* A task whose query ends is going on, or has failed before.
LEMMA Awaited ==
    ASSUME IInv, NEW t \in Tasks, NEW k \in inflight[t]
    PROVE  \/ /\ task[t].status \in Active /\ task[t].named /\ downloads[Id[t]] # None
           \/ /\ task[t].status \in Finished /\ "succeeded" \notin task[t].told
              /\ downloads[Id[t]] = None /\ task[t].stream = None /\ ~task[t].named
              /\ dir[File[t]] = None /\ task[t].told # {}
<1>1. Sound(t) /\ task[t] \in Task
  BY DEF IInv, TypeOK
<1> QED
  BY <1>1, DownloadAssumption DEF Sound, Fresh, Ended, Going, Task, Status, Active, Finished

\* After a step that reports the success of t its file is whole.
Keeps(t) ==
    "succeeded" \in task'[t].told => dir'[File[t]] = t /\ content'[t] = Whole(t)

\* An answer that fails, or finds the task cancelled, leaves no file - whether it
\* is the first to end its task or not, and whether or not it has opened the file.
LEMMA FailPreserves ==
    ASSUME Distinct, IInv, NEW t \in Tasks, NEW k \in inflight[t],
           NEW b \in Task, NEW F, NEW C \in SUBSET Offsets,
           b.status \in {"failed", "cancelled"}, b.told = task[t].told \cup {b.status},
           b.running = NoParts, b.named = task[t].named,
           \/ b.stream = task[t].stream /\ F = dir
           \/ task[t].status \in Active /\ F = [dir EXCEPT ![File[t]] = t],
           Taken(t, k), End(t, b, F), content' = [content EXCEPT ![t] = C]
    PROVE  IInv' /\ Keeps(t)
<1> DEFINE Q == inflight[t] \ {k}
<1>1. TypeOK /\ Sound(t) /\ k \in Offsets /\ Q \in SUBSET Offsets
  BY Places DEF IInv, TypeOK
<1>2. inflight' = [inflight EXCEPT ![t] = Q] /\ inflight'[t] = Q
  BY <1>1 DEF Taken, TypeOK
<1>3. \A j \in Offsets : NoParts[j] = "none"
  BY DEF NoParts
<1>4. CASE task[t].status \in Active /\ task[t].named /\ downloads[Id[t]] # None
  <2> DEFINE e == Discarded(b)
  <2>1. /\ e \in Task /\ e.stream = None /\ ~e.named /\ e.status = b.status
        /\ e.told = b.told /\ e.running = NoParts
    BY ClosedFields
  <2>2. /\ downloads' = [downloads EXCEPT ![Id[t]] = None]
        /\ task' = [task EXCEPT ![t] = e]
        /\ dir' = [F EXCEPT ![File[t]] = None]
    BY <1>4 DEF End, EndsWell
  <2>3. dir' = [dir EXCEPT ![File[t]] = None]
    <3>1. F = dir \/ F = [dir EXCEPT ![File[t]] = t]
      OBVIOUS
    <3> QED
      BY <1>1, <2>2, <3>1 DEF TypeOK
  <2>4. task[t].told = {}
    BY <1>1, <1>4 DEF Sound, Going
  <2> HIDE DEF e
  <2>5. task'[t] = e /\ downloads'[Id[t]] = None /\ dir'[File[t]] = None
    BY <1>1, <2>1, <2>2, <2>3, Places DEF TypeOK
  <2>6. Sound(t)'
    <3>1. task'[t].status \in Finished /\ task'[t].status \notin Active /\ task'[t].status # "none"
      BY <2>1, <2>5 DEF Active, Finished
    <3>2. Fresh(t)' /\ Going(t)' /\ Plain(t)' /\ Chained(t)'
      BY <3>1 DEF Fresh, Going, Plain, Chained
    <3>3. Ended(t)'
      BY <2>1, <2>4, <2>5 DEF Ended
    <3> QED
      BY <1>3, <2>1, <2>5, <3>2, <3>3 DEF Sound
  <2>7. Keeps(t)
    BY <2>1, <2>4, <2>5 DEF Keeps
  <2> QED
    BY <1>1, <1>2, <2>1, <2>2, <2>3, <2>6, <2>7, OnlyOne
<1>5. CASE /\ task[t].status \in Finished /\ "succeeded" \notin task[t].told
           /\ downloads[Id[t]] = None /\ task[t].stream = None /\ ~task[t].named
           /\ dir[File[t]] = None /\ task[t].told # {}
  <2>1. F = dir /\ b.stream = None
    BY <1>5 DEF Finished, Active
  <2>2. downloads' = downloads /\ task' = [task EXCEPT ![t] = b] /\ dir' = dir
    BY <1>5, <2>1 DEF End
  <2>3. task'[t] = b /\ downloads'[Id[t]] = None /\ dir'[File[t]] = None
    BY <1>1, <1>5, <2>2, Places
  <2>4. Sound(t)'
    BY <1>3, <1>5, <2>1, <2>3 DEF Sound, Fresh, Ended, Going, Plain, Chained, Active, Finished
  <2>5. /\ downloads' = [downloads EXCEPT ![Id[t]] = None]
        /\ dir' = [dir EXCEPT ![File[t]] = None]
    BY <1>1, <1>5, <2>2, Places
  <2>6. Keeps(t)
    BY <1>5, <2>3 DEF Keeps
  <2> QED
    BY <1>1, <1>2, <2>2, <2>4, <2>5, <2>6, OnlyOne
<1> QED
  BY <1>4, <1>5, Awaited

\* An answer that finds the task cancelled.
LEMMA PartCancelledPreserves ==
    ASSUME Distinct, IInv, NEW t \in Tasks, NEW k \in inflight[t], PartCancelled(t, k)
    PROVE  IInv' /\ Keeps(t)
<1> DEFINE f == SetStatus(task[t], "cancelled")
           b == [f EXCEPT !.running = NoParts]
<1>1. TypeOK /\ task[t] \in Task /\ content[t] \in SUBSET Offsets
  BY DEF IInv, TypeOK
<1>2. /\ f \in Task /\ f.status = "cancelled" /\ f.told = task[t].told \cup {"cancelled"}
      /\ f.named = task[t].named /\ f.stream = task[t].stream
  BY <1>1, SetStatusFields DEF Status, Finished
<1>3. Taken(t, k) /\ End(t, b, dir) /\ content' = [content EXCEPT ![t] = content[t]]
  BY <1>1, Places DEF PartCancelled
<1>4. NoParts \in [Offsets -> Part]
  BY DEF NoParts, Part
<1> HIDE DEF f
<1>5. /\ b \in Task /\ b.status = "cancelled" /\ b.told = task[t].told \cup {"cancelled"}
      /\ b.named = task[t].named /\ b.stream = task[t].stream /\ b.running = NoParts
  BY <1>2, <1>4 DEF Task
<1> HIDE DEF b
<1> QED
  BY <1>1, <1>3, <1>5, FailPreserves

\* on_error(), and an answer whose file cannot be opened.
LEMMA PartBreaksPreserves ==
    ASSUME Distinct, IInv, NEW t \in Tasks, NEW k \in inflight[t],
           PartFails(t, k) \/ OpenFails(t, k)
    PROVE  IInv' /\ Keeps(t)
<1>1. TypeOK /\ task[t] \in Task /\ content[t] \in SUBSET Offsets
  BY DEF IInv, TypeOK
<1>2. Taken(t, k) /\ End(t, Broken(task[t]), dir) /\ content' = [content EXCEPT ![t] = content[t]]
  BY <1>1, Places DEF PartFails, OpenFails
<1> QED
  BY <1>1, <1>2, BrokenFields, FailPreserves

\* An answer that is handled belongs to a download that goes on, and opens the
\* download's own file.
LEMMA OpensOwn ==
    ASSUME IInv, NEW t \in Tasks, NEW k \in inflight[t], CanOpen(t)
    PROVE  /\ task[t].status \in Active
           /\ Stream(t) = t
           /\ DirOpen(t) = [dir EXCEPT ![File[t]] = t]
           /\ ContentOpen(t) =
                 [content EXCEPT ![t] = IF task[t].stream = None THEN {} ELSE content[t]]
           /\ ContentOpen(t)[t] = IF task[t].stream = None THEN {} ELSE content[t]
<1>1. TypeOK /\ Sound(t)
  BY DEF IInv
<1>2. task[t].status \in Active
  BY Awaited DEF CanOpen
<1>3. Stream(t) = t
  BY <1>1, <1>2, DownloadAssumption DEF Stream, Opens, Sound, Going
<1>4. DirOpen(t) = [dir EXCEPT ![File[t]] = t]
  <2>1. task[t].stream # None => dir[File[t]] = t
    BY <1>1, <1>2 DEF Sound, Going
  <2> QED
    BY <1>1, <1>3, <2>1, Places DEF DirOpen, Opens
<1>5. ContentOpen(t) = [content EXCEPT ![t] = IF task[t].stream = None THEN {} ELSE content[t]]
  BY <1>1, <1>3, Places DEF ContentOpen, Opens
<1> QED
  BY <1>1, <1>2, <1>3, <1>4, <1>5 DEF TypeOK

\* An answer without bytes, after the file was opened.
LEMMA PartEmptyPreserves ==
    ASSUME Distinct, IInv, NEW t \in Tasks, NEW k \in inflight[t], PartEmpty(t, k)
    PROVE  IInv' /\ Keeps(t)
<1> DEFINE f == Broken(task[t])
           b == [f EXCEPT !.stream = t]
           C == IF task[t].stream = None THEN {} ELSE content[t]
<1>1. TypeOK /\ task[t] \in Task /\ C \in SUBSET Offsets /\ CanOpen(t)
  BY DEF IInv, TypeOK, PartEmpty
<1>2. /\ f \in Task /\ f.status = "failed" /\ f.told = task[t].told \cup {"failed"}
      /\ f.named = task[t].named /\ f.running = NoParts
  BY <1>1, BrokenFields
<1>3. /\ Taken(t, k) /\ End(t, b, [dir EXCEPT ![File[t]] = t])
      /\ content' = [content EXCEPT ![t] = C] /\ task[t].status \in Active
  BY <1>1, OpensOwn DEF PartEmpty
<1> HIDE DEF f, C
<1>4. /\ b \in Task /\ b.status = "failed" /\ b.told = task[t].told \cup {"failed"}
      /\ b.named = task[t].named /\ b.running = NoParts
  BY <1>2 DEF Task
<1> HIDE DEF b
<1> QED
  BY <1>1, <1>3, <1>4, FailPreserves

-----------------------------------------------------------------------------
(* The parts that arrive                                                   *)

\* The answer k decrypts what follows without a gap on what was decrypted before,
\* up to the first part that has not arrived: nothing unless k comes next.
LEMMA DecryptRun ==
    ASSUME IInv, NEW t \in Tasks, t \in Encrypted, NEW k \in inflight[t],
           task[t].status \in Active
    PROVE  \E m \in task[t].written..task[t].next :
              /\ Written(t, k) = task[t].written..m - 1
              /\ Cardinality(Written(t, k)) = m - task[t].written
              /\ Right(t, Written(t, k)) = Written(t, k)
              /\ k = task[t].written <=> k \in Written(t, k)
              /\ Written(t, k) = {} \/ k \in Written(t, k)
              /\ \A j \in Written(t, k) : j = k \/ task[t].running[j] = "copied"
              /\ m < task[t].next => task[t].running[m] # "copied"
<1> DEFINE w == task[t].written
           n == task[t].next
           run == [task[t].running EXCEPT ![k] = "borrowed"]
           W == Written(t, k)
<1>1. /\ task[t] \in Task /\ w \in Nat /\ n \in Nat /\ w <= n /\ k \in Offsets /\ k \in Nat
      /\ task[t].running \in [Offsets -> Part]
  <2>1. task[t] \in Task /\ k \in Offsets /\ Chained(t)
    BY DEF IInv, TypeOK, Sound
  <2> QED
    BY <2>1, WholeOffsets DEF Task, Chained
<1>2. W = {j \in Offsets : j >= w /\ \A i \in w..j : run[i] \in {"borrowed", "copied"}}
  <2>1. [task[t] EXCEPT !.running[k] = "borrowed"] = [task[t] EXCEPT !.running = run]
    BY <1>1 DEF Task
  <2>2. LET d == [task[t] EXCEPT !.running = run] IN d.running = run /\ d.written = w
    BY <1>1 DEF Task
  <2> QED
    BY <2>1, <2>2 DEF Written, Decryptable
<1>3. /\ task[t].running[k] = "asked" /\ 0..n - 1 \subseteq Offsets
      /\ \A j \in Offsets : j >= n => task[t].running[j] = "none"
      /\ \A j \in 0..w - 1 : task[t].running[j] = "none"
      /\ w < n => task[t].running[w] = "asked"
  BY WholeOffsets DEF IInv, Sound, Going, Chained
<1>4. k >= w /\ k < n
  BY <1>1, <1>3
<1>5. \A j \in Offsets : run[j] = IF j = k THEN "borrowed" ELSE task[t].running[j]
  BY <1>1
<1> HIDE DEF w, n, W, run
<1>6. ASSUME NEW m \in w..n, W = w..m - 1
      PROVE  Cardinality(W) = m - w /\ Right(t, W) = W
  <2>1. m \in Nat /\ w <= m
    BY <1>1
  <2>2. Cardinality(W) = m - w
    BY <1>1, <1>6, <2>1, RunLength
  <2>3. ASSUME NEW j \in W PROVE j = w + Cardinality({i \in W : i < j})
    <3>1. {i \in W : i < j} = w..j - 1 /\ j \in Nat /\ w <= j
      BY <1>1, <1>6, <2>1
    <3>2. Cardinality(w..j - 1) = j - w
      BY <1>1, <3>1, RunLength
    <3>3. Cardinality({i \in W : i < j}) = j - w
      BY <3>1, <3>2
    <3> QED
      BY <1>1, <3>1, <3>3
  <2> QED
    BY <2>2, <2>3 DEF Right, w
<1>7. CASE k # w
  <2>1. w \in Offsets /\ run[w] = "asked"
    BY <1>1, <1>3, <1>4, <1>5, <1>7
  <2>2. W = {}
    BY <1>1, <1>2, <2>1
  <2>3. W = w..w - 1 /\ w \in w..n
    BY <1>1, <2>2
  <2> QED
    BY <1>3, <1>6, <1>7, <2>2, <2>3 DEF w, n, W
<1>8. CASE k = w
  <2> DEFINE S == {j \in w..n : j \notin W}
  <2>1. n \in S
    BY <1>1, <1>2, <1>3, <1>4, <1>5
  <2>2. PICK m \in S : \A j \in S : m <= j
    <3>1. S \subseteq Nat
      BY <1>1
    <3> QED
      BY <2>1, <3>1, Least
  <2>3. m \in w..n /\ m \notin W
    OBVIOUS
  <2>4. k \in W
    BY <1>1, <1>2, <1>5, <1>8
  <2>5. w..m - 1 \subseteq W
    BY <1>1, <2>2
  <2>6. ASSUME NEW j \in W PROVE j \in w..m - 1
    <3>1. j \in Offsets /\ j \in Nat /\ j >= w /\ \A i \in w..j : run[i] \in {"borrowed", "copied"}
      BY <1>2, WholeOffsets
    <3>2. CASE m <= j
      <4>1. m \in Offsets
        BY <1>1, <1>3, <1>5, <2>3, <3>1, <3>2 DEF Offsets, Whole
      <4>2. \A i \in w..m : run[i] \in {"borrowed", "copied"}
        BY <1>1, <2>3, <3>1, <3>2
      <4> QED
        BY <1>2, <2>3, <4>1, <4>2
    <3> QED
      BY <1>1, <2>3, <3>1, <3>2
  <2>7. W = w..m - 1
    BY <2>5, <2>6
  <2>8. m < n => task[t].running[m] # "copied"
    <3> SUFFICES ASSUME m < n, task[t].running[m] = "copied" PROVE FALSE
      OBVIOUS
    <3>1. m \in Offsets /\ run[m] \in {"borrowed", "copied"}
      BY <1>1, <1>3, <1>5, <2>3
    <3>2. \A i \in w..m : run[i] \in {"borrowed", "copied"}
      <4>1. \A i \in w..m - 1 : i \in W /\ i \in w..i
        BY <1>1, <2>7
      <4>2. \A i \in w..m - 1 : run[i] \in {"borrowed", "copied"}
        BY <1>2, <4>1
      <4> QED
        BY <1>1, <2>3, <3>1, <4>2
    <3> QED
      BY <1>2, <2>3, <3>1, <3>2
  <2>9. \A j \in W : j = k \/ task[t].running[j] = "copied"
    <3> SUFFICES ASSUME NEW j \in W, j # k PROVE task[t].running[j] = "copied"
      OBVIOUS
    <3>1. /\ j \in Offsets /\ j \in Nat /\ j >= w
          /\ \A i \in w..j : run[i] \in {"borrowed", "copied"}
      BY <1>2, WholeOffsets
    <3>2. run[j] \in {"borrowed", "copied"}
      BY <1>1, <3>1
    <3> QED
      BY <1>5, <3>1, <3>2 DEF IInv, Sound
  <2> QED
    BY <1>6, <1>8, <2>3, <2>4, <2>7, <2>8, <2>9 DEF w, n, W
<1> QED
  BY <1>7, <1>8

\* The task once the answer k is handled: it downloads, no part keeps a pointer
\* into the answer, and what it has written is right.
Arrived(t, k) ==
    Downloading([task[t] EXCEPT !.stream = t,
                                !.written = @ + Cardinality(Written(t, k)),
                                !.running = Remaining(t, k, Written(t, k))])

\* What is right in its file then.
ArrivedContent(t, k) ==
    (IF task[t].stream = None THEN {} ELSE content[t]) \cup Right(t, Written(t, k))

\* What the answer has changed in the task, whatever it was the answer to.
LEMMA ArrivedFields ==
    ASSUME IInv, NEW t \in Tasks, NEW k \in inflight[t], CanOpen(t)
    PROVE  /\ Arrived(t, k) \in Task
           /\ Arrived(t, k).status = "downloading" /\ Arrived(t, k).told = {}
           /\ Arrived(t, k).named /\ Arrived(t, k).stream = t
           /\ Arrived(t, k).next = task[t].next
           /\ Arrived(t, k).running = Remaining(t, k, Written(t, k))
           /\ Arrived(t, k).written = task[t].written + Cardinality(Written(t, k))
<1> DEFINE W == Written(t, k)
           d == [task[t] EXCEPT !.stream = t, !.written = @ + Cardinality(W),
                                !.running = Remaining(t, k, W)]
<1>1. /\ task[t] \in Task /\ task[t].status \in Active /\ task[t].named /\ task[t].told = {}
      /\ k \in Offsets
  BY OpensOwn DEF IInv, TypeOK, Sound, Going
<1>2. Cardinality(W) \in Nat
  <2>1. CASE t \in Encrypted
    <3>1. PICK m \in task[t].written..task[t].next : Cardinality(W) = m - task[t].written
      BY <1>1, <2>1, DecryptRun
    <3> QED
      BY <1>1, <3>1 DEF Task
  <2>2. CASE t \notin Encrypted
    <3>1. W = {k}
      BY <2>2 DEF Written
    <3> QED
      BY <3>1, FS_Singleton
  <2> QED
    BY <2>1, <2>2
<1>3. Remaining(t, k, W) \in [Offsets -> Part]
  BY <1>1 DEF Remaining, Kept, Part, Task
<1> HIDE DEF W
<1>4. task[t].written + Cardinality(W) \in Nat
  BY <1>1, <1>2 DEF Task
<1>5. /\ d \in Task /\ d.status = task[t].status /\ d.told = {} /\ d.named /\ d.stream = t
      /\ d.next = task[t].next /\ d.running = Remaining(t, k, W)
      /\ d.written = task[t].written + Cardinality(W)
  BY <1>1, <1>3, <1>4 DEF Task
<1> HIDE DEF d
<1>6. Arrived(t, k) = Downloading(d)
  BY DEF Arrived, d, W
<1>7. \/ Downloading(d) = d /\ d.status = "downloading"
      \/ Downloading(d) = SetStatus(d, "downloading")
  BY <1>1, <1>5 DEF Downloading, Active
<1> QED
  BY <1>5, <1>6, <1>7, SetStatusFields DEF Status, Finished, W

\* The handled answer leaves the parts accounted for.
LEMMA ArrivedSound ==
    ASSUME IInv, NEW t \in Tasks, NEW k \in inflight[t], CanOpen(t)
    PROVE  LET d == Arrived(t, k)
               C == ArrivedContent(t, k)
           IN /\ C \subseteq Whole(t)
              /\ \A j \in Offsets : d.running[j] # "borrowed"
              /\ \A j \in Offsets : j >= d.next => d.running[j] = "none"
              /\ \A j \in inflight[t] \ {k} : d.running[j] = "asked"
              /\ t \notin Encrypted =>
                    \A j \in 0..d.next - 1 : \/ d.running[j] = "asked"
                                             \/ d.running[j] = "none" /\ j \in C
              /\ t \in Encrypted =>
                    /\ d.written <= d.next
                    /\ C = 0..d.written - 1
                    /\ \A j \in 0..d.written - 1 : d.running[j] = "none"
                    /\ \A j \in d.written..d.next - 1 : d.running[j] \in {"asked", "copied"}
                    /\ d.written < d.next => d.running[d.written] = "asked"
<1> DEFINE d == Arrived(t, k)
           C == ArrivedContent(t, k)
           W == Written(t, k)
           w == task[t].written
           n == task[t].next
           run == task[t].running
<1>1. /\ task[t] \in Task /\ w \in Nat /\ n \in Nat /\ k \in Offsets /\ k \in Nat
      /\ inflight[t] \subseteq Offsets /\ Offsets \subseteq Nat /\ Whole(t) \subseteq Offsets
      /\ Sound(t) /\ task[t].status \in Active
  BY OpensOwn, WholeOffsets DEF IInv, TypeOK, Task
<1>2. d.next = n /\ d.written = w + Cardinality(W)
  BY ArrivedFields
<1>3. \A j \in Offsets :
         d.running[j] = IF j \in W THEN "none" ELSE IF j = k THEN "copied" ELSE run[j]
  <2>1. d.running = Remaining(t, k, W)
    BY ArrivedFields
  <2>2. W = {} \/ k \in W
    <3>1. CASE t \in Encrypted
      BY <1>1, <3>1, DecryptRun
    <3>2. CASE t \notin Encrypted
      BY <3>2 DEF Written
    <3> QED
      BY <3>1, <3>2
  <2>3. k \notin W => Kept(W) = "copied"
    BY <2>2 DEF Kept
  <2> QED
    BY <2>1, <2>3 DEF Remaining
<1>4. /\ \A j \in inflight[t] : run[j] = "asked"
      /\ 0..n - 1 \subseteq Whole(t)
      /\ \A j \in Offsets : j >= n => run[j] = "none"
      /\ \A j \in Offsets : run[j] # "borrowed"
      /\ k < n
  BY <1>1 DEF Sound, Going
<1>5. CASE t \notin Encrypted
  <2>1. W = {k} /\ Right(t, W) = {k}
    BY <1>5 DEF Written, Right
  <2>2. /\ content[t] \subseteq Whole(t)
        /\ task[t].stream = None => \A j \in 0..n - 1 : run[j] = "asked"
        /\ \A j \in 0..n - 1 : run[j] = "asked" \/ (run[j] = "none" /\ j \in content[t])
    <3>1. task[t].stream = None => \A j \in 0..n - 1 : run[j] = "asked"
      BY <1>1 DEF Sound, Going
    <3>2. /\ content[t] \subseteq Whole(t)
          /\ \A j \in 0..n - 1 : run[j] = "asked" \/ (run[j] = "none" /\ j \in content[t])
      BY <1>1, <1>5 DEF Sound, Plain
    <3> QED
      BY <3>1, <3>2
  <2>3. C = (IF task[t].stream = None THEN {} ELSE content[t]) \cup {k}
    BY <2>1 DEF ArrivedContent
  <2> HIDE DEF C, W, d, run, n, w
  <2>4. k \in 0..n - 1
    BY <1>1, <1>4
  <2>5. C \subseteq Whole(t)
    BY <1>4, <2>2, <2>3, <2>4
  <2>6. \A j \in 0..n - 1 : d.running[j] = "asked" \/ (d.running[j] = "none" /\ j \in C)
    <3> SUFFICES ASSUME NEW j \in 0..n - 1
                 PROVE  d.running[j] = "asked" \/ (d.running[j] = "none" /\ j \in C)
      OBVIOUS
    <3>1. j \in Offsets
      BY <1>1, <1>4
    <3>2. CASE j = k
      BY <1>3, <2>1, <2>3, <3>1, <3>2
    <3>3. CASE j # k
      <4>1. d.running[j] = run[j]
        BY <1>3, <2>1, <3>1, <3>3
      <4>2. run[j] = "none" => task[t].stream # None /\ j \in content[t]
        BY <2>2
      <4> QED
        BY <2>2, <2>3, <4>1, <4>2
    <3> QED
      BY <3>2, <3>3
  <2>7. \A j \in Offsets : j >= n => d.running[j] = "none"
    BY <1>1, <1>3, <1>4, <2>1
  <2>8. /\ \A j \in Offsets : d.running[j] # "borrowed"
        /\ \A j \in inflight[t] \ {k} : d.running[j] = "asked"
    BY <1>1, <1>3, <1>4, <2>1
  <2> QED
    BY <1>2, <1>5, <2>5, <2>6, <2>7, <2>8 DEF C, d
<1>6. CASE t \in Encrypted
  <2>1. PICK m \in w..n : /\ W = w..m - 1 /\ Cardinality(W) = m - w /\ Right(t, W) = W
                          /\ k = w <=> k \in W
                          /\ \A j \in W : j = k \/ run[j] = "copied"
                          /\ m < n => run[m] # "copied"
    BY <1>1, <1>6, DecryptRun
  <2>2. /\ task[t].stream \in {None, t}
        /\ w <= n
        /\ task[t].stream = t => content[t] = 0..w - 1
        /\ task[t].stream = None => w = 0
        /\ \A j \in 0..w - 1 : run[j] = "none"
        /\ \A j \in w..n - 1 : run[j] \in {"asked", "copied"}
        /\ w < n => run[w] = "asked"
    BY <1>1, <1>6 DEF Sound, Going, Chained
  <2>3. C = (IF task[t].stream = None THEN {} ELSE content[t]) \cup W
    BY <2>1 DEF ArrivedContent
  <2> HIDE DEF C, W, d, run, n, w
  <2>4. m \in Nat /\ w <= m /\ m <= n /\ d.written = m
    BY <1>1, <1>2, <2>1, <2>2
  <2>5. C = 0..m - 1
    <3>1. (IF task[t].stream = None THEN {} ELSE content[t]) = 0..w - 1
      <4>1. 0..0 - 1 = {}
        OBVIOUS
      <4> QED
        BY <2>2, <4>1
    <3> QED
      BY <1>1, <2>1, <2>3, <2>4, <3>1
  <2>6. 0..m - 1 \subseteq Whole(t)
    BY <1>1, <1>4, <2>4
  <2>7. \A j \in 0..m - 1 : d.running[j] = "none"
    <3> SUFFICES ASSUME NEW j \in 0..m - 1 PROVE d.running[j] = "none"
      OBVIOUS
    <3>1. j \in Offsets /\ (j \in W \/ j \in 0..w - 1)
      BY <1>1, <2>1, <2>4, <2>6
    <3>2. j \in 0..w - 1 => j # k
      BY <1>1, <1>4, <2>2
    <3> QED
      BY <1>3, <2>2, <3>1, <3>2
  <2>8. \A j \in m..n - 1 : d.running[j] \in {"asked", "copied"}
    <3> SUFFICES ASSUME NEW j \in m..n - 1 PROVE d.running[j] \in {"asked", "copied"}
      OBVIOUS
    <3>1. j \in Offsets /\ j \notin W /\ j \in w..n - 1
      BY <1>1, <1>4, <2>1, <2>4
    <3> QED
      BY <1>3, <2>2, <3>1
  <2>9. m < n => d.running[m] = "asked"
    <3> SUFFICES ASSUME m < n PROVE d.running[m] = "asked"
      OBVIOUS
    <3>1. m \in Offsets /\ m \notin W /\ m \in w..n - 1
      BY <1>1, <1>4, <2>1, <2>4
    <3>2. run[m] = "asked"
      BY <2>1, <2>2, <3>1
    <3>3. m # k
      <4>1. CASE k = w
        BY <2>1, <3>1, <4>1
      <4>2. CASE k # w
        <5>1. k \notin W /\ k >= w /\ w < n
          BY <1>1, <1>4, <2>1, <2>2, <2>4, <4>2
        <5>2. w \notin W
          BY <1>1, <2>1, <2>2, <4>2, <5>1
        <5>3. m = w
          BY <1>1, <2>1, <2>4, <5>2
        <5> QED
          BY <4>2, <5>3
      <4> QED
        BY <4>1, <4>2
    <3> QED
      BY <1>3, <3>1, <3>2, <3>3
  <2>10. /\ \A j \in Offsets : d.running[j] # "borrowed"
         /\ \A j \in inflight[t] \ {k} : d.running[j] = "asked"
    BY <1>1, <1>3, <1>4, <2>1
  <2>11. \A j \in Offsets : j >= n => d.running[j] = "none"
    BY <1>1, <1>3, <1>4
  <2> QED
    BY <1>2, <1>6, <2>4, <2>5, <2>6, <2>7, <2>8, <2>9, <2>10, <2>11 DEF C, d
<1> QED
  BY <1>5, <1>6

\* The answer k of a download, and what follows it.
LEMMA ArrivesSplit ==
    ASSUME IInv, NEW t \in Tasks, NEW k \in inflight[t], PartArrives(t, k)
    PROVE  LET d == Arrived(t, k)
               n == d.next
               next == [d EXCEPT !.next = n + 1, !.running[n] = "asked"]
               F == [dir EXCEPT ![File[t]] = t]
           IN /\ content' = [content EXCEPT ![t] = ArrivedContent(t, k)]
              /\ \/ /\ HasMore(t, d)
                    /\ task' = [task EXCEPT ![t] = next]
                    /\ inflight' = [inflight EXCEPT ![t] = (@ \ {k}) \cup {n}]
                    /\ dir' = F /\ downloads' = downloads
                 \/ HasMore(t, d) /\ Taken(t, k) /\ End(t, Broken(next), F)
                 \/ ~HasMore(t, d) /\ AllArrived(d) /\ Taken(t, k) /\ End(t, d, F)
                 \/ /\ ~HasMore(t, d) /\ Taken(t, k)
                    /\ task' = [task EXCEPT ![t] = d]
                    /\ dir' = F /\ downloads' = downloads
<1>1. TypeOK /\ CanOpen(t)
  BY DEF PartArrives, IInv
<1>2. /\ Stream(t) = t /\ DirOpen(t) = [dir EXCEPT ![File[t]] = t]
      /\ ContentOpen(t) = [content EXCEPT ![t] = IF task[t].stream = None THEN {} ELSE content[t]]
      /\ ContentOpen(t)[t] = IF task[t].stream = None THEN {} ELSE content[t]
  BY <1>1, OpensOwn
<1>3. [ContentOpen(t) EXCEPT ![t] = @ \cup Right(t, Written(t, k))]
         = [content EXCEPT ![t] = ArrivedContent(t, k)]
  BY <1>1, <1>2 DEF ArrivedContent, TypeOK
<1> QED
  BY <1>2, <1>3, Zenon DEF PartArrives, Arrived

\* The task with its next part asked for.
LEMMA NextFields ==
    ASSUME NEW t \in Tasks, NEW d \in Task, HasMore(t, d)
    PROVE  LET n == d.next
               next == [d EXCEPT !.next = n + 1, !.running[n] = "asked"]
           IN /\ next \in Task /\ next.status = d.status /\ next.told = d.told
              /\ next.named = d.named /\ next.stream = d.stream /\ next.written = d.written
              /\ next.next = n + 1 /\ next.running = [d.running EXCEPT ![n] = "asked"]
              /\ n \in Whole(t)
<1>1. d.next \in Nat /\ d.next \in Whole(t)
  BY DownloadAssumption DEF HasMore, Task, Whole
<1>3. [d.running EXCEPT ![d.next] = "asked"] \in [Offsets -> Part]
  BY DEF Task, Part
<1>2. d.next + 1 \in Nat
  BY <1>1
<1> QED
  BY <1>1, <1>2, <1>3 DEF Task

\* An answer with bytes: the next part is asked for or refused, the download
\* ends, or it waits.
LEMMA PartArrivesPreserves ==
    ASSUME Distinct, IInv, NEW t \in Tasks, NEW k \in inflight[t], PartArrives(t, k)
    PROVE  IInv' /\ Keeps(t)
<1> DEFINE d == Arrived(t, k)
           C == ArrivedContent(t, k)
           n == d.next
           next == [d EXCEPT !.next = n + 1, !.running[n] = "asked"]
           F == [dir EXCEPT ![File[t]] = t]
           Q == inflight[t] \ {k}
<1>1. /\ TypeOK /\ CanOpen(t) /\ Sound(t) /\ task[t].status \in Active /\ task[t].told = {}
      /\ downloads[Id[t]] = t /\ task[t].named
      /\ k \in Offsets /\ Q \in SUBSET Offsets
      /\ Whole(t) \subseteq Offsets /\ Offsets \subseteq Nat
      /\ 0..task[t].next - 1 \subseteq Whole(t) /\ dir[File[t]] \in {None, t}
      /\ downloads = [downloads EXCEPT ![Id[t]] = t]
  <2>1. CanOpen(t) /\ TypeOK /\ Sound(t)
    BY DEF PartArrives, IInv
  <2>2. task[t].status \in Active
    BY <2>1, OpensOwn
  <2>3. /\ task[t].told = {} /\ downloads[Id[t]] = t /\ task[t].named
        /\ 0..task[t].next - 1 \subseteq Whole(t) /\ dir[File[t]] \in {None, t}
    BY <2>1, <2>2 DEF Sound, Going
  <2> QED
    BY <2>1, <2>2, <2>3, Places, WholeOffsets DEF TypeOK
<1>2. /\ d \in Task /\ d.status = "downloading" /\ d.told = {} /\ d.named /\ d.stream = t
      /\ d.next = task[t].next /\ n \in Nat /\ d.written \in Nat
  BY <1>1, ArrivedFields DEF Task
<1>3. /\ C \subseteq Whole(t)
      /\ \A j \in Offsets : d.running[j] # "borrowed"
      /\ \A j \in Offsets : j >= n => d.running[j] = "none"
      /\ \A j \in Q : d.running[j] = "asked"
      /\ t \notin Encrypted =>
            \A j \in 0..n - 1 : d.running[j] = "asked" \/ (d.running[j] = "none" /\ j \in C)
      /\ t \in Encrypted =>
            /\ d.written <= n
            /\ C = 0..d.written - 1
            /\ \A j \in 0..d.written - 1 : d.running[j] = "none"
            /\ \A j \in d.written..n - 1 : d.running[j] \in {"asked", "copied"}
            /\ d.written < n => d.running[d.written] = "asked"
  BY <1>1, ArrivedSound
<1>4. /\ content' = [content EXCEPT ![t] = C]
      /\ \/ /\ HasMore(t, d)
            /\ task' = [task EXCEPT ![t] = next]
            /\ inflight' = [inflight EXCEPT ![t] = Q \cup {n}]
            /\ dir' = F /\ downloads' = downloads
         \/ HasMore(t, d) /\ Taken(t, k) /\ End(t, Broken(next), F)
         \/ ~HasMore(t, d) /\ AllArrived(d) /\ Taken(t, k) /\ End(t, d, F)
         \/ /\ ~HasMore(t, d) /\ Taken(t, k)
            /\ task' = [task EXCEPT ![t] = d]
            /\ dir' = F /\ downloads' = downloads
  BY ArrivesSplit
<1>5. C \in SUBSET Offsets /\ content'[t] = C
  BY <1>1, <1>3, <1>4, Places DEF TypeOK
<1> HIDE DEF d, C
<1>6. HasMore(t, d) =>
        /\ next \in Task /\ next.status = d.status /\ next.told = d.told
        /\ next.named = d.named /\ next.stream = d.stream /\ next.written = d.written
        /\ next.next = n + 1 /\ next.running = [d.running EXCEPT ![n] = "asked"]
        /\ n \in Whole(t)
  BY <1>2, NextFields
<1>7. Taken(t, k) => inflight' = [inflight EXCEPT ![t] = Q] /\ inflight'[t] = Q
  BY <1>1 DEF Taken, TypeOK
<1> HIDE DEF next, F, Q
<1>8. CASE HasMore(t, d) /\ task' = [task EXCEPT ![t] = next]
           /\ inflight' = [inflight EXCEPT ![t] = Q \cup {n}]
           /\ dir' = F /\ downloads' = downloads
  <2> DEFINE Q2 == Q \cup {n}
  <2>1. /\ next \in Task /\ next.status = "downloading" /\ next.told = {} /\ next.named
        /\ next.stream = t /\ next.written = d.written /\ next.next = n + 1 /\ n \in Whole(t)
        /\ \A j \in Offsets : next.running[j] = IF j = n THEN "asked" ELSE d.running[j]
    BY <1>2, <1>6, <1>8 DEF Task
  <2>2. Q2 \in SUBSET Offsets
    BY <1>1, <2>1
  <2>3. task'[t] = next /\ inflight'[t] = Q2 /\ dir'[File[t]] = t /\ downloads'[Id[t]] = t
    BY <1>1, <1>8, <2>1, <2>2, Places DEF TypeOK, F
  <2>4. 0..n \subseteq Whole(t)
    BY <1>1, <1>2, <2>1 DEF Whole
  <2> HIDE DEF Q2, n
  <2>5. /\ \A j \in Q2 : next.running[j] = "asked"
        /\ \A j \in Offsets : j >= n + 1 => next.running[j] = "none"
        /\ \A j \in Offsets : next.running[j] # "borrowed"
    BY <1>1, <1>2, <1>3, <2>1, <2>2 DEF Q2
  <2>6. task'[t].next - 1 = n
    BY <1>2, <2>1, <2>3
  <2>7. t \notin Encrypted =>
           \A j \in 0..n : next.running[j] = "asked" \/ (next.running[j] = "none" /\ j \in C)
    BY <1>1, <1>2, <1>3, <2>1, <2>4
  <2>8. t \in Encrypted =>
            /\ d.written <= n + 1
            /\ \A j \in 0..d.written - 1 : next.running[j] = "none"
            /\ \A j \in d.written..n : next.running[j] \in {"asked", "copied"}
            /\ d.written < n + 1 => next.running[d.written] = "asked"
    <3>1. 0..n \subseteq Offsets
      BY <1>1, <2>4
    <3> QED
      BY <1>1, <1>2, <1>3, <2>1, <3>1
  <2>9. Fresh(t)' /\ Ended(t)'
    BY <1>2, <2>1, <2>3 DEF Fresh, Ended, Finished
  <2>10. Going(t)'
    <3>1. /\ task'[t].told = {} /\ downloads'[Id[t]] = t /\ task'[t].stream = t /\ t # None
          /\ dir'[File[t]] = t /\ task'[t].named /\ 0..task'[t].next - 1 \subseteq Whole(t)
      BY <2>1, <2>3, <2>4, <2>6, DownloadAssumption
    <3>2. /\ \A j \in inflight'[t] : task'[t].running[j] = "asked"
          /\ \A j \in Offsets : j >= task'[t].next => task'[t].running[j] = "none"
      BY <2>1, <2>3, <2>5
    <3> QED
      BY <3>1, <3>2 DEF Going
  <2>11. Plain(t)'
    BY <1>3, <1>5, <2>1, <2>3, <2>6, <2>7 DEF Plain
  <2>12. Chained(t)'
    BY <1>2, <1>3, <1>5, <2>1, <2>3, <2>6, <2>8 DEF Chained
  <2>13. Sound(t)'
    BY <2>3, <2>5, <2>9, <2>10, <2>11, <2>12 DEF Sound
  <2>14. inflight' = [inflight EXCEPT ![t] = Q2]
    BY <1>8 DEF Q2
  <2>15. Keeps(t)
    BY <2>1, <2>3 DEF Keeps
  <2> QED
    BY <1>1, <1>4, <1>5, <1>8, <2>1, <2>2, <2>13, <2>14, <2>15, OnlyOne DEF F
<1>9. CASE HasMore(t, d) /\ Taken(t, k) /\ End(t, Broken(next), F)
  <2> DEFINE b == Broken(next)
  <2>1. /\ b \in Task /\ b.status = "failed" /\ b.told = task[t].told \cup {b.status}
        /\ b.running = NoParts /\ b.named = task[t].named
    BY <1>1, <1>2, <1>6, <1>9, BrokenFields
  <2>2. Taken(t, k) /\ End(t, b, F) /\ F = [dir EXCEPT ![File[t]] = t]
    BY <1>9 DEF F
  <2> HIDE DEF b
  <2> QED
    BY <1>1, <1>4, <1>5, <2>1, <2>2, FailPreserves
<1>10. CASE /\ ~HasMore(t, d) /\ Taken(t, k)
            /\ task' = [task EXCEPT ![t] = d]
            /\ dir' = F /\ downloads' = downloads
  <2>1. task'[t] = d /\ inflight'[t] = Q /\ dir'[File[t]] = t /\ downloads'[Id[t]] = t
    BY <1>1, <1>2, <1>7, <1>10, Places DEF TypeOK, F
  <2>2. Fresh(t)' /\ Ended(t)'
    BY <1>2, <2>1 DEF Fresh, Ended, Finished
  <2>3. Going(t)'
    <3>1. /\ task'[t].told = {} /\ downloads'[Id[t]] = t /\ task'[t].stream = t /\ t # None
          /\ dir'[File[t]] = t /\ task'[t].named /\ 0..task'[t].next - 1 \subseteq Whole(t)
      BY <1>1, <1>2, <2>1, DownloadAssumption
    <3>2. /\ \A j \in inflight'[t] : task'[t].running[j] = "asked"
          /\ \A j \in Offsets : j >= task'[t].next => task'[t].running[j] = "none"
      BY <1>3, <2>1
    <3> QED
      BY <3>1, <3>2 DEF Going
  <2>4. Plain(t)'
    BY <1>3, <1>5, <2>1 DEF Plain
  <2>5. Chained(t)'
    BY <1>2, <1>3, <1>5, <2>1 DEF Chained
  <2>6. Sound(t)'
    BY <1>3, <2>1, <2>2, <2>3, <2>4, <2>5 DEF Sound
  <2>7. Keeps(t)
    BY <1>1, <1>2, <2>1 DEF Keeps
  <2>8. d \in Task /\ Q \in SUBSET Offsets /\ inflight' = [inflight EXCEPT ![t] = Q]
    BY <1>1, <1>2, <1>7, <1>10
  <2> QED
    BY <1>1, <1>4, <1>5, <1>10, <2>6, <2>7, <2>8, OnlyOne DEF F
<1>11. CASE ~HasMore(t, d) /\ AllArrived(d) /\ Taken(t, k) /\ End(t, d, F)
  <2> DEFINE c == [d EXCEPT !.stream = None]
             e == SetStatus(c, "succeeded")
  <2>1. /\ c \in Task /\ c.stream = None /\ c.told = {} /\ c.running = d.running
    BY <1>2, ClosedFields
  <2>2. /\ e \in Task /\ e.stream = None /\ e.told = {"succeeded"} /\ e.running = d.running
        /\ e.status = "succeeded"
    <3> HIDE DEF c
    <3> QED
      BY <2>1, SetStatusFields DEF Status, Finished
  <2>3. /\ downloads' = [downloads EXCEPT ![Id[t]] = None]
        /\ task' = [task EXCEPT ![t] = e] /\ dir' = F
    BY <1>1, <1>2, <1>11, DownloadAssumption DEF End, EndsWell
  <2> HIDE DEF c, e
  <2>4. Q = {}
    BY <1>1, <1>3, <1>11 DEF AllArrived, Q
  <2>5. /\ task'[t] = e /\ inflight'[t] = {} /\ dir'[File[t]] = t /\ downloads'[Id[t]] = None
    BY <1>1, <1>7, <1>11, <2>2, <2>3, <2>4, Places DEF TypeOK, F
  <2>6. Sound(t)'
    BY <1>3, <2>2, <2>5 DEF Sound, Fresh, Ended, Going, Plain, Chained, Active, Finished
  <2>7. C = Whole(t)
    <3>1. k \in 0..n - 1 /\ 0..n - 1 \subseteq Offsets
      <4>1. task[t].running[k] = "asked"
        BY <1>1 DEF Sound, Going
      <4>2. \A j \in Offsets : j >= task[t].next => task[t].running[j] = "none"
        BY <1>1 DEF Sound, Going
      <4> QED
        BY <1>1, <1>2, <4>1, <4>2
    <3>2. Whole(t) \subseteq 0..n - 1
      BY <1>2, <1>11, <3>1, DownloadAssumption DEF Whole, HasMore
    <3>3. \A j \in 0..n - 1 : d.running[j] = "none"
      BY <1>11, <3>1 DEF AllArrived
    <3>4. 0..n - 1 \subseteq C
      <4>1. CASE t \in Encrypted
        BY <1>2, <1>3, <3>3, <4>1
      <4>2. CASE t \notin Encrypted
        BY <1>3, <3>3, <4>2
      <4> QED
        BY <4>1, <4>2
    <3> QED
      BY <1>3, <3>2, <3>4
  <2>8. Keeps(t)
    BY <1>5, <2>5, <2>7 DEF Keeps
  <2> QED
    BY <1>1, <1>4, <1>5, <1>7, <1>11, <2>2, <2>3, <2>6, <2>8, OnlyOne DEF F
<1> QED
  BY <1>4, <1>8, <1>9, <1>10, <1>11

-----------------------------------------------------------------------------
(* The other steps                                                         *)

\* A call that makes no task.
LEMMA RefusePreserves ==
    ASSUME Distinct, IInv, NEW t \in Tasks, Refuse(t)
    PROVE  IInv' /\ "succeeded" \notin task'[t].told
<1> DEFINE e == SetStatus(task[t], "failed")
<1>1. /\ TypeOK /\ Sound(t) /\ task[t] \in Task /\ inflight[t] \in SUBSET Offsets
      /\ content[t] \in SUBSET Offsets /\ task[t].status = "none"
  BY DEF IInv, TypeOK, Refuse
<1>2. /\ task[t].told = {} /\ task[t].stream = None /\ ~task[t].named
      /\ downloads[Id[t]] = None /\ dir[File[t]] = None
  BY <1>1 DEF Sound, Fresh
<1>3. /\ e \in Task /\ e.status = "failed" /\ e.told = {"failed"}
      /\ e.stream = None /\ ~e.named /\ e.running = task[t].running
  BY <1>1, <1>2, SetStatusFields DEF Status, Finished
<1>4. task' = [task EXCEPT ![t] = e] /\ UNCHANGED <<downloads, inflight, dir, content>>
  BY DEF Refuse
<1> HIDE DEF e
<1>5. task'[t] = e
  BY <1>1, <1>3, <1>4 DEF TypeOK
<1>6. Sound(t)'
  BY <1>1, <1>2, <1>3, <1>4, <1>5
  DEF Sound, Fresh, Ended, Going, Plain, Chained, Active, Finished
<1>7. /\ inflight' = [inflight EXCEPT ![t] = inflight[t]]
      /\ content' = [content EXCEPT ![t] = content[t]]
      /\ downloads' = [downloads EXCEPT ![Id[t]] = None]
      /\ dir' = [dir EXCEPT ![File[t]] = None]
  BY <1>1, <1>2, <1>4, Places
<1>8. "succeeded" \notin task'[t].told
  BY <1>3, <1>5
<1> QED
  BY <1>1, <1>3, <1>4, <1>6, <1>7, <1>8, OnlyOne

\* A mark, or a status that is not final, changes nothing else.
LEMMA MarkPreserves ==
    ASSUME Distinct, IInv, NEW t \in Tasks, NEW e \in Task,
           task' = [task EXCEPT ![t] = e], UNCHANGED <<downloads, inflight, dir, content>>,
           e.status = task[t].status \/ {e.status, task[t].status} \subseteq Active,
           e.told = task[t].told, e.named = task[t].named, e.next = task[t].next,
           e.running = task[t].running, e.written = task[t].written,
           e.stream = task[t].stream
    PROVE  IInv' /\ task'[t].told = task[t].told
<1>1. TypeOK /\ Sound(t)
  BY DEF IInv
<1>2. task'[t] = e
  BY <1>1 DEF TypeOK
<1>3. Fresh(t)' /\ Ended(t)' /\ Going(t)'
  BY <1>1, <1>2 DEF Sound, Fresh, Ended, Going, Active, Finished
<1>4. Plain(t)' /\ Chained(t)'
  BY <1>1, <1>2 DEF Sound, Plain, Chained, Active
<1>5. Sound(t)'
  BY <1>1, <1>2, <1>3, <1>4 DEF Sound
<1>6. ASSUME NEW u \in Tasks, u # t PROVE Sound(u)'
  <2>1. task'[u] = task[u] /\ Sound(u)
    BY <1>1, <1>6 DEF TypeOK, IInv
  <2> QED
    BY <2>1 DEF Sound, Fresh, Ended, Going, Plain, Chained
<1>7. TypeOK'
  BY <1>1 DEF TypeOK
<1> QED
  BY <1>2, <1>5, <1>6, <1>7 DEF IInv

\* A mark, for the next answer to find.
LEMMA CancelPreserves ==
    ASSUME Distinct, IInv, NEW t \in Tasks, Cancel(t)
    PROVE  IInv' /\ task'[t].told = task[t].told
<1> DEFINE e == [task[t] EXCEPT !.cancel = TRUE]
<1>1. task[t] \in Task
  BY DEF IInv, TypeOK
<1>2. /\ e \in Task /\ e.status = task[t].status /\ e.told = task[t].told
      /\ e.named = task[t].named /\ e.next = task[t].next /\ e.running = task[t].running
      /\ e.written = task[t].written /\ e.stream = task[t].stream
  BY <1>1 DEF Task
<1>3. task' = [task EXCEPT ![t] = e] /\ UNCHANGED <<downloads, inflight, dir, content>>
  BY DEF Cancel
<1> HIDE DEF e
<1> QED
  BY <1>2, <1>3, MarkPreserves

\* The status of a query or of its connection.
LEMMA StatusPreserves ==
    ASSUME Distinct, IInv, NEW t \in Tasks, StatusChanges(t)
    PROVE  IInv' /\ task'[t].told = task[t].told
<1>1. PICK s \in Active : task' = [task EXCEPT ![t] = SetStatus(@, s)]
  BY DEF StatusChanges, Active
<1> DEFINE e == SetStatus(task[t], s)
<1>2. task[t] \in Task /\ UNCHANGED <<downloads, inflight, dir, content>>
  BY DEF IInv, TypeOK, StatusChanges
<1>3. task[t].status \in Active
  BY <1>2 DEF StatusChanges, IInv, Sound, Fresh, Task, Status, Active, Finished
<1>4. /\ e \in Task /\ e.status = s /\ e.told = task[t].told
      /\ e.named = task[t].named /\ e.next = task[t].next /\ e.running = task[t].running
      /\ e.written = task[t].written /\ e.stream = task[t].stream
  BY <1>2, SetStatusFields DEF Status, Finished, Active
<1>5. task' = [task EXCEPT ![t] = e]
  BY <1>1
<1> HIDE DEF e
<1> QED
  BY <1>2, <1>3, <1>4, <1>5, MarkPreserves

\* The first queries, and those the client refuses.
LEMMA StartPreserves ==
    ASSUME Distinct, IInv, NEW t \in Tasks, Start(t)
    PROVE  IInv' /\ "succeeded" \notin task'[t].told
<1> DEFINE first == FirstParts(t)
           w == SetStatus(task[t], "waiting")
<1>1. /\ TypeOK /\ Sound(t) /\ task[t] \in Task /\ task[t].status = "none"
      /\ content[t] \in SUBSET Offsets
      /\ task[t].told = {} /\ task[t].stream = None /\ task[t].written = 0 /\ content[t] = {}
      /\ downloads[Id[t]] = None /\ dir[File[t]] = None
  BY DEF IInv, TypeOK, Start, Sound, Fresh, Task
<1>2. PICK R \in SUBSET first :
       LET kept == {k \in first : \A r \in R : r < k}
           d    == [w EXCEPT
                        !.named = first # {}, !.next = Cardinality(first),
                        !.running = [k \in Offsets |-> IF k \in kept THEN "asked" ELSE "none"]]
       IN /\ inflight' = [inflight EXCEPT ![t] = first \ R]
          /\ \/ /\ R = {}
                /\ task' = [task EXCEPT ![t] = d]
                /\ downloads' = [downloads EXCEPT ![Id[t]] = t]
                /\ dir' = dir
             \/ /\ R # {}
                /\ task' = [task EXCEPT ![t] = Discarded(SetStatus(d, "failed"))]
                /\ downloads' = downloads
                /\ dir' = [dir EXCEPT ![File[t]] = None]
  BY DEF Start
<1> DEFINE kept == {k \in first : \A r \in R : r < k}
           run == [k \in Offsets |-> IF k \in kept THEN "asked" ELSE "none"]
           n == Cardinality(first)
           d == [w EXCEPT !.named = first # {}, !.next = n, !.running = run]
           f == SetStatus(d, "failed")
           e == Discarded(f)
           Q == first \ R
<1>3. /\ first \subseteq Offsets /\ first = 0..n - 1 /\ n \in Nat
      /\ first \subseteq Whole(t) /\ Offsets \subseteq Nat
  BY FirstPartsCount, WholeOffsets
<1>4. UNCHANGED content /\ content' = [content EXCEPT ![t] = content[t]]
  BY <1>1, Places DEF Start
<1>5. /\ w \in Task /\ w.status = "waiting" /\ w.told = {} /\ w.stream = None
      /\ w.written = task[t].written
  BY <1>1, SetStatusFields DEF Status, Finished
<1>6. run \in [Offsets -> Part]
  BY DEF Part
<1>7. \A k \in Offsets : run[k] = IF k \in kept THEN "asked" ELSE "none"
  OBVIOUS
<1>8. R = {} => kept = first
  OBVIOUS
<1> HIDE DEF first, w, run, n, kept
<1>9. /\ d \in Task /\ d.status = "waiting" /\ d.told = {} /\ d.stream = None
      /\ d.named = (first # {}) /\ d.next = n /\ d.running = run
      /\ d.written = task[t].written
  BY <1>3, <1>5, <1>6 DEF Task
<1> HIDE DEF d
<1>10. f \in Task /\ f.status = "failed" /\ f.told = {"failed"} /\ f.running = run
  BY <1>9, SetStatusFields DEF Status, Finished
<1> HIDE DEF f
<1>11. /\ e \in Task /\ e.status = "failed" /\ e.told = {"failed"} /\ e.stream = None
       /\ ~e.named /\ e.running = run
  BY <1>10, ClosedFields
<1> HIDE DEF e
<1>12. inflight' = [inflight EXCEPT ![t] = Q] /\ Q \in SUBSET Offsets /\ inflight'[t] = Q
  BY <1>1, <1>2, <1>3 DEF TypeOK
<1>13. CASE R # {} /\ task' = [task EXCEPT ![t] = e] /\ downloads' = downloads
            /\ dir' = [dir EXCEPT ![File[t]] = None]
  <2>1. task'[t] = e /\ downloads'[Id[t]] = None /\ dir'[File[t]] = None
    BY <1>1, <1>11, <1>13, Places DEF TypeOK
  <2>2. Sound(t)'
    BY <1>7, <1>11, <2>1 DEF Sound, Fresh, Ended, Going, Plain, Chained, Active, Finished
  <2>3. downloads' = [downloads EXCEPT ![Id[t]] = None]
    BY <1>1, <1>13, Places
  <2>4. "succeeded" \notin task'[t].told
    BY <1>11, <2>1
  <2> QED
    BY <1>1, <1>4, <1>11, <1>12, <1>13, <2>2, <2>3, <2>4, OnlyOne
<1>14. CASE R = {} /\ task' = [task EXCEPT ![t] = d] /\ dir' = dir
            /\ downloads' = [downloads EXCEPT ![Id[t]] = t]
  <2>1. task'[t] = d /\ downloads'[Id[t]] = t /\ dir'[File[t]] = None /\ inflight'[t] = first
    BY <1>1, <1>9, <1>12, <1>14, Places DEF TypeOK
  <2>2. /\ \A k \in first : run[k] = "asked"
        /\ \A k \in Offsets : k >= n => run[k] = "none"
        /\ \A k \in Offsets : run[k] # "borrowed"
    BY <1>3, <1>7, <1>8, <1>14
  <2>3. Fresh(t)' /\ Ended(t)'
    BY <1>9, <2>1 DEF Fresh, Ended, Finished
  <2>4. Going(t)'
    <3>1. /\ task'[t].told = {} /\ downloads'[Id[t]] = t /\ task'[t].stream = None /\ t # None
          /\ task'[t].named = (first # {}) /\ task'[t].next = n /\ task'[t].written = 0
      BY <1>1, <1>9, <2>1, DownloadAssumption
    <3>2. /\ \A k \in inflight'[t] : task'[t].running[k] = "asked"
          /\ \A k \in Offsets : k >= n => task'[t].running[k] = "none"
          /\ \A k \in 0..n - 1 : task'[t].running[k] = "asked"
      BY <1>3, <1>9, <2>1, <2>2
    <3> QED
      BY <1>3, <2>1, <3>1, <3>2 DEF Going
  <2>5. Plain(t)'
    BY <1>1, <1>3, <1>4, <1>9, <2>1, <2>2 DEF Plain
  <2>6. Chained(t)'
    <3>1. /\ task'[t].written = 0 /\ task'[t].next = n /\ task'[t].stream # t
          /\ \A k \in 0..n - 1 : task'[t].running[k] = "asked"
      BY <1>1, <1>3, <1>9, <2>1, <2>2, DownloadAssumption
    <3> QED
      BY <1>3, <3>1 DEF Chained
  <2>7. Sound(t)'
    BY <1>9, <2>1, <2>2, <2>3, <2>4, <2>5, <2>6 DEF Sound
  <2>8. dir' = [dir EXCEPT ![File[t]] = None]
    BY <1>1, <1>14, Places
  <2>9. "succeeded" \notin task'[t].told
    BY <1>9, <2>1
  <2>10. t \in {None, t} /\ None \in {None, t}
    OBVIOUS
  <2> QED
    BY <1>1, <1>4, <1>9, <1>12, <1>14, <2>7, <2>8, <2>9, <2>10, OnlyOne
<1> QED
  BY <1>2, <1>13, <1>14 DEF e, f, d, kept, run, n

\* Before the first call there is nothing.
LEMMA InitIInv == Init => IInv
<1> SUFFICES ASSUME Init PROVE IInv
  OBVIOUS
<1>1. NewTask \in Task
  BY DEF NewTask, NoParts, Task, Status, Part
<1>2. TypeOK
  BY <1>1 DEF Init, TypeOK
<1>3. ASSUME NEW t \in Tasks PROVE Sound(t)
  <2>1. Id[t] \in Ids /\ File[t] \in Files
    BY DEF Ids, Files
  <2> QED
    BY <2>1 DEF Init, NewTask, NoParts, Sound, Fresh, Ended, Going, Plain, Chained, Active, Finished
<1> QED
  BY <1>2, <1>3 DEF IInv

\* A step belongs to one task, and only the end of a download that is whole
\* reports a success.
LEMMA TaskStep ==
    ASSUME Distinct, IInv, NEW t \in Tasks,
           \/ Refuse(t) \/ Start(t) \/ Cancel(t) \/ StatusChanges(t)
           \/ \E k \in inflight[t] : PartEnds(t, k)
    PROVE  IInv' /\ (task'[t].told = task[t].told \/ Keeps(t))
<1>1. CASE Refuse(t) \/ Start(t)
  BY <1>1, RefusePreserves, StartPreserves DEF Keeps
<1>2. CASE Cancel(t) \/ StatusChanges(t)
  BY <1>2, CancelPreserves, StatusPreserves
<1>3. ASSUME NEW k \in inflight[t], PartEnds(t, k)
      PROVE  IInv' /\ Keeps(t)
  BY <1>3, PartCancelledPreserves, PartBreaksPreserves, PartEmptyPreserves, PartArrivesPreserves
  DEF PartEnds
<1> QED
  BY <1>1, <1>2, <1>3

\* Every step preserves the invariant.
LEMMA StepIInv == Distinct /\ IInv /\ [Next]_vars => IInv'
<1> SUFFICES ASSUME Distinct, IInv, [Next]_vars PROVE IInv'
  OBVIOUS
<1>1. CASE Next
  BY <1>1, TaskStep DEF Next
<1>2. CASE UNCHANGED vars
  BY <1>2 DEF vars, IInv, TypeOK, Sound, Fresh, Ended, Going, Plain, Chained
<1> QED
  BY <1>1, <1>2

\* The steps of another download tell t nothing.
LEMMA OtherTold ==
    ASSUME IInv, NEW t \in Tasks, NEW u \in Tasks, u # t,
           \/ Refuse(u) \/ Start(u) \/ Cancel(u) \/ StatusChanges(u)
           \/ \E k \in inflight[u] : PartEnds(u, k)
    PROVE  task'[t] = task[t]
<1>1. task \in [Tasks -> Task]
  BY DEF IInv, TypeOK
<1>2. CASE Refuse(u) \/ Cancel(u) \/ StatusChanges(u)
  BY <1>1, <1>2 DEF Refuse, Cancel, StatusChanges
<1>3. CASE Start(u)
  BY <1>1, <1>3 DEF Start, End
<1>4. ASSUME NEW k \in inflight[u], PartEnds(u, k)
      PROVE  task'[t] = task[t]
  <2>1. CASE PartCancelled(u, k)
    BY <1>1, <2>1 DEF PartCancelled, End
  <2>2. CASE PartFails(u, k) \/ OpenFails(u, k)
    BY <1>1, <2>2 DEF PartFails, OpenFails, End
  <2>3. CASE PartEmpty(u, k)
    BY <1>1, <2>3 DEF PartEmpty, End
  <2>4. CASE PartArrives(u, k)
    BY <1>1, <2>4 DEF PartArrives, End
  <2> QED
    BY <1>4, <2>1, <2>2, <2>3, <2>4 DEF PartEnds
<1> QED
  BY <1>2, <1>3, <1>4

\* A step that reports a success leaves the whole file.
LEMMA StepComplete == Distinct /\ IInv /\ [Next]_vars =>
    \A t \in Tasks :
        "succeeded" \in task'[t].told \ task[t].told =>
            /\ dir'[File[t]] # None
            /\ content'[dir'[File[t]]] = Whole(t)
<1> SUFFICES ASSUME Distinct, IInv, [Next]_vars, NEW t \in Tasks,
                    "succeeded" \in task'[t].told \ task[t].told
             PROVE  dir'[File[t]] # None /\ content'[dir'[File[t]]] = Whole(t)
  OBVIOUS
<1>1. ~UNCHANGED vars
  BY DEF vars
<1>2. PICK u \in Tasks :
         \/ Refuse(u) \/ Start(u) \/ Cancel(u) \/ StatusChanges(u)
         \/ \E k \in inflight[u] : PartEnds(u, k)
  BY <1>1 DEF Next
<1>3. u = t
  BY <1>2, OtherTold
<1>4. Keeps(t)
  BY <1>2, <1>3, TaskStep
<1> QED
  BY <1>4, DownloadAssumption DEF Keeps

-----------------------------------------------------------------------------
(* The downloads                                                           *)

\* The invariant holds in every state.
LEMMA Invariance == Distinct => (Spec => []IInv)
<1> SUFFICES ASSUME Distinct PROVE Spec => []IInv
  BY DEF Distinct
<1> QED
  BY InitIInv, StepIInv, PTL DEF Spec

\* A download that is reported as a success has, at that step, every part of its
\* file, each in its place and decrypted in order, whatever the order of the
\* answers (download_part_finished(), download_end()).
THEOREM WholeFile == Distinct => (Spec => FileComplete)
<1> SUFFICES ASSUME Distinct PROVE Spec => FileComplete
  BY DEF Distinct
<1> QED
  BY Invariance, StepComplete, PTL DEF Spec, FileComplete

-----------------------------------------------------------------------------
(* Both halves of the transfer manager                                     *)

\* Uploads, proved about in UploadProofs.
UP == INSTANCE UploadProofs WITH task <- upload, inflight <- sent

\* The constants the downloads have are those that the uploads need.
LEMMA UploadConstants == UP!UploadAssumption
BY DownloadAssumption DEF UP!UploadAssumption

\* A behaviour of both is one of the downloads.
LEMMA DownHalf == SpecTransfers => Spec
<1>1. InitTransfers => Init
  BY DEF InitTransfers
<1>2. [Down \/ Up]_all => [Next]_vars
  BY DEF Down, Up, all, vars
<1> QED
  BY <1>1, <1>2, PTL DEF SpecTransfers, Spec

\* A download that ended without success leaves no file, and no running part
\* points into an answer that was handled; this for any number of downloads of
\* distinct ids and files.
THEOREM FilesAreSound == Distinct => (SpecTransfers => []FilesSound)
<1> SUFFICES ASSUME Distinct PROVE SpecTransfers => []FilesSound
  BY DEF Distinct
<1>1. IInv => FilesSound
  BY DEF IInv, Sound, Fresh, Ended, Going, FilesSound, NoPartialFile, NothingBorrowed,
     TypeOK, Task, Status, Active, Finished
<1> QED
  BY <1>1, Invariance, DownHalf, PTL

\* The uploads MCTransfers composes are those of UploadProofs.
LEMMA SameInit == U!Init => UP!Init
BY DEF U!Init, UP!Init, U!NewTask, UP!NewTask, U!Ids, UP!Ids

\* Their steps, action by action.
LEMMA SameNext == U!Next => UP!Next
<1> SUFFICES ASSUME NEW t \in Tasks,
                    \/ U!Refuse(t) \/ U!Start(t) \/ U!Cancel(t) \/ U!StatusChanges(t)
                    \/ \E k \in sent[t] : U!PartEnds(t, k)
                    \/ U!MessageEnds(t)
             PROVE  \/ UP!Refuse(t) \/ UP!Start(t) \/ UP!Cancel(t) \/ UP!StatusChanges(t)
                    \/ \E k \in sent[t] : UP!PartEnds(t, k)
                    \/ UP!MessageEnds(t)
  BY DEF U!Next, UP!Next
<1>1. U!Refuse(t) => UP!Refuse(t)
  BY DEF U!Refuse, UP!Refuse, U!SetStatus, UP!SetStatus, U!Finished, UP!Finished
<1>2. U!Start(t) => UP!Start(t)
  <2>1. U!FirstQueries(t) = UP!FirstQueries(t) /\ U!FirstParts(t) = UP!FirstParts(t)
    BY DEF U!FirstQueries, UP!FirstQueries, U!FirstParts, UP!FirstParts, U!Document, UP!Document,
       U!Thumb, UP!Thumb
  <2>2. \A d, s : U!SetStatus(d, s) = UP!SetStatus(d, s)
    BY DEF U!SetStatus, UP!SetStatus, U!Finished, UP!Finished
  <2>3. \A S : U!Cardinality(S) = UP!Cardinality(S)
    BY DEF U!Cardinality, UP!Cardinality
  <2> QED
    BY <2>1, <2>2, <2>3, Zenon DEF U!Start, UP!Start
<1>3. U!Cancel(t) => UP!Cancel(t)
  BY DEF U!Cancel, UP!Cancel
<1>4. U!StatusChanges(t) => UP!StatusChanges(t)
  BY DEF U!StatusChanges, UP!StatusChanges, U!SetStatus, UP!SetStatus, U!Finished,
     UP!Finished
<1>5. U!MessageEnds(t) => UP!MessageEnds(t)
  BY DEF U!MessageEnds, UP!MessageEnds, U!SetStatus, UP!SetStatus, U!Finished, UP!Finished
<1>6. \A d : U!End(t, d) => UP!End(t, d)
  BY DEF U!End, UP!End, U!SendsMessage, UP!SendsMessage, U!SetStatus, UP!SetStatus,
     U!Finished, UP!Finished
<1>7. ASSUME NEW k PROVE U!PartFails(t, k) => UP!PartFails(t, k)
  BY <1>6 DEF U!PartFails, UP!PartFails, U!Taken, UP!Taken, U!SetStatus, UP!SetStatus,
     U!Finished, UP!Finished
<1>8. ASSUME NEW k PROVE U!PartCancelled(t, k) => UP!PartCancelled(t, k)
  BY <1>6 DEF U!PartCancelled, UP!PartCancelled, U!Taken, UP!Taken, U!Stored, UP!Stored,
     U!Cancelled, UP!Cancelled, U!SetStatus, UP!SetStatus, U!Finished, UP!Finished
<1>9. ASSUME NEW k PROVE U!PartStored(t, k) => UP!PartStored(t, k)
  BY <1>6 DEF U!PartStored, UP!PartStored, U!Taken, UP!Taken, U!Stored, UP!Stored,
     U!Cancelled, UP!Cancelled, U!Uploading, UP!Uploading, U!HasMore, UP!HasMore,
     U!AllStored, UP!AllStored, U!SetStatus, UP!SetStatus, U!Finished, UP!Finished
<1> QED
  BY <1>1, <1>2, <1>3, <1>4, <1>5, <1>7, <1>8, <1>9 DEF U!PartEnds, UP!PartEnds

\* Their properties.
LEMMA SameProperties ==
    /\ UP!TypeOK /\ UP!MessageHasDocument => UploadsSound
    /\ UP!OneVerdict => U!OneVerdict
BY DEF UploadsSound, U!TypeOK, UP!TypeOK, U!MessageHasDocument, UP!MessageHasDocument,
   U!OneVerdict, UP!OneVerdict, U!Task, UP!Task, U!Ids, UP!Ids, U!Numbers, UP!Numbers,
   U!Document, UP!Document, U!Thumb, UP!Thumb, U!Status, UP!Status,
   U!Finished, UP!Finished

\* A behaviour of both is one of the uploads.
LEMMA UpHalf == SpecTransfers => UP!Spec
<1>1. InitTransfers => UP!Init
  BY SameInit DEF InitTransfers
<1>2. [Down \/ Up]_all => [UP!Next]_(UP!vars)
  BY SameNext DEF Down, Up, all, ups, UP!vars
<1> QED
  BY <1>1, <1>2, PTL DEF SpecTransfers, UP!Spec

\* The message of an upload carries the whole document, for any documents, ids
\* and numbers of connections (upload_end() after the last part only).
THEOREM UploadsAreSound == SpecTransfers => []UploadsSound
BY UpHalf, UploadConstants, UP!MessageIsWhole, SameProperties, PTL

\* What was reported as a success, of a download or of an upload without
\* thumbnail, is not reported as failed or cancelled too.
THEOREM VerdictIsOne == Distinct => (SpecTransfers => []OneVerdict)
<1> SUFFICES ASSUME Distinct PROVE SpecTransfers => []OneVerdict
  BY DEF Distinct
<1>1. IInv => FailureIsFinal
  BY DEF IInv, Sound, Fresh, Ended, Going, FailureIsFinal, TypeOK, Task, Status, Active, Finished
<1>2. SpecTransfers => []U!OneVerdict
  BY UpHalf, UploadConstants, UP!OneReport, SameProperties, PTL
<1>3. FailureIsFinal /\ U!OneVerdict => OneVerdict
  BY DEF OneVerdict
<1> QED
  BY <1>1, <1>2, <1>3, Invariance, DownHalf, PTL

\* No success of a download without its whole file, and nothing sent of an upload
\* after it was reported as cancelled, in any step of the transfer manager.
THEOREM StepsAreSound == Distinct => (SpecTransfers => StepsSound)
<1> SUFFICES ASSUME Distinct PROVE SpecTransfers => StepsSound
  BY DEF Distinct
<1>1. SpecTransfers => FileComplete
  BY WholeFile, DownHalf, PTL
<1>2. SpecTransfers => UP!CancelStops
  BY UpHalf, UploadConstants, UP!CancelIsFinal, PTL
<1>3. UP!CancelStops => U!CancelStops
  BY PTL DEF UP!CancelStops, U!CancelStops, UP!vars, U!vars
<1> QED
  BY <1>1, <1>2, <1>3, PTL DEF StepsSound
=============================================================================
