----------------------------- MODULE MCTransfers -----------------------------
(***************************************************************************)
(* The transfer manager for TLC: a behaviour downloads three files or       *)
(* uploads three (Upload), while the other half stands still.  Or two       *)
(* downloads are given one id.                                              *)
(***************************************************************************)
EXTENDS Download, TLC

CONSTANTS t1, t2, t3, i1, i2, i3, f1, f2, f3, Thumbs

VARIABLES upload, uploads, sent, sending, half

U == INSTANCE Upload WITH task <- upload, inflight <- sent

OwnIds       == t1 :> i1 @@ t2 :> i2 @@ t3 :> i3
OneId        == t1 :> i1 @@ t2 :> i1
OwnFiles     == t1 :> f1 @@ t2 :> f2 @@ t3 :> f3
ThreeTwoNone == t1 :> 3 @@ t2 :> 2 @@ t3 :> 0
TwoTwo       == t1 :> 2 @@ t2 :> 2

ups == <<upload, uploads, sent, sending>>
all == <<vars, ups, half>>

InitTransfers == Init /\ U!Init /\ half \in {"down", "up"}

Down == half = "down" /\ Next /\ UNCHANGED <<ups, half>>
Up   == half = "up" /\ U!Next /\ UNCHANGED <<vars, half>>

\* The fairness of both.
DownFair == WF_all(half = "down" /\ QueryEnds /\ UNCHANGED <<ups, half>>)
UpFair   == WF_all(half = "up" /\ U!QueryEnds /\ UNCHANGED <<vars, half>>)

SpecTransfers == InitTransfers /\ [][Down \/ Up]_all /\ DownFair /\ UpFair

\* Two uploads of two parts, without the downloads.
SpecThumb == Init /\ U!Init /\ half = "up" /\ [][Up]_all

\* Two downloads under one id, without the uploads.
SpecReuse == Init /\ U!Init /\ half = "down" /\ [][Down]_all

-----------------------------------------------------------------------------
\* The properties of Upload by their names, and those that both have.

\* Download: no partial file, and no pointer into an answer that is handled.
FilesSound == TypeOK /\ NoPartialFile /\ NothingBorrowed

\* Upload: the message is sent after the document is stored.
UploadsSound == U!TypeOK /\ U!MessageHasDocument

\* What was reported as a success is not reported as failed or cancelled too,
\* of downloads and of uploads.
OneVerdict == FailureIsFinal /\ U!OneVerdict

\* Upload: the message is not sent before its thumbnail is stored.
MessageHasThumb == U!MessageHasThumb

\* A download that is reported as a success has the whole file at that step, and
\* no step of a cancelled upload sends anything.
StepsSound == FileComplete /\ U!CancelStops

\* Every download and every upload is reported as finished.
AllReported == Reported /\ U!Reported
=============================================================================
