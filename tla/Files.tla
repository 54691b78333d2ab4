------------------------------- MODULE Files -------------------------------
(***************************************************************************)
(* Files that belong to records (platform/attachments over                 *)
(* platform/storage) and uploads by presigned URL (platform/upload).  An   *)
(* attachment is a row in Postgres and an object in a bucket; Attach and   *)
(* Remove change the one and then the other, with nothing that joins them. *)
(*                                                                         *)
(* Attach stores under a key of its own, which the attachment's identifier *)
(* stands for here; AttachFromKey records a key a browser has uploaded to. *)
(* Every call to the store or the bucket may be refused (faults), and may  *)
(* take effect though its answer is lost, or its caller die (cuts).        *)
(***************************************************************************)
EXTENDS Integers

CONSTANTS Ids,        \* identifiers of attachments, each made once
          Keys,       \* keys uploaded to by browsers
          Uploads,    \* attachments of the upload service, with their keys
          Callers,    \* requests in flight
          NoRow,      \* no key: there is no such row
          MaxFaults,  \* refused calls
          MaxCuts,    \* lost answers and crashes
          MaxPuts     \* uploads by browsers to Keys

VARIABLES rows,       \* the attachments table: identifier to storage key
          objects,    \* keys in the bucket
          made,       \* identifiers already given out
          op,         \* what each request is about to do
          asked,      \* attachments some Remove has been called for
          failed,     \* attachments whose Attach reported an error
          whole,      \* attachments recorded with their object in place
          reused,     \* attachments of a key some Remove was about to delete
          status,     \* the upload service's rows
          urls,       \* uploads whose presigned URL reached the browser
          stored,     \* and objects in the upload service's bucket
          faults, cuts, puts

attach == <<rows, objects, made, asked, failed, whole, reused, puts>>
upload == <<status, urls, stored>>
vars == <<attach, upload, op, faults, cuts>>

Idle == [at |-> "idle"]

TypeOK ==
  /\ rows \in [Ids -> Ids \cup Keys \cup {NoRow}]
  /\ objects \subseteq Ids \cup Keys
  /\ made \subseteq Ids /\ asked \subseteq made /\ failed \subseteq made
  /\ whole \subseteq made /\ reused \subseteq made
  /\ op \in [Callers -> {Idle}
        \cup [at : {"insert", "cleanup", "delete row"}, id : Ids]
        \cup [at : {"delete object"}, id : Ids, key : Ids \cup Keys]
        \cup [at : {"stat", "update"}, id : Uploads]]
  /\ status \in [Uploads -> {"none", "pending", "complete"}]
  /\ urls \subseteq Uploads /\ stored \subseteq Uploads
  /\ faults \in 0 .. MaxFaults /\ cuts \in 0 .. MaxCuts /\ puts \in 0 .. MaxPuts

Init ==
  /\ rows = [i \in Ids |-> NoRow] /\ objects = {} /\ made = {}
  /\ op = [c \in Callers |-> Idle]
  /\ asked = {} /\ failed = {} /\ whole = {} /\ reused = {}
  /\ status = [u \in Uploads |-> "none"]
  /\ urls = {} /\ stored = {}
  /\ faults = 0 /\ cuts = 0 /\ puts = 0

----------------------------------------------------------------------------
\* How a call ends: done; refused with nothing done; done, and reported failed.
Done == UNCHANGED <<faults, cuts>>
Refused == faults < MaxFaults /\ faults' = faults + 1 /\ UNCHANGED cuts
Cut == cuts < MaxCuts /\ cuts' = cuts + 1 /\ UNCHANGED faults

At(c, what) == op[c].at = what
Goto(c, o) == op' = [op EXCEPT ![c] = o]

\* The table's keys are unique.
Insertable_AnyKey(k) == TRUE
Insertable(k) == \A i \in Ids : rows[i] # k

\* The row, and what is remembered of how it came about.
Insert(id, k) ==
  /\ rows' = [rows EXCEPT ![id] = k]
  /\ whole' = IF k \in objects THEN whole \cup {id} ELSE whole
  /\ UNCHANGED objects

\* storage.Put.  The object is in the bucket before the row is in the table.
Attach(c, id) ==
  /\ At(c, "idle") /\ id \notin made
  /\ made' = made \cup {id}
  /\ \/ Done /\ objects' = objects \cup {id} /\ failed' = failed
        /\ Goto(c, [at |-> "insert", id |-> id])
     \/ Refused /\ failed' = failed \cup {id} /\ UNCHANGED <<objects, op>>
     \/ Cut /\ objects' = objects \cup {id} /\ failed' = failed \cup {id} /\ UNCHANGED op
  /\ UNCHANGED <<rows, asked, whole, reused, puts, upload>>

AttachInsert(c) ==
  /\ At(c, "insert")
  /\ LET id == op[c].id IN
     \/ Done /\ Insert(id, id) /\ Goto(c, Idle) /\ UNCHANGED failed
     \/ Refused /\ failed' = failed \cup {id} /\ UNCHANGED <<rows, objects, whole>>
        /\ Goto(c, [at |-> "cleanup", id |-> id])
     \/ Cut /\ failed' = failed \cup {id} /\ Insert(id, id)
        /\ Goto(c, [at |-> "cleanup", id |-> id])
  /\ UNCHANGED <<made, asked, reused, puts, upload>>

\* The blob is deleted, best effort, when the row could not be written.
Cleaned_Kept(id) == objects
Cleaned(id) == objects \ {id}

Cleanup(c) ==
  /\ At(c, "cleanup")
  /\ \/ Done /\ objects' = Cleaned(op[c].id)
     \/ Refused /\ UNCHANGED objects
  /\ Goto(c, Idle)
  /\ UNCHANGED <<rows, made, asked, failed, whole, reused, puts, upload>>

\* One INSERT: nobody looks whether the object is there.
AttachFromKey(c, id, k) ==
  /\ At(c, "idle") /\ id \notin made /\ Insertable(k)
  /\ made' = made \cup {id}
  /\ Insert(id, k)
  /\ \/ Done /\ UNCHANGED failed
     \/ Cut /\ failed' = failed \cup {id}
  /\ reused' = IF \E d \in Callers : At(d, "delete object") /\ op[d].key = k
               THEN reused \cup {id} ELSE reused
  /\ UNCHANGED <<op, asked, puts, upload>>

\* GetByID; the key that is read is the key whose object goes.
Remove(c, id) ==
  /\ At(c, "idle") /\ rows[id] # NoRow
  /\ asked' = asked \cup {id}
  /\ Goto(c, [at |-> "delete object", id |-> id, key |-> rows[id]])
  /\ UNCHANGED <<rows, objects, made, failed, whole, reused, puts, upload, faults, cuts>>

\* Deleting an object that is gone succeeds, so a Remove can be repeated.
RemoveObject(c) ==
  /\ At(c, "delete object")
  /\ \/ Done /\ objects' = objects \ {op[c].key}
        /\ Goto(c, [at |-> "delete row", id |-> op[c].id])
     \/ Refused /\ Goto(c, Idle) /\ UNCHANGED objects
     \/ Cut /\ Goto(c, Idle) /\ objects' = objects \ {op[c].key}
  /\ UNCHANGED <<rows, made, asked, failed, whole, reused, puts, upload>>

\* Deleting a row that is gone is an error, and changes as little.
RemoveRow(c) ==
  /\ At(c, "delete row")
  /\ \/ Done /\ rows' = [rows EXCEPT ![op[c].id] = NoRow]
     \/ Refused /\ UNCHANGED rows
  /\ Goto(c, Idle)
  /\ UNCHANGED <<objects, made, asked, failed, whole, reused, puts, upload>>

\* A browser uses the URL of PresignedPut.
BrowserPut(k) ==
  /\ puts < MaxPuts /\ puts' = puts + 1
  /\ objects' = objects \cup {k}
  /\ UNCHANGED <<rows, made, asked, failed, whole, reused, upload, op, faults, cuts>>

----------------------------------------------------------------------------
\* The row comes first; without the URL it stays pending for ever.
RequestUploadURL(u) ==
  /\ status[u] = "none"
  /\ status' = [status EXCEPT ![u] = "pending"]
  /\ \/ Done /\ urls' = urls \cup {u}
     \/ Refused /\ UNCHANGED urls
  /\ UNCHANGED <<attach, stored, op>>

UploadPut(u) ==
  /\ u \in urls /\ stored' = stored \cup {u}
  /\ UNCHANGED <<attach, status, urls, op, faults, cuts>>

\* A request of the uploader; one of anybody else is refused, as one for a row
\* that is not pending is.
CompleteUpload(c, u) ==
  /\ At(c, "idle") /\ status[u] = "pending"
  /\ Goto(c, [at |-> "stat", id |-> u])
  /\ UNCHANGED <<attach, upload, faults, cuts>>

Present_Any(u) == TRUE
Present(u) == u \in stored

CompleteStat(c) ==
  /\ At(c, "stat")
  /\ \/ Done /\ Present(op[c].id) /\ Goto(c, [op[c] EXCEPT !.at = "update"])
     \/ Done /\ ~Present(op[c].id) /\ Goto(c, Idle)
     \/ Refused /\ Goto(c, Idle)
  /\ UNCHANGED <<attach, upload>>

CompleteUpdate(c) ==
  /\ At(c, "update") /\ Goto(c, Idle)
  /\ \/ (Done \/ Cut) /\ status' = [status EXCEPT ![op[c].id] = "complete"]
     \/ Refused /\ UNCHANGED status
  /\ UNCHANGED <<attach, urls, stored>>

\* A process dies in the middle of a request.
Crash(c) ==
  /\ ~At(c, "idle") /\ Cut /\ Goto(c, Idle)
  /\ UNCHANGED <<attach, upload>>

Next ==
  \/ \E c \in Callers, i \in Ids : Attach(c, i) \/ Remove(c, i)
  \/ \E c \in Callers, i \in Ids, k \in Keys : AttachFromKey(c, i, k)
  \/ \E c \in Callers, u \in Uploads : CompleteUpload(c, u)
  \/ \E c \in Callers :
       \/ AttachInsert(c) \/ Cleanup(c) \/ RemoveObject(c) \/ RemoveRow(c)
       \/ CompleteStat(c) \/ CompleteUpdate(c) \/ Crash(c)
  \/ \E k \in Keys : BrowserPut(k)
  \/ \E u \in Uploads : RequestUploadURL(u) \/ UploadPut(u)

Spec == Init /\ [][Next]_vars

----------------------------------------------------------------------------
\* An attachment recorded with its object in place keeps it until it is itself
\* removed: no Remove, retry or cleanup of another takes it away.  Two cases
\* are left: the insert was reported as failed, so the cleanup took the blob of
\* a row that was written; and the key was recorded again while a Remove of
\* its earlier attachment was between its read and its delete.
OthersKept ==
  \A i \in whole : rows[i] # NoRow /\ rows[i] \notin objects
                     => i \in asked \cup failed \cup reused

\* An object under a key of Attach has a row or a request that will see to it:
\* the cleanup and the order of Remove leave an orphan only after two refused
\* calls, or one whose answer was lost or whose caller died.
OrphansNeedTwo ==
  \A i \in objects \cap Ids :
    \/ rows[i] = i
    \/ \E c \in Callers : op[c].at \in {"insert", "cleanup"} /\ op[c].id = i
    \/ faults >= 2
    \/ cuts > 0

\* A row the upload service calls complete has its object in the bucket,
\* whichever of several completions wrote it and whatever they were refused.
CompleteIsStored == \A u \in Uploads : status[u] = "complete" => u \in stored
============================================================================
