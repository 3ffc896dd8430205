------------------------------ MODULE Transfer ------------------------------
(***************************************************************************)
(* File transfer (internal/transfer) of the Bots of one daemon over their   *)
(* shared content store.  A Bot's service keeps its records in memory       *)
(* beside the grants that hold them durably, and opMu lets one operation at *)
(* a time run in it; the operations of two Bots, the collector, the open    *)
(* readers, Close and a crash of the daemon interleave with its steps.      *)
(* The object buckets of the bus are the environment: an object may stay    *)
(* or expire, and a Put may fail after the bus has taken the object.        *)
(***************************************************************************)
EXTENDS BlobStore

CONSTANTS
    Sends,        \* the pairs <<b, to>> of Bots of which b sends files to the other
    Importers,    \* the Bots an administrator imports files for
    Arrivals,     \* the pairs <<b, d>>: a peer elsewhere sends the Bot such a file
    InboxOnly,    \* the console Bots: files are recorded, none is executed
    Readers,      \* API readers that may be open at once
    NoRec, NoDigest, NoId,
    MaxFaults      \* bound: crashes, closes, expiries and disk faults of a run

VARIABLES
    phase,     \* [Bots -> service life]
    mem,       \* [Bots -> [Ids -> record]]: Service.transfers
    op,        \* [Bots -> the operation that holds opMu]
    bucket,    \* [Bots -> [Ids -> digest]]: the objects in the Bot's inbound bucket
    readers,   \* [Readers -> digest]: bodies the file API is streaming
    used,      \* the transfer ids ever made (random in the code)
    taken,     \* ids a bucket has accepted from this daemon (history)
    calls,     \* [Bots -> [Ids -> Nat]]: callbacks since the grant was made (history)
    faults     \* counts against MaxFaults

serviceVars == <<phase, mem, op>>
history == <<used, taken, calls, faults>>
vars == <<storeVars, serviceVars, bucket, readers, history>>

Fault == faults < MaxFaults /\ faults' = faults + 1

Rec(dir, state) == [dir |-> dir, state |-> state]
Recs == [dir : {"outbound"}, state : {"pending", "completed", "failed", "uncertain"}]
    \cup [dir : {"inbound"}, state : {"pending", "admitted"}]
    \cup [dir : {"imported"}, state : {"completed"}]

ASSUME TransferAssumption ==
    /\ NoGrant \notin [digest : Digests, data : Recs]
    /\ NoRec \notin Recs /\ NoDigest \notin Digests
    /\ IsFiniteSet(Bots) /\ IsFiniteSet(Readers)

Idle == [step |-> "idle", id |-> NoId, digest |-> NoDigest, to |-> NoId, fwd |-> FALSE]
Op(step, id, d, to, fwd) ==
    [step |-> step, id |-> id, digest |-> d, to |-> to, fwd |-> fwd]
Free(b) == phase[b] = "ready" /\ op[b] = Idle

Remember(b, id, r) == mem' = [mem EXCEPT ![b][id] = r]
Goto(b, step) == op' = [op EXCEPT ![b].step = step]
Done(b) == op' = [op EXCEPT ![b] = Idle]
Forget(b) == mem' = [mem EXCEPT ![b] = [id \in Ids |-> NoRec]]

Init ==
    /\ StoreInit
    /\ phase = [b \in Bots |-> "down"]
    /\ mem = [b \in Bots |-> [id \in Ids |-> NoRec]]
    /\ op = [b \in Bots |-> Idle]
    /\ bucket = [b \in Bots |-> [id \in Ids |-> NoDigest]]
    /\ readers = [r \in Readers |-> NoDigest]
    /\ used = {} /\ taken = {}
    /\ calls = [b \in Bots |-> [id \in Ids |-> 0]]
    /\ faults = 0

(***************************************************************************)
(* Start and stop.                                                          *)
(***************************************************************************)

\* a transfer whose publication was never confirmed is neither sent nor failed
Recovered(r) == IF r = Rec("outbound", "pending") THEN Rec("outbound", "uncertain") ELSE r
Settled(g) == IF g = NoGrant THEN g ELSE [g EXCEPT !.data = Recovered(g.data)]

\* configure: load the grants, settle the interrupted ones, verify every
\* object; any failure leaves the service without records and not started
Configure(b) ==
    /\ phase[b] = "down"
    /\ b \notin hidden
    /\ \A d \in DigestsOf(b) : Intact(d)
    /\ phase' = [phase EXCEPT ![b] = "ready"]
    /\ grants' = [grants EXCEPT ![b] = [id \in Ids |-> Settled(grants[b][id])]]
    /\ mem' = [mem EXCEPT ![b] = [id \in Ids |->
            IF grants[b][id] = NoGrant THEN NoRec ELSE Recovered(grants[b][id].data)]]
    /\ UNCHANGED <<objects, damaged, hidden, copies, pins, op, bucket, readers,
                   history>>

\* Close: no new operation starts, then it waits for the one that runs
CloseBegin(b) ==
    /\ phase[b] = "ready"
    /\ phase' = [phase EXCEPT ![b] = "closing"]
    /\ Fault
    /\ UNCHANGED <<storeVars, mem, op, bucket, readers, used, taken, calls>>

CloseEnd(b) ==
    /\ phase[b] = "closing" /\ op[b] = Idle
    /\ phase' = [phase EXCEPT ![b] = "down"]
    /\ Forget(b)
    /\ UNCHANGED <<storeVars, op, bucket, readers, history>>

Crash ==
    /\ \E b \in Bots : phase[b] # "down"
    /\ Fault
    /\ phase' = [b \in Bots |-> "down"]
    /\ mem' = [b \in Bots |-> [id \in Ids |-> NoRec]]
    /\ op' = [b \in Bots |-> Idle]
    /\ pins' = [d \in Digests |-> 0]
    /\ readers' = [r \in Readers |-> NoDigest]
    /\ UNCHANGED <<grants, objects, damaged, hidden, copies, bucket, used, taken, calls>>

(***************************************************************************)
(* Sending: the file is committed as a pending record, put in the bucket of *)
(* the target, and the outcome is recorded.                                 *)
(***************************************************************************)

SendBegin(b, to, id, d) ==
    /\ Free(b) /\ <<b, to>> \in Sends
    /\ id \notin used /\ used' = used \cup {id}
    /\ op' = [op EXCEPT ![b] = Op("send", id, d, to, FALSE)]
    /\ UNCHANGED <<storeVars, phase, mem, bucket, readers, taken, calls, faults>>

\* ForwardFile streams a file the Bot holds, pinned until the send returns
ForwardBegin(b, to, src, id) ==
    /\ Free(b) /\ <<b, to>> \in Sends
    /\ mem[b][src] # NoRec
    /\ Open(b, src)
    /\ id \notin used /\ used' = used \cup {id}
    /\ op' = [op EXCEPT ![b] = Op("send", id, grants[b][src].digest, to, TRUE)]
    /\ UNCHANGED <<grants, objects, damaged, hidden, copies, phase, mem, bucket,
                   readers, taken, calls, faults>>

\* Mutant: the record says "completed" before the file is sent.
SendCommitEarly(b) ==
    LET o == op[b] IN
    /\ o.step = "send"
    /\ Put(b, o.id, o.digest, Rec("outbound", "completed"))
    /\ Remember(b, o.id, Rec("outbound", "completed"))
    /\ Goto(b, "open")
    /\ UNCHANGED <<phase, bucket, readers, history>>

SendCommit(b) ==
    LET o == op[b] IN
    /\ o.step = "send"
    /\ Put(b, o.id, o.digest, Rec("outbound", "pending"))
    /\ Remember(b, o.id, Rec("outbound", "pending"))
    /\ Goto(b, "open")
    /\ UNCHANGED <<phase, bucket, readers, history>>

\* the reader of the upload; a damaged object ends the send here
SendOpen(b) ==
    /\ op[b].step = "open"
    /\ Open(b, op[b].id)
    /\ Goto(b, "upload")
    /\ UNCHANGED <<grants, objects, damaged, hidden, copies, phase, mem, bucket,
                   readers, history>>

\* remote.Put: the bus takes the object, or not, and the answer may be lost
Upload(b, answer) ==
    LET o == op[b] IN
    /\ o.step = "upload"
    /\ \/ /\ taken' = taken \cup {o.id}
          /\ bucket' = [bucket EXCEPT ![o.to][o.id] = o.digest]
       \/ answer = "failed" /\ UNCHANGED <<taken, bucket>>
    /\ Goto(b, answer)
    /\ UNCHANGED <<storeVars, phase, mem, readers, used, calls, faults>>

UnpinSend(b) ==
    LET o == op[b]
        n == (IF o.step \in {"completed", "failed"} THEN 1 ELSE 0) + (IF o.fwd THEN 1 ELSE 0)
    IN  pins' = [pins EXCEPT ![o.digest] = @ - n]

\* persist: the outcome becomes durable, then the memory follows
SendEnd(b) ==
    LET o == op[b]  r == Rec("outbound", o.step) IN
    /\ o.step \in {"completed", "failed"}
    /\ UpdateData(b, o.id, r)
    /\ Remember(b, o.id, r)
    /\ UnpinSend(b)
    /\ Done(b)
    /\ UNCHANGED <<objects, damaged, hidden, copies, phase, bucket, readers, history>>

\* an error return of send: the record stays as it was
SendFail(b) ==
    /\ op[b].step \in {"send", "returning", "open", "completed", "failed"}
    /\ UnpinSend(b)
    /\ Done(b)
    /\ UNCHANGED <<grants, objects, damaged, hidden, copies, phase, mem, bucket,
                   readers, history>>

\* the commit fails with part of it on the disk
SendTorn(b) ==
    LET o == op[b] IN
    /\ o.step = "send"
    /\ PutTorn(b, o.id, o.digest, Rec("outbound", "pending"))
    /\ Fault
    /\ Goto(b, "returning")
    /\ UNCHANGED <<phase, mem, bucket, readers, used, taken, calls>>

(***************************************************************************)
(* Receiving: the watcher of the bucket and the sender's notification both  *)
(* lead here, so one object is pulled any number of times.  A refusal (the  *)
(* sender is not trusted, is not the one notified, or the file is too      *)
(* large) is the pull that is not begun.                                    *)
(***************************************************************************)

Downloaded(b, id) == mem[b][id] # NoRec /\ mem[b][id].dir = "inbound"

PullBegin(b, id) ==
    /\ Free(b) /\ ~Downloaded(b, id)
    /\ bucket[b][id] # NoDigest
    /\ op' = [op EXCEPT ![b] = Op("pull", id, bucket[b][id], NoId, FALSE)]
    /\ UNCHANGED <<storeVars, phase, mem, bucket, readers, history>>

PullCommit(b) ==
    LET o == op[b] IN
    /\ o.step = "pull"
    /\ \/ /\ Put(b, o.id, o.digest, Rec("inbound", "pending"))
          /\ Remember(b, o.id, Rec("inbound", "pending"))
       \* a grant the memory does not know of: its record is restored
       \/ /\ PutAgain(b, o.id)
          /\ Remember(b, o.id, grants[b][o.id].data)
          /\ UNCHANGED storeVars
    /\ Goto(b, "notify")
    /\ UNCHANGED <<phase, bucket, readers, history>>

\* the fetch is cancelled or refused, or the commit fails
PullFail(b) ==
    LET o == op[b] IN
    /\ o.step = "pull"
    /\ \/ UNCHANGED <<storeVars, faults>>
       \/ PutTorn(b, o.id, o.digest, Rec("inbound", "pending")) /\ Fault
    /\ Done(b)
    /\ UNCHANGED <<phase, mem, bucket, readers, used, taken, calls>>

\* a second notification of the same object, or notifyPending after a start
NotifyBegin(b, id) ==
    /\ Free(b)
    /\ mem[b][id] = Rec("inbound", "pending")
    /\ op' = [op EXCEPT ![b] = Op("notify", id, NoDigest, NoId, FALSE)]
    /\ UNCHANGED <<storeVars, phase, mem, bucket, readers, history>>

\* notify: the working copy (none for a console) ...
NotifyCopy(b) ==
    LET id == op[b].id IN
    /\ op[b].step = "notify"
    /\ IF mem[b][id] = Rec("inbound", "pending") /\ phase[b] # "closing"
       THEN /\ \/ b \notin InboxOnly /\ Workspace(b, id)
               \/ b \in InboxOnly /\ UNCHANGED copies
            /\ Goto(b, "admit")
       ELSE Done(b) /\ UNCHANGED copies
    /\ UNCHANGED <<grants, objects, damaged, hidden, pins, phase, mem, bucket, readers,
                   history>>

\* Mutant: the admission is recorded in memory only.
NotifyAdmitInMemory(b) ==
    LET id == op[b].id IN
    /\ op[b].step = "admit"
    /\ Granted(b, id)
    /\ Remember(b, id, Rec("inbound", "admitted"))
    /\ IF b \in InboxOnly THEN Done(b) ELSE Goto(b, "call")
    /\ UNCHANGED <<storeVars, phase, bucket, readers, history>>

\* ... the admission, durable before the callback ...
NotifyAdmit(b) ==
    LET id == op[b].id IN
    /\ op[b].step = "admit"
    /\ UpdateData(b, id, Rec("inbound", "admitted"))
    /\ \/ /\ Remember(b, id, Rec("inbound", "admitted"))
          /\ IF b \in InboxOnly THEN Done(b) ELSE Goto(b, "call")
          /\ UNCHANGED faults
       \* the write fails after its rename: the memory stays behind the disk
       \/ Done(b) /\ UNCHANGED mem /\ Fault
    /\ UNCHANGED <<objects, damaged, hidden, copies, pins, phase, bucket, readers,
                   used, taken, calls>>

\* ... and the callback, unless the service began to close meanwhile
NotifyCall(b) ==
    LET id == op[b].id IN
    /\ op[b].step = "call"
    /\ calls' = IF phase[b] = "closing" THEN calls ELSE [calls EXCEPT ![b][id] = @ + 1]
    /\ Done(b)
    /\ UNCHANGED <<storeVars, phase, mem, bucket, readers, used, taken, faults>>

NotifyFail(b) ==
    /\ op[b].step \in {"notify", "admit"}
    /\ Done(b)
    /\ UNCHANGED <<storeVars, phase, mem, bucket, readers, history>>

(***************************************************************************)
(* The other operations of the file API.                                    *)
(***************************************************************************)

Import(b, id, d) ==
    /\ Free(b) /\ b \in Importers
    /\ id \notin used /\ used' = used \cup {id}
    /\ \/ /\ Put(b, id, d, Rec("imported", "completed"))
          /\ Remember(b, id, Rec("imported", "completed"))
          /\ UNCHANGED faults
       \/ PutTorn(b, id, d, Rec("imported", "completed")) /\ UNCHANGED mem /\ Fault
    /\ UNCHANGED <<phase, op, bucket, readers, taken, calls>>

OpenFile(b, id, r) ==
    /\ phase[b] = "ready" /\ readers[r] = NoDigest
    /\ Open(b, id)
    /\ readers' = [readers EXCEPT ![r] = grants[b][id].digest]
    /\ UNCHANGED <<grants, objects, damaged, hidden, copies, serviceVars, bucket,
                   history>>

CloseFile(r) ==
    /\ readers[r] # NoDigest
    /\ Unpin(readers[r])
    /\ readers' = [readers EXCEPT ![r] = NoDigest]
    /\ UNCHANGED <<grants, objects, damaged, hidden, copies, serviceVars, bucket,
                   history>>

\* a Delete that fails at its end, or half-way, leaves the record in memory
DeleteTransfer(b, id) ==
    /\ Free(b)
    /\ \/ Delete(b, id, TRUE) /\ Remember(b, id, NoRec) /\ UNCHANGED faults
       \/ \E all \in BOOLEAN : Delete(b, id, all) /\ UNCHANGED mem /\ Fault
    /\ calls' = IF grants'[b][id] = NoGrant THEN [calls EXCEPT ![b][id] = 0] ELSE calls
    /\ UNCHANGED <<phase, op, bucket, readers, used, taken>>

(***************************************************************************)
(* The environment.                                                         *)
(***************************************************************************)

Arrive(b, id, d) ==
    /\ <<b, d>> \in Arrivals /\ id \notin used
    /\ bucket' = [bucket EXCEPT ![b][id] = d]
    /\ used' = used \cup {id}
    /\ UNCHANGED <<storeVars, serviceVars, readers, taken, calls, faults>>

Expire(b, id) ==
    /\ bucket[b][id] # NoDigest
    /\ bucket' = [bucket EXCEPT ![b][id] = NoDigest]
    /\ Fault
    /\ UNCHANGED <<storeVars, serviceVars, readers, used, taken, calls>>

Disk ==
    /\ \/ GC /\ UNCHANGED faults
       \/ \E d \in Digests : Damage(d) /\ Fault
       \/ \E b \in Bots : Hide(b) /\ Fault
       \/ \E b \in Bots : Show(b) /\ UNCHANGED faults
       \/ \E b \in Bots, id \in Ids : Edit(b, id) /\ UNCHANGED faults
    /\ UNCHANGED <<serviceVars, bucket, readers, used, taken, calls>>

Steps(b) ==
    \/ SendCommit(b) \/ SendOpen(b) \/ SendEnd(b) \/ SendFail(b) \/ SendTorn(b)
    \/ \E answer \in {"completed", "failed"} : Upload(b, answer)
    \/ PullCommit(b) \/ PullFail(b)
    \/ NotifyCopy(b) \/ NotifyAdmit(b) \/ NotifyCall(b) \/ NotifyFail(b)

Next ==
    \/ \E b \in Bots : Configure(b) \/ CloseBegin(b) \/ CloseEnd(b) \/ Steps(b)
    \/ \E b \in Bots, id \in Ids :
          \/ PullBegin(b, id) \/ NotifyBegin(b, id) \/ DeleteTransfer(b, id)
          \/ Expire(b, id)
          \/ \E d \in Digests :
                \/ Import(b, id, d)
                \/ \E to \in Bots : SendBegin(b, to, id, d)
                \/ Arrive(b, id, d)
          \/ \E to \in Bots, src \in Ids : ForwardBegin(b, to, src, id)
          \/ \E r \in Readers : OpenFile(b, id, r)
    \/ \E r \in Readers : CloseFile(r)
    \/ Crash
    \/ Disk

Spec == Init /\ [][Next]_vars

(***************************************************************************)
(* Properties.                                                              *)
(***************************************************************************)

TypeOK ==
    /\ grants \in [Bots -> [Ids -> [digest : Digests, data : Recs] \cup {NoGrant}]]
    /\ objects \subseteq Digests /\ damaged \subseteq objects
    /\ hidden \subseteq Bots
    /\ copies \in [Bots -> [Ids -> {"none", "clean", "edited"}]]
    /\ pins \in [Digests -> Nat]
    /\ phase \in [Bots -> {"down", "ready", "closing"}]
    /\ mem \in [Bots -> [Ids -> Recs \cup {NoRec}]]
    /\ bucket \in [Bots -> [Ids -> Digests \cup {NoDigest}]]
    /\ readers \in [Readers -> Digests \cup {NoDigest}]
    /\ used \subseteq Ids /\ taken \subseteq Ids
    /\ calls \in [Bots -> [Ids -> Nat]]

\* No collection, deletion, failed write or crash takes away content somebody
\* still relies on: a grant of any Bot, also of one whose directory cannot be
\* read just now, a body being streamed, or a file being sent.
InUse(b) == op[b].step \in {"upload", "completed", "failed"} \/ op[b].fwd
ContentIsKept ==
    /\ Live \subseteq objects
    /\ \A r \in Readers : readers[r] # NoDigest => readers[r] \in objects
    /\ \A b \in Bots : InUse(b) => op[b].digest \in objects

\* The budgets hold over every Bot's distinct files, the published content and
\* all the working copies together, however operations of two Bots alternate.
WithinBudgets ==
    /\ \A b \in Bots : SizeOf(DigestsOf(b)) <= QuotaBytes
    /\ SizeOf(objects) <= MaxBytes
    /\ CopyBytes <= WorkspaceBytes

\* The content store keeps what is in use and stays within its budgets, though both
\* depend on what is collected and when.
StoreIsSound == ContentIsKept /\ WithinBudgets

\* A received file is handed to its receiver at most once for the life of its
\* grant, and only after the admission was made durable: the watcher, the
\* sender's notification, a restart and a failed write never execute it again.
NotifiedOnce ==
    \A b \in Bots, id \in Ids :
        /\ calls[b][id] <= 1
        /\ calls[b][id] = 1 /\ grants[b][id] # NoGrant =>
              grants[b][id].data = Rec("inbound", "admitted")

\* What a Bot says of a file it sent is true, in memory and after any restart:
\* "completed" only when the bus took the file under that id.
OutcomeIsHonest ==
    \A b \in Bots, id \in Ids :
        LET r == mem[b][id] IN
        /\ r = Rec("outbound", "completed") => id \in taken
        /\ grants[b][id] # NoGrant /\ grants[b][id].data = Rec("outbound", "completed")
              => id \in taken

\* What is told of a transfer, to the receiver's Harness or to the caller that
\* sent it, is told once and is true.
ToldTruly == NotifiedOnce /\ OutcomeIsHonest

\* A working copy the Harness has changed is not overwritten, dropped or
\* refreshed by anything but a deletion of its transfer.
EditsSurvive ==
    [][\A b \in Bots, id \in Ids :
          copies[b][id] = "edited" /\ copies'[b][id] # "edited"
             => copies'[b][id] = "none" /\ Free(b)]_vars
=============================================================================
