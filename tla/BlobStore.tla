----------------------------- MODULE BlobStore -----------------------------
(***************************************************************************)
(* The daemon's content store (internal/blob).  Content is immutable, named *)
(* by its digest and shared by all Bots; a Bot may read a digest only       *)
(* through a grant of its own, a reference file that names the digest and   *)
(* carries the transfer's record.  Store.mu serialises every operation, so  *)
(* each of them is one action here; the only other outcomes are the ones a  *)
(* crash or a failed write leaves, and those are actions of their own.      *)
(* The digest, the copy into a temporary file and the path checks are       *)
(* abstracted: a digest is a model value with a size.                       *)
(***************************************************************************)
EXTENDS Integers, FiniteSets

CONSTANTS
    Bots, Ids, Digests,
    Size,            \* [Digests -> Nat]
    FileLimit,       \* the smaller of the temp budget and the caller's limit
    MaxBytes,        \* limits.MaxBytes: bytes under blobs/sha256
    QuotaBytes,      \* a Bot's fileQuotaBytes, over its distinct digests
    WorkspaceBytes,  \* limits.WorkspaceBytes: bytes of all working copies
    NoGrant

ASSUME StoreAssumption ==
    /\ Size \in [Digests -> Nat]
    /\ {MaxBytes, QuotaBytes, WorkspaceBytes} \subseteq Nat

VARIABLES
    grants,    \* [Bots -> [Ids -> grant]]: the reference files (durable)
    objects,   \* the digests published under blobs/sha256 (durable)
    damaged,   \* the published digests whose bytes no longer hash to them
    hidden,    \* the Bots whose reference directory cannot be read
    copies,    \* [Bots -> [Ids -> "none" | "clean" | "edited"]] (durable)
    pins       \* [Digests -> Nat]: readers that hold the object (memory)

storeVars == <<grants, objects, damaged, hidden, copies, pins>>

Held(b) == {id \in Ids : grants[b][id] # NoGrant}
DigestsOf(b) == {grants[b][id].digest : id \in Held(b)}
Live == UNION {DigestsOf(b) : b \in Bots}

\* what a family of files takes, counted byte by byte: size maps each to its length
Bytes(size) == UNION {{x} \X (1 .. size[x]) : x \in DOMAIN size}
Total(size) == Cardinality(Bytes(size))
SizeOf(ds) == Total([d \in ds |-> Size[d]])

\* verifyObject
Intact(d) == d \in objects \ damaged

\* reference: the directory is readable and the file exists
Granted(b, id) == b \notin hidden /\ id \in Held(b)

StoreInit ==
    /\ grants = [b \in Bots |-> [id \in Ids |-> NoGrant]]
    /\ objects = {} /\ damaged = {} /\ hidden = {}
    /\ copies = [b \in Bots |-> [id \in Ids |-> "none"]]
    /\ pins = [d \in Digests |-> 0]

\* Mutant: a file is compared with each budget by itself.
FitsAlone(b, d) ==
    /\ Size[d] <= FileLimit /\ Size[d] <= QuotaBytes
    /\ \/ Intact(d)
       \/ d \notin objects /\ Size[d] <= MaxBytes

\* the limits put checks, in its order: the file, the Bot, the store
Fits(b, d) ==
    /\ Size[d] <= FileLimit
    /\ d \in DigestsOf(b) \/ SizeOf(DigestsOf(b)) + Size[d] <= QuotaBytes
    /\ \/ Intact(d)
       \/ d \notin objects /\ SizeOf(objects) + Size[d] <= MaxBytes

\* put of a new id: the object is published before the grant that names it
Put(b, id, d, data) ==
    /\ b \notin hidden
    /\ grants[b][id] = NoGrant
    /\ Fits(b, d)
    /\ objects' = objects \cup {d}
    /\ grants' = [grants EXCEPT ![b][id] = [digest |-> d, data |-> data]]
    /\ UNCHANGED <<damaged, hidden, copies, pins>>

\* ... the write of the grant fails, or the daemon stops, before its rename or
\* after it: the caller gets an error and does not know which
PutTorn(b, id, d, data) ==
    \/ Put(b, id, d, data)
    \/ /\ b \notin hidden
       /\ grants[b][id] = NoGrant
       /\ Fits(b, d)
       /\ objects' = objects \cup {d}
       /\ UNCHANGED <<grants, damaged, hidden, copies, pins>>

\* put of an id that has a grant hands back that grant, and changes nothing
PutAgain(b, id) == Granted(b, id) /\ Intact(grants[b][id].digest)

Open(b, id) ==
    /\ Granted(b, id)
    /\ Intact(grants[b][id].digest)
    /\ pins' = [pins EXCEPT ![grants[b][id].digest] = @ + 1]

\* pinnedReader.Close
Unpin(d) == pins' = [pins EXCEPT ![d] = @ - 1]

UpdateData(b, id, data) ==
    /\ Granted(b, id)
    /\ grants' = [grants EXCEPT ![b][id].data = data]

\* Delete removes the working copies first and the grant last; all = FALSE
\* when it stops in between.  The object is left to the collection.
Delete(b, id, all) ==
    /\ Granted(b, id)
    /\ copies' = [copies EXCEPT ![b][id] = "none"]
    /\ grants' = IF all THEN [grants EXCEPT ![b][id] = NoGrant] ELSE grants
    /\ UNCHANGED <<objects, damaged, hidden, pins>>

Copied == {c \in Bots \X Ids : copies[c[1]][c[2]] # "none"}
CopyBytes == Total([c \in Copied |-> Size[grants[c[1]][c[2]].digest]])

\* Mutant: a copy that exists is copied again from the object.
WorkspaceRefreshed(b, id) ==
    /\ Granted(b, id)
    /\ CopyBytes + Size[grants[b][id].digest] <= WorkspaceBytes \/ copies[b][id] # "none"
    /\ Intact(grants[b][id].digest)
    /\ copies' = [copies EXCEPT ![b][id] = "clean"]

\* Workspace keeps a copy that exists, whatever the Harness made of it
Workspace(b, id) ==
    /\ Granted(b, id)
    /\ \/ copies[b][id] # "none" /\ UNCHANGED copies
       \/ /\ copies[b][id] = "none"
          /\ CopyBytes + Size[grants[b][id].digest] <= WorkspaceBytes
          /\ Intact(grants[b][id].digest)
          /\ copies' = [copies EXCEPT ![b][id] = "clean"]

\* GC: every registered Bot's grants are read and every object they name is
\* verified before one is removed; the removal may stop at any entry.
Garbage == {d \in objects : d \notin Live /\ pins[d] = 0}

\* Mutant: a Bot whose references cannot be read counts as one without any.
GCReadable ==
    LET live == UNION {DigestsOf(b) : b \in Bots \ hidden} IN
    /\ \A d \in live : Intact(d)
    /\ \E gone \in SUBSET {d \in objects : d \notin live /\ pins[d] = 0} :
          /\ objects' = objects \ gone
          /\ damaged' = damaged \ gone
    /\ UNCHANGED <<grants, hidden, copies, pins>>

GC ==
    /\ hidden = {}
    /\ \A d \in Live : Intact(d)
    /\ \E gone \in (SUBSET Garbage) \ {{}} :
          /\ objects' = objects \ gone
          /\ damaged' = damaged \ gone
    /\ UNCHANGED <<grants, hidden, copies, pins>>

\* External: the disk loses an object's bytes; a Bot's directory disappears
\* and comes back; a Harness writes to its working copy.
Damage(d) ==
    /\ damaged = {} /\ d \in objects
    /\ damaged' = {d}
    /\ UNCHANGED <<grants, objects, hidden, copies, pins>>

Hide(b) == /\ hidden = {} /\ hidden' = {b}
           /\ UNCHANGED <<grants, objects, damaged, copies, pins>>
Show(b) == /\ b \in hidden /\ hidden' = {}
           /\ UNCHANGED <<grants, objects, damaged, copies, pins>>

Edit(b, id) ==
    /\ copies[b][id] = "clean"
    /\ copies' = [copies EXCEPT ![b][id] = "edited"]
    /\ UNCHANGED <<grants, objects, damaged, hidden, pins>>
=============================================================================
