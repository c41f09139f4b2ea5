--------------------------- MODULE DatasetUpload ---------------------------
(***************************************************************************)
(* datasetService (internal/services/dataset_service_impl.go): creating a   *)
(* dataset with its first version, adding a version and deleting a dataset, *)
(* over a PostgreSQL database and an S3 bucket that share no transaction.   *)
(* An operation is one HTTP request; its calls to the repositories and to   *)
(* the storage are the steps, and those of other requests come in between.  *)
(*                                                                         *)
(* The gateway uploads versions to the same bucket, under keys of the same  *)
(* form, and has the data service insert and delete the rows: what becomes  *)
(* of such a request on its way is the matter of AsyncRpc, and here it takes*)
(* effect at any time after it was sent, or never.                         *)
(*                                                                         *)
(* An operation creates at most one dataset and one version: rows are named *)
(* after the operation that inserts them, or after the seed they came with. *)
(***************************************************************************)
EXTENDS Naturals

CONSTANTS
  Seed,       \* datasets that are there from the start, with one version each
  Create, Add, Delete,  \* operations of the API
  Relay, Remove,        \* uploads and deletions of a version through the gateway
  Traffic,    \* the sets of operations that may come together
  Target,     \* the dataset each Add, Relay and Delete aims at
  Doomed,     \* the version each Remove aims at
  Chosen,     \* the number the client of a Relay gives its version
  File,       \* the name of the file each seed and operation uploads
  Metadata,   \* the metadata form of an upload: "none", "valid" or "invalid"
  MaxFaults   \* bound on failing calls, lost clients and crashes

\* What uploads a file; an Add is a request of either version of the API.
Uploading == Create \cup Add \cup Relay
Op == Uploading \cup Delete \cup Remove
Dataset == Seed \cup Create
Version == Seed \cup Uploading

ASSUME OperationsAssumption ==
  /\ Create \cap Add = {} /\ (Create \cup Add) \cap Relay = {}
  /\ Uploading \cap Delete = {} /\ (Uploading \cup Delete) \cap Remove = {}
  /\ Seed \cap Op = {}
  /\ Traffic \subseteq SUBSET Op
  /\ Target \in [Add \cup Relay \cup Delete -> Dataset]
  /\ Doomed \in [Remove -> Version]
  /\ Chosen \in [Relay -> Nat \ {0}]
  /\ Metadata \in [Create \cup Add -> {"none", "valid", "invalid"}]
  /\ DOMAIN File = Version
  /\ MaxFaults \in Nat

DatasetOf(v) == IF v \in DOMAIN Target THEN Target[v] ELSE v

VARIABLES
  pc,         \* the step each operation is at
  cancelled,  \* operations whose client is gone: their context is cancelled
  uncleaned,  \* operations whose cleanup had a failing call
  inserted,   \* operations that know the id of their version row
  queued,     \* requests of the gateway that may still take effect
  datasets,   \* table datasets
  versions,   \* table dataset_versions
  metadata,   \* table metadata: the versions that have a row
  number,     \* dataset_versions.number, N standing for "v0.N"
  date,       \* dataset_versions.upload_date
  objects,    \* the bucket: which upload the content of a key comes from
  clock,      \* time.Now(), advancing with each version that is stamped
  crowded,    \* history: datasets that two uploads were under way to at once
  faults      \* failures so far

rowVars == <<datasets, versions, metadata>>
vars == <<pc, cancelled, uncleaned, inserted, queued, rowVars, number, date, objects,
          clock, crowded, faults>>

Object == [key : Dataset \X Nat \X {File[v] : v \in Version}, content : Version]

\* Mutation: the key has no version number in it.
KeyPerDataset(v, n) == <<DatasetOf(v), 1, File[v]>>

\* datasets/<dataset>/<version number>/<file name>: datasetObjectKey and buildObjectKey
ObjectKey(v, n) == <<DatasetOf(v), n, File[v]>>

KeyOf(v) == ObjectKey(v, number[v])

Put(v) == {o \in objects : o.key # KeyOf(v)} \cup {[key |-> KeyOf(v), content |-> v]}

VersionsOf(d) == {v \in versions : DatasetOf(v) = d}

\* Mutation: the versions are listed with the oldest first.
FirstListedOldest(d) ==
  CHOOSE v \in VersionsOf(d) : \A w \in VersionsOf(d) : date[w] >= date[v]

\* The first of the versions ordered by upload_date DESC.
FirstListed(d) ==
  CHOOSE v \in VersionsOf(d) : \A w \in VersionsOf(d) : date[w] <= date[v]

NextVersionNumber(d) ==
  IF VersionsOf(d) = {} THEN 1 ELSE number[FirstListed(d)] + 1

Init ==
  /\ \E traffic \in Traffic : pc = [o \in Op |-> IF o \in traffic THEN "ready" ELSE "absent"]
  /\ cancelled = {} /\ uncleaned = {} /\ inserted = {} /\ queued = {}
  /\ datasets = Seed /\ versions = Seed /\ metadata = {}
  /\ number = [v \in Version |-> IF v \in Seed THEN 1 ELSE IF v \in Relay THEN Chosen[v] ELSE 0]
  /\ date = [v \in Version |-> 0]
  /\ objects = {[key |-> ObjectKey(s, 1), content |-> s] : s \in Seed}
  /\ clock = 0
  /\ crowded = {}
  /\ faults = 0

Begun(o) == pc[o] \notin {"ready", "absent"}
Running(o) == Begun(o) /\ pc[o] \notin {"ok", "failed", "crashed"}

\* A request is taken up, whatever other requests are under way. A client that
\* closed its connection is through with its request: no later call succeeds, except
\* that the gateway has handed over what it waits for.
UnderWay(o) == Running(o) /\ (o \in cancelled => pc[o] = "waiting")

Start(o) ==
  /\ pc[o] = "ready"
  /\ crowded' = crowded \cup {d \in {DatasetOf(o)} :
                                \E p \in Uploading : UnderWay(p) /\ DatasetOf(p) = d}

\* A call to a repository or to the storage succeeds, or fails because the
\* context is cancelled or the callee is in trouble.
Succeeds(o) == o \notin cancelled /\ UNCHANGED faults

Fails(o) ==
  \/ o \in cancelled /\ UNCHANGED faults
  \/ o \notin cancelled /\ faults < MaxFaults /\ faults' = faults + 1

Goto(o, step) == pc' = [pc EXCEPT ![o] = step]

-----------------------------------------------------------------------------
(* CreateDataset and AddDatasetVersion.                                    *)

\* dsRepo.Create
InsertDataset(o) ==
  /\ o \in Create /\ Start(o)
  /\ \/ /\ Succeeds(o)
        /\ datasets' = datasets \cup {o}
        /\ number' = [number EXCEPT ![o] = 1]
        /\ Goto(o, "upload")
     \/ Fails(o) /\ Goto(o, "failed") /\ UNCHANGED <<datasets, number>>
  /\ UNCHANGED <<cancelled, uncleaned, inserted, queued, versions, metadata, date, objects, clock>>

\* dsRepo.FindByID
FindDataset(o) ==
  /\ o \in Add /\ Start(o)
  /\ \/ Succeeds(o) /\ Target[o] \in datasets /\ Goto(o, "list")
     \/ Succeeds(o) /\ Target[o] \notin datasets /\ Goto(o, "failed")
     \/ Fails(o) /\ Goto(o, "failed")
  /\ UNCHANGED <<cancelled, uncleaned, inserted, queued, rowVars, number, date, objects, clock>>

\* verRepo.FindByDatasetID and nextVersionNumber
ListVersions(o) ==
  /\ pc[o] = "list"
  /\ \/ /\ Succeeds(o)
        /\ number' = [number EXCEPT ![o] = NextVersionNumber(Target[o])]
        /\ Goto(o, "upload")
     \/ Fails(o) /\ Goto(o, "failed") /\ UNCHANGED number
  /\ UNCHANGED <<crowded, cancelled, uncleaned, inserted, queued, rowVars, date, objects, clock>>

\* storage.Upload. An upload that fails under way may have stored the object;
\* only CreateDataset cleans up after it.
Upload(o) ==
  /\ pc[o] = "upload"
  /\ \/ Succeeds(o) /\ objects' = Put(o) /\ Goto(o, "stamp")
     \/ /\ Fails(o)
        /\ objects' \in (IF o \in cancelled THEN {objects} ELSE {objects, Put(o)})
        /\ Goto(o, IF o \in Create THEN "cleanObject" ELSE "failed")
  /\ UNCHANGED <<crowded, cancelled, uncleaned, inserted, queued, rowVars, number, date, clock>>

\* buildDatasetVersion takes the upload date after the upload.
Stamp(o) ==
  /\ pc[o] = "stamp"
  /\ clock' = clock + 1
  /\ date' = [date EXCEPT ![o] = clock + 1]
  /\ Goto(o, "insert")
  /\ UNCHANGED <<crowded, cancelled, uncleaned, inserted, queued, rowVars, number, objects,
                 faults>>

\* verRepo.Create; the foreign key rejects a version of a deleted dataset.
InsertVersion(o) ==
  /\ pc[o] = "insert"
  /\ \/ /\ Succeeds(o) /\ DatasetOf(o) \in datasets
        /\ versions' = versions \cup {o}
        /\ inserted' = inserted \cup {o}
        /\ Goto(o, "metadata")
     \/ /\ \/ Succeeds(o) /\ DatasetOf(o) \notin datasets
           \/ Fails(o)
        /\ Goto(o, "cleanObject")
        /\ UNCHANGED <<versions, inserted>>
  /\ UNCHANGED <<crowded, cancelled, uncleaned, queued, datasets, metadata, number, date,
                 objects, clock>>

\* persistMetadata: nothing to store, a row, or a reason to clean up (rejected
\* by NewMetadata, by the foreign key, or a failing mdRepo.Create).
PersistMetadata(o) ==
  /\ pc[o] = "metadata"
  /\ \/ /\ Metadata[o] = "none"
        /\ Goto(o, "ok")
        /\ UNCHANGED <<metadata, faults>>
     \/ /\ Metadata[o] = "valid" /\ Succeeds(o) /\ o \in versions
        /\ metadata' = metadata \cup {o}
        /\ Goto(o, "ok")
     \/ /\ \/ Metadata[o] = "invalid" /\ UNCHANGED faults
           \/ Metadata[o] = "valid" /\ Succeeds(o) /\ o \notin versions
           \/ Metadata[o] = "valid" /\ Fails(o)
        /\ Goto(o, "cleanObject")
        /\ UNCHANGED metadata
  /\ UNCHANGED <<crowded, cancelled, uncleaned, inserted, queued, datasets, versions, number,
                 date, objects, clock>>

-----------------------------------------------------------------------------
(* cleanupDataset: three calls whose errors are ignored, with the context   *)
(* of the request.                                                         *)

\* Mutation: cleanupDataset is not told the id of the version.
AfterCleanObjectForgets(o) == IF o \in Create THEN "cleanDataset" ELSE "failed"

AfterCleanObject(o) ==
  IF o \in inserted THEN "cleanVersion"
  ELSE IF o \in Create THEN "cleanDataset" ELSE "failed"

CleanObject(o) ==
  /\ pc[o] = "cleanObject"
  /\ \/ /\ Succeeds(o)
        /\ objects' = {x \in objects : x.key # KeyOf(o)}
        /\ UNCHANGED uncleaned
     \/ Fails(o) /\ uncleaned' = uncleaned \cup {o} /\ UNCHANGED objects
  /\ Goto(o, AfterCleanObject(o))
  /\ UNCHANGED <<crowded, cancelled, inserted, queued, rowVars, number, date, clock>>

\* Mutation: the version to clean up is found by its file.
CleanVersionByFile(o) ==
  /\ pc[o] = "cleanVersion" /\ Succeeds(o)
  /\ versions' = {v \in versions : KeyOf(v) # KeyOf(o)}
  /\ metadata' = metadata \cap versions'
  /\ Goto(o, IF o \in Create THEN "cleanDataset" ELSE "failed")
  /\ UNCHANGED <<crowded, cancelled, uncleaned, inserted, queued, datasets, number, date, objects,
                 clock>>

CleanVersion(o) ==
  /\ pc[o] = "cleanVersion"
  /\ \/ /\ Succeeds(o)
        /\ versions' = versions \ {o}
        /\ metadata' = metadata \ {o}
        /\ UNCHANGED uncleaned
     \/ Fails(o) /\ uncleaned' = uncleaned \cup {o} /\ UNCHANGED <<versions, metadata>>
  /\ Goto(o, IF o \in Create THEN "cleanDataset" ELSE "failed")
  /\ UNCHANGED <<crowded, cancelled, inserted, queued, datasets, number, date, objects, clock>>

\* Mutation: the foreign key of the versions does not cascade.
DropDatasetAlone(d) ==
  /\ datasets' = datasets \ {d}
  /\ UNCHANGED <<versions, metadata>>

\* dsRepo.Delete: the foreign keys delete the versions and their metadata too;
\* the objects stay.
DropDataset(d) ==
  /\ datasets' = datasets \ {d}
  /\ versions' = versions \ VersionsOf(d)
  /\ metadata' = metadata \ VersionsOf(d)

CleanDataset(o) ==
  /\ pc[o] = "cleanDataset"
  /\ \/ Succeeds(o) /\ DropDataset(o) /\ UNCHANGED uncleaned
     \/ Fails(o) /\ uncleaned' = uncleaned \cup {o} /\ UNCHANGED rowVars
  /\ Goto(o, "failed")
  /\ UNCHANGED <<crowded, cancelled, inserted, queued, number, date, objects, clock>>

-----------------------------------------------------------------------------
(* Versions through the gateway.                                           *)

\* Mutation: the request is published whether or not the upload succeeded.
StoreFileRegardless(o) ==
  /\ o \in Relay /\ Start(o)
  /\ Goto(o, "publish")
  /\ \/ Succeeds(o) /\ objects' = Put(o)
     \/ Fails(o) /\ objects' \in {objects, Put(o)}
  /\ UNCHANGED <<cancelled, uncleaned, inserted, queued, rowVars, number, date, clock>>

\* parseVersionAddRequest uploads the file, before anybody has looked at the dataset.
StoreFile(o) ==
  /\ o \in Relay /\ Start(o)
  /\ \/ Succeeds(o) /\ objects' = Put(o) /\ Goto(o, "publish")
     \/ Fails(o) /\ objects' \in {objects, Put(o)} /\ Goto(o, "failed")
  /\ UNCHANGED <<cancelled, uncleaned, inserted, queued, rowVars, number, date, clock>>

\* handleAddVersion sends the request. A client that is gone is not waited for.
Publish(o) ==
  /\ pc[o] = "publish"
  /\ \/ Succeeds(o) /\ queued' = queued \cup {o} /\ Goto(o, "waiting")
     \/ Fails(o) /\ Goto(o, "failed") /\ UNCHANGED queued
  /\ UNCHANGED <<crowded, cancelled, uncleaned, inserted, rowVars, number, date, objects, clock>>

\* handleVersionAdd of the data service, whether or not the client still waits. The
\* foreign key rejects a version of a dataset that is gone.
VersionAdded(o) ==
  /\ o \in queued
  /\ queued' = queued \ {o}
  /\ \/ /\ DatasetOf(o) \in datasets
        /\ clock' = clock + 1
        /\ date' = [date EXCEPT ![o] = clock + 1]
        /\ versions' = versions \cup {o}
        /\ inserted' = inserted \cup {o}
     \/ DatasetOf(o) \notin datasets /\ UNCHANGED <<clock, date, versions, inserted>>
  /\ UNCHANGED <<crowded, pc, cancelled, uncleaned, datasets, metadata, number, objects, faults>>

\* The answer: an error may come of a refusal, a timeout or a lost client, while
\* the request still takes effect or does not.
AddAnswered(o) ==
  /\ pc[o] = "waiting"
  /\ \/ o \in inserted /\ Goto(o, "ok")
     \/ Goto(o, "failed")
  /\ UNCHANGED <<crowded, cancelled, uncleaned, inserted, queued, rowVars, number, date, objects,
                 clock, faults>>

\* handleVersionDelete of the data service: the row goes, the object stays. The
\* request, or the answer to it, may be lost.
DeleteVersion(o) ==
  /\ o \in Remove /\ pc[o] = "ready"
  /\ \/ /\ Doomed[o] \in versions
        /\ versions' = versions \ {Doomed[o]}
        /\ metadata' = metadata \ {Doomed[o]}
        /\ \E answer \in {"ok", "failed"} : Goto(o, answer)
     \/ Goto(o, "failed") /\ UNCHANGED <<versions, metadata>>
  /\ UNCHANGED <<crowded, cancelled, uncleaned, inserted, queued, datasets, number, date, objects,
                 clock, faults>>

-----------------------------------------------------------------------------
(* DeleteDataset, lost clients, crashes.                                   *)

DeleteDataset(o) ==
  /\ o \in Delete /\ pc[o] = "ready"
  /\ \/ Succeeds(o) /\ Target[o] \in datasets /\ DropDataset(Target[o]) /\ Goto(o, "ok")
     \/ /\ Fails(o) \/ (Succeeds(o) /\ Target[o] \notin datasets)
        /\ Goto(o, "failed")
        /\ UNCHANGED rowVars
  /\ UNCHANGED <<crowded, cancelled, uncleaned, inserted, queued, number, date, objects, clock>>

\* The client closes its connection: every further call of the handler fails.
Disconnect(o) ==
  /\ Running(o) /\ o \notin cancelled /\ faults < MaxFaults
  /\ cancelled' = cancelled \cup {o}
  /\ faults' = faults + 1
  /\ UNCHANGED <<crowded, pc, uncleaned, inserted, queued, rowVars, number, date, objects, clock>>

\* A process, the API or the gateway, dies with every request it handles and starts
\* again.
Crash ==
  /\ faults < MaxFaults
  /\ \E own \in {Relay, Op \ Relay} :
       /\ \E o \in own : Running(o)
       /\ pc' = [o \in Op |-> IF o \in own /\ Running(o) THEN "crashed" ELSE pc[o]]
  /\ faults' = faults + 1
  /\ UNCHANGED <<crowded, cancelled, uncleaned, inserted, queued, rowVars, number, date,
                 objects, clock>>

Next ==
  \/ \E o \in Op :
       \/ InsertDataset(o) \/ FindDataset(o) \/ ListVersions(o)
       \/ Upload(o) \/ Stamp(o) \/ InsertVersion(o) \/ PersistMetadata(o)
       \/ CleanObject(o) \/ CleanVersion(o) \/ CleanDataset(o)
       \/ StoreFile(o) \/ Publish(o) \/ VersionAdded(o) \/ AddAnswered(o)
       \/ DeleteVersion(o) \/ DeleteDataset(o) \/ Disconnect(o)
  \/ Crash

Spec == Init /\ [][Next]_vars

-----------------------------------------------------------------------------
(* Properties.                                                             *)

\* Type correctness, and what the foreign keys keep true: the rows of
\* dataset_versions and metadata hang together.
TypeOK ==
  /\ pc \in [Op -> {"absent", "ready", "list", "upload", "stamp", "insert", "metadata",
                    "cleanObject", "cleanVersion", "cleanDataset", "publish", "waiting",
                    "ok", "failed", "crashed"}]
  /\ cancelled \subseteq Op /\ uncleaned \subseteq Op /\ inserted \subseteq Op
  /\ queued \subseteq Relay
  /\ datasets \subseteq Dataset
  /\ versions \subseteq {v \in Version : DatasetOf(v) \in datasets}
  /\ metadata \subseteq versions
  /\ number \in [Version -> Nat]
  /\ date \in [Version -> 0..clock]
  /\ objects \subseteq Object
  /\ clock \in Nat
  /\ crowded \subseteq Dataset
  /\ faults \in 0..MaxFaults

Reported(v) == v \in Seed \/ (v \in Op /\ pc[v] = "ok")

HasFile(v) == \E x \in objects : x.key = KeyOf(v)

KeepsFile(v) == [key |-> KeyOf(v), content |-> v] \in objects

\* A version whose upload was reported successful downloads as the file that was
\* uploaded, for as long as its row is there (GetVersionDownloadURL presigns the
\* key of the row).
SuccessKeepsFile == \A v \in versions : Reported(v) => KeepsFile(v)

\* An upload through the gateway, other than v, was made to the dataset of v.
Relayed(v) == \E o \in Relay \ {v} : DatasetOf(o) = DatasetOf(v) /\ Begun(o)

\* It does as long as no two uploads to its dataset were under way at once, and no
\* other one came through the gateway, whose client chooses the number; whatever
\* uploads before and after it failed, were cleaned up or cut short, and whatever
\* versions were deleted.
LoneSuccessKeepsFile ==
  \A v \in versions :
    (Reported(v) /\ DatasetOf(v) \notin crowded /\ ~Relayed(v)) => KeepsFile(v)

\* The upload has been through CleanObject, or its crash makes that impossible to tell.
Cleaned(o) ==
  \/ pc[o] \in {"cleanVersion", "cleanDataset", "crashed"}
  \/ pc[o] = "failed" /\ (o \in Create \/ date[o] > 0)

\* A version without a file, which breaks the download of the dataset when it is
\* the latest, is only ever one whose own cleanup is at work or was cut short, or one
\* whose key another upload was given too, and cleaned up. An upload through the
\* gateway stores its file before anybody can insert its row, and nothing of its own
\* takes the file away, however its request ends.
FilelessVersionWasCleaned ==
  \A v \in versions : ~HasFile(v) =>
    \E o \in Create \cup Add :
      /\ KeyOf(o) = KeyOf(v) /\ Cleaned(o)
      /\ o = v => pc[o] # "failed" \/ o \in uncleaned

\* The newer of two versions has the higher number, failed uploads, crashes, cleanups
\* and deleted versions in between notwithstanding (nextVersionNumber looks at one row
\* only), unless uploads crossed or came through the gateway.
NumbersFollowDates ==
  \A v, w \in versions \ Relay :
    (DatasetOf(v) = DatasetOf(w) /\ DatasetOf(v) \notin crowded /\ ~Relayed(v)
       /\ date[v] < date[w])
      => number[v] < number[w]

\* A file that belongs to no version has a reason: its upload is under way or was
\* not reported successful, or its version or its dataset was deleted on request.
\* The cleanup of an upload removes no row of another, reported one.
StrayFileHasAReason ==
  \A x \in objects : x.content \notin versions =>
    \/ ~Reported(x.content)
    \/ DatasetOf(x.content) \notin datasets
    \/ \E o \in Remove : Doomed[o] = x.content /\ Begun(o)

\* An operation that reports a failure leaves no row and no object of its own
\* behind unless a call of its cleanup failed; an Add whose upload failed has no
\* cleanup and may leave the object.
FailureLeavesNothing ==
  \A o \in Create \cup Add :
    (pc[o] = "failed" /\ o \notin uncleaned) =>
      /\ o \notin datasets \cup versions
      /\ (o \in Create \/ date[o] > 0) => \A x \in objects : x.content # o
=============================================================================
