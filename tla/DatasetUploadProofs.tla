------------------------ MODULE DatasetUploadProofs ------------------------
(***************************************************************************)
(* Proofs about DatasetUpload, for any datasets, files and operations, any   *)
(* mix of them and any number of failures: what may be missing from the      *)
(* bucket, what may be left over in it, what a failed upload leaves, and     *)
(* the versions whose number, date and file can be relied on.                *)
(***************************************************************************)
EXTENDS DatasetUpload, WellFoundedInduction, TLAPS

OwnCleanup == {"cleanVersion", "cleanDataset"}
BeforeStamp == {"absent", "ready", "list", "upload", "stamp"}
Step == BeforeStamp \cup OwnCleanup \cup
  {"insert", "metadata", "cleanObject", "publish", "waiting", "ok", "failed", "crashed"}

\* Which steps an operation of each kind goes through.
Steps ==
  /\ pc \in [Op -> Step]
  /\ \A o \in Create \cup Add : pc[o] \notin {"publish", "waiting"}
  /\ \A o \in Create : pc[o] # "list"
  /\ \A o \in Add : pc[o] # "cleanDataset"
  /\ \A o \in Relay :
       pc[o] \in {"absent", "ready", "publish", "waiting", "ok", "failed", "crashed"}
  /\ \A o \in Delete \cup Remove : pc[o] \in {"absent", "ready", "ok", "failed"}

\* Who knows of a row, and when it was stamped.
Rows ==
  /\ inserted \subseteq Uploading /\ versions \subseteq Seed \cup inserted
  /\ queued \subseteq {o \in Relay : Begun(o) /\ pc[o] # "publish" /\ o \notin inserted}
  /\ \A o \in Relay : pc[o] = "publish" => o \notin inserted
  /\ \A o \in Relay : pc[o] = "ok" => o \in inserted
  /\ \A o \in inserted : IF o \in Relay THEN Begun(o)
                         ELSE date[o] > 0 /\ pc[o] \in OwnCleanup \cup
                                {"metadata", "cleanObject", "ok", "failed", "crashed"}
  /\ date \in [Version -> Nat] /\ DOMAIN number = Version /\ clock \in Nat
  /\ \A o \in Create \cup Add :
       /\ pc[o] \in BeforeStamp => date[o] = 0
       /\ pc[o] = "insert" => date[o] > 0
       /\ pc[o] = "cleanObject" => o \in Create \/ date[o] > 0
       /\ pc[o] \in {"metadata", "cleanVersion", "ok"} => o \in inserted

\* An object is where its upload put it.
Keyed ==
  \A x \in objects :
    /\ x.content \in Version /\ x.key = KeyOf(x.content)
    /\ x.content \in Op => pc[x.content] \notin {"absent", "ready", "list"}

\* A version has its file, or an upload with that key was cleaned up.
Filed(v) ==
  \/ HasFile(v)
  \/ \E o \in Create \cup Add :
       /\ KeyOf(o) = KeyOf(v) /\ Cleaned(o)
       /\ o = v => pc[o] # "failed" \/ o \in uncleaned

\* So it is from the upload on, before there is a row.
Stored(v) == v \in Uploading /\ pc[v] \in {"stamp", "insert", "metadata", "publish"}
AllFiled == \A v \in Version : v \in versions \/ v \in queued \/ Stored(v) => Filed(v)

\* A dataset is one whose row was inserted, and so is that of an upload which found it.
Founded ==
  /\ datasets \subseteq Seed \cup {o \in Create : Begun(o)}
  /\ \A o \in Add :
       DatasetOf(o) \in Create /\ pc[o] \notin {"absent", "ready", "failed", "crashed"}
         => Begun(DatasetOf(o))
  /\ \A o \in inserted : DatasetOf(o) \in Create => Begun(DatasetOf(o))

\* A version whose insertion was acknowledged is there until it is deleted on request.
Acknowledged(v) ==
  \/ v \in Seed
  \/ v \in Create \cup Add /\ pc[v] \in {"metadata", "ok"}
  \/ v \in Relay /\ v \in inserted

Listed(v) ==
  \/ v \in versions
  \/ DatasetOf(v) \notin datasets
  \/ \E o \in Remove : Doomed[o] = v /\ Begun(o)

AllListed == \A v \in Version : Acknowledged(v) => Listed(v)

\* What the cleanup of an upload has left after each of its steps, unless a call failed.
Leftovers ==
  \A o \in Create \cup Add : o \notin uncleaned =>
    /\ pc[o] \in OwnCleanup => \A x \in objects : x.content # o
    /\ pc[o] = "cleanDataset" => o \notin versions
    /\ pc[o] = "failed" => /\ o \notin datasets \cup versions
                           /\ (o \in Create \/ date[o] > 0) => \A x \in objects : x.content # o

IInv == TypeOK /\ Steps /\ Rows /\ Keyed /\ AllFiled /\ Founded /\ AllListed /\ Leftovers

-----------------------------------------------------------------------------
(* The operators of the model.                                             *)

\* The order of the naturals.
NatLess == {ss \in Nat \X Nat : ss[1] < ss[2]}

\* It has no infinite descent, says the library.
LEMMA NatWF == IsWellFoundedOn(NatLess, Nat)
  BY NatLessThanWellFounded DEF OpToRel, NatLess

\* A set of naturals that is not empty has a least element.
LEMMA Least ==
  ASSUME NEW T \in SUBSET Nat, T # {}
  PROVE  \E n \in T : \A m \in T : n <= m
<1>1. PICK n \in T : \A m \in T : ~ (<<m, n>> \in NatLess)
  BY NatWF, WFMin
<1>2. \A m \in T : n <= m
  <2> TAKE m \in T
  <2>1. ~(m < n)
    BY <1>1 DEF NatLess
  <2> QED
    BY <2>1
<1> QED
  BY <1>2

\* The first listed version of a dataset exists, and none is newer.
LEMMA LatestExists ==
  ASSUME clock \in Nat, date \in [Version -> 0..clock], versions \subseteq Version,
         NEW d, VersionsOf(d) # {}
  PROVE  FirstListed(d) \in VersionsOf(d)
         /\ \A w \in VersionsOf(d) : date[w] <= date[FirstListed(d)]
<1> DEFINE ages == {clock - date[v] : v \in VersionsOf(d)}
<1>1. ages \in SUBSET Nat /\ ages # {}
  BY DEF VersionsOf
<1> HIDE DEF ages
<1>2. PICK n \in ages : \A m \in ages : n <= m
  BY <1>1, Least
<1>3. PICK v \in VersionsOf(d) : n = clock - date[v]
  BY <1>2 DEF ages
<1>4. \A w \in VersionsOf(d) : clock - date[v] <= clock - date[w]
  BY <1>2, <1>3 DEF ages
<1>5. \A w \in VersionsOf(d) : date[w] <= date[v]
  BY <1>4 DEF VersionsOf
<1> QED
  BY <1>5 DEF FirstListed

\* The dataset of an upload is its own, or its target.
LEMMA DatasetOfUpload ==
  /\ \A v \in Seed \cup Create : DatasetOf(v) = v
  /\ \A v \in Add \cup Relay : DatasetOf(v) = Target[v] /\ DatasetOf(v) \in Dataset
  BY OperationsAssumption DEF DatasetOf, Op, Uploading, Dataset

\* An upload stores an object.
LEMMA KeyType ==
  ASSUME TypeOK, NEW v \in Version
  PROVE  [key |-> KeyOf(v), content |-> v] \in Object
  BY DatasetOfUpload DEF TypeOK, Object, KeyOf, ObjectKey, Version, Uploading, Dataset

\* A version gets a number.
LEMMA NextNumberType == ASSUME TypeOK, NEW d PROVE NextVersionNumber(d) \in Nat
<1>1. CASE VersionsOf(d) = {}
  BY <1>1 DEF NextVersionNumber
<1>2. CASE VersionsOf(d) # {}
  <2>1. FirstListed(d) \in Version
    BY <1>2, LatestExists DEF TypeOK, VersionsOf
  <2> QED
    BY <1>2, <2>1 DEF NextVersionNumber, TypeOK
<1> QED
  BY <1>1, <1>2

\* An upload can only crowd a dataset.
LEMMA StartType == ASSUME TypeOK, NEW o \in Uploading, Start(o) PROVE crowded' \subseteq Dataset
  BY DatasetOfUpload DEF TypeOK, Start, Uploading, Dataset

\* An upload gives a version its file and takes none from another: it replaces an
\* object by one with the same key.
LEMMA PutStores ==
  ASSUME NEW o, objects' = Put(o), UNCHANGED number
  PROVE  /\ HasFile(o)'
         /\ \A v : HasFile(v) => HasFile(v)'
<1> DEFINE new == [key |-> KeyOf(o), content |-> o]
<1>1. new \in objects' /\ new.key = KeyOf(o)
  BY DEF Put
<1>2. \A v : KeyOf(v)' = KeyOf(v)
  BY DEF KeyOf, ObjectKey
<1>3. \A x \in objects : x.key # KeyOf(o) => x \in objects'
  BY DEF Put
<1> QED
  BY <1>1, <1>2, <1>3 DEF HasFile

-----------------------------------------------------------------------------
(* Each part of the invariant is kept by every action.                      *)

\* Types, and the foreign keys: a version goes with its dataset, metadata with their
\* version.
LEMMA TypeStep == ASSUME TypeOK, Steps, Rows, [Next]_vars PROVE TypeOK'
<1> USE OperationsAssumption DEF TypeOK, Steps, OwnCleanup, BeforeStamp, Op, Uploading,
       Version, Dataset
<1>1. ASSUME NEW o \in Op, InsertDataset(o) PROVE TypeOK'
  BY <1>1, StartType DEF InsertDataset, Succeeds, Fails, Goto, rowVars
<1>2. ASSUME NEW o \in Op, FindDataset(o) PROVE TypeOK'
  BY <1>2, StartType DEF FindDataset, Succeeds, Fails, Goto, rowVars
<1>3. ASSUME NEW o \in Op, ListVersions(o) PROVE TypeOK'
  BY <1>3, NextNumberType DEF ListVersions, Succeeds, Fails, Goto, rowVars
<1>4. ASSUME NEW o \in Op, Upload(o) PROVE TypeOK'
  BY <1>4, KeyType DEF Upload, Succeeds, Fails, Goto, Put, rowVars
<1>5. ASSUME NEW o \in Op, Stamp(o) PROVE TypeOK'
  BY <1>5 DEF Stamp, Goto, rowVars
<1>6. ASSUME NEW o \in Op, InsertVersion(o) PROVE TypeOK'
  BY <1>6, DatasetOfUpload DEF InsertVersion, Succeeds, Fails, Goto, rowVars
<1>7. ASSUME NEW o \in Op, PersistMetadata(o) PROVE TypeOK'
  BY <1>7 DEF PersistMetadata, Succeeds, Fails, Goto, rowVars
<1>8. ASSUME NEW o \in Op, CleanObject(o) PROVE TypeOK'
  BY <1>8 DEF CleanObject, Succeeds, Fails, Goto, AfterCleanObject, rowVars
<1>9. ASSUME NEW o \in Op, CleanVersion(o) PROVE TypeOK'
  BY <1>9 DEF CleanVersion, Succeeds, Fails, Goto, rowVars
<1>10. ASSUME NEW o \in Op, CleanDataset(o) PROVE TypeOK'
  BY <1>10 DEF CleanDataset, Succeeds, Fails, Goto, DropDataset, VersionsOf, rowVars
<1>11. ASSUME NEW o \in Op, StoreFile(o) PROVE TypeOK'
  BY <1>11, StartType, KeyType DEF StoreFile, Succeeds, Fails, Goto, Put, rowVars
<1>12. ASSUME NEW o \in Op, Publish(o) PROVE TypeOK'
  BY <1>12 DEF Publish, Succeeds, Fails, Goto, rowVars
<1>13. ASSUME NEW o \in Op, VersionAdded(o) PROVE TypeOK'
  BY <1>13 DEF VersionAdded, rowVars
<1>14. ASSUME NEW o \in Op, AddAnswered(o) PROVE TypeOK'
  BY <1>14 DEF AddAnswered, Goto, rowVars
<1>15. ASSUME NEW o \in Op, DeleteVersion(o) PROVE TypeOK'
  BY <1>15 DEF DeleteVersion, Goto, rowVars
<1>16. ASSUME NEW o \in Op, DeleteDataset(o) PROVE TypeOK'
  BY <1>16 DEF DeleteDataset, Succeeds, Fails, Goto, DropDataset, VersionsOf, rowVars
<1>17. ASSUME NEW o \in Op, Disconnect(o) PROVE TypeOK'
  BY <1>17 DEF Disconnect, Running, rowVars
<1>18. CASE Crash
  BY <1>18 DEF Crash, Running, rowVars
<1>19. CASE UNCHANGED vars
  BY <1>19 DEF vars, rowVars
<1> QED
  BY <1>1, <1>2, <1>3, <1>4, <1>5, <1>6, <1>7, <1>8, <1>9, <1>10, <1>11, <1>12, <1>13,
     <1>14, <1>15, <1>16, <1>17, <1>18, <1>19 DEF Next

\* Every action takes its operation to the steps of its kind.
LEMMA StepsStep == ASSUME IInv, [Next]_vars PROVE Steps'
<1> USE OperationsAssumption, DatasetOfUpload DEF IInv, Steps, Begun, Step, BeforeStamp,
       OwnCleanup, Op, Uploading
<1>1. ASSUME NEW o \in Op, InsertDataset(o) PROVE Steps'
  BY <1>1 DEF InsertDataset, Start, Succeeds, Fails, Goto, rowVars
<1>2. ASSUME NEW o \in Op, FindDataset(o) PROVE Steps'
  BY <1>2 DEF FindDataset, Start, Succeeds, Fails, Goto, rowVars
<1>3. ASSUME NEW o \in Op, ListVersions(o) PROVE Steps'
  BY <1>3 DEF ListVersions, Succeeds, Fails, Goto, rowVars
<1>4. ASSUME NEW o \in Op, Upload(o) PROVE Steps'
  BY <1>4 DEF Upload, Succeeds, Fails, Goto, Put, rowVars
<1>5. ASSUME NEW o \in Op, Stamp(o) PROVE Steps'
  BY <1>5 DEF Stamp, Goto, rowVars
<1>6. ASSUME NEW o \in Op, InsertVersion(o) PROVE Steps'
  BY <1>6 DEF InsertVersion, Succeeds, Fails, Goto, rowVars
<1>7. ASSUME NEW o \in Op, PersistMetadata(o) PROVE Steps'
  BY <1>7 DEF PersistMetadata, Succeeds, Fails, Goto, rowVars
<1>8. ASSUME NEW o \in Op, CleanObject(o) PROVE Steps'
  BY <1>8 DEF CleanObject, Succeeds, Fails, Goto, AfterCleanObject, rowVars
<1>9. ASSUME NEW o \in Op, CleanVersion(o) PROVE Steps'
  BY <1>9 DEF CleanVersion, Succeeds, Fails, Goto, rowVars
<1>10. ASSUME NEW o \in Op, CleanDataset(o) PROVE Steps'
  BY <1>10 DEF CleanDataset, Succeeds, Fails, Goto, DropDataset, VersionsOf, rowVars
<1>11. ASSUME NEW o \in Op, StoreFile(o) PROVE Steps'
  BY <1>11 DEF StoreFile, Start, Succeeds, Fails, Goto, Put, rowVars
<1>12. ASSUME NEW o \in Op, Publish(o) PROVE Steps'
  BY <1>12 DEF Publish, Succeeds, Fails, Goto, rowVars
<1>13. ASSUME NEW o \in Op, VersionAdded(o) PROVE Steps'
  BY <1>13 DEF VersionAdded, rowVars
<1>14. ASSUME NEW o \in Op, AddAnswered(o) PROVE Steps'
  BY <1>14 DEF AddAnswered, Goto, rowVars
<1>15. ASSUME NEW o \in Op, DeleteVersion(o) PROVE Steps'
  BY <1>15 DEF DeleteVersion, Goto, rowVars
<1>16. ASSUME NEW o \in Op, DeleteDataset(o) PROVE Steps'
  BY <1>16 DEF DeleteDataset, Succeeds, Fails, Goto, DropDataset, VersionsOf, rowVars
<1>17. ASSUME NEW o \in Op, Disconnect(o) PROVE Steps'
  BY <1>17 DEF Disconnect, Running, rowVars
<1>18. CASE Crash
  BY <1>18 DEF Crash, Running, rowVars
<1>19. CASE UNCHANGED vars
  BY <1>19 DEF vars, rowVars
<1> QED
  BY <1>1, <1>2, <1>3, <1>4, <1>5, <1>6, <1>7, <1>8, <1>9, <1>10, <1>11, <1>12, <1>13,
     <1>14, <1>15, <1>16, <1>17, <1>18, <1>19 DEF Next

\* A row comes from an insertion, which stamped it first.
LEMMA RowsStep == ASSUME IInv, [Next]_vars PROVE Rows'
<1> USE OperationsAssumption, DatasetOfUpload DEF IInv, Steps, Rows, Begun, Step,
       BeforeStamp, OwnCleanup, Op, Uploading, Version
<1>1. ASSUME NEW o \in Op, InsertDataset(o) PROVE Rows'
  BY <1>1 DEF InsertDataset, Start, Succeeds, Fails, Goto, rowVars
<1>2. ASSUME NEW o \in Op, FindDataset(o) PROVE Rows'
  BY <1>2 DEF FindDataset, Start, Succeeds, Fails, Goto, rowVars
<1>3. ASSUME NEW o \in Op, ListVersions(o) PROVE Rows'
  BY <1>3 DEF ListVersions, Succeeds, Fails, Goto, rowVars
<1>4. ASSUME NEW o \in Op, Upload(o) PROVE Rows'
  BY <1>4 DEF Upload, Succeeds, Fails, Goto, Put, rowVars
<1>5. ASSUME NEW o \in Op, Stamp(o) PROVE Rows'
  BY <1>5 DEF Stamp, Goto, rowVars
<1>6. ASSUME NEW o \in Op, InsertVersion(o) PROVE Rows'
  BY <1>6 DEF InsertVersion, Succeeds, Fails, Goto, rowVars
<1>7. ASSUME NEW o \in Op, PersistMetadata(o) PROVE Rows'
  BY <1>7 DEF PersistMetadata, Succeeds, Fails, Goto, rowVars
<1>8. ASSUME NEW o \in Op, CleanObject(o) PROVE Rows'
  BY <1>8 DEF CleanObject, Succeeds, Fails, Goto, AfterCleanObject, rowVars
<1>9. ASSUME NEW o \in Op, CleanVersion(o) PROVE Rows'
  BY <1>9 DEF CleanVersion, Succeeds, Fails, Goto, rowVars
<1>10. ASSUME NEW o \in Op, CleanDataset(o) PROVE Rows'
  BY <1>10 DEF CleanDataset, Succeeds, Fails, Goto, DropDataset, VersionsOf, rowVars
<1>11. ASSUME NEW o \in Op, StoreFile(o) PROVE Rows'
  BY <1>11 DEF StoreFile, Start, Succeeds, Fails, Goto, Put, rowVars
<1>12. ASSUME NEW o \in Op, Publish(o) PROVE Rows'
  BY <1>12 DEF Publish, Succeeds, Fails, Goto, rowVars
<1>13. ASSUME NEW o \in Op, VersionAdded(o) PROVE Rows'
  BY <1>13 DEF VersionAdded, rowVars
<1>14. ASSUME NEW o \in Op, AddAnswered(o) PROVE Rows'
  BY <1>14 DEF AddAnswered, Goto, rowVars
<1>15. ASSUME NEW o \in Op, DeleteVersion(o) PROVE Rows'
  BY <1>15 DEF DeleteVersion, Goto, rowVars
<1>16. ASSUME NEW o \in Op, DeleteDataset(o) PROVE Rows'
  BY <1>16 DEF DeleteDataset, Succeeds, Fails, Goto, DropDataset, VersionsOf, rowVars
<1>17. ASSUME NEW o \in Op, Disconnect(o) PROVE Rows'
  BY <1>17 DEF Disconnect, Running, rowVars
<1>18. CASE Crash
  BY <1>18 DEF Crash, Running, rowVars
<1>19. CASE UNCHANGED vars
  BY <1>19 DEF vars, rowVars
<1> QED
  BY <1>1, <1>2, <1>3, <1>4, <1>5, <1>6, <1>7, <1>8, <1>9, <1>10, <1>11, <1>12, <1>13,
     <1>14, <1>15, <1>16, <1>17, <1>18, <1>19 DEF Next

\* An object is only ever stored under the key of its upload.
LEMMA KeyedStep == ASSUME IInv, [Next]_vars PROVE Keyed'
<1> USE OperationsAssumption, DatasetOfUpload DEF IInv, Steps, Rows, Keyed, Begun, Step,
       BeforeStamp, OwnCleanup, Op, Uploading, Version, KeyOf, ObjectKey
<1>1. ASSUME NEW o \in Op, InsertDataset(o) PROVE Keyed'
  BY <1>1 DEF InsertDataset, Start, Succeeds, Fails, Goto, rowVars
<1>2. ASSUME NEW o \in Op, FindDataset(o) PROVE Keyed'
  BY <1>2 DEF FindDataset, Start, Succeeds, Fails, Goto, rowVars
<1>3. ASSUME NEW o \in Op, ListVersions(o) PROVE Keyed'
  BY <1>3 DEF ListVersions, Succeeds, Fails, Goto, rowVars
<1>4. ASSUME NEW o \in Op, Upload(o) PROVE Keyed'
  BY <1>4 DEF Upload, Succeeds, Fails, Goto, Put, rowVars
<1>5. ASSUME NEW o \in Op, Stamp(o) PROVE Keyed'
  BY <1>5 DEF Stamp, Goto, rowVars
<1>6. ASSUME NEW o \in Op, InsertVersion(o) PROVE Keyed'
  BY <1>6 DEF InsertVersion, Succeeds, Fails, Goto, rowVars
<1>7. ASSUME NEW o \in Op, PersistMetadata(o) PROVE Keyed'
  BY <1>7 DEF PersistMetadata, Succeeds, Fails, Goto, rowVars
<1>8. ASSUME NEW o \in Op, CleanObject(o) PROVE Keyed'
  BY <1>8 DEF CleanObject, Succeeds, Fails, Goto, AfterCleanObject, rowVars
<1>9. ASSUME NEW o \in Op, CleanVersion(o) PROVE Keyed'
  BY <1>9 DEF CleanVersion, Succeeds, Fails, Goto, rowVars
<1>10. ASSUME NEW o \in Op, CleanDataset(o) PROVE Keyed'
  BY <1>10 DEF CleanDataset, Succeeds, Fails, Goto, DropDataset, VersionsOf, rowVars
<1>11. ASSUME NEW o \in Op, StoreFile(o) PROVE Keyed'
  BY <1>11 DEF StoreFile, Start, Succeeds, Fails, Goto, Put, rowVars
<1>12. ASSUME NEW o \in Op, Publish(o) PROVE Keyed'
  BY <1>12 DEF Publish, Succeeds, Fails, Goto, rowVars
<1>13. ASSUME NEW o \in Op, VersionAdded(o) PROVE Keyed'
  BY <1>13 DEF VersionAdded, rowVars
<1>14. ASSUME NEW o \in Op, AddAnswered(o) PROVE Keyed'
  BY <1>14 DEF AddAnswered, Goto, rowVars
<1>15. ASSUME NEW o \in Op, DeleteVersion(o) PROVE Keyed'
  BY <1>15 DEF DeleteVersion, Goto, rowVars
<1>16. ASSUME NEW o \in Op, DeleteDataset(o) PROVE Keyed'
  BY <1>16 DEF DeleteDataset, Succeeds, Fails, Goto, DropDataset, VersionsOf, rowVars
<1>17. ASSUME NEW o \in Op, Disconnect(o) PROVE Keyed'
  BY <1>17 DEF Disconnect, Running, rowVars
<1>18. CASE Crash
  BY <1>18 DEF Crash, Running, rowVars
<1>19. CASE UNCHANGED vars
  BY <1>19 DEF vars, rowVars
<1> QED
  BY <1>1, <1>2, <1>3, <1>4, <1>5, <1>6, <1>7, <1>8, <1>9, <1>10, <1>11, <1>12, <1>13,
     <1>14, <1>15, <1>16, <1>17, <1>18, <1>19 DEF Next

\* A file leaves the bucket by a cleanup only; the upload it belongs to, or one with
\* the same key, is then the reason.
LEMMA AllFiledStep == ASSUME IInv, [Next]_vars PROVE AllFiled'
<1> USE OperationsAssumption, DatasetOfUpload DEF IInv, Steps, Rows, Keyed, AllFiled,
       Stored, Step, BeforeStamp, OwnCleanup, Op, Uploading, Version, Filed, HasFile,
       KeyOf, ObjectKey, Cleaned, Begun
<1>1. ASSUME NEW o \in Op, InsertDataset(o) PROVE AllFiled'
  BY <1>1 DEF InsertDataset, Start, Succeeds, Fails, Goto, rowVars
<1>2. ASSUME NEW o \in Op, FindDataset(o) PROVE AllFiled'
  BY <1>2 DEF FindDataset, Start, Succeeds, Fails, Goto, rowVars
<1>3. ASSUME NEW o \in Op, ListVersions(o) PROVE AllFiled'
  BY <1>3 DEF ListVersions, Succeeds, Fails, Goto, rowVars
<1>4. ASSUME NEW o \in Op, Upload(o) PROVE AllFiled'
  <2>1. PICK s \in Step :
          /\ o \in Version /\ pc[o] = "upload" /\ pc' = [pc EXCEPT ![o] = s]
          /\ UNCHANGED <<number, versions, queued, uncleaned, date>>
          /\ objects' = Put(o) \/ UNCHANGED objects
          /\ s \in {"stamp", "publish"} => objects' = Put(o)
          /\ s \notin {"insert", "metadata"}
    BY <1>4 DEF Upload, Succeeds, Fails, Goto, rowVars
  <2>2. \A v : HasFile(v) => HasFile(v)'
    BY <2>1, PutStores DEF HasFile, KeyOf, ObjectKey
  <2>3. \A p \in Create \cup Add : Cleaned(p) => p # o /\ pc'[p] = pc[p] /\ Cleaned(p)'
    BY <2>1 DEF Cleaned
  <2>4. \A v : Filed(v) => Filed(v)'
    BY <2>1, <2>2, <2>3 DEF Filed, KeyOf, ObjectKey
  <2>5. \A v \in Version : Stored(v)' => Stored(v) \/ (v = o /\ HasFile(o)')
    BY <2>1, PutStores DEF Stored
  <2>6. HasFile(o)' => Filed(o)'
    BY DEF Filed
  <2> HIDE DEF Filed, HasFile, Stored
  <2> QED
    BY <2>1, <2>4, <2>5, <2>6
<1>5. ASSUME NEW o \in Op, Stamp(o) PROVE AllFiled'
  BY <1>5 DEF Stamp, Goto, rowVars
<1>6. ASSUME NEW o \in Op, InsertVersion(o) PROVE AllFiled'
  BY <1>6 DEF InsertVersion, Succeeds, Fails, Goto, rowVars
<1>7. ASSUME NEW o \in Op, PersistMetadata(o) PROVE AllFiled'
  BY <1>7 DEF PersistMetadata, Succeeds, Fails, Goto, rowVars
<1>8. ASSUME NEW o \in Op, CleanObject(o) PROVE AllFiled'
  BY <1>8 DEF CleanObject, Succeeds, Fails, Goto, AfterCleanObject, rowVars
<1>9. ASSUME NEW o \in Op, CleanVersion(o) PROVE AllFiled'
  BY <1>9 DEF CleanVersion, Succeeds, Fails, Goto, rowVars
<1>10. ASSUME NEW o \in Op, CleanDataset(o) PROVE AllFiled'
  BY <1>10 DEF CleanDataset, Succeeds, Fails, Goto, DropDataset, VersionsOf, rowVars
<1>11. ASSUME NEW o \in Op, StoreFile(o) PROVE AllFiled'
  <2>1. PICK s \in Step :
          /\ o \in Version /\ pc[o] = "ready" /\ pc' = [pc EXCEPT ![o] = s]
          /\ UNCHANGED <<number, versions, queued, uncleaned, date>>
          /\ objects' = Put(o) \/ UNCHANGED objects
          /\ s \in {"stamp", "publish"} => objects' = Put(o)
          /\ s \notin {"insert", "metadata"}
    BY <1>11 DEF StoreFile, Start, Succeeds, Fails, Goto, rowVars
  <2>2. \A v : HasFile(v) => HasFile(v)'
    BY <2>1, PutStores DEF HasFile, KeyOf, ObjectKey
  <2>3. \A p \in Create \cup Add : Cleaned(p) => p # o /\ pc'[p] = pc[p] /\ Cleaned(p)'
    BY <2>1 DEF Cleaned
  <2>4. \A v : Filed(v) => Filed(v)'
    BY <2>1, <2>2, <2>3 DEF Filed, KeyOf, ObjectKey
  <2>5. \A v \in Version : Stored(v)' => Stored(v) \/ (v = o /\ HasFile(o)')
    BY <2>1, PutStores DEF Stored
  <2>6. HasFile(o)' => Filed(o)'
    BY DEF Filed
  <2> HIDE DEF Filed, HasFile, Stored
  <2> QED
    BY <2>1, <2>4, <2>5, <2>6
<1>12. ASSUME NEW o \in Op, Publish(o) PROVE AllFiled'
  BY <1>12 DEF Publish, Succeeds, Fails, Goto, rowVars
<1>13. ASSUME NEW o \in Op, VersionAdded(o) PROVE AllFiled'
  BY <1>13 DEF VersionAdded, rowVars
<1>14. ASSUME NEW o \in Op, AddAnswered(o) PROVE AllFiled'
  BY <1>14 DEF AddAnswered, Goto, rowVars
<1>15. ASSUME NEW o \in Op, DeleteVersion(o) PROVE AllFiled'
  BY <1>15 DEF DeleteVersion, Goto, rowVars
<1>16. ASSUME NEW o \in Op, DeleteDataset(o) PROVE AllFiled'
  BY <1>16 DEF DeleteDataset, Succeeds, Fails, Goto, DropDataset, VersionsOf, rowVars
<1>17. ASSUME NEW o \in Op, Disconnect(o) PROVE AllFiled'
  BY <1>17 DEF Disconnect, Running, rowVars
<1>18. CASE Crash
  <2>1. /\ UNCHANGED <<number, versions, queued, uncleaned, date, objects>>
        /\ \A p \in Op : pc'[p] = pc[p] \/ (Running(p) /\ pc'[p] = "crashed")
    BY <1>18 DEF Crash, rowVars
  <2>2. \A p \in Create \cup Add :
          Cleaned(p) => Cleaned(p)' /\ (pc'[p] = "failed" => pc[p] = "failed")
    BY <2>1 DEF Cleaned
  <2>3. \A v : Filed(v) => Filed(v)'
    BY <2>1, <2>2 DEF Filed, HasFile, KeyOf, ObjectKey
  <2>4. \A v \in Version : Stored(v)' => Stored(v)
    BY <2>1 DEF Stored
  <2> QED
    BY <2>1, <2>3, <2>4
<1>19. CASE UNCHANGED vars
  BY <1>19 DEF vars, rowVars
<1> QED
  BY <1>1, <1>2, <1>3, <1>4, <1>5, <1>6, <1>7, <1>8, <1>9, <1>10, <1>11, <1>12, <1>13,
     <1>14, <1>15, <1>16, <1>17, <1>18, <1>19 DEF Next

\* An upload finds the dataset it is for.
LEMMA FoundedStep == ASSUME IInv, [Next]_vars PROVE Founded'
<1> USE OperationsAssumption, DatasetOfUpload DEF IInv, Steps, Rows, Founded, Step,
       BeforeStamp, OwnCleanup, Op, Uploading, Version, Dataset, Begun
<1>1. ASSUME NEW o \in Op, InsertDataset(o) PROVE Founded'
  BY <1>1 DEF InsertDataset, Start, Succeeds, Fails, Goto, rowVars
<1>2. ASSUME NEW o \in Op, FindDataset(o) PROVE Founded'
  BY <1>2 DEF FindDataset, Start, Succeeds, Fails, Goto, rowVars
<1>3. ASSUME NEW o \in Op, ListVersions(o) PROVE Founded'
  BY <1>3 DEF ListVersions, Succeeds, Fails, Goto, rowVars
<1>4. ASSUME NEW o \in Op, Upload(o) PROVE Founded'
  BY <1>4 DEF Upload, Succeeds, Fails, Goto, Put, rowVars
<1>5. ASSUME NEW o \in Op, Stamp(o) PROVE Founded'
  BY <1>5 DEF Stamp, Goto, rowVars
<1>6. ASSUME NEW o \in Op, InsertVersion(o) PROVE Founded'
  BY <1>6 DEF InsertVersion, Succeeds, Fails, Goto, rowVars
<1>7. ASSUME NEW o \in Op, PersistMetadata(o) PROVE Founded'
  BY <1>7 DEF PersistMetadata, Succeeds, Fails, Goto, rowVars
<1>8. ASSUME NEW o \in Op, CleanObject(o) PROVE Founded'
  BY <1>8 DEF CleanObject, Succeeds, Fails, Goto, AfterCleanObject, rowVars
<1>9. ASSUME NEW o \in Op, CleanVersion(o) PROVE Founded'
  BY <1>9 DEF CleanVersion, Succeeds, Fails, Goto, rowVars
<1>10. ASSUME NEW o \in Op, CleanDataset(o) PROVE Founded'
  BY <1>10 DEF CleanDataset, Succeeds, Fails, Goto, DropDataset, VersionsOf, rowVars
<1>11. ASSUME NEW o \in Op, StoreFile(o) PROVE Founded'
  BY <1>11 DEF StoreFile, Start, Succeeds, Fails, Goto, Put, rowVars
<1>12. ASSUME NEW o \in Op, Publish(o) PROVE Founded'
  BY <1>12 DEF Publish, Succeeds, Fails, Goto, rowVars
<1>13. ASSUME NEW o \in Op, VersionAdded(o) PROVE Founded'
  BY <1>13 DEF VersionAdded, rowVars
<1>14. ASSUME NEW o \in Op, AddAnswered(o) PROVE Founded'
  BY <1>14 DEF AddAnswered, Goto, rowVars
<1>15. ASSUME NEW o \in Op, DeleteVersion(o) PROVE Founded'
  BY <1>15 DEF DeleteVersion, Goto, rowVars
<1>16. ASSUME NEW o \in Op, DeleteDataset(o) PROVE Founded'
  BY <1>16 DEF DeleteDataset, Succeeds, Fails, Goto, DropDataset, VersionsOf, rowVars
<1>17. ASSUME NEW o \in Op, Disconnect(o) PROVE Founded'
  BY <1>17 DEF Disconnect, Running, rowVars
<1>18. CASE Crash
  BY <1>18 DEF Crash, Running, rowVars
<1>19. CASE UNCHANGED vars
  BY <1>19 DEF vars, rowVars
<1> QED
  BY <1>1, <1>2, <1>3, <1>4, <1>5, <1>6, <1>7, <1>8, <1>9, <1>10, <1>11, <1>12, <1>13,
     <1>14, <1>15, <1>16, <1>17, <1>18, <1>19 DEF Next

\* A cleanup deletes the row of its own upload, and a dataset that nobody was told of.
LEMMA AllListedStep == ASSUME IInv, [Next]_vars PROVE AllListed'
<1> USE OperationsAssumption, DatasetOfUpload DEF IInv, Steps, Rows, Founded, AllListed,
       Step, BeforeStamp, OwnCleanup, Op, Uploading, Version, Dataset, Listed,
       Acknowledged, Begun
<1>1. ASSUME NEW o \in Op, InsertDataset(o) PROVE AllListed'
  BY <1>1 DEF InsertDataset, Start, Succeeds, Fails, Goto, rowVars
<1>2. ASSUME NEW o \in Op, FindDataset(o) PROVE AllListed'
  BY <1>2 DEF FindDataset, Start, Succeeds, Fails, Goto, rowVars
<1>3. ASSUME NEW o \in Op, ListVersions(o) PROVE AllListed'
  BY <1>3 DEF ListVersions, Succeeds, Fails, Goto, rowVars
<1>4. ASSUME NEW o \in Op, Upload(o) PROVE AllListed'
  BY <1>4 DEF Upload, Succeeds, Fails, Goto, Put, rowVars
<1>5. ASSUME NEW o \in Op, Stamp(o) PROVE AllListed'
  BY <1>5 DEF Stamp, Goto, rowVars
<1>6. ASSUME NEW o \in Op, InsertVersion(o) PROVE AllListed'
  BY <1>6 DEF InsertVersion, Succeeds, Fails, Goto, rowVars
<1>7. ASSUME NEW o \in Op, PersistMetadata(o) PROVE AllListed'
  BY <1>7 DEF PersistMetadata, Succeeds, Fails, Goto, rowVars
<1>8. ASSUME NEW o \in Op, CleanObject(o) PROVE AllListed'
  BY <1>8 DEF CleanObject, Succeeds, Fails, Goto, AfterCleanObject, rowVars
<1>9. ASSUME NEW o \in Op, CleanVersion(o) PROVE AllListed'
  BY <1>9 DEF CleanVersion, Succeeds, Fails, Goto, rowVars
<1>10. ASSUME NEW o \in Op, CleanDataset(o) PROVE AllListed'
  BY <1>10 DEF CleanDataset, Succeeds, Fails, Goto, DropDataset, VersionsOf, rowVars
<1>11. ASSUME NEW o \in Op, StoreFile(o) PROVE AllListed'
  BY <1>11 DEF StoreFile, Start, Succeeds, Fails, Goto, Put, rowVars
<1>12. ASSUME NEW o \in Op, Publish(o) PROVE AllListed'
  BY <1>12 DEF Publish, Succeeds, Fails, Goto, rowVars
<1>13. ASSUME NEW o \in Op, VersionAdded(o) PROVE AllListed'
  BY <1>13 DEF VersionAdded, rowVars
<1>14. ASSUME NEW o \in Op, AddAnswered(o) PROVE AllListed'
  BY <1>14 DEF AddAnswered, Goto, rowVars
<1>15. ASSUME NEW o \in Op, DeleteVersion(o) PROVE AllListed'
  BY <1>15 DEF DeleteVersion, Goto, rowVars
<1>16. ASSUME NEW o \in Op, DeleteDataset(o) PROVE AllListed'
  BY <1>16 DEF DeleteDataset, Succeeds, Fails, Goto, DropDataset, VersionsOf, rowVars
<1>17. ASSUME NEW o \in Op, Disconnect(o) PROVE AllListed'
  BY <1>17 DEF Disconnect, Running, rowVars
<1>18. CASE Crash
  BY <1>18 DEF Crash, Running, rowVars
<1>19. CASE UNCHANGED vars
  BY <1>19 DEF vars, rowVars
<1> QED
  BY <1>1, <1>2, <1>3, <1>4, <1>5, <1>6, <1>7, <1>8, <1>9, <1>10, <1>11, <1>12, <1>13,
     <1>14, <1>15, <1>16, <1>17, <1>18, <1>19 DEF Next

\* Each step of a cleanup that succeeds removes what it is for, and nothing brings it
\* back.
LEMMA LeftoversStep == ASSUME IInv, [Next]_vars PROVE Leftovers'
<1> USE OperationsAssumption, DatasetOfUpload DEF IInv, Steps, Rows, Keyed, Founded,
       Leftovers, Step, BeforeStamp, OwnCleanup, Op, Uploading, Version, Dataset, KeyOf,
       ObjectKey, Begun
<1>1. ASSUME NEW o \in Op, InsertDataset(o) PROVE Leftovers'
  BY <1>1 DEF InsertDataset, Start, Succeeds, Fails, Goto, rowVars
<1>2. ASSUME NEW o \in Op, FindDataset(o) PROVE Leftovers'
  BY <1>2 DEF FindDataset, Start, Succeeds, Fails, Goto, rowVars
<1>3. ASSUME NEW o \in Op, ListVersions(o) PROVE Leftovers'
  BY <1>3 DEF ListVersions, Succeeds, Fails, Goto, rowVars
<1>4. ASSUME NEW o \in Op, Upload(o) PROVE Leftovers'
  BY <1>4 DEF Upload, Succeeds, Fails, Goto, Put, rowVars
<1>5. ASSUME NEW o \in Op, Stamp(o) PROVE Leftovers'
  BY <1>5 DEF Stamp, Goto, rowVars
<1>6. ASSUME NEW o \in Op, InsertVersion(o) PROVE Leftovers'
  BY <1>6 DEF InsertVersion, Succeeds, Fails, Goto, rowVars
<1>7. ASSUME NEW o \in Op, PersistMetadata(o) PROVE Leftovers'
  BY <1>7 DEF PersistMetadata, Succeeds, Fails, Goto, rowVars
<1>8. ASSUME NEW o \in Op, CleanObject(o) PROVE Leftovers'
  BY <1>8 DEF CleanObject, Succeeds, Fails, Goto, AfterCleanObject, rowVars
<1>9. ASSUME NEW o \in Op, CleanVersion(o) PROVE Leftovers'
  BY <1>9 DEF CleanVersion, Succeeds, Fails, Goto, rowVars
<1>10. ASSUME NEW o \in Op, CleanDataset(o) PROVE Leftovers'
  BY <1>10 DEF CleanDataset, Succeeds, Fails, Goto, DropDataset, VersionsOf, rowVars
<1>11. ASSUME NEW o \in Op, StoreFile(o) PROVE Leftovers'
  BY <1>11 DEF StoreFile, Start, Succeeds, Fails, Goto, Put, rowVars
<1>12. ASSUME NEW o \in Op, Publish(o) PROVE Leftovers'
  BY <1>12 DEF Publish, Succeeds, Fails, Goto, rowVars
<1>13. ASSUME NEW o \in Op, VersionAdded(o) PROVE Leftovers'
  BY <1>13 DEF VersionAdded, rowVars
<1>14. ASSUME NEW o \in Op, AddAnswered(o) PROVE Leftovers'
  BY <1>14 DEF AddAnswered, Goto, rowVars
<1>15. ASSUME NEW o \in Op, DeleteVersion(o) PROVE Leftovers'
  BY <1>15 DEF DeleteVersion, Goto, rowVars
<1>16. ASSUME NEW o \in Op, DeleteDataset(o) PROVE Leftovers'
  BY <1>16 DEF DeleteDataset, Succeeds, Fails, Goto, DropDataset, VersionsOf, rowVars
<1>17. ASSUME NEW o \in Op, Disconnect(o) PROVE Leftovers'
  BY <1>17 DEF Disconnect, Running, rowVars
<1>18. CASE Crash
  BY <1>18 DEF Crash, Running, rowVars
<1>19. CASE UNCHANGED vars
  BY <1>19 DEF vars, rowVars
<1> QED
  BY <1>1, <1>2, <1>3, <1>4, <1>5, <1>6, <1>7, <1>8, <1>9, <1>10, <1>11, <1>12, <1>13,
     <1>14, <1>15, <1>16, <1>17, <1>18, <1>19 DEF Next

\* The seeds are there with their files, nothing else is.
LEMMA InitInv == Init => IInv
<1> SUFFICES ASSUME Init PROVE IInv
  OBVIOUS
<1> USE OperationsAssumption, DatasetOfUpload
        DEF Init, Op, Uploading, Version, Dataset, Begun, BeforeStamp, OwnCleanup
<1>1. TypeOK
  BY DEF TypeOK, Object, ObjectKey
<1>2. Steps
  BY DEF Steps, Step
<1>3. Rows
  BY DEF Rows
<1>4. Keyed
  BY DEF Keyed, KeyOf, ObjectKey
<1>5. AllFiled
  <2>1. ASSUME NEW v \in Version, v \in versions \/ v \in queued \/ Stored(v) PROVE Filed(v)
    <3>1. v \in Seed
      BY <2>1 DEF Stored
    <3>2. [key |-> KeyOf(v), content |-> v] \in objects
      BY <3>1 DEF KeyOf
    <3> QED
      BY <3>2 DEF Filed, HasFile
  <2> QED
    BY <2>1 DEF AllFiled
<1>6. Founded
  BY DEF Founded
<1>7. AllListed
  BY DEF AllListed, Acknowledged, Listed
<1>8. Leftovers
  BY DEF Leftovers
<1> QED
  BY <1>1, <1>2, <1>3, <1>4, <1>5, <1>6, <1>7, <1>8 DEF IInv

\* All parts together are inductive.
LEMMA InductiveStep == ASSUME IInv, [Next]_vars PROVE IInv'
<1>1. TypeOK'
  BY TypeStep DEF IInv
<1> QED
  BY <1>1, StepsStep, RowsStep, KeyedStep, AllFiledStep, FoundedStep, AllListedStep,
     LeftoversStep DEF IInv

\* It holds of every behaviour.
LEMMA Invariance == Spec => []IInv
<1>1. IInv /\ [Next]_vars => IInv'
  BY InductiveStep
<1> QED
  BY InitInv, <1>1, PTL DEF Spec

-----------------------------------------------------------------------------
(* What follows for the rows and the files.                                 *)

\* TypeOK: the rows of datasets, dataset_versions and metadata hang together
\* whatever is inserted, cleaned up, deleted or cut short.
THEOREM TypeCorrect == Spec => []TypeOK
<1>1. IInv => TypeOK
  BY DEF IInv
<1> QED
  BY Invariance, <1>1, PTL

\* FilelessVersionWasCleaned: a row without a file is the work of a cleanup, of
\* its own upload or of one with the same key, however uploads, deletions, lost
\* clients and crashes of either process are interleaved. An upload that came
\* through the gateway loses its file in no other way.
THEOREM FilesGoByCleanup == Spec => []FilelessVersionWasCleaned
<1>1. IInv => FilelessVersionWasCleaned
  <2> SUFFICES ASSUME IInv, NEW v \in versions, ~HasFile(v)
               PROVE  \E o \in Create \cup Add :
                        /\ KeyOf(o) = KeyOf(v) /\ Cleaned(o)
                        /\ o = v => pc[o] # "failed" \/ o \in uncleaned
    BY DEF FilelessVersionWasCleaned
  <2>1. v \in Version
    BY DEF IInv, TypeOK
  <2>2. Filed(v)
    BY <2>1 DEF IInv, AllFiled
  <2> QED
    BY <2>2 DEF Filed
<1> QED
  BY Invariance, <1>1, PTL

\* StrayFileHasAReason: the cleanup of one upload never deletes the row of
\* another that was reported, so a file without a row is explained.
THEOREM StraysAreExplained == Spec => []StrayFileHasAReason
<1>1. IInv => StrayFileHasAReason
  <2> SUFFICES ASSUME IInv, NEW x \in objects, x.content \notin versions,
                      Reported(x.content), DatasetOf(x.content) \in datasets
               PROVE  \E o \in Remove : Doomed[o] = x.content /\ Begun(o)
    BY DEF StrayFileHasAReason
  <2>1. x.content \in Version
    BY DEF IInv, Keyed
  <2>2. x.content \in Seed \/ (x.content \in Uploading /\ pc[x.content] = "ok")
    BY <2>1, OperationsAssumption DEF Reported, Version, Uploading, Op
  <2>3. Acknowledged(x.content)
    BY <2>2 DEF IInv, Rows, Acknowledged, Uploading
  <2>4. Listed(x.content)
    BY <2>1, <2>3 DEF IInv, AllListed
  <2> QED
    BY <2>4 DEF Listed
<1> QED
  BY Invariance, <1>1, PTL

\* FailureLeavesNothing: a failed creation or addition whose cleanup had no
\* failing call has left neither a row nor its object.
THEOREM FailuresLeaveNothing == Spec => []FailureLeavesNothing
<1>1. IInv => FailureLeavesNothing
  BY DEF IInv, Leftovers, FailureLeavesNothing
<1> QED
  BY Invariance, <1>1, PTL

-----------------------------------------------------------------------------
(* Numbers, dates and the files of versions that nothing disturbed.          *)

\* Two uploads to one dataset that are under way at once have made it crowded.
OneAtATime ==
  /\ cancelled \subseteq {o \in Op : Begun(o)}
  /\ \A o, p \in Uploading :
       o # p /\ DatasetOf(o) = DatasetOf(p) /\ UnderWay(o) /\ UnderWay(p)
         => DatasetOf(o) \in crowded

\* No two uploads have one date.
Dates ==
  /\ \A s \in Seed : date[s] = 0
  /\ \A v \in inserted : date[v] > 0
  /\ \A v, w \in Version : v # w /\ date[v] = date[w] => date[v] = 0

\* Nothing else happened to the dataset of v that may disturb its file.
Undisturbed(v) == DatasetOf(v) \notin crowded /\ ~Relayed(v)

\* A version of the gateway counts when its client was told of it.
Settled(v) == v \in Relay => pc[v] = "ok"

\* An upload that has its number is ahead of the versions that are there ...
Numbered == {"upload", "stamp", "insert", "metadata", "cleanObject"}
Ahead ==
  \A v \in versions, o \in Create \cup Add :
    /\ v # o /\ DatasetOf(v) = DatasetOf(o) /\ Settled(v) /\ Undisturbed(v)
    /\ UnderWay(o) /\ pc[o] \in Numbered
    => number[v] < number[o]

\* ... and so is its date, and that of a version whose client still waits.
Newest ==
  /\ \A v \in versions, o \in Create \cup Add :
       /\ v # o /\ DatasetOf(v) = DatasetOf(o) /\ Undisturbed(o)
       /\ UnderWay(o) /\ pc[o] = "insert"
       => date[v] < date[o]
  /\ \A v \in versions \ Relay, o \in versions \cap Relay :
       /\ DatasetOf(v) = DatasetOf(o) /\ Undisturbed(o) /\ pc[o] = "waiting"
       => date[v] < date[o]

\* NumbersFollowDates, for versions of the gateway as well.
Ordered ==
  \A v \in versions, w \in versions \ Relay :
    DatasetOf(v) = DatasetOf(w) /\ Settled(v) /\ Undisturbed(v) /\ date[v] < date[w]
      => number[v] < number[w]

\* An upload keeps its file from the moment it stored it, unless it is given up.
Secure(v) ==
  \/ v \in versions /\ (v \in Seed \/ pc[v] \in {"metadata", "ok"})
  \/ v \in Uploading /\ UnderWay(v) /\ pc[v] \in {"stamp", "insert", "publish", "waiting"}
Secured == \A v \in Version : Secure(v) /\ Undisturbed(v) => KeepsFile(v)

OrderInv == IInv /\ OneAtATime /\ Dates /\ Ahead /\ Newest /\ Ordered /\ Secured

\* A version that nothing disturbed has a number lower than the next one to be given.
LEMMA NextIsAhead ==
  ASSUME OrderInv, NEW d, NEW v \in versions, DatasetOf(v) = d, Settled(v), Undisturbed(v)
  PROVE  number[v] < NextVersionNumber(d)
<1> DEFINE f == FirstListed(d)
<1> USE DEF OrderInv, IInv, TypeOK
<1>1. v \in VersionsOf(d) /\ versions \subseteq Version
  BY DEF VersionsOf
<1>2. f \in VersionsOf(d) /\ date[v] <= date[f]
  BY <1>1, LatestExists
<1>3. /\ f \in versions /\ DatasetOf(f) = d /\ NextVersionNumber(d) = number[f] + 1
      /\ number[f] \in Nat /\ date[f] \in Nat /\ date[v] \in Nat
  BY <1>1, <1>2 DEF VersionsOf, NextVersionNumber
<1> HIDE DEF f
<1>4. CASE v = f
  BY <1>3, <1>4
<1>5. CASE v # f
  <2>1. f \notin Relay
    BY <1>3, <1>5, OperationsAssumption
       DEF Undisturbed, Relayed, Rows, Op, Uploading
  <2>2. date[v] # date[f]
    BY <1>1, <1>3, <1>5, DatasetOfUpload DEF Dates, Rows
  <2>3. date[v] < date[f]
    BY <1>2, <1>3, <2>2
  <2>4. number[v] < number[f]
    BY <1>3, <2>1, <2>3 DEF Ordered
  <2> QED
    BY <1>1, <1>3, <2>4
<1> QED
  BY <1>4, <1>5

\* An upload that begins while another is under way to the same dataset crowds it; no
\* other step puts an upload under way.
LEMMA OneAtATimeStep == ASSUME OrderInv, [Next]_vars PROVE OneAtATime'
<1> USE OperationsAssumption, DatasetOfUpload DEF OrderInv, IInv, Steps, OneAtATime,
       Begun, Running, UnderWay, Step, BeforeStamp, OwnCleanup, Op, Uploading
<1>1. ASSUME NEW o \in Op, InsertDataset(o) PROVE OneAtATime'
  BY <1>1 DEF InsertDataset, Start, Succeeds, Fails, Goto, rowVars
<1>2. ASSUME NEW o \in Op, FindDataset(o) PROVE OneAtATime'
  BY <1>2 DEF FindDataset, Start, Succeeds, Fails, Goto, rowVars
<1>3. ASSUME NEW o \in Op, ListVersions(o) PROVE OneAtATime'
  BY <1>3 DEF ListVersions, Succeeds, Fails, Goto, rowVars
<1>4. ASSUME NEW o \in Op, Upload(o) PROVE OneAtATime'
  BY <1>4 DEF Upload, Succeeds, Fails, Goto, Put, rowVars
<1>5. ASSUME NEW o \in Op, Stamp(o) PROVE OneAtATime'
  BY <1>5 DEF Stamp, Goto, rowVars
<1>6. ASSUME NEW o \in Op, InsertVersion(o) PROVE OneAtATime'
  BY <1>6 DEF InsertVersion, Succeeds, Fails, Goto, rowVars
<1>7. ASSUME NEW o \in Op, PersistMetadata(o) PROVE OneAtATime'
  BY <1>7 DEF PersistMetadata, Succeeds, Fails, Goto, rowVars
<1>8. ASSUME NEW o \in Op, CleanObject(o) PROVE OneAtATime'
  BY <1>8 DEF CleanObject, Succeeds, Fails, Goto, AfterCleanObject, rowVars
<1>9. ASSUME NEW o \in Op, CleanVersion(o) PROVE OneAtATime'
  BY <1>9 DEF CleanVersion, Succeeds, Fails, Goto, rowVars
<1>10. ASSUME NEW o \in Op, CleanDataset(o) PROVE OneAtATime'
  BY <1>10 DEF CleanDataset, Succeeds, Fails, Goto, DropDataset, VersionsOf, rowVars
<1>11. ASSUME NEW o \in Op, StoreFile(o) PROVE OneAtATime'
  BY <1>11 DEF StoreFile, Start, Succeeds, Fails, Goto, Put, rowVars
<1>12. ASSUME NEW o \in Op, Publish(o) PROVE OneAtATime'
  BY <1>12 DEF Publish, Succeeds, Fails, Goto, rowVars
<1>13. ASSUME NEW o \in Op, VersionAdded(o) PROVE OneAtATime'
  BY <1>13 DEF VersionAdded, rowVars
<1>14. ASSUME NEW o \in Op, AddAnswered(o) PROVE OneAtATime'
  BY <1>14 DEF AddAnswered, Goto, rowVars
<1>15. ASSUME NEW o \in Op, DeleteVersion(o) PROVE OneAtATime'
  BY <1>15 DEF DeleteVersion, Goto, rowVars
<1>16. ASSUME NEW o \in Op, DeleteDataset(o) PROVE OneAtATime'
  BY <1>16 DEF DeleteDataset, Succeeds, Fails, Goto, DropDataset, VersionsOf, rowVars
<1>17. ASSUME NEW o \in Op, Disconnect(o) PROVE OneAtATime'
  BY <1>17 DEF Disconnect, Running, rowVars
<1>18. CASE Crash
  BY <1>18 DEF Crash, Running, rowVars
<1>19. CASE UNCHANGED vars
  BY <1>19 DEF vars, rowVars
<1> QED
  BY <1>1, <1>2, <1>3, <1>4, <1>5, <1>6, <1>7, <1>8, <1>9, <1>10, <1>11, <1>12, <1>13,
     <1>14, <1>15, <1>16, <1>17, <1>18, <1>19 DEF Next

\* The clock advances with each stamp, on the API and in the data service.
LEMMA DatesStep == ASSUME OrderInv, [Next]_vars PROVE Dates'
<1> USE OperationsAssumption, DatasetOfUpload DEF OrderInv, IInv, Steps, Rows, TypeOK,
       Dates, Begun, Step, BeforeStamp, OwnCleanup, Op, Uploading, Version
<1>1. ASSUME NEW o \in Op, InsertDataset(o) PROVE Dates'
  BY <1>1 DEF InsertDataset, Start, Succeeds, Fails, Goto, rowVars
<1>2. ASSUME NEW o \in Op, FindDataset(o) PROVE Dates'
  BY <1>2 DEF FindDataset, Start, Succeeds, Fails, Goto, rowVars
<1>3. ASSUME NEW o \in Op, ListVersions(o) PROVE Dates'
  BY <1>3 DEF ListVersions, Succeeds, Fails, Goto, rowVars
<1>4. ASSUME NEW o \in Op, Upload(o) PROVE Dates'
  BY <1>4 DEF Upload, Succeeds, Fails, Goto, Put, rowVars
<1>5. ASSUME NEW o \in Op, Stamp(o) PROVE Dates'
  BY <1>5 DEF Stamp, Goto, rowVars
<1>6. ASSUME NEW o \in Op, InsertVersion(o) PROVE Dates'
  BY <1>6 DEF InsertVersion, Succeeds, Fails, Goto, rowVars
<1>7. ASSUME NEW o \in Op, PersistMetadata(o) PROVE Dates'
  BY <1>7 DEF PersistMetadata, Succeeds, Fails, Goto, rowVars
<1>8. ASSUME NEW o \in Op, CleanObject(o) PROVE Dates'
  BY <1>8 DEF CleanObject, Succeeds, Fails, Goto, AfterCleanObject, rowVars
<1>9. ASSUME NEW o \in Op, CleanVersion(o) PROVE Dates'
  BY <1>9 DEF CleanVersion, Succeeds, Fails, Goto, rowVars
<1>10. ASSUME NEW o \in Op, CleanDataset(o) PROVE Dates'
  BY <1>10 DEF CleanDataset, Succeeds, Fails, Goto, DropDataset, VersionsOf, rowVars
<1>11. ASSUME NEW o \in Op, StoreFile(o) PROVE Dates'
  BY <1>11 DEF StoreFile, Start, Succeeds, Fails, Goto, Put, rowVars
<1>12. ASSUME NEW o \in Op, Publish(o) PROVE Dates'
  BY <1>12 DEF Publish, Succeeds, Fails, Goto, rowVars
<1>13. ASSUME NEW o \in Op, VersionAdded(o) PROVE Dates'
  BY <1>13 DEF VersionAdded, rowVars
<1>14. ASSUME NEW o \in Op, AddAnswered(o) PROVE Dates'
  BY <1>14 DEF AddAnswered, Goto, rowVars
<1>15. ASSUME NEW o \in Op, DeleteVersion(o) PROVE Dates'
  BY <1>15 DEF DeleteVersion, Goto, rowVars
<1>16. ASSUME NEW o \in Op, DeleteDataset(o) PROVE Dates'
  BY <1>16 DEF DeleteDataset, Succeeds, Fails, Goto, DropDataset, VersionsOf, rowVars
<1>17. ASSUME NEW o \in Op, Disconnect(o) PROVE Dates'
  BY <1>17 DEF Disconnect, Running, rowVars
<1>18. CASE Crash
  BY <1>18 DEF Crash, Running, rowVars
<1>19. CASE UNCHANGED vars
  BY <1>19 DEF vars, rowVars
<1> QED
  BY <1>1, <1>2, <1>3, <1>4, <1>5, <1>6, <1>7, <1>8, <1>9, <1>10, <1>11, <1>12, <1>13,
     <1>14, <1>15, <1>16, <1>17, <1>18, <1>19 DEF Next

\* A version that nothing disturbed has a number lower than the next one to be given.

\* ListVersions puts the new number ahead of all others; a version that comes to be
\* listed, or to count, while the upload is under way means two at once.
LEMMA AheadStep == ASSUME OrderInv, [Next]_vars PROVE Ahead'
<1> USE OperationsAssumption, DatasetOfUpload DEF OrderInv, IInv, TypeOK, Steps, Rows,
       Founded, OneAtATime, Ahead, Begun, Running, UnderWay, Undisturbed, Relayed,
       Settled, Numbered, Step, BeforeStamp, OwnCleanup, Op, Uploading, Version, Dataset
<1>1. ASSUME NEW o \in Op, InsertDataset(o) PROVE Ahead'
  BY <1>1 DEF InsertDataset, Start, Succeeds, Fails, Goto, rowVars
<1>2. ASSUME NEW o \in Op, FindDataset(o) PROVE Ahead'
  BY <1>2 DEF FindDataset, Start, Succeeds, Fails, Goto, rowVars
<1>3. ASSUME NEW o \in Op, ListVersions(o) PROVE Ahead'
  <2>1. /\ pc[o] = "list" /\ o \in Add
        /\ UNCHANGED <<versions, crowded, cancelled>>
        /\ \E s \in {"upload", "failed"} : pc' = [pc EXCEPT ![o] = s]
    BY <1>3 DEF ListVersions, Succeeds, Fails, Goto, rowVars
  <2>2. o \notin versions
    BY <2>1
  <2>3. /\ number' = number \/ number' = [number EXCEPT ![o] = NextVersionNumber(DatasetOf(o))]
        /\ pc'[o] = "upload" => number'[o] = NextVersionNumber(DatasetOf(o))
    BY <1>3, <2>1 DEF ListVersions, Succeeds, Fails, Goto, rowVars
  <2>4. ASSUME NEW v \in versions, NEW p \in Create \cup Add,
               (/\ v # p /\ DatasetOf(v) = DatasetOf(p) /\ Settled(v) /\ Undisturbed(v)
                /\ UnderWay(p) /\ pc[p] \in Numbered)'
        PROVE  number'[v] < number'[p]
    <3>1. Settled(v) /\ Undisturbed(v) /\ number'[v] = number[v]
      BY <2>1, <2>2, <2>3, <2>4
    <3>2. CASE p = o
      BY <2>1, <2>3, <2>4, <3>1, <3>2, NextIsAhead
    <3>3. CASE p # o
      BY <2>1, <2>3, <2>4, <3>1, <3>3
    <3> QED
      BY <3>2, <3>3
  <2> QED
    BY <2>1, <2>4
<1>4. ASSUME NEW o \in Op, Upload(o) PROVE Ahead'
  BY <1>4 DEF Upload, Succeeds, Fails, Goto, Put, rowVars
<1>5. ASSUME NEW o \in Op, Stamp(o) PROVE Ahead'
  BY <1>5 DEF Stamp, Goto, rowVars
<1>6. ASSUME NEW o \in Op, InsertVersion(o) PROVE Ahead'
  BY <1>6 DEF InsertVersion, Succeeds, Fails, Goto, rowVars
<1>7. ASSUME NEW o \in Op, PersistMetadata(o) PROVE Ahead'
  BY <1>7 DEF PersistMetadata, Succeeds, Fails, Goto, rowVars
<1>8. ASSUME NEW o \in Op, CleanObject(o) PROVE Ahead'
  BY <1>8 DEF CleanObject, Succeeds, Fails, Goto, AfterCleanObject, rowVars
<1>9. ASSUME NEW o \in Op, CleanVersion(o) PROVE Ahead'
  BY <1>9 DEF CleanVersion, Succeeds, Fails, Goto, rowVars
<1>10. ASSUME NEW o \in Op, CleanDataset(o) PROVE Ahead'
  BY <1>10 DEF CleanDataset, Succeeds, Fails, Goto, DropDataset, VersionsOf, rowVars
<1>11. ASSUME NEW o \in Op, StoreFile(o) PROVE Ahead'
  BY <1>11 DEF StoreFile, Start, Succeeds, Fails, Goto, Put, rowVars
<1>12. ASSUME NEW o \in Op, Publish(o) PROVE Ahead'
  BY <1>12 DEF Publish, Succeeds, Fails, Goto, rowVars
<1>13. ASSUME NEW o \in Op, VersionAdded(o) PROVE Ahead'
  BY <1>13 DEF VersionAdded, rowVars
<1>14. ASSUME NEW o \in Op, AddAnswered(o) PROVE Ahead'
  BY <1>14 DEF AddAnswered, Goto, rowVars
<1>15. ASSUME NEW o \in Op, DeleteVersion(o) PROVE Ahead'
  BY <1>15 DEF DeleteVersion, Goto, rowVars
<1>16. ASSUME NEW o \in Op, DeleteDataset(o) PROVE Ahead'
  BY <1>16 DEF DeleteDataset, Succeeds, Fails, Goto, DropDataset, VersionsOf, rowVars
<1>17. ASSUME NEW o \in Op, Disconnect(o) PROVE Ahead'
  BY <1>17 DEF Disconnect, Running, rowVars
<1>18. CASE Crash
  BY <1>18 DEF Crash, Running, rowVars
<1>19. CASE UNCHANGED vars
  BY <1>19 DEF vars, rowVars
<1> QED
  BY <1>1, <1>2, <1>3, <1>4, <1>5, <1>6, <1>7, <1>8, <1>9, <1>10, <1>11, <1>12, <1>13,
     <1>14, <1>15, <1>16, <1>17, <1>18, <1>19 DEF Next

\* A stamp is newer than all that are there, and until its row is in nothing comes
\* between that leaves the dataset undisturbed.
LEMMA NewestStep == ASSUME OrderInv, [Next]_vars PROVE Newest'
<1> USE OperationsAssumption, DatasetOfUpload DEF OrderInv, IInv, TypeOK, Steps, Rows,
       OneAtATime, Newest, Begun, Running, UnderWay, Undisturbed, Relayed, Step,
       BeforeStamp, OwnCleanup, Op, Uploading, Version, Dataset
<1>1. ASSUME NEW o \in Op, InsertDataset(o) PROVE Newest'
  BY <1>1 DEF InsertDataset, Start, Succeeds, Fails, Goto, rowVars
<1>2. ASSUME NEW o \in Op, FindDataset(o) PROVE Newest'
  BY <1>2 DEF FindDataset, Start, Succeeds, Fails, Goto, rowVars
<1>3. ASSUME NEW o \in Op, ListVersions(o) PROVE Newest'
  BY <1>3 DEF ListVersions, Succeeds, Fails, Goto, rowVars
<1>4. ASSUME NEW o \in Op, Upload(o) PROVE Newest'
  BY <1>4 DEF Upload, Succeeds, Fails, Goto, Put, rowVars
<1>5. ASSUME NEW o \in Op, Stamp(o) PROVE Newest'
  BY <1>5 DEF Stamp, Goto, rowVars
<1>6. ASSUME NEW o \in Op, InsertVersion(o) PROVE Newest'
  BY <1>6 DEF InsertVersion, Succeeds, Fails, Goto, rowVars
<1>7. ASSUME NEW o \in Op, PersistMetadata(o) PROVE Newest'
  BY <1>7 DEF PersistMetadata, Succeeds, Fails, Goto, rowVars
<1>8. ASSUME NEW o \in Op, CleanObject(o) PROVE Newest'
  BY <1>8 DEF CleanObject, Succeeds, Fails, Goto, AfterCleanObject, rowVars
<1>9. ASSUME NEW o \in Op, CleanVersion(o) PROVE Newest'
  BY <1>9 DEF CleanVersion, Succeeds, Fails, Goto, rowVars
<1>10. ASSUME NEW o \in Op, CleanDataset(o) PROVE Newest'
  BY <1>10 DEF CleanDataset, Succeeds, Fails, Goto, DropDataset, VersionsOf, rowVars
<1>11. ASSUME NEW o \in Op, StoreFile(o) PROVE Newest'
  BY <1>11 DEF StoreFile, Start, Succeeds, Fails, Goto, Put, rowVars
<1>12. ASSUME NEW o \in Op, Publish(o) PROVE Newest'
  BY <1>12 DEF Publish, Succeeds, Fails, Goto, rowVars
<1>13. ASSUME NEW o \in Op, VersionAdded(o) PROVE Newest'
  BY <1>13 DEF VersionAdded, rowVars
<1>14. ASSUME NEW o \in Op, AddAnswered(o) PROVE Newest'
  BY <1>14 DEF AddAnswered, Goto, rowVars
<1>15. ASSUME NEW o \in Op, DeleteVersion(o) PROVE Newest'
  BY <1>15 DEF DeleteVersion, Goto, rowVars
<1>16. ASSUME NEW o \in Op, DeleteDataset(o) PROVE Newest'
  BY <1>16 DEF DeleteDataset, Succeeds, Fails, Goto, DropDataset, VersionsOf, rowVars
<1>17. ASSUME NEW o \in Op, Disconnect(o) PROVE Newest'
  BY <1>17 DEF Disconnect, Running, rowVars
<1>18. CASE Crash
  BY <1>18 DEF Crash, Running, rowVars
<1>19. CASE UNCHANGED vars
  BY <1>19 DEF vars, rowVars
<1> QED
  BY <1>1, <1>2, <1>3, <1>4, <1>5, <1>6, <1>7, <1>8, <1>9, <1>10, <1>11, <1>12, <1>13,
     <1>14, <1>15, <1>16, <1>17, <1>18, <1>19 DEF Next

\* A row is inserted with a number ahead of the others and the newest date.
LEMMA OrderedStep == ASSUME OrderInv, [Next]_vars PROVE Ordered'
<1> USE OperationsAssumption, DatasetOfUpload DEF OrderInv, IInv, TypeOK, Steps, Rows,
       OneAtATime, Ahead, Newest, Ordered, Begun, Running, UnderWay, Undisturbed,
       Relayed, Settled, Numbered, Step, BeforeStamp, OwnCleanup, Op, Uploading,
       Version, Dataset
<1>1. ASSUME NEW o \in Op, InsertDataset(o) PROVE Ordered'
  BY <1>1 DEF InsertDataset, Start, Succeeds, Fails, Goto, rowVars
<1>2. ASSUME NEW o \in Op, FindDataset(o) PROVE Ordered'
  BY <1>2 DEF FindDataset, Start, Succeeds, Fails, Goto, rowVars
<1>3. ASSUME NEW o \in Op, ListVersions(o) PROVE Ordered'
  BY <1>3 DEF ListVersions, Succeeds, Fails, Goto, rowVars
<1>4. ASSUME NEW o \in Op, Upload(o) PROVE Ordered'
  BY <1>4 DEF Upload, Succeeds, Fails, Goto, Put, rowVars
<1>5. ASSUME NEW o \in Op, Stamp(o) PROVE Ordered'
  BY <1>5 DEF Stamp, Goto, rowVars
<1>6. ASSUME NEW o \in Op, InsertVersion(o) PROVE Ordered'
  BY <1>6 DEF InsertVersion, Succeeds, Fails, Goto, rowVars
<1>7. ASSUME NEW o \in Op, PersistMetadata(o) PROVE Ordered'
  BY <1>7 DEF PersistMetadata, Succeeds, Fails, Goto, rowVars
<1>8. ASSUME NEW o \in Op, CleanObject(o) PROVE Ordered'
  BY <1>8 DEF CleanObject, Succeeds, Fails, Goto, AfterCleanObject, rowVars
<1>9. ASSUME NEW o \in Op, CleanVersion(o) PROVE Ordered'
  BY <1>9 DEF CleanVersion, Succeeds, Fails, Goto, rowVars
<1>10. ASSUME NEW o \in Op, CleanDataset(o) PROVE Ordered'
  BY <1>10 DEF CleanDataset, Succeeds, Fails, Goto, DropDataset, VersionsOf, rowVars
<1>11. ASSUME NEW o \in Op, StoreFile(o) PROVE Ordered'
  BY <1>11 DEF StoreFile, Start, Succeeds, Fails, Goto, Put, rowVars
<1>12. ASSUME NEW o \in Op, Publish(o) PROVE Ordered'
  BY <1>12 DEF Publish, Succeeds, Fails, Goto, rowVars
<1>13. ASSUME NEW o \in Op, VersionAdded(o) PROVE Ordered'
  BY <1>13 DEF VersionAdded, rowVars
<1>14. ASSUME NEW o \in Op, AddAnswered(o) PROVE Ordered'
  BY <1>14 DEF AddAnswered, Goto, rowVars
<1>15. ASSUME NEW o \in Op, DeleteVersion(o) PROVE Ordered'
  BY <1>15 DEF DeleteVersion, Goto, rowVars
<1>16. ASSUME NEW o \in Op, DeleteDataset(o) PROVE Ordered'
  BY <1>16 DEF DeleteDataset, Succeeds, Fails, Goto, DropDataset, VersionsOf, rowVars
<1>17. ASSUME NEW o \in Op, Disconnect(o) PROVE Ordered'
  BY <1>17 DEF Disconnect, Running, rowVars
<1>18. CASE Crash
  BY <1>18 DEF Crash, Running, rowVars
<1>19. CASE UNCHANGED vars
  BY <1>19 DEF vars, rowVars
<1> QED
  BY <1>1, <1>2, <1>3, <1>4, <1>5, <1>6, <1>7, <1>8, <1>9, <1>10, <1>11, <1>12, <1>13,
     <1>14, <1>15, <1>16, <1>17, <1>18, <1>19 DEF Next

\* A file is overwritten or deleted under its own key only; an upload that may do so to
\* the file of another has the same number, which Ahead and OneAtATime exclude.
LEMMA SecuredStep == ASSUME OrderInv, [Next]_vars PROVE Secured'
<1> USE OperationsAssumption, DatasetOfUpload DEF OrderInv, IInv, TypeOK, Steps, Rows,
       OneAtATime, Ahead, Secured, Begun, Running, UnderWay, Undisturbed, Relayed,
       Settled, Numbered, Secure, Step, BeforeStamp, OwnCleanup, Op, Uploading, Version,
       Dataset, KeepsFile, KeyOf, ObjectKey
<1>1. ASSUME NEW o \in Op, InsertDataset(o) PROVE Secured'
  BY <1>1 DEF InsertDataset, Start, Succeeds, Fails, Goto, rowVars
<1>2. ASSUME NEW o \in Op, FindDataset(o) PROVE Secured'
  BY <1>2 DEF FindDataset, Start, Succeeds, Fails, Goto, rowVars
<1>3. ASSUME NEW o \in Op, ListVersions(o) PROVE Secured'
  BY <1>3 DEF ListVersions, Succeeds, Fails, Goto, rowVars
<1>4. ASSUME NEW o \in Op, Upload(o) PROVE Secured'
  BY <1>4 DEF Upload, Succeeds, Fails, Goto, Put, rowVars
<1>5. ASSUME NEW o \in Op, Stamp(o) PROVE Secured'
  BY <1>5 DEF Stamp, Goto, rowVars
<1>6. ASSUME NEW o \in Op, InsertVersion(o) PROVE Secured'
  BY <1>6 DEF InsertVersion, Succeeds, Fails, Goto, rowVars
<1>7. ASSUME NEW o \in Op, PersistMetadata(o) PROVE Secured'
  BY <1>7 DEF PersistMetadata, Succeeds, Fails, Goto, rowVars
<1>8. ASSUME NEW o \in Op, CleanObject(o) PROVE Secured'
  BY <1>8 DEF CleanObject, Succeeds, Fails, Goto, AfterCleanObject, rowVars
<1>9. ASSUME NEW o \in Op, CleanVersion(o) PROVE Secured'
  BY <1>9 DEF CleanVersion, Succeeds, Fails, Goto, rowVars
<1>10. ASSUME NEW o \in Op, CleanDataset(o) PROVE Secured'
  BY <1>10 DEF CleanDataset, Succeeds, Fails, Goto, DropDataset, VersionsOf, rowVars
<1>11. ASSUME NEW o \in Op, StoreFile(o) PROVE Secured'
  BY <1>11 DEF StoreFile, Start, Succeeds, Fails, Goto, Put, rowVars
<1>12. ASSUME NEW o \in Op, Publish(o) PROVE Secured'
  BY <1>12 DEF Publish, Succeeds, Fails, Goto, rowVars
<1>13. ASSUME NEW o \in Op, VersionAdded(o) PROVE Secured'
  BY <1>13 DEF VersionAdded, rowVars
<1>14. ASSUME NEW o \in Op, AddAnswered(o) PROVE Secured'
  BY <1>14 DEF AddAnswered, Goto, rowVars
<1>15. ASSUME NEW o \in Op, DeleteVersion(o) PROVE Secured'
  BY <1>15 DEF DeleteVersion, Goto, rowVars
<1>16. ASSUME NEW o \in Op, DeleteDataset(o) PROVE Secured'
  BY <1>16 DEF DeleteDataset, Succeeds, Fails, Goto, DropDataset, VersionsOf, rowVars
<1>17. ASSUME NEW o \in Op, Disconnect(o) PROVE Secured'
  BY <1>17 DEF Disconnect, Running, rowVars
<1>18. CASE Crash
  BY <1>18 DEF Crash, Running, rowVars
<1>19. CASE UNCHANGED vars
  BY <1>19 DEF vars, rowVars
<1> QED
  BY <1>1, <1>2, <1>3, <1>4, <1>5, <1>6, <1>7, <1>8, <1>9, <1>10, <1>11, <1>12, <1>13,
     <1>14, <1>15, <1>16, <1>17, <1>18, <1>19 DEF Next

\* At first the seeds are the only versions, one in each dataset.
LEMMA InitOrder == Init => OrderInv
<1> SUFFICES ASSUME Init PROVE OrderInv
  OBVIOUS
<1> USE OperationsAssumption, DatasetOfUpload
        DEF Init, Op, Uploading, Version, Dataset, Begun, Running, UnderWay
<1>1. OneAtATime
  BY DEF OneAtATime
<1>2. Dates
  BY DEF Dates
<1>3. Ahead
  BY DEF Ahead
<1>4. Newest
  BY DEF Newest
<1>5. Ordered
  BY DEF Ordered
<1>6. Secured
  BY DEF Secured, Secure, KeepsFile, KeyOf
<1> QED
  BY <1>1, <1>2, <1>3, <1>4, <1>5, <1>6, InitInv DEF OrderInv

\* All parts together are inductive.
LEMMA OrderInvariance == Spec => []OrderInv
<1>1. OrderInv /\ [Next]_vars => OrderInv'
  <2> SUFFICES ASSUME OrderInv, [Next]_vars PROVE OrderInv'
    OBVIOUS
  <2>1. IInv'
    BY InductiveStep DEF OrderInv
  <2> QED
    BY <2>1, OneAtATimeStep, DatesStep, AheadStep, NewestStep, OrderedStep, SecuredStep
       DEF OrderInv
<1> QED
  BY InitOrder, <1>1, PTL DEF Spec

\* NumbersFollowDates: nextVersionNumber, which reads one row, keeps the numbers of a
\* dataset in the order of the dates, whatever failed, was cleaned up, crashed or was
\* deleted in between, as long as uploads do not cross or come through the gateway.
THEOREM NumbersAreOrdered == Spec => []NumbersFollowDates
<1>1. OrderInv => NumbersFollowDates
  BY DEF OrderInv, Ordered, NumbersFollowDates, Undisturbed, Settled
<1> QED
  BY OrderInvariance, <1>1, PTL

\* LoneSuccessKeepsFile: under the same conditions a version whose upload was reported
\* successful has the file that was uploaded, for as long as it is listed.
THEOREM SuccessIsKept == Spec => []LoneSuccessKeepsFile
<1>1. OrderInv => LoneSuccessKeepsFile
  <2> SUFFICES ASSUME OrderInv, NEW v \in versions, Reported(v),
                      DatasetOf(v) \notin crowded, ~Relayed(v)
               PROVE  KeepsFile(v)
    BY DEF LoneSuccessKeepsFile
  <2>1. v \in Version
    BY DEF OrderInv, IInv, TypeOK
  <2>2. Secure(v) /\ Undisturbed(v)
    BY DEF Reported, Secure, Undisturbed
  <2> QED
    BY <2>1, <2>2 DEF OrderInv, Secured
<1> QED
  BY OrderInvariance, <1>1, PTL
=============================================================================
