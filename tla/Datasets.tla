------------------------------ MODULE Datasets ------------------------------
(***************************************************************************)
(* Datasets as rows: PATCH and DELETE of /api/v2/datasets/{id}, the lists   *)
(* and views that show them, and the digests (summary, fun fact) that go to *)
(* a service outside. Their versions and files are in DatasetUpload.        *)
(***************************************************************************)
EXTENDS Requests

\* UpdateDataset and DeleteDataset of version 2 read the dataset and its owner.
ReadOwnDataset(o) ==
  /\ Resource(o) = "datasets" /\ Method(o) \in {"PATCH", "DELETE"}
  /\ ReadRow(o, DatasetOwnerOrAdmin(o, Row(o)), IF Method(o) = "PATCH" THEN "reload" ELSE "write")

\* UpdateDataset of the service takes every failure to read for a missing row.
ReloadDataset(o) == Resource(o) = "datasets" /\ ReloadRow(o, "write", "notFound")

\* Mutation: a dataset becomes private unless the request says otherwise.
DatasetUpdatedPrivate(o) ==
  [Filled(o, seen[o]) EXCEPT !.public = "public" \in Asked(o) /\ Body(o).public]

\* buildUpdateDatasetCmd
DatasetUpdated(o) == Filled(o, seen[o])

\* A dataset that went away since is an internal error, as is a missing category.
WriteDataset(o) ==
  /\ At(o, "write") /\ Is(o, "PATCH", "datasets")
  /\ \E r \in {"ok", "none", "error"} :
       /\ UpdateDatasetRow(On(o), DatasetUpdated(o), r)
       /\ Done(o, r, [ok |-> "show", none |-> "error", error |-> "error"])
  /\ UNCHANGED <<seen, loaded, todo>>

\* fullDatasetResponse; of its three reads the first can miss.
ShowDataset(o) == Resource(o) = "datasets" /\ ShowRow(o)

DeleteDataset(o) ==
  /\ At(o, "write") /\ Is(o, "DELETE", "datasets")
  /\ \E r \in {"ok", "none"} :
       /\ DeleteDatasetRow(On(o), r)
       /\ Done(o, r, [ok |-> "ok", none |-> "notFound"])
  /\ UNCHANGED <<seen, loaded, todo>>

-----------------------------------------------------------------------------
(* Lists and views.                                                        *)

\* ListDatasets of the service: one of three queries.
Queried(o) ==
  IF OwnerFilter(o) # {} THEN UNION {DatasetsOf(u) : u \in OwnerFilter(o)}
  ELSE IF Anonymous(o) THEN PublicDatasets ELSE AllDatasets

\* collectDatasetViews. The filters on category, text and rating leave more out.
Viewed(o) ==
  {d \in Queried(o) :
     /\ PublicFilter(o) \subseteq {db.datasets[d].public}
     /\ DatasetReadable(o, db.datasets[d])}

\* The rows are read at once, their ratings one by one afterwards.
ListDatasets(o) ==
  At(o, "list") /\ Is(o, "GET", "datasets")
    /\ Shows(o, Viewed(o), IF Viewed(o) = {} THEN "ok" ELSE "ratings")

\* GetDataset
GetDataset(o) ==
  /\ At(o, "read") /\ Is(o, "GET", "dataset")
  /\ IF ~HasRow(o) THEN Goto(o, "notFound") /\ Reads
     ELSE IF ~DatasetReadable(o, Row(o)) THEN Goto(o, "forbidden") /\ Reads
     ELSE Shows(o, {On(o)}, "ratings")

\* GetRatingSummary and latestVersion, for what is shown already
Rate(o) == At(o, "ratings") /\ Goto(o, "ok") /\ Reads

\* GetDatasetSummary and GetDatasetFunFact check access ...
CheckDigest(o) ==
  Is(o, "GET", "digest") /\ ReadRow(o, DatasetReadable(o, Row(o)), "digest")

\* ... and their services read the dataset again before they call out.
Digest(o) ==
  /\ At(o, "digest")
  /\ IF HasRow(o) THEN Shows(o, {On(o)}, "provider") ELSE Goto(o, "notFound") /\ Reads

\* The answer from outside
Provided(o) == At(o, "provider") /\ Goto(o, "ok") /\ Reads

NextDatasets(o) ==
  \/ ReadOwnDataset(o) \/ ReloadDataset(o) \/ WriteDataset(o) \/ ShowDataset(o)
  \/ DeleteDataset(o) \/ ListDatasets(o) \/ GetDataset(o) \/ Rate(o)
  \/ CheckDigest(o) \/ Digest(o) \/ Provided(o)
=============================================================================
