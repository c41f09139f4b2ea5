--------------------------- MODULE AccessRequests ---------------------------
(***************************************************************************)
(* Asking for access to a private dataset and deciding about it:            *)
(* accessService (internal/services/access_service_impl.go) as the handlers *)
(* of internal/delivery/http/v2/access_requests.go call it. An operation is *)
(* one HTTP request; each of its calls to the database is a step, and other *)
(* requests come in between. There is at most one row per dataset and user  *)
(* (UNIQUE in migrations/2_add.up.sql), so the pair names the row.          *)
(***************************************************************************)
EXTENDS Naturals, FiniteSets

CONSTANTS
  Dataset, User,
  Owner,        \* datasets.owner_id
  Admin,        \* the users with the role of an administrator
  Ask, Decide,  \* the operations: POST and PATCH
  Actor,        \* the user behind each operation
  Target,       \* the row each operation is about, <<dataset, user>>
  Verdict,      \* "approved" or "denied", for each Decide
  MaxFaults     \* bound on failing calls

Op == Ask \cup Decide
Row == Dataset \X User
Status == {"pending", "approved", "denied"}

ASSUME OperationsAssumption ==
  /\ Ask \cap Decide = {}
  /\ Owner \in [Dataset -> User] /\ Admin \subseteq User
  /\ Actor \in [Op -> User] /\ Target \in [Op -> Row]
  /\ \A o \in Ask : Target[o][2] = Actor[o]
  /\ Verdict \in [Decide -> {"approved", "denied"}]
  /\ MaxFaults \in Nat

VARIABLES
  pc,         \* the step each operation is at, or its answer
  shown,      \* the status in the answer of an operation
  datasets,   \* table datasets
  public,     \* datasets.is_public
  requests,   \* table access_requests: the status of each row, or "none"
  overtaken,  \* history: the asks about to reset a row when it was approved
  faults      \* failing calls so far

tables == <<datasets, public, requests>>
vars == <<pc, shown, tables, overtaken, faults>>

Init ==
  /\ pc = [o \in Op |-> "ready"]
  /\ shown = [o \in Op |-> "none"]
  /\ datasets = Dataset
  /\ public = {}
  /\ requests = [k \in Row |-> "none"]
  /\ overtaken = [k \in Row |-> {}]
  /\ faults = 0

DatasetOf(o) == Target[o][1]
Exists(o) == requests[Target[o]] # "none"
Goto(o, step) == pc' = [pc EXCEPT ![o] = step]

Succeeds == UNCHANGED faults
Fails == faults < MaxFaults /\ faults' = faults + 1

\* UpdateStatus writes whatever status the row has; it fails without a row.
SetStatus(o, status) ==
  /\ Succeeds
  /\ Exists(o)
  /\ requests' = [requests EXCEPT ![Target[o]] = status]

StatusNotSet(o) == ((Succeeds /\ ~Exists(o)) \/ Fails) /\ UNCHANGED requests

-----------------------------------------------------------------------------
(* CreateAccessRequest.                                                    *)

\* dsRepo.FindByID; every error of it is "not found".
FindDataset(o) ==
  /\ o \in Ask /\ pc[o] = "ready"
  /\ LET d == DatasetOf(o) IN
     \/ Succeeds /\ d \in datasets /\ d \notin public /\ Owner[d] # Actor[o] /\ Goto(o, "find")
     \/ Succeeds /\ d \in datasets /\ (d \in public \/ Owner[d] = Actor[o])
          /\ Goto(o, "badRequest")
     \/ ((Succeeds /\ d \notin datasets) \/ Fails) /\ Goto(o, "notFound")
  /\ UNCHANGED <<shown, tables, overtaken>>

\* Mutation: a request that was approved can be asked for again, too.
AppealableAnyDecision == {"denied", "approved"}

\* The status an ask may reset.
Appealable == {"denied"}

\* arRepo.Find: an error counts as "no request yet".
FindRequest(o) ==
  /\ pc[o] = "find"
  /\ \/ Succeeds /\ requests[Target[o]] \in Appealable /\ Goto(o, "reset")
     \/ Succeeds /\ Exists(o) /\ requests[Target[o]] \notin Appealable /\ Goto(o, "conflict")
     \/ ((Succeeds /\ ~Exists(o)) \/ Fails) /\ Goto(o, "insert")
  /\ UNCHANGED <<shown, tables, overtaken>>

\* arRepo.Create: the unique constraint and the foreign key turn others away.
InsertRequest(o) ==
  /\ pc[o] = "insert"
  /\ \/ /\ Succeeds /\ ~Exists(o) /\ DatasetOf(o) \in datasets
        /\ requests' = [requests EXCEPT ![Target[o]] = "pending"]
        /\ Goto(o, "show")
     \/ /\ (Succeeds /\ (Exists(o) \/ DatasetOf(o) \notin datasets)) \/ Fails
        /\ Goto(o, "error")
        /\ UNCHANGED requests
  /\ UNCHANGED <<shown, datasets, public, overtaken>>

\* The denied request is pending again.
ResetRequest(o) ==
  /\ pc[o] = "reset"
  /\ \/ SetStatus(o, "pending") /\ Goto(o, "show")
     \/ StatusNotSet(o) /\ Goto(o, "error")
  /\ UNCHANGED <<shown, datasets, public, overtaken>>

-----------------------------------------------------------------------------
(* UpdateAccessRequest.                                                    *)

\* ensureAccessUpdateAllowed, in the handler.
HandlerAllows(o) == Owner[DatasetOf(o)] = Actor[o] \/ Actor[o] \in Admin

\* Mutation: the service leaves the check to the handler.
ServiceAllowsAnyone(o) == TRUE

\* Approve and Deny, in the service.
ServiceAllows(o) == Owner[DatasetOf(o)] = Actor[o]

\* The reads of handler and service, one step: owners do not change, and a row
\* that is gone stays away. A missing row is an internal error to the first read
\* and "not found" to the second.
CheckDecision(o) ==
  /\ o \in Decide /\ pc[o] = "ready"
  /\ \/ Succeeds /\ Exists(o) /\ HandlerAllows(o) /\ ServiceAllows(o) /\ Goto(o, "write")
     \/ Succeeds /\ Exists(o) /\ ~(HandlerAllows(o) /\ ServiceAllows(o))
          /\ Goto(o, "forbidden")
     \/ /\ (Succeeds /\ ~Exists(o)) \/ Fails
        /\ Goto(o, "error") \/ Goto(o, "notFound")
  /\ UNCHANGED <<shown, tables, overtaken>>

WriteDecision(o) ==
  /\ pc[o] = "write"
  /\ \/ /\ SetStatus(o, Verdict[o])
        /\ Goto(o, "show")
        /\ overtaken' = IF Verdict[o] = "denied" THEN overtaken
             ELSE [overtaken EXCEPT ![Target[o]] =
                     {p \in Ask : pc[p] = "reset" /\ Target[p] = Target[o]}]
     \/ StatusNotSet(o) /\ Goto(o, "error") /\ UNCHANGED overtaken
  /\ UNCHANGED <<shown, datasets, public>>

\* Both handlers answer with the row as it is by then.
Show(o) ==
  /\ pc[o] = "show"
  /\ \/ /\ Succeeds /\ Exists(o)
        /\ shown' = [shown EXCEPT ![o] = requests[Target[o]]]
        /\ Goto(o, IF o \in Ask THEN "created" ELSE "ok")
     \/ /\ \/ Succeeds /\ ~Exists(o) /\ Goto(o, IF o \in Ask THEN "notFound" ELSE "error")
           \/ Fails /\ Goto(o, "error")
        /\ UNCHANGED shown
  /\ UNCHANGED <<tables, overtaken>>

-----------------------------------------------------------------------------
(* The dataset itself.                                                     *)

\* PATCH of a dataset with is_public
SetPublic(d) ==
  /\ d \in datasets
  /\ public' = IF d \in public THEN public \ {d} ELSE public \cup {d}
  /\ UNCHANGED <<pc, shown, datasets, requests, overtaken, faults>>

\* Mutation: the foreign key does not cascade.
DeleteDatasetAlone(d) ==
  /\ d \in datasets
  /\ datasets' = datasets \ {d}
  /\ public' = public \ {d}
  /\ UNCHANGED <<pc, shown, requests, overtaken, faults>>

DeleteDataset(d) ==
  /\ d \in datasets
  /\ datasets' = datasets \ {d}
  /\ public' = public \ {d}
  /\ requests' = [k \in Row |-> IF k[1] = d THEN "none" ELSE requests[k]]
  /\ UNCHANGED <<pc, shown, overtaken, faults>>

Next ==
  \/ \E o \in Op :
       \/ FindDataset(o) \/ FindRequest(o) \/ InsertRequest(o) \/ ResetRequest(o)
       \/ CheckDecision(o) \/ WriteDecision(o) \/ Show(o)
  \/ \E d \in Dataset : SetPublic(d) \/ DeleteDataset(d)

Spec == Init /\ [][Next]_vars

-----------------------------------------------------------------------------
(* Properties.                                                             *)

Answer == {"created", "ok", "conflict", "badRequest", "notFound", "forbidden", "error"}

\* Type correctness, and what the foreign key and the first check of Request keep
\* true: a row belongs to a dataset that exists, and never to its owner.
TypeOK ==
  /\ pc \in [Op -> {"ready", "find", "insert", "reset", "write", "show"} \cup Answer]
  /\ shown \in [Op -> Status \cup {"none"}]
  /\ datasets \subseteq Dataset /\ public \subseteq datasets
  /\ requests \in [Row -> Status \cup {"none"}]
  /\ \A k \in Row : requests[k] # "none" => k[1] \in datasets /\ Owner[k[1]] # k[2]
  /\ overtaken \in [Row -> SUBSET Ask]
  /\ faults \in 0..MaxFaults

\* A request is approved or denied only by a decision of the owner, though the
\* handler lets administrators pass and the status is written unconditionally.
DecidedByOwner ==
  \A k \in Row : requests[k] \in {"approved", "denied"} =>
    \E o \in Decide :
      /\ Target[o] = k /\ Verdict[o] = requests[k] /\ Actor[o] = Owner[k[1]]
      /\ pc[o] \in {"show"} \cup Answer

\* An approval is taken back to "pending" only by an ask that had found the
\* request denied and was under way when the approval came; asks that come later
\* leave it alone, whatever fails.
ApprovalsStand ==
  [][\A k \in Row : requests[k] = "approved" /\ requests'[k] = "pending" =>
       \E o \in overtaken[k] : pc[o] = "reset"]_vars

\* A user who asks again is told of the conflict: without failing calls an ask
\* ends in an internal error only because the dataset is gone.
DuplicateIsConflict ==
  \A o \in Ask : faults = 0 /\ pc[o] = "error" => DatasetOf(o) \notin datasets
=============================================================================
