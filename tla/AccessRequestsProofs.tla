------------------------ MODULE AccessRequestsProofs ------------------------
(***************************************************************************)
(* Proofs about AccessRequests: type correctness, that only the owner       *)
(* decides, and that an approval stands against asks that come after it,    *)
(* for any datasets, users, operations and failing calls.                   *)
(***************************************************************************)
EXTENDS AccessRequests, TLAPS

Pcs == {"ready", "find", "insert", "reset", "write", "show"} \cup Answer

\* Who is at which step: an ask that found the dataset is not its owner's, and a
\* decision that is or was written is the owner's.
Cleared ==
  /\ \A o \in Op : pc[o] \in {"find", "insert", "reset"} =>
       o \in Ask /\ Owner[Target[o][1]] # Target[o][2]
  /\ \A o \in Op : pc[o] = "write" =>
       o \in Decide /\ Actor[o] = Owner[Target[o][1]]

\* An ask that is about to reset an approved request was so when it was approved.
ResetsAreOvertaken ==
  \A o \in Ask : pc[o] = "reset" /\ requests[Target[o]] = "approved"
    => o \in overtaken[Target[o]]

IInv == TypeOK /\ Cleared /\ DecidedByOwner /\ ResetsAreOvertaken

\* The parts of the state that a step of an operation leaves alone.
LEMMA RowType ==
  ASSUME NEW o \in Op
  PROVE  /\ Target[o] \in Row
         /\ Target[o][1] \in Dataset
         /\ Target[o][2] \in User
         /\ o \in Ask => o \notin Decide
         /\ o \in Ask => Target[o][2] = Actor[o]
  BY OperationsAssumption DEF Op, Row

LEMMA IInvInit == Init => IInv
<1> SUFFICES ASSUME Init PROVE IInv
  OBVIOUS
<1>1. TypeOK
  BY OperationsAssumption DEF Init, TypeOK, Row, Status
<1>2. Cleared /\ DecidedByOwner /\ ResetsAreOvertaken
  BY RowType DEF Init, Cleared, DecidedByOwner, ResetsAreOvertaken, Op
<1> QED
  BY <1>1, <1>2 DEF IInv

\* The counter of faults stays within its bound.
LEMMA FaultsType ==
  ASSUME faults \in 0..MaxFaults, Succeeds \/ Fails
  PROVE  faults' \in 0..MaxFaults
  BY OperationsAssumption DEF Succeeds, Fails

\* The steps of an ask that write no row.
LEMMA AskReads ==
  ASSUME IInv, NEW o \in Op, FindDataset(o) \/ FindRequest(o)
  PROVE  IInv' /\ UNCHANGED requests
<1> USE DEF IInv
<1>1. UNCHANGED <<shown, tables, overtaken>>
  BY DEF FindDataset, FindRequest
<1>2. PICK s \in Pcs : pc' = [pc EXCEPT ![o] = s]
  BY DEF FindDataset, FindRequest, Goto, Pcs, Answer
<1>3. pc[o] \in {"ready", "find"} /\ pc'[o] \notin {"write", "show"}
  BY DEF FindDataset, FindRequest, Goto, TypeOK
<1>4. faults' \in 0..MaxFaults
  BY FaultsType DEF FindDataset, FindRequest, TypeOK
<1>5. TypeOK'
  BY <1>1, <1>2, <1>4 DEF TypeOK, tables, Pcs
<1>6. Cleared'
  <2>1. pc'[o] \in {"find", "insert", "reset"} =>
          o \in Ask /\ Owner[Target[o][1]] # Target[o][2]
    BY RowType DEF FindDataset, FindRequest, Goto, Cleared, TypeOK, DatasetOf
  <2> QED
    BY <1>2, <1>3, <2>1 DEF Cleared, TypeOK
<1>7. DecidedByOwner'
  BY <1>1, <1>2, <1>3 DEF DecidedByOwner, tables, TypeOK, Answer, Op
<1>8. ResetsAreOvertaken'
  <2>1. pc'[o] = "reset" => requests[Target[o]] # "approved"
    BY DEF FindDataset, FindRequest, Goto, TypeOK, Appealable
  <2> QED
    BY <1>1, <1>2, <2>1 DEF ResetsAreOvertaken, tables, TypeOK, Op
<1> QED
  BY <1>1, <1>5, <1>6, <1>7, <1>8 DEF tables

\* A row becomes pending, or nothing is written.
LEMMA AskWrites ==
  ASSUME IInv, NEW o \in Op, InsertRequest(o) \/ ResetRequest(o)
  PROVE  IInv'
<1> USE DEF IInv
<1>1. UNCHANGED <<shown, datasets, public, overtaken>>
  BY DEF InsertRequest, ResetRequest
<1>2. /\ pc[o] \in {"insert", "reset"}
      /\ \/ pc' = [pc EXCEPT ![o] = "show"]
         \/ pc' = [pc EXCEPT ![o] = "error"]
  BY DEF InsertRequest, ResetRequest, Goto
<1>3. \/ UNCHANGED requests
      \/ /\ requests' = [requests EXCEPT ![Target[o]] = "pending"]
         /\ Target[o][1] \in datasets
  BY RowType DEF InsertRequest, ResetRequest, SetStatus, StatusNotSet, Exists,
                 DatasetOf, TypeOK
<1>4. faults' \in 0..MaxFaults
  BY FaultsType DEF InsertRequest, ResetRequest, SetStatus, StatusNotSet, TypeOK
<1>5. o \in Ask /\ Owner[Target[o][1]] # Target[o][2]
  BY <1>2 DEF Cleared
<1>6. TypeOK'
  BY <1>1, <1>2, <1>3, <1>4, <1>5, RowType DEF TypeOK, Status, Answer
<1>7. Cleared'
  BY <1>2 DEF Cleared, TypeOK
<1>8. DecidedByOwner'
  <2>1. ASSUME NEW k \in Row, requests'[k] \in {"approved", "denied"}
        PROVE  requests'[k] = requests[k]
    BY <1>3, <2>1 DEF TypeOK
  <2>2. \A p \in Decide : pc'[p] = pc[p]
    BY <1>2, <1>5, RowType DEF TypeOK, Op
  <2> QED
    BY <2>1, <2>2 DEF DecidedByOwner
<1>9. ResetsAreOvertaken'
  <2>1. \A p \in Ask : requests'[Target[p]] = "approved" => requests[Target[p]] = "approved"
    BY <1>3, RowType DEF TypeOK, Op
  <2>2. \A p \in Ask : pc'[p] = "reset" => pc[p] = "reset"
    BY <1>2 DEF TypeOK, Op
  <2> QED
    BY <1>1, <2>1, <2>2 DEF ResetsAreOvertaken
<1> QED
  BY <1>6, <1>7, <1>8, <1>9

LEMMA CheckKeeps ==
  ASSUME IInv, NEW o \in Op, CheckDecision(o)
  PROVE  IInv' /\ UNCHANGED requests
<1> USE DEF IInv
<1>1. UNCHANGED <<shown, tables, overtaken>> /\ o \in Decide /\ pc[o] = "ready"
  BY DEF CheckDecision
<1>2. PICK s \in {"write", "forbidden", "error", "notFound"} : pc' = [pc EXCEPT ![o] = s]
  BY DEF CheckDecision, Goto
<1>3. faults' \in 0..MaxFaults
  BY FaultsType DEF CheckDecision, TypeOK
<1>4. TypeOK'
  BY <1>1, <1>2, <1>3 DEF TypeOK, tables, Answer
<1>5. Cleared'
  <2>1. pc'[o] = "write" => Actor[o] = Owner[Target[o][1]]
    BY DEF CheckDecision, Goto, ServiceAllows, DatasetOf, TypeOK
  <2> QED
    BY <1>1, <1>2, <2>1 DEF Cleared, TypeOK
<1>6. DecidedByOwner'
  BY <1>1, <1>2 DEF DecidedByOwner, tables, TypeOK, Answer, Op
<1>7. ResetsAreOvertaken'
  BY <1>1, <1>2 DEF ResetsAreOvertaken, tables, TypeOK, Op
<1> QED
  BY <1>1, <1>4, <1>5, <1>6, <1>7 DEF tables

LEMMA WriteKeeps ==
  ASSUME IInv, NEW o \in Op, WriteDecision(o)
  PROVE  IInv' /\ (requests'[Target[o]] # "pending" \/ UNCHANGED requests)
<1> USE DEF IInv
<1>1. UNCHANGED <<shown, datasets, public>> /\ pc[o] = "write"
  BY DEF WriteDecision
<1>2. o \in Decide /\ Actor[o] = Owner[Target[o][1]] /\ Verdict[o] \in {"approved", "denied"}
  BY <1>1, OperationsAssumption DEF Cleared
<1>3. faults' \in 0..MaxFaults
  BY FaultsType DEF WriteDecision, SetStatus, StatusNotSet, TypeOK
<1>4. CASE UNCHANGED requests /\ UNCHANGED overtaken /\ Goto(o, "error")
  <2>1. TypeOK'
    BY <1>1, <1>3, <1>4 DEF TypeOK, Goto, Answer
  <2>2. Cleared'
    BY <1>4 DEF Cleared, TypeOK, Goto
  <2>3. DecidedByOwner'
    BY <1>1, <1>4 DEF DecidedByOwner, TypeOK, Goto, Answer, Op
  <2>4. ResetsAreOvertaken'
    BY <1>4 DEF ResetsAreOvertaken, TypeOK, Goto, Op
  <2> QED
    BY <1>4, <2>1, <2>2, <2>3, <2>4
<1>5. CASE /\ SetStatus(o, Verdict[o])
           /\ Goto(o, "show")
           /\ overtaken' = IF Verdict[o] = "denied" THEN overtaken
                ELSE [overtaken EXCEPT ![Target[o]] =
                        {p \in Ask : pc[p] = "reset" /\ Target[p] = Target[o]}]
  <2>1. /\ requests' = [requests EXCEPT ![Target[o]] = Verdict[o]]
        /\ requests[Target[o]] # "none"
        /\ pc' = [pc EXCEPT ![o] = "show"]
    BY <1>5 DEF SetStatus, Exists, Goto
  <2>2. Target[o] \in Row
    BY RowType
  <2>3. TypeOK'
    <3>1. requests' \in [Row -> Status \cup {"none"}]
      BY <1>2, <2>1 DEF TypeOK, Status
    <3>2. overtaken' \in [Row -> SUBSET Ask]
      BY <1>5 DEF TypeOK
    <3>3. \A k \in Row : requests'[k] # "none" => k[1] \in datasets' /\ Owner[k[1]] # k[2]
      BY <1>1, <2>1, <2>2 DEF TypeOK
    <3> QED
      BY <1>1, <1>3, <2>1, <3>1, <3>2, <3>3 DEF TypeOK
  <2>4. Cleared'
    BY <2>1 DEF Cleared, TypeOK
  <2>5. DecidedByOwner'
    <3>1. ASSUME NEW k \in Row, requests'[k] \in {"approved", "denied"}, k # Target[o]
          PROVE  \E p \in Decide :
                   /\ Target[p] = k /\ Verdict[p] = requests'[k] /\ Actor[p] = Owner[k[1]]
                   /\ pc'[p] \in {"show"} \cup Answer
      <4>1. requests'[k] = requests[k]
        BY <2>1, <3>1 DEF TypeOK
      <4>2. PICK p \in Decide :
              /\ Target[p] = k /\ Verdict[p] = requests[k] /\ Actor[p] = Owner[k[1]]
              /\ pc[p] \in {"show"} \cup Answer
        BY <3>1, <4>1 DEF DecidedByOwner
      <4>3. pc'[p] = pc[p]
        BY <2>1, <3>1, <4>2 DEF TypeOK, Op
      <4> QED
        BY <4>1, <4>2, <4>3
    <3>2. requests'[Target[o]] = Verdict[o] /\ pc'[o] = "show"
      BY <2>1, <2>2 DEF TypeOK
    <3> QED
      BY <1>2, <3>1, <3>2 DEF DecidedByOwner
  <2>6. ResetsAreOvertaken'
    <3>1. ASSUME NEW p \in Ask, pc'[p] = "reset", requests'[Target[p]] = "approved"
          PROVE  p \in overtaken'[Target[p]]
      <4>1. p # o /\ pc[p] = "reset" /\ Target[p] \in Row
        BY <1>2, <2>1, <3>1, RowType DEF TypeOK, Op
      <4>2. CASE Target[p] = Target[o]
        <5>1. Verdict[o] = "approved"
          BY <2>1, <2>2, <3>1, <4>2 DEF TypeOK
        <5>2. overtaken'[Target[o]] =
                {q \in Ask : pc[q] = "reset" /\ Target[q] = Target[o]}
          BY <1>5, <2>2, <5>1 DEF TypeOK
        <5> QED
          BY <4>1, <4>2, <5>2
      <4>3. CASE Target[p] # Target[o]
        <5>1. requests[Target[p]] = "approved"
          BY <2>1, <3>1, <4>1, <4>3 DEF TypeOK
        <5>2. overtaken'[Target[p]] = overtaken[Target[p]]
          BY <1>5, <4>1, <4>3 DEF TypeOK
        <5> QED
          BY <4>1, <5>1, <5>2 DEF ResetsAreOvertaken
      <4> QED
        BY <4>2, <4>3
    <3> QED
      BY <3>1 DEF ResetsAreOvertaken
  <2>7. requests'[Target[o]] # "pending"
    BY <1>2, <2>1, <2>2 DEF TypeOK
  <2> QED
    BY <2>3, <2>4, <2>5, <2>6, <2>7
<1> QED
  BY <1>4, <1>5 DEF WriteDecision, StatusNotSet

LEMMA ShowKeeps ==
  ASSUME IInv, NEW o \in Op, Show(o)
  PROVE  IInv' /\ UNCHANGED requests
<1> USE DEF IInv
<1>1. UNCHANGED <<tables, overtaken>> /\ pc[o] = "show"
  BY DEF Show
<1>2. PICK s \in {"created", "ok", "notFound", "error"} : pc' = [pc EXCEPT ![o] = s]
  BY DEF Show, Goto
<1>3. shown' \in [Op -> Status \cup {"none"}]
  BY RowType DEF Show, TypeOK
<1>4. faults' \in 0..MaxFaults
  BY FaultsType DEF Show, TypeOK
<1>5. TypeOK'
  BY <1>1, <1>2, <1>3, <1>4 DEF TypeOK, tables, Answer
<1>6. Cleared'
  BY <1>2 DEF Cleared, TypeOK
<1>7. DecidedByOwner'
  <2>1. \A p \in Decide : pc[p] \in {"show"} \cup Answer => pc'[p] \in {"show"} \cup Answer
    BY <1>2 DEF TypeOK, Answer, Op
  <2> QED
    BY <1>1, <2>1 DEF DecidedByOwner, tables
<1>8. ResetsAreOvertaken'
  BY <1>1, <1>2 DEF ResetsAreOvertaken, tables, TypeOK, Op
<1> QED
  BY <1>1, <1>5, <1>6, <1>7, <1>8 DEF tables

LEMMA DatasetKeeps ==
  ASSUME IInv, NEW d \in Dataset, SetPublic(d) \/ DeleteDataset(d)
  PROVE  IInv' /\ \A k \in Row : requests'[k] \in {requests[k], "none"}
<1> USE DEF IInv
<1>1. UNCHANGED <<pc, shown, overtaken, faults>>
  BY DEF SetPublic, DeleteDataset
<1>2. /\ requests' \in [Row -> Status \cup {"none"}]
      /\ \A k \in Row : requests'[k] \in {requests[k], "none"}
      /\ \A k \in Row : requests'[k] # "none" => k[1] \in datasets'
      /\ datasets' \subseteq Dataset /\ public' \subseteq datasets'
  BY DEF SetPublic, DeleteDataset, TypeOK
<1>3. TypeOK'
  BY <1>1, <1>2 DEF TypeOK
<1>4. Cleared'
  BY <1>1 DEF Cleared
<1>5. DecidedByOwner'
  BY <1>1, <1>2 DEF DecidedByOwner
<1>6. ResetsAreOvertaken'
  BY <1>1, <1>2, RowType DEF ResetsAreOvertaken, Op
<1> QED
  BY <1>2, <1>3, <1>4, <1>5, <1>6

\* Every step keeps the invariant.
LEMMA IInvNext == IInv /\ [Next]_vars => IInv'
<1> SUFFICES ASSUME IInv, [Next]_vars PROVE IInv'
  OBVIOUS
<1>1. CASE UNCHANGED vars
  BY <1>1 DEF vars, tables, IInv, TypeOK, Cleared, DecidedByOwner, ResetsAreOvertaken
<1>2. ASSUME NEW o \in Op,
             \/ FindDataset(o) \/ FindRequest(o) \/ InsertRequest(o) \/ ResetRequest(o)
             \/ CheckDecision(o) \/ WriteDecision(o) \/ Show(o)
      PROVE  IInv'
  BY <1>2, AskReads, AskWrites, CheckKeeps, WriteKeeps, ShowKeeps
<1>3. ASSUME NEW d \in Dataset, SetPublic(d) \/ DeleteDataset(d)
      PROVE  IInv'
  BY <1>3, DatasetKeeps
<1> QED
  BY <1>1, <1>2, <1>3 DEF Next

LEMMA Invariance == Spec => []IInv
  BY IInvInit, IInvNext, PTL DEF Spec

\* Every reachable state is well typed, and the rows respect the foreign key.
THEOREM TypeCorrect == Spec => []TypeOK
<1>1. IInv => TypeOK
  BY DEF IInv
<1> QED
  BY <1>1, Invariance, PTL

\* Only a decision of the owner approves or denies (Approve, Deny).
THEOREM OwnerDecides == Spec => []DecidedByOwner
<1>1. IInv => DecidedByOwner
  BY DEF IInv
<1> QED
  BY <1>1, Invariance, PTL

\* An approval is undone only by a denial, the deletion of the dataset or an ask
\* that had found the request denied before it was approved (Request).
THEOREM ApprovalHolds == Spec => ApprovalsStand
<1> DEFINE Stands == \A k \in Row : requests[k] = "approved" /\ requests'[k] = "pending" =>
                       \E o \in overtaken[k] : pc[o] = "reset"
<1>1. IInv /\ [Next]_vars => [Stands]_vars
  <2> SUFFICES ASSUME IInv, Next, NEW k \in Row,
                      requests[k] = "approved", requests'[k] = "pending"
               PROVE  \E o \in overtaken[k] : pc[o] = "reset"
    OBVIOUS
  <2>1. PICK o \in Op :
          \/ FindDataset(o) \/ FindRequest(o) \/ InsertRequest(o) \/ ResetRequest(o)
          \/ CheckDecision(o) \/ WriteDecision(o) \/ Show(o)
    BY DatasetKeeps DEF Next
  <2>2. ~(FindDataset(o) \/ FindRequest(o) \/ CheckDecision(o) \/ Show(o))
    BY AskReads, CheckKeeps, ShowKeeps
  <2>3. ~InsertRequest(o)
    BY DEF InsertRequest, Exists, IInv, TypeOK
  <2>4. ~WriteDecision(o)
    <3> SUFFICES ASSUME WriteDecision(o) PROVE FALSE
      OBVIOUS
    <3>1. requests'[Target[o]] # "pending"
      BY WriteKeeps
    <3> QED
      BY <3>1 DEF WriteDecision, SetStatus, StatusNotSet, IInv, TypeOK
  <2>5. ResetRequest(o)
    BY <2>1, <2>2, <2>3, <2>4
  <2>6. pc[o] = "reset" /\ Target[o] = k /\ o \in Ask
    BY <2>5 DEF ResetRequest, SetStatus, StatusNotSet, IInv, TypeOK, Cleared
  <2> QED
    BY <2>6 DEF IInv, ResetsAreOvertaken
<1>2. Spec => []IInv
  BY Invariance
<1> QED
  BY <1>1, <1>2, PTL DEF Spec, ApprovalsStand
=============================================================================
