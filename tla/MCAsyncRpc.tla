---------------------------- MODULE MCAsyncRpc ----------------------------
(***************************************************************************)
(* Instances of AsyncRpc for TLC: replicas and requests are model values,   *)
(* the shape of a request is picked by the scenario of the configuration.   *)
(***************************************************************************)
EXTENDS AsyncRpc, TLC

CONSTANTS r1, r2, alice, bob, ds, ver, Scenario

MCOwner == [d \in Dataset |-> alice]
MCDatasetOf == [v \in Version |-> ds]

Ask(type, actor, role, target) ==
  [type |-> type, actor |-> actor, role |-> role, target |-> target]

\* Two requests that meet: the owner deletes the dataset while its version is
\* deleted through the two look-ups; a stranger deletes the version while the owner
\* adds one. The instances with one request have the owner add a version, or a user
\* create a dataset.
MCShape ==
  LET first ==
        CASE Scenario = "delete"   -> Ask("datasetDelete", alice, "user", ds)
          [] Scenario = "stranger" -> Ask("versionDelete", bob, "user", ver)
          [] Scenario = "insert"   -> Ask("versionAdd", alice, "user", ds)
          [] Scenario = "create"   -> Ask("create", alice, "user", NoTarget)
      second ==
        IF Scenario = "delete" THEN Ask("versionDelete", alice, "user", ver)
        ELSE Ask("versionAdd", alice, "user", ds)
  IN [r \in Request |-> IF r = r1 THEN first ELSE second]

\* Replicas of one service are interchangeable.
ReplicaSymmetry ==
  Permutations(Gateway) \cup Permutations(Core) \cup Permutations(Data)
=============================================================================
