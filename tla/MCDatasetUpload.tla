-------------------------- MODULE MCDatasetUpload --------------------------
(***************************************************************************)
(* Instances of DatasetUpload for TLC: a new dataset, and a seeded one with *)
(* uploads of files of the same name to it, two through the API and two     *)
(* through the gateway, its deletion and that of one of its versions. One   *)
(* upload has metadata that NewMetadata rejects, one has none; the gateway's*)
(* clients choose a number that is taken and the one that comes next.       *)
(***************************************************************************)
EXTENDS DatasetUpload, TLC

CONSTANTS seed, create, addBad, addPlain, drop, relayFirst, relaySecond, unlist

MCTraffic == {
  {create, addBad, addPlain, drop},
  {addBad, addPlain, relayFirst},
  {addPlain, relayFirst, relaySecond, drop},
  {addBad, addPlain, unlist}}
OnlyAdds == {Add}

MCTarget == [o \in Add \cup Relay \cup Delete |-> seed]
MCDoomed == [o \in Remove |-> addPlain]
MCChosen == [o \in Relay |-> IF o = relayFirst THEN 1 ELSE 2]
MCFile == [v \in Seed \cup Create \cup Add \cup Relay |-> "data.csv"]
MCMetadata ==
  [o \in Create \cup Add |-> CASE o = addBad   -> "invalid"
                               [] o = addPlain -> "none"
                               [] OTHER        -> "valid"]
=============================================================================
