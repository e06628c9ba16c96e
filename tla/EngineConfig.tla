---------------------------- MODULE EngineConfig ----------------------------
(***************************************************************************)
(* The versioned configurations the cockpit edits and every monitor run    *)
(* reads (btx_platform/engine_config.py and its routes).  A PUT reads the  *)
(* latest version and inserts the next one; handlers are threads, so two   *)
(* of them may compute the same version, and the unique constraint on      *)
(* (name, version) makes the second insert fail.                           *)
(***************************************************************************)
EXTENDS Integers, FiniteSets

CONSTANTS
  Names,        \* the configurations
  Documents,    \* for each name the documents its schema accepts: sets, of
                \* enabled sources or of weights
  Seed,         \* for each name the document of the repository
  Puts          \* PUT requests, the browser's and other people's

ASSUME EngineConfigAssumption ==
  /\ IsFiniteSet(Puts)
  /\ \A n \in Names : Seed[n] \in Documents[n]

VARIABLES
  configs,      \* the rows of engine_configs: sets of [version, document]
  put           \* the PUT requests

configVars == <<configs, put>>

Version == 0..(Cardinality(Puts) + 1)

AllDocuments == UNION {Documents[n] : n \in Names}

Row == [version : Version, document : AllDocuments]

Nobody == 0

None == "none"

(* sender is the panel that waits for the answer; other people send for    *)
(* Nobody.                                                                 *)
NoPut ==
  [phase |-> "unused", name |-> None, document |-> {}, sender |-> Nobody,
   version |-> 0]

(* seed_engine_configs: version 1 of each, from the repository.            *)
ConfigInit ==
  /\ configs = [n \in Names |-> {[version |-> 1, document |-> Seed[n]]}]
  /\ put = [p \in Puts |-> NoPut]

(* latest_config                                                           *)
LatestConfig(n) ==
  CHOOSE row \in configs[n] :
    \A other \in configs[n] : other.version <= row.version

(* A PUT whose document validate_config_document accepts.                  *)
SendPut(p, n, d, sender) ==
  /\ put[p].phase = "unused"
  /\ put' = [put EXCEPT ![p] =
       [phase |-> "sent", name |-> n, document |-> d, sender |-> sender,
        version |-> 0]]

(* put_config up to its insert: the version after the latest one read.     *)
ReadLatest(p) ==
  /\ put[p].phase = "sent"
  /\ put' = [put EXCEPT ![p].phase = "read",
                        ![p].version = LatestConfig(put[p].name).version + 1]
  /\ UNCHANGED configs

PutRow(p) == [version |-> put[p].version, document |-> put[p].document]

(* Mutant: no unique constraint; the later insert replaces the row.        *)
InsertOver(p) ==
  /\ put[p].phase = "read"
  /\ put' = [put EXCEPT ![p].phase = "stored"]
  /\ configs' = [configs EXCEPT ![put[p].name] =
       {r \in @ : r.version # put[p].version} \cup {PutRow(p)}]

(* Its commit, unless the constraint refuses the row: then a 500.          *)
Insert(p) ==
  LET n == put[p].name
      taken == \E r \in configs[n] : r.version = put[p].version
  IN /\ put[p].phase = "read"
     /\ put' = [put EXCEPT ![p].phase = IF taken THEN "failed" ELSE "stored"]
     /\ configs' = IF taken THEN configs
                   ELSE [configs EXCEPT ![n] = @ \cup {PutRow(p)}]

(* Every save answered 200 is a version of its own, and stays: of two      *)
(* edits that computed the same next version one is refused                *)
(* (engine_config.py:115-126, models.py:137).                              *)
AnsweredSavesKept ==
  \A p \in Puts : put[p].phase = "stored" =>
    /\ PutRow(p) \in configs[put[p].name]
    /\ \A q \in Puts \ {p} :
         put[q].phase = "stored" /\ put[q].name = put[p].name =>
           put[q].version # put[p].version
=============================================================================
