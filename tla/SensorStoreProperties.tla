----------------------- MODULE SensorStoreProperties -----------------------
(***************************************************************************)
(* What the store of architecture1 keeps to, and what it does not do.      *)
(***************************************************************************)
EXTENDS SensorStore

Ops == {"exists", "acquire", "release", "read", "open", "dump"}
Items == {"reading", "alert"} \X Requests

(* Every variable has its type, and who holds file_lock is a handler that  *)
(* still has to release it: the `with` blocks of database.py leave no lock *)
(* behind, whoever else runs, and a killed process takes its lock with it. *)
TypeOK ==
  /\ file \in {Absent, Torn, Whole}
  /\ stored \in SUBSET Items
  /\ file_lock \in Requests \cup {Nobody}
  /\ todo \in [Requests -> Seq([op : Ops, adds : SUBSET Items])]
  /\ data \in [Requests -> SUBSET Items]
  /\ answer \in [Requests -> {"none", "posting", "getting", "200", "201", "400", "500", "lost"}]
  /\ kills \in 0..MaxKills
  /\ misread \in SUBSET Requests
  /\ tornByKill \in BOOLEAN
  /\ \A r \in Requests :
       file_lock = r => \E i \in DOMAIN todo[r] : todo[r][i].op = "release"

(* load_data takes a file for corrupted and answers from an empty store    *)
(* (database.py:28-31) only if the process was once killed between opening *)
(* the file and filling it.  In particular the test of init_database, made *)
(* without the lock, never leads a request to a file half written.         *)
MisreadNeedsKill == misread # {} => tornByKill

\* A POST that holds the lock and waits for it.
Stuck(r) ==
  /\ answer[r] = "posting"
  /\ file_lock = r
  /\ todo[r] # << >> /\ Head(todo[r]).op = "acquire"

(* Every request is answered, or lost with its process, unless a POST has  *)
(* locked the store for ever: nothing but the nested lock of add_reading   *)
(* (database.py:41-42) keeps a handler from returning.                     *)
RequestReturns == \A r \in Requests : Pending(r) ~> (~Pending(r) \/ \E p \in Requests : Stuck(p))

(* NOT kept.  add_reading is to "Add a new sensor reading"                 *)
(* (database.py:40), and sensor_simulator.py:28 takes 201 for the answer   *)
(* to an accepted POST: its reading gets into the store, unless the        *)
(* process is killed first.                                                *)
PostIsStored ==
  \A r \in Requests : answer[r] = "posting" ~> (<<"reading", r>> \in stored \/ answer[r] = "lost")
=============================================================================
