---------------------------- MODULE SensorStore ----------------------------
(***************************************************************************)
(* The sensor store of architecture1: the handlers of api_gateway.py, each *)
(* in a thread of its own, and the JSON file of database.py that they share *)
(* under file_lock, a threading.Lock, which its holder cannot take again.  *)
(*                                                                         *)
(* A handler is the sequence of steps it still has to take.  A step is a   *)
(* test for the file, an operation on the lock, a read of the whole file,  *)
(* or one half of a write: open(.., 'w') empties the file, json.dump fills *)
(* it.  What a handler appends to its copy of the data travels with the    *)
(* dump that writes it.                                                    *)
(***************************************************************************)
EXTENDS Naturals, Sequences

CONSTANTS Requests,    \* requests that clients may make
          MaxKills     \* how often the API process is killed and started again

Nobody == "nobody"

\* Requests are named otherwise than the lock when it is free.
ASSUME StoreAssumption == Nobody \notin Requests /\ MaxKills \in Nat

Absent == "absent"     \* there is no file
Torn   == "torn"       \* opened for writing, or left so by a killed process
Whole  == "whole"      \* a JSON document

Values == {"missing", "zero", "text", "normal", "beyond"}   \* of a posted reading

VARIABLES file,        \* Absent, Torn or Whole
          stored,      \* the readings and alerts in the file when it is Whole
          file_lock,   \* the request that holds the lock, or Nobody
          todo,        \* what each handler still has to do
          data,        \* its copy of the store, from load_data
          answer,      \* "none", "posting" or "getting", then the HTTP status
          kills,       \* how often the process was killed
          \* history, not state of the program:
          misread,     \* requests that load_data told the file is corrupted
          tornByKill   \* the process was killed between the halves of a write

vars == <<file, stored, file_lock, todo, data, answer, kills, misread, tornByKill>>

-----------------------------------------------------------------------------
(* The functions of database.py. *)

Step(op) == [op |-> op, adds |-> {}]

Locked(steps) == <<Step("acquire")>> \o steps \o <<Step("release")>>

\* open(DATABASE_FILE, 'w') and json.dump of the data with what was appended
Write(adds) == <<Step("open"), [op |-> "dump", adds |-> adds]>>

init_database == <<Step("exists")>>

\* the test for the file moved under the lock, which it takes again to create it
LoadAndInitLocked == Locked(init_database \o <<Step("read")>>)

LoadUnlocked == init_database \o <<Step("read")>>

load_data == init_database \o Locked(<<Step("read")>>)

save_data(adds) == Locked(Write(adds))

\* add_reading and add_alert
Add(adds) == Locked(load_data \o save_data(adds))

\* process_reading: one of the readings is beyond its threshold
process_reading(r, value) ==
  IF value = "beyond" THEN Add({<<"alert", r>>}) ELSE << >>

Accept(r, value) == Add({<<"reading", r>>}) \o process_reading(r, value)

Pending(r) == answer[r] \in {"posting", "getting"}

-----------------------------------------------------------------------------
Init ==
  /\ file \in {Absent, Whole}
  /\ stored = {}
  /\ file_lock = Nobody
  /\ todo = [r \in Requests |-> << >>]
  /\ data = [r \in Requests |-> {}]
  /\ answer = [r \in Requests |-> "none"]
  /\ kills = 0
  /\ misread = {}
  /\ tornByKill = FALSE

\* all([sensor_id, sensor_type, value]): a value of 0 counts as missing
Complete(value) == value \notin {"missing", "zero"}

\* POST /api/readings; float(value) raises on text
submit_reading(r) ==
  /\ answer[r] = "none"
  /\ \E value \in Values :
       \/ /\ ~Complete(value)
          /\ answer' = [answer EXCEPT ![r] = "400"]
          /\ UNCHANGED todo
       \/ /\ value = "text"
          /\ answer' = [answer EXCEPT ![r] = "500"]
          /\ UNCHANGED todo
       \/ /\ Complete(value) /\ value # "text"
          /\ answer' = [answer EXCEPT ![r] = "posting"]
          /\ todo' = [todo EXCEPT ![r] = Accept(r, value)]
  /\ UNCHANGED <<file, stored, file_lock, data, kills, misread, tornByKill>>

\* GET /api/latest, /api/alerts and /api/history: one load_data each
get_latest(r) ==
  /\ answer[r] = "none"
  /\ answer' = [answer EXCEPT ![r] = "getting"]
  /\ todo' = [todo EXCEPT ![r] = load_data]
  /\ UNCHANGED <<file, stored, file_lock, data, kills, misread, tornByKill>>

\* r's next step is op, and it takes it
Takes(r, op) ==
  /\ todo[r] # << >>
  /\ Head(todo[r]).op = op
  /\ UNCHANGED <<answer, kills, tornByKill>>

Past(r) == todo' = [todo EXCEPT ![r] = Tail(@)]

\* init_database looks without the lock and creates an empty store under it
Exists(r) ==
  /\ Takes(r, "exists")
  /\ \/ /\ file # Absent
        /\ Past(r)
        /\ UNCHANGED data
     \/ /\ file = Absent
        /\ todo' = [todo EXCEPT ![r] = Locked(Write({})) \o Tail(@)]
        /\ data' = [data EXCEPT ![r] = {}]
  /\ UNCHANGED <<file, stored, file_lock, misread>>

Acquire(r) ==
  /\ Takes(r, "acquire")
  /\ file_lock = Nobody
  /\ file_lock' = r
  /\ Past(r)
  /\ UNCHANGED <<file, stored, data, misread>>

\* an exception between the two calls: the lock is not given back
ReleaseForgotten(r) ==
  /\ Takes(r, "release")
  /\ Past(r)
  /\ UNCHANGED <<file, stored, file_lock, data, misread>>

Release(r) ==
  /\ Takes(r, "release")
  /\ file_lock' = Nobody
  /\ Past(r)
  /\ UNCHANGED <<file, stored, data, misread>>

\* json.load; what does not parse is taken for an empty store
Read(r) ==
  /\ Takes(r, "read")
  /\ \/ /\ file = Whole
        /\ data' = [data EXCEPT ![r] = stored]
        /\ UNCHANGED misread
     \/ /\ file # Whole
        /\ data' = [data EXCEPT ![r] = {}]
        /\ misread' = misread \cup {r}
  /\ Past(r)
  /\ UNCHANGED <<file, stored, file_lock>>

Open(r) ==
  /\ Takes(r, "open")
  /\ file' = Torn
  /\ stored' = {}
  /\ Past(r)
  /\ UNCHANGED <<file_lock, data, misread>>

Dump(r) ==
  /\ Takes(r, "dump")
  /\ file' = Whole
  /\ stored' = data[r] \cup Head(todo[r]).adds
  /\ data' = [data EXCEPT ![r] = stored']
  /\ Past(r)
  /\ UNCHANGED <<file_lock, misread>>

\* The handler returns: 201 for a POST, 200 for a GET.
Reply(r) ==
  /\ Pending(r)
  /\ todo[r] = << >>
  /\ answer' = [answer EXCEPT ![r] = IF @ = "posting" THEN "201" ELSE "200"]
  /\ UNCHANGED <<file, stored, file_lock, todo, data, kills, misread, tornByKill>>

\* The API process ends, with its threads and its lock, and is started again.
Kill ==
  /\ kills < MaxKills
  /\ kills' = kills + 1
  /\ file_lock' = Nobody
  /\ todo' = [r \in Requests |-> << >>]
  /\ answer' = [r \in Requests |-> IF Pending(r) THEN "lost" ELSE answer[r]]
  /\ tornByKill' = (tornByKill \/ file = Torn)
  /\ UNCHANGED <<file, stored, data, misread>>

Handler(r) ==
  \/ Exists(r) \/ Acquire(r) \/ Release(r)
  \/ Read(r) \/ Open(r) \/ Dump(r) \/ Reply(r)

Next ==
  \/ \E r \in Requests : submit_reading(r) \/ get_latest(r) \/ Handler(r)
  \/ Kill

Spec == Init /\ [][Next]_vars

\* A thread that can run does.  Clients and kills owe nothing.
FairSpec == Spec /\ \A r \in Requests : WF_vars(Handler(r))

=============================================================================
