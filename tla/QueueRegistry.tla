--------------------------- MODULE QueueRegistry ---------------------------
(***************************************************************************)
(* The list of running queues of ci_queues.c, which ciqs_start extends,    *)
(* ciqs_stop shortens and ciqs_stop_all, called by the handler of          *)
(* control-c, walks.  start_client and start_server start four queues, as  *)
(* many as the array queues_running has entries.                           *)
(***************************************************************************)
EXTENDS Integers, SequencesExt

CONSTANTS
  Queues,     \* enum ciqs_queue without naq
  naq

NUM_QUEUES == 4
NAQ_VALUE == 8      \* naq as an integer

ASSUME QueuesAssumption == naq \notin Queues

VARIABLES
  queues_running,
  last_queue,
  running,    \* the queues whose looper thread runs, in the order they were started
  entry,      \* i, the loop variable of ciqs_stop_all, -1 outside of it
  overrun     \* history: an entry behind the array was written

registryVars == <<queues_running, last_queue, running, entry, overrun>>

ciqs_init_queues ==
  /\ queues_running = [k \in 0..(NUM_QUEUES - 1) |-> naq]
  /\ last_queue = 0
  /\ running = <<>>
  /\ entry = -1 /\ overrun = FALSE

\* ciqs_start: looper_start, then add_running_queue
ciqs_start(q) ==
  /\ entry = -1 /\ last_queue \in DOMAIN queues_running
  /\ q \in Queues \ ToSet(running) /\ Len(running) < NUM_QUEUES
  /\ running' = Append(running, q)
  /\ queues_running' = [queues_running EXCEPT ![last_queue] = q]
  /\ last_queue' = last_queue + 1
  /\ UNCHANGED <<entry, overrun>>

\* Mutant: the entries behind the one that is deleted are not moved.
DelWithoutShift(q) ==
  /\ queues_running' = [k \in DOMAIN queues_running |->
       IF queues_running[k] = q \/ k = last_queue THEN naq ELSE queues_running[k]]
  /\ last_queue' = last_queue - 1 /\ UNCHANGED overrun

\* del_running_queue: the entries behind the first q move up by one, the last
\* stays, and the entry number last_queue is cleared.  When all four queues
\* run that entry is behind the array, and may be where last_queue is.
del_running_queue(q) ==
  IF \A k \in DOMAIN queues_running : queues_running[k] # q
  THEN UNCHANGED <<queues_running, last_queue, overrun>>
  ELSE LET first == CHOOSE k \in DOMAIN queues_running :
                      queues_running[k] = q /\ \A j \in 0..(k - 1) : queues_running[j] # q
           moved == [k \in DOMAIN queues_running |->
                       IF k \in first..(NUM_QUEUES - 2) THEN queues_running[k + 1]
                                                        ELSE queues_running[k]]
       IN  IF last_queue < NUM_QUEUES
           THEN /\ queues_running' = [moved EXCEPT ![last_queue] = naq]
                /\ last_queue' = last_queue - 1
                /\ UNCHANGED overrun
           ELSE /\ queues_running' = moved
                /\ overrun' = TRUE
                /\ last_queue' \in {last_queue - 1, NAQ_VALUE - 1}

\* looper_stop, then del_running_queue
Stop(q) == running' = RemoveFirst(running, q) /\ del_running_queue(q)

ciqs_stop(q) ==
  /\ entry = -1 /\ q \in ToSet(running)
  /\ Stop(q)
  /\ UNCHANGED entry

StopAllBegins ==
  /\ entry = -1
  /\ entry' = 0
  /\ UNCHANGED <<queues_running, last_queue, running, overrun>>

\* one iteration of ciqs_stop_all
StopAllStep ==
  /\ entry \in DOMAIN queues_running
  /\ IF queues_running[entry] # naq THEN Stop(queues_running[entry])
     ELSE UNCHANGED <<queues_running, last_queue, running, overrun>>
  /\ entry' = entry + 1

StopAllReturns ==
  /\ entry = NUM_QUEUES
  /\ entry' = -1
  /\ UNCHANGED <<queues_running, last_queue, running, overrun>>

RegistryNext ==
  \/ \E q \in Queues : ciqs_start(q) \/ ciqs_stop(q)
  \/ StopAllBegins \/ StopAllStep \/ StopAllReturns

RegistrySpec == ciqs_init_queues /\ [][RegistryNext]_registryVars

-----------------------------------------------------------------------------
(* Properties.                                                             *)

\* The first last_queue entries are the running queues in the order they were
\* started and the others are empty, through any sequence of starts and stops,
\* as long as no queue was stopped when all four ran.
RegistryIsRunning ==
  ~overrun => /\ last_queue = Len(running)
              /\ \A k \in DOMAIN queues_running :
                    queues_running[k] = IF k < last_queue THEN running[k + 1] ELSE naq
=============================================================================
