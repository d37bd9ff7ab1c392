----------------------------- MODULE Hypotheses -----------------------------
(***************************************************************************)
(* The research lab (aqc/research/hypothesis_lab, automation,              *)
(* alpha_decay): HypothesisRegistry keeps every AlphaHypothesis in memory  *)
(* and rewrites its JSON file at each save, ExperimentQueue hands queued   *)
(* hypotheses to ExperimentRunner, LifecycleManager retires them.  One     *)
(* thread does all of it; the process may be killed at any moment, between *)
(* the two halves of a save too: open(..., "w") empties the file, and only *)
(* then is it written, which may raise and is then given up.  (That the    *)
(* file cannot even be opened, and stays as it was, is left out.)          *)
(***************************************************************************)
EXTENDS Naturals, Sequences

CONSTANTS
  Ids,        \* hypothesis ids
  MaxQueue,   \* bound on the experiments queued
  MaxCrashes  \* bound on the crashes

None == "none"   \* a hypothesis the registry or its file does not have

VARIABLES
  registry,   \* _hypotheses: the status of each id, None if it is not there
  file,       \* what the file holds: such a function, or Broken
  stage,      \* idle, draining (run_all), saving, experiment, down
  after,      \* what the save under way goes on to
  current,    \* the hypothesis run_baseline is about
  queue,      \* ExperimentQueue.queue, as ids
  \* history:
  crashes,    \* the crashes so far
  cut,        \* the hypotheses whose experiment a crash ended
  unsaved     \* whether the last save was given up

labVars == <<registry, file, stage, after, current, queue, crashes, cut, unsaved>>

Empty == [h \in Ids |-> None]
Broken == [h \in Ids |-> "broken"]   \* a file that is no registry

----------------------------------------------------------------------------
(* HypothesisRegistry.load: a file that cannot be read is logged and the   *)
(* registry stays empty.                                                   *)
Load == registry' = IF file = Broken THEN Empty ELSE file

(* HypothesisRegistry.save, to go on to `next' when the file is written.   *)
Save(next) == file' = Broken /\ stage' = "saving" /\ after' = next

Saved ==
  /\ stage = "saving"
  /\ file' = registry /\ stage' = after /\ unsaved' = FALSE
  /\ UNCHANGED <<registry, after, current, queue, crashes, cut>>

(* Writing raises: that is logged, and the program goes on with its file   *)
(* broken until the next save.                                             *)
SaveRaises ==
  /\ stage = "saving"
  /\ stage' = after /\ unsaved' = TRUE
  /\ UNCHANGED <<registry, file, after, current, queue, crashes, cut>>

SetStatus(h, status) == registry' = [registry EXCEPT ![h] = status]

LabInit ==
  /\ registry = Empty /\ file = Empty
  /\ stage = "idle" /\ after = "idle" /\ current = None /\ queue = <<>>
  /\ crashes = 0 /\ cut = {} /\ unsaved = FALSE

(* register: a new hypothesis is an idea, one with an id already there     *)
(* takes its place.                                                        *)
Register(h) ==
  /\ stage = "idle"
  /\ SetStatus(h, "IDEA") /\ Save("idle")
  /\ cut' = cut \ {h}
  /\ UNCHANGED <<current, queue, crashes, unsaved>>

Enqueue(h) ==
  /\ stage = "idle" /\ Len(queue) < MaxQueue
  /\ queue' = Append(queue, h)
  /\ UNCHANGED <<registry, file, stage, after, current, crashes, cut, unsaved>>

(* run_all loops over run_next until the queue is empty.                   *)
RunAll ==
  /\ stage = "idle" /\ queue # <<>> /\ stage' = "draining"
  /\ UNCHANGED <<registry, file, after, current, queue, crashes, cut, unsaved>>

RunAllDone ==
  /\ stage = "draining" /\ queue = <<>> /\ stage' = "idle"
  /\ UNCHANGED <<registry, file, after, current, queue, crashes, cut, unsaved>>

(* run_next and the head of run_baseline: an id without a hypothesis is    *)
(* dropped, any other is set to TESTING whatever it was, and saved.        *)
RunNext ==
  /\ stage \in {"idle", "draining"} /\ queue # <<>>
  /\ queue' = Tail(queue)
  /\ IF registry[Head(queue)] = None
     THEN UNCHANGED <<registry, file, stage, after, current, cut>>
     ELSE /\ SetStatus(Head(queue), "TESTING")
          /\ file' = Broken /\ stage' = "saving"
          /\ after' = IF stage = "idle" THEN "experiment" ELSE "drain experiment"
          /\ current' = Head(queue) /\ cut' = cut \ {Head(queue)}
  /\ UNCHANGED <<crashes, unsaved>>

(* The rest of run_baseline: the alpha is created, fitted and evaluated,   *)
(* and passes or does not; an exception fails it as well.                  *)
Experiment ==
  /\ stage \in {"experiment", "drain experiment"}
  /\ \E status \in {"PROMISING", "FAILED"} : SetStatus(current, status)
  /\ Save(IF stage = "experiment" THEN "idle" ELSE "draining")
  /\ current' = None
  /\ UNCHANGED <<queue, crashes, cut, unsaved>>

(* (Slips that the checks must notice; none is part of the specification.) *)
RetireUnsaved(h) ==
  /\ stage = "idle" /\ registry[h] \notin {None, "RETIRED"}
  /\ SetStatus(h, "RETIRED") /\ cut' = cut \ {h}
  /\ UNCHANGED <<file, stage, after, current, queue, crashes, unsaved>>

(* LifecycleManager.retire_alpha.                                          *)
Retire(h) ==
  /\ stage = "idle" /\ registry[h] \notin {None, "RETIRED"}
  /\ SetStatus(h, "RETIRED") /\ Save("idle")
  /\ cut' = cut \ {h}
  /\ UNCHANGED <<current, queue, crashes, unsaved>>

(* The process dies; what it had in memory is lost.                        *)
Crash ==
  /\ stage # "down" /\ crashes < MaxCrashes
  /\ stage' = "down" /\ crashes' = crashes + 1
  /\ cut' = IF current = None THEN cut ELSE cut \cup {current}
  /\ registry' = Empty /\ queue' = <<>> /\ current' = None
  /\ UNCHANGED <<file, after, unsaved>>

Restart ==
  /\ stage = "down" /\ Load /\ stage' = "idle" /\ unsaved' = FALSE
  /\ UNCHANGED <<file, after, current, queue, crashes, cut>>

LabNext ==
  \/ \E h \in Ids : Register(h) \/ Enqueue(h) \/ Retire(h)
  \/ RunAll \/ RunAllDone \/ RunNext \/ Experiment
  \/ Saved \/ SaveRaises
  \/ Crash \/ Restart

LabSpec == LabInit /\ [][LabNext]_labVars

----------------------------------------------------------------------------
(* Between calls the file says what the registry does, unless the last     *)
(* save was given up, which leaves the file broken, or a crash left it so: *)
(* then an empty registry was loaded, and the first save writes over it.   *)
(* No hypothesis is left in TESTING, in memory or on file, but by a crash  *)
(* in the middle of its own experiment.                                    *)
TestingIsRunning ==
  /\ stage \notin {"saving", "down"} =>
       file = registry \/ (file = Broken /\ (unsaved \/ registry = Empty))
  /\ \A h \in Ids : registry[h] = "TESTING" => h = current \/ h \in cut
  /\ stage = "down" /\ file # Broken =>
       \A h \in Ids : file[h] = "TESTING" => h \in cut
=============================================================================
