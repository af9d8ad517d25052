---------------------------- MODULE TrainingLimits ----------------------------
(* What a training may ask of the machine, and how a failed one is retried   *)
(* with less: the limits of resource_policy.py, the presets, the diagnosis of *)
(* failure_diagnostics.py, the plan of recovery.py, and the endpoints that   *)
(* join them (create, retry, recover-evaluation). A behaviour follows one    *)
(* chain of runs, each the child of the one before, through starts of the    *)
(* API with other settings; TrainingRun has the life of one run.             *)
(*****************************************************************************)
EXTENDS Naturals, FiniteSets

CONSTANTS
  Environments, \* the settings the API may be started with
  Readings,     \* what the disk and the memory may show
  Batches, ImageSizes, \* what a custom request may ask
  MaxRetries    \* bound: how often the chain is continued

VARIABLES
  policy,  \* the limits the API was last started with
  state,   \* off, refused, up: the API
  admitted, \* the limits the last run was started under
  run,     \* the last run of the chain
  origin,  \* batch and image size of the first one
  retries, \* safe retries so far
  children, \* runs started after the first
  answer   \* what the last request came to

vars == <<policy, state, admitted, run, origin, retries, children, answer>>

Devices == {"cpu", "gpu"}
Kinds == {"detect", "segment"}
Presets == {"custom", "smoke", "cpu-balanced", "gpu-quality"}
Unknown == 999 \* a reading the machine does not give
None == [status |-> "none", device |-> "cpu", kind |-> "detect", batch |-> 1,
         size |-> 1, mode |-> "train", code |-> "none", best |-> FALSE, seen |-> Unknown]
Ask(batch, size) == [batch |-> batch, size |-> size]

Init ==
  /\ policy \in Environments /\ admitted = policy
  /\ state = "off" /\ run = None /\ origin = Ask(1, 1)
  /\ retries = 0 /\ children = 0 /\ answer = "none"

(* from_environment: every limit is a positive integer, and a percentage,    *)
(* and the commit memory a running training needs is at most what a new one  *)
(* does.                                                                     *)
Positive(e) ==
  /\ \A f \in {"detectBatch", "segmentBatch", "maxSize"}, d \in Devices : e[f][d] > 0
  /\ \A f \in {"disk", "percent", "commit", "runtime", "memory"} : e[f] > 0
  /\ e.percent <= 100

Valid(e) == Positive(e) /\ e.runtime <= e.commit

(* Every start of the API reads its settings anew; the runs stay.            *)
Boot ==
  /\ state = "off"
  /\ policy' \in Environments /\ answer' = "none"
  /\ state' = IF Valid(policy') THEN "up" ELSE "refused"
  /\ UNCHANGED <<admitted, run, origin, retries, children>>
Stop ==
  /\ state # "off" /\ state' = "off"
  /\ UNCHANGED <<policy, admitted, run, origin, retries, children, answer>>

(* validate_request. A GPU has also to be one of the allowed devices.        *)
Fits(e, device, kind, batch, size) ==
  /\ device = "gpu" => e.gpuAllowed
  /\ batch <= (IF kind = "segment" THEN e.segmentBatch ELSE e.detectBatch)[device]
  /\ size <= e.maxSize[device]

(* A memory reading that is not there does not count.                        *)
Enough(reading, need) == reading = Unknown \/ reading >= need

(* prepare_training_storage: disk, then memory; a failing cleanup is noted   *)
(* and otherwise ignored.                                                    *)
Room(r) ==
  /\ r.disk >= policy.disk /\ r.percent >= policy.percent
  /\ Enough(r.commit, policy.commit) /\ Enough(r.physical, policy.memory)

(* resolve_training_preset: the batch by kind and device, the image size by  *)
(* the preset.                                                               *)
PresetAsk(preset, device, kind) ==
  Ask(IF preset = "smoke" THEN 1
      ELSE IF device = "gpu" THEN 8
      ELSE IF kind = "segment" THEN 1 ELSE 2,
      IF preset = "smoke" THEN 320 ELSE 640)

(* A runner takes its settings from the environment of the API that starts  *)
(* it, and keeps them.                                                       *)
Start(device, kind, ask, mode, r) ==
  /\ admitted' = policy
  /\ run' = [status |-> "running", device |-> device, kind |-> kind, batch |-> ask.batch,
             size |-> ask.size, mode |-> mode, code |-> "none", best |-> FALSE, seen |-> r.commit]

(* start_training_run, as far as it is about limits.                         *)
Request(device, kind, preset, r) ==
  /\ state = "up" /\ run = None
  /\ \E batch \in Batches, size \in ImageSizes :
       LET ask == IF preset = "custom" THEN Ask(batch, size) ELSE PresetAsk(preset, device, kind)
       IN  /\ answer' = IF preset = "gpu-quality" /\ device = "cpu" THEN "no preset"
                        ELSE IF ~Fits(policy, device, kind, ask.batch, ask.size) THEN "unsafe"
                        ELSE IF ~Room(r) THEN "no room" ELSE "created"
           /\ IF answer' = "created"
              THEN Start(device, kind, ask, "train", r) /\ origin' = ask
              ELSE UNCHANGED <<admitted, run, origin>>
  /\ UNCHANGED <<policy, state, retries, children>>

(* classify_training_failure: a killed or crashed process means memory;      *)
(* otherwise the first signature in the log decides, and the stop of the     *)
(* memory guard overrides it.                                                *)
Signatures == {"disk_full", "device_unavailable", "resource_limit", "dependency_import",
               "dataset_invalid", "base_model_unavailable", "none"}
Classify(exit, text, pressure) ==
  IF exit \in {"killed", "access violation"} \/ pressure THEN "resource_limit"
  ELSE IF text = "none" THEN "runner_failed" ELSE text

FailAs(code) ==
  /\ state = "up" /\ run.status = "running"
  /\ \E best \in BOOLEAN :
       run' = [run EXCEPT !.status = "failed", !.code = code,
                             !.best = best /\ run.mode = "train"]
  /\ UNCHANGED <<policy, state, admitted, origin, retries, children, answer>>

Fail ==
  \E exit \in {"killed", "access violation", "other"}, text \in Signatures :
    FailAs(Classify(exit, text, FALSE))

(* on_train_epoch_start: the guard stops the training when the commit memory *)
(* is below what a running one needs.                                        *)
Pressed(reading) == ~Enough(reading, admitted.runtime)
Pressure(r) ==
  /\ run.mode = "train" /\ Pressed(r.commit)
  /\ FailAs(Classify("other", "none", TRUE))

Steps == {320, 416, 512, 640}
Below(size) == {s \in Steps : s < size}

(* Mutant: a batch of two is not halved.                                     *)
Careless(batch, size) == Ask(IF batch > 2 THEN batch \div 2 ELSE batch, size)

(* plan_safe_retry: half the batch, and with a batch of one the next smaller *)
(* image size.                                                               *)
Less(batch, size) ==
  IF batch > 1 THEN Ask(batch \div 2, size)
  ELSE Ask(batch, CHOOSE s \in Below(size) : \A t \in Below(size) : t <= s)
Retryable(code) == code \in {"resource_limit", "runner_failed"}
Allowed == Retryable(run.code) /\ (run.batch > 1 \/ Below(run.size) # {})

Retry(r) ==
  /\ state = "up" /\ run.status = "failed" /\ children < MaxRetries
  /\ LET ask == Less(run.batch, run.size)
     IN  /\ answer' = IF ~Allowed THEN "no plan"
                      ELSE IF ~Fits(policy, run.device, run.kind, ask.batch, ask.size)
                      THEN "unsafe retry"
                      ELSE IF ~Room(r) THEN "no room" ELSE "retried"
         /\ IF answer' = "retried"
            THEN /\ Start(run.device, run.kind, ask, "train", r)
                 /\ retries' = retries + 1 /\ children' = children + 1
            ELSE UNCHANGED <<admitted, run, retries, children>>
  /\ UNCHANGED <<policy, state, origin>>

(* recover-evaluation: the best weight of the failed run is evaluated with   *)
(* the batch and image size it had.                                          *)
RecoverEvaluation(r) ==
  /\ state = "up" /\ run.status = "failed" /\ children < MaxRetries
  /\ answer' = IF ~run.best THEN "no weight"
               ELSE IF ~Fits(policy, run.device, run.kind, run.batch, run.size)
               THEN "unsafe retry"
               ELSE IF ~Room(r) THEN "no room" ELSE "recovered"
  /\ IF answer' = "recovered"
     THEN /\ Start(run.device, run.kind, Ask(run.batch, run.size), "evaluate_existing", r)
          /\ children' = children + 1
     ELSE UNCHANGED <<admitted, run, children>>
  /\ UNCHANGED <<policy, state, origin, retries>>

Next ==
  \/ Boot \/ Stop \/ Fail
  \/ \E r \in Readings :
       \/ \E d \in Devices, k \in Kinds, p \in Presets : Request(d, k, p, r)
       \/ Pressure(r) \/ Retry(r) \/ RecoverEvaluation(r)

Spec == Init /\ [][Next]_vars

TypeOK ==
  /\ {policy, admitted} \subseteq Environments /\ state \in {"off", "refused", "up"}
  /\ run.status \in {"none", "running", "failed"} /\ run.best \in BOOLEAN
  /\ {run.batch, run.size, origin.batch, origin.size, retries, children} \subseteq Nat
  /\ run.code \in Signatures \cup {"runner_failed"}
  /\ answer \in {"none", "created", "retried", "recovered", "no preset", "unsafe", "no room",
                 "no plan", "no weight", "unsafe retry"}

(* The batches that halving comes to, and what retries are left: a smaller   *)
(* batch or a smaller image size each time.                                  *)
Halved(batch) ==
  {b \in 1..(batch - 1) :
     \A S \in SUBSET (1..batch) :
       batch \in S /\ (\A c \in S : c > 1 => c \div 2 \in S) => b \in S}
Remaining(ask) == Cardinality(Halved(ask.batch)) + Cardinality(Below(ask.size))

(* Every safe retry asks for strictly less, so a chain has at most as many   *)
(* retries as its first run has halvings and smaller sizes, however often    *)
(* evaluations are recovered and the API is started anew in between; what    *)
(* runs is within the limits it was started under; and a planned retry is    *)
(* refused as unsafe only where the settings have changed since.             *)
RetriesEnd ==
  run.status # "none" =>
    /\ retries + Remaining(Ask(run.batch, run.size)) <= Remaining(origin)
    /\ Fits(admitted, run.device, run.kind, run.batch, run.size)
    /\ answer = "unsafe retry" => policy # admitted

(* docs/architecture.md:459 allows one retry of a training that ran out of   *)
(* GPU memory. The code does not keep to it: the endpoint plans from the     *)
(* failed run alone, and a retry that failed is a failed run.                *)
OneRetry == run.device = "gpu" => retries <= 1

(* The reading that let a run start would not stop it at its first epoch.    *)
AdmittedMayTrain == run.status = "running" => ~Pressed(run.seen)
===============================================================================
