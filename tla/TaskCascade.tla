----------------------------- MODULE TaskCascade -----------------------------
(* A task, kept as a row and as a config file, and what hangs on it: a       *)
(* dataset release, its trainings, the models they gave and the inference    *)
(* runs of those (create_task, update_task, delete_task,                     *)
(* delete_dataset_release, delete_downstream_records, and the task that a    *)
(* video import registers). A deletion reads in autocommit; its transaction  *)
(* begins with its first DELETE. Rows of one kind are told apart by numbers, *)
(* 0 for none; the latest of each kind is kept. A config file need not have  *)
(* come from create_task: configs/tasks of the repository holds some.        *)
(*****************************************************************************)
EXTENDS Naturals

CONSTANTS
  Workers,     \* requests and jobs at one time
  Names,       \* display names a task may be given
  NoName,      \* a task that is not there
  Shipped,     \* a config file of the task that the installation brings
  Bare,        \* the names of a task registered from a config: its class names
  Elsewhere,   \* whether a config file named otherwise is of the task, too
  MaxRequests, \* bound: requests and jobs begun
  MaxRows,     \* bound: rows made
  MaxTroubles  \* bound: crashes and failing commits

VARIABLES
  config,    \* the names in the config file called like the task
  row,       \* the names in the row
  release,   \* the release of the task
  training,  \* the training of the release: its number and whether it is active
  model,     \* the model of the training
  inference, \* the inference run of the model: number, whether active
  job,       \* what every worker is doing
  requests, made, troubles, \* how many so far
  late,      \* history: the workers past their check when the inference began
  lost,      \* history: whether an active run was deleted that was not late
  overlapped \* history: whether two requests wrote the task at once

vars == <<config, row, release, training, model, inference, job, requests, made, troubles,
          late, lost, overlapped>>
rows == <<row, release, training, model, inference>>
history == <<late, lost, overlapped>>

Gone == [no |-> 0, active |-> FALSE]
Idle == [at |-> "idle", name |-> NoName, whole |-> FALSE, cascade |-> FALSE,
         release |-> 0, training |-> 0, model |-> 0]

Init ==
  /\ config \in {NoName, Shipped} /\ row = NoName
  /\ release = 0 /\ training = Gone /\ model = 0 /\ inference = Gone
  /\ job = [w \in Workers |-> Idle] /\ requests = 0 /\ made = 0 /\ troubles = 0
  /\ late = {} /\ lost = FALSE /\ overlapped = FALSE

(* A release is deleted without its task being touched.                      *)
OnTask(j) == j # Idle /\ (j.at \in {"create", "insert", "rewrite", "update", "register"} \/ j.whole)
Begin(w, j) ==
  /\ job[w] = Idle /\ requests < MaxRequests
  /\ job' = [job EXCEPT ![w] = j] /\ requests' = requests + 1
  /\ overlapped' = (overlapped \/ (OnTask(j) /\ \E o \in Workers : OnTask(job[o])))
  /\ UNCHANGED <<config, rows, made, troubles, late, lost>>
Go(w, step) == job' = [job EXCEPT ![w].at = step] /\ UNCHANGED <<requests, made, troubles>>
End(w) ==
  /\ job' = [job EXCEPT ![w] = Idle] /\ late' = late \ {w}
  /\ UNCHANGED <<requests, made, troubles, overlapped>>

BeginCreate(w, name) ==
  row = NoName /\ config = NoName /\ Begin(w, [Idle EXCEPT !.at = "create", !.name = name])
BeginUpdate(w, name) ==
  row # NoName /\ Begin(w, [Idle EXCEPT !.at = "rewrite", !.name = name])

(* resolve_task_config: any config file of the task, or else the row.        *)
Known == config # NoName \/ Elsewhere \/ row # NoName
BeginImport(w) == Known /\ Begin(w, [Idle EXCEPT !.at = "register"])

BeginDelete(w, whole, cascade) ==
  /\ IF whole THEN row # NoName ELSE release # 0
  /\ Begin(w, [Idle EXCEPT !.at = "look", !.whole = whole, !.cascade = cascade])

(* create_task and update_task replace the config inside the session and     *)
(* commit the row after. An import adds a missing row, without the display   *)
(* names of the config.                                                      *)
Write(w) ==
  /\ job[w].at \in {"create", "rewrite"}
  /\ config' = job[w].name
  /\ Go(w, IF job[w].at = "create" THEN "insert" ELSE "update")
  /\ UNCHANGED <<rows, history>>
Commit(w) ==
  /\ \/ job[w].at = "insert" /\ row' = IF row = NoName THEN job[w].name ELSE row
     \/ job[w].at = "update" /\ row' = IF row # NoName THEN job[w].name ELSE row
     \/ job[w].at = "register" /\ row' = IF row = NoName THEN Bare ELSE row
  /\ End(w) /\ UNCHANGED <<config, release, training, model, inference, lost>>

(* The ids that depend on the task.                                          *)
Look(w) ==
  /\ job[w].at = "look"
  /\ IF release # 0 /\ job[w].whole /\ ~job[w].cascade
     THEN End(w) /\ UNCHANGED lost
     ELSE /\ job' = [job EXCEPT ![w].at = "runs", ![w].release = release]
          /\ UNCHANGED <<requests, made, troubles, history>>
  /\ UNCHANGED <<config, rows>>

(* The trainings and models of the release; an active training refuses the   *)
(* deletion, and without the cascade any does.                               *)
Runs(w) ==
  LET j == job[w] its == j.release # 0 /\ release = j.release IN
    /\ j.at = "runs"
    /\ IF its /\ (training.active \/ (~j.cascade /\ (training.no # 0 \/ model # 0)))
       THEN End(w) /\ UNCHANGED lost
       ELSE /\ job' = [job EXCEPT ![w].at = "check",
                                  ![w].training = IF its THEN training.no ELSE 0,
                                  ![w].model = IF its THEN model ELSE 0]
            /\ UNCHANGED <<requests, made, troubles, history>>
    /\ UNCHANGED <<config, rows>>

(* Mutant: the check of the inference runs is skipped.                       *)
Unchecked(w) == FALSE

ActiveInference(w) == job[w].model # 0 /\ job[w].model = model /\ inference.active

Check(w) ==
  /\ job[w].at = "check"
  /\ IF ActiveInference(w) THEN End(w) /\ UNCHANGED lost
     ELSE Go(w, "delete") /\ UNCHANGED history
  /\ UNCHANGED <<config, rows>>

(* Inference runs go by their model, the rest by the ids read before; a row  *)
(* that still refers to one of them undoes the whole.                        *)
Delete(w) ==
  LET j == job[w]
      models == j.model # 0 /\ model = j.model
      runs == j.training # 0 /\ training.no = j.training
      held == \/ runs /\ model # 0 /\ ~models
              \/ /\ release # 0 /\ release = j.release
                 /\ (training.no # 0 /\ ~runs) \/ (model # 0 /\ ~models)
              \/ j.whole /\ release # 0 /\ release # j.release
  IN  /\ j.at = "delete"
      /\ IF held THEN End(w) /\ UNCHANGED <<rows, lost>>
         ELSE /\ model' = IF models THEN 0 ELSE model
              /\ inference' = IF models THEN Gone ELSE inference
              /\ training' = IF runs THEN Gone ELSE training
              /\ release' = IF release = j.release THEN 0 ELSE release
              /\ row' = IF j.whole THEN NoName ELSE row
              /\ lost' = (lost \/ (models /\ inference.active /\ w \notin late)
                               \/ (runs /\ training.active))
              /\ IF j.whole THEN Go(w, "config") /\ UNCHANGED <<late, overlapped>> ELSE End(w)
      /\ UNCHANGED config

Unlink(w) ==
  /\ job[w].at = "config"
  /\ config' = NoName
  /\ End(w) /\ UNCHANGED <<rows, lost>>

----
(* The rows that other requests make and change meanwhile, each with the     *)
(* foreign key it needs.                                                     *)
Make == made < MaxRows /\ made' = made + 1
Publish ==
  /\ row # NoName /\ release = 0 /\ Make /\ release' = made'
  /\ UNCHANGED <<config, row, training, model, inference, job, requests, troubles, history>>
Train ==
  /\ release # 0 /\ training.no = 0 /\ Make
  /\ training' = [no |-> made', active |-> TRUE]
  /\ UNCHANGED <<config, row, release, model, inference, job, requests, troubles, history>>
EndTraining ==
  /\ training.active /\ training' = [training EXCEPT !.active = FALSE]
  /\ UNCHANGED <<config, row, release, model, inference, job, requests, made, troubles, history>>
Register ==
  /\ training.no # 0 /\ ~training.active /\ model = 0 /\ Make /\ model' = made'
  /\ UNCHANGED <<config, row, release, training, inference, job, requests, troubles, history>>
Infer ==
  /\ model # 0 /\ ~inference.active /\ Make
  /\ inference' = [no |-> made', active |-> TRUE]
  /\ late' = {w \in Workers : job[w].at = "delete"}
  /\ UNCHANGED <<config, row, release, training, model, job, requests, troubles, lost, overlapped>>
EndInference ==
  /\ inference.active /\ inference' = [inference EXCEPT !.active = FALSE]
  /\ UNCHANGED <<config, row, release, training, model, job, requests, made, troubles, history>>

(* A commit that fails, or the process ends.                                 *)
Trouble(W) ==
  /\ troubles < MaxTroubles /\ troubles' = troubles + 1
  /\ \E w \in W : job[w] # Idle
  /\ job' = [w \in Workers |-> IF w \in W THEN Idle ELSE job[w]]
  /\ late' = late \ W
  /\ UNCHANGED <<config, rows, requests, made, lost, overlapped>>

Next ==
  \/ Publish \/ Train \/ EndTraining \/ Register \/ Infer \/ EndInference \/ Trouble(Workers)
  \/ \E w \in Workers :
       \/ \E name \in Names : BeginCreate(w, name) \/ BeginUpdate(w, name)
       \/ BeginImport(w) \/ \E whole, cascade \in BOOLEAN : BeginDelete(w, whole, cascade)
       \/ Write(w) \/ Commit(w) \/ Look(w) \/ Runs(w) \/ Check(w) \/ Delete(w) \/ Unlink(w)
       \/ Trouble({w})

Spec == Init /\ [][Next]_vars

TypeOK ==
  /\ config \in Names \cup {NoName, Shipped} /\ row \in Names \cup {NoName, Bare}
  /\ {release, training.no, model, inference.no} \subseteq Nat
  /\ {training.active, inference.active, lost, overlapped} \subseteq BOOLEAN
  /\ late \subseteq Workers /\ {requests, made, troubles} \subseteq Nat

(* A config file that the platform wrote says what the row says. Without one *)
(* the row, if any, comes from a config of the installation.                 *)
Synced ==
  /\ config \in Names => row = config
  /\ config \notin Names => row \in {NoName, Bare}
  /\ row = Bare /\ config = NoName => Elsewhere

(* A cascade deletes no active training, and an active inference run only if *)
(* it began between the cascade's check and its transaction; a row never     *)
(* outlives what it refers to; and when all is quiet config files and row of *)
(* the task agree, unless something failed or two requests wrote the task at *)
(* once.                                                                     *)
CascadeSpares ==
  /\ ~lost
  /\ (release # 0 => row # NoName) /\ (training.no # 0 => release # 0)
  /\ (model # 0 => training.no # 0) /\ (inference.no # 0 => model # 0)
  /\ (\A w \in Workers : job[w] = Idle) /\ troubles = 0 /\ ~overlapped => Synced
===============================================================================
