--------------------------- MODULE DatabaseBackup ---------------------------
(* Backups of the registry (operations/database_backup.py): a checked copy *)
(* is renamed into place, recorded, and the oldest backups beyond the      *)
(* retention are pruned, their files before their rows. One backup is made *)
(* at a time, under the guard of HeavyLease. Backups are numbered by their *)
(* time.                                                                   *)
(***************************************************************************)
EXTENDS Naturals, FiniteSets

CONSTANTS
  Retention,   \* how many backups are kept
  MaxBackups,  \* how many are made
  MaxTroubles  \* how many crashes and failing sessions there are

VARIABLES
  rows,     \* the backups with a row
  files,    \* the backups with a file
  at,       \* the step of the backup being made
  made,     \* the last one begun
  troubles, \* crashes and failing sessions so far
  answered  \* history: the backups a client was told of

vars == <<rows, files, at, made, troubles, answered>>

Init ==
  /\ rows = {} /\ files = {} /\ at = "idle"
  /\ made = 0 /\ troubles = 0 /\ answered = {}

Create ==
  /\ at = "idle" /\ made < MaxBackups
  /\ made' = made + 1 /\ at' = "copy"
  /\ UNCHANGED <<rows, files, troubles, answered>>

(* The copy is renamed when its integrity check says "ok", and else        *)
(* removed.                                                                *)
Copy ==
  /\ at = "copy"
  /\ \/ files' = files \cup {made} /\ at' = "insert"
     \/ at' = "idle" /\ UNCHANGED files
  /\ UNCHANGED <<rows, made, troubles, answered>>

Insert ==
  /\ at = "insert" /\ at' = "prune"
  /\ rows' = rows \cup {made}
  /\ UNCHANGED <<files, made, troubles, answered>>

(* Mutant: the newest come last.                                           *)
Newest == {b \in rows : Cardinality({c \in rows : c < b}) >= Retention}

(* What is behind the newest Retention rows.                               *)
Old == {b \in rows : Cardinality({c \in rows : c > b}) >= Retention}

(* _prune unlinks in its session and deletes the rows when it commits.     *)
Unlink ==
  /\ at = "prune" /\ at' = "commit"
  /\ files' = files \ Old
  /\ UNCHANGED <<rows, made, troubles, answered>>
Commit ==
  /\ at = "commit" /\ at' = "idle"
  /\ rows' = rows \ Old
  /\ answered' = answered \cup {made}
  /\ UNCHANGED <<files, made, troubles>>

(* A session fails, or the process dies: nothing is undone.                *)
Fail ==
  /\ at # "idle" /\ at' = "idle"
  /\ troubles < MaxTroubles /\ troubles' = troubles + 1
  /\ UNCHANGED <<rows, files, made, answered>>

Next == Create \/ Copy \/ Insert \/ Unlink \/ Commit \/ Fail
Spec == Init /\ [][Next]_vars

-----------------------------------------------------------------------------
TypeOK ==
  /\ rows \subseteq 1..made /\ files \subseteq 1..made /\ answered \subseteq 1..made
  /\ at \in {"idle", "copy", "insert", "prune", "commit"}
  /\ made \in Nat /\ troubles \in Nat

(* The newest Retention backups on record have their files, whatever step  *)
(* failed; a backup a client was told of is there until Retention newer    *)
(* ones are on record; and as long as nothing failed, the files are the    *)
(* rows, and no more than Retention.                                       *)
BackupsHold ==
  /\ rows \ Old \subseteq files
  /\ \A b \in answered :
       Cardinality({c \in rows : c > b}) < Retention => b \in rows \cap files
  /\ at = "idle" /\ troubles = 0 => rows = files /\ Cardinality(rows) <= Retention
=============================================================================
