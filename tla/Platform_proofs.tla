--------------------------- MODULE Platform_proofs ---------------------------
(* What Parts_proofs proves of each part holds of the behaviours MCPlatform  *)
(* checks, whatever the sets of jobs, folders, annotators, shapes, archives  *)
(* and requests: a behaviour runs one part for good.                         *)
(*****************************************************************************)
EXTENDS MCPlatform, Integers, FiniteSetTheorems, TLAPS

P == INSTANCE Parts_proofs WITH
  Workers <- 1..2, Frames <- 1..2, MaxRequests <- 2, MaxImports <- 5,
  MaxTroubles <- 1, MaxFailures <- 2, PurgeLimit <- 1, MaxCrashes <- 2, MaxSaves <- 3,
  Retention <- 2, MaxBackups <- 5, Amounts <- {0, 2, 6, 7, 11}, Items <- Found,
  MaxTasks <- 3, MaxRows <- 5, Elsewhere <- TRUE,
  Files <- 1..3, SplitOf <- <<"train", "train", "val">>, Nested <- {2}, Contents <- {"x",
  "y"},
  Corrupt <- {"y"}, MaxEdits <- 3,
  Environments <- Settings, Readings <- Shown, BatchSizes <- {1, 4, 7},
  ImageSizes <- {320, 640, 1280}, MaxRetries <- 7,
  row <- v1, job <- v4, troubles <- v5, requests <- v6, overlapped <- v10,
  expires <- v2, thread <- v3, api <- v4, crashes <- v6,
  life <- v1, image <- v2, shape <- v3, edit <- v4, known <- v5, saves <- v6, view <- v7,
  approved <- v8, blind <- v9,
  file <- v2, ledger <- v3, strayed <- v7, raced <- v8, astray <- v9, contested <- v10,
  export <- v1, exported <- v2, tmp <- v3, release <- v7, released <- v8, doomed <- v9,
  rows <- v1, files <- v2, made <- v3, at <- v4, answered <- v6,
  kind <- v1, images <- v2, left <- v3, passed <- v4, masks <- v5, agreed <- v6,
  result <- v7,
  config <- v2, training <- v8, model <- v9, inference <- v11, late <- v12, lost <- v13,
  content <- v1, label <- v2, stamp <- v3, cache <- v4, report <- v5, blockers <- v6,
  checked <- v7, silent <- v8, edits <- v9, yaml <- v10,
  policy <- v1, state <- v2, run <- v3, origin <- v4, retries <- v5, children <- v6,
  answer <- v7,
  admitted <- v8,
  collection <- v1, dir <- v3, batch <- v7, frames <- v8, manifest <- v9,
  Images <- {"x", "y"}, MaxUploads <- 3,
  MaxJobs <- 3, collections <- v1, stored <- v3, tmps <- v6, assets <- v9, dirs <- v11,
  jobs <- v12, mixed <- v13,
  Groups <- 1..4, Sizes <- {1, 3}, Ratios <- {Thirds, Halves, Short},
  size <- v1, ratio <- v2, split <- v3, stage <- v4

LEMMA JobsSame ==
  /\ J!Init => P!J!Init
  /\ [J!Next]_J!vars => [P!J!Next]_(P!J!vars)
  /\ P!J!TypeOK => J!TypeOK
  BY DEF J!vars, P!J!vars, J!Open, P!J!Open, J!Ended, P!J!Ended, J!Steps, P!J!Steps, J!Init,
    P!J!Init, J!Create, P!J!Create, J!Goes, P!J!Goes, J!Update, P!J!Update, J!Begin,
    P!J!Begin, J!Return, P!J!Return, J!Raise, P!J!Raise, J!Check, P!J!Check, J!Complete,
    P!J!Complete, J!Fail, P!J!Fail, J!SessionFails, P!J!SessionFails, J!Work, P!J!Work,
    J!Startup, P!J!Startup, J!Boot, P!J!Boot, J!Recover, P!J!Recover, J!Purge, P!J!Purge,
    J!StartupFails, P!J!StartupFails, J!Crash, P!J!Crash, J!Expire, P!J!Expire, J!Next,
    P!J!Next, J!TypeOK, P!J!TypeOK, J!Cardinality, P!J!Cardinality

LEMMA EditsSame ==
  /\ A!Init => P!A!Init
  /\ [A!Next]_A!vars => [P!A!Next]_(P!A!vars)
  /\ P!A!NoBlindSave => A!NoBlindSave
  /\ P!A!ReviewStands => A!ReviewStands
  /\ P!A!TypeOK => A!TypeOK
  BY DEF A!history, P!A!history, A!vars, P!A!vars, A!Statuses, P!A!Statuses, A!Drawn,
    P!A!Drawn, A!Idle, P!A!Idle, A!Ops, P!A!Ops, A!Init, P!A!Init, A!There, P!A!There,
    A!Sync, P!A!Sync, A!See, P!A!See, A!Get, P!A!Get, A!Current, P!A!Current, A!Mutable,
    P!A!Mutable, A!Open, P!A!Open, A!Create, P!A!Create, A!Change, P!A!Change, A!SetStatus,
    P!A!SetStatus, A!NewShape, P!A!NewShape, A!NewStatus, P!A!NewStatus, A!Fits, P!A!Fits,
    A!Save, P!A!Save, A!RollBack, P!A!RollBack, A!Trash, P!A!Trash, A!Restore, P!A!Restore,
    A!Purge, P!A!Purge, A!Next, P!A!Next, A!TypeOK, P!A!TypeOK, A!NoBlindSave,
    P!A!NoBlindSave, A!ReviewStands, P!A!ReviewStands

LEMMA FramesSame ==
  /\ F!Init => P!F!Init
  /\ [F!Next]_F!vars => [P!F!Next]_(P!F!vars)
  /\ P!F!FilesAndRows => F!FilesAndRows
  /\ P!F!SettledRowsAgree => F!SettledRowsAgree
  /\ P!F!SparesActive => F!SparesActive
  /\ P!F!TypeOK => F!TypeOK
  BY DEF F!history, P!F!history, F!vars, P!F!vars, F!Row, P!F!Row, F!NoFrames, P!F!NoFrames,
    F!Idle, P!F!Idle, F!Kept, P!F!Kept, F!InBin, P!F!InBin, F!Init, P!F!Init, F!In, P!F!In,
    F!Present, P!F!Present, F!Go, P!F!Go, F!First, P!F!First, F!At, P!F!At, F!Starts,
    P!F!Starts, F!Ask, P!F!Ask, F!Loaded, P!F!Loaded, F!Dirty, P!F!Dirty, F!Merged,
    P!F!Merged, F!Flush, P!F!Flush, F!Store, P!F!Store, F!Binned, P!F!Binned, F!Trash,
    P!F!Trash, F!Trashed, P!F!Trashed, F!Back, P!F!Back, F!Restore, P!F!Restore, F!Restored,
    P!F!Restored, F!Due, P!F!Due, F!Purge, P!F!Purge, F!Expired, P!F!Expired,
    F!PurgeExpired, P!F!PurgeExpired, F!CheckPurge, P!F!CheckPurge, F!DeleteRows,
    P!F!DeleteRows, F!Dropped, P!F!Dropped, F!Unlink, P!F!Unlink, F!UnlinkFails,
    P!F!UnlinkFails, F!Placed, P!F!Placed, F!Bulk, P!F!Bulk, F!BulkFlush, P!F!BulkFlush,
    F!Stored, P!F!Stored, F!Select, P!F!Select, F!Move, P!F!Move, F!List, P!F!List, F!Read,
    P!F!Read, F!SyncFlush, P!F!SyncFlush, F!Crash, P!F!Crash, F!Begin, P!F!Begin, F!Proceed,
    P!F!Proceed, F!Next, P!F!Next, F!Doings, P!F!Doings, F!TypeOK, P!F!TypeOK,
    F!FilesAndRows, P!F!FilesAndRows, F!SparesActive, P!F!SparesActive, F!SettledRowsAgree,
    P!F!SettledRowsAgree

LEMMA DatasetsSame ==
  /\ D!Init => P!D!Init
  /\ [D!Next]_D!vars => [P!D!Next]_(P!D!vars)
  /\ P!D!ImportedIsItsArchive => D!ImportedIsItsArchive
  /\ P!D!ReleaseHasItsFiles => D!ReleaseHasItsFiles
  /\ P!D!TypeOK => D!TypeOK
  BY DEF D!exports, P!D!exports, D!releases, P!D!releases, D!history, P!D!history, D!vars,
    P!D!vars, D!Absent, P!D!Absent, D!Idle, P!D!Idle, D!Init, P!D!Init, D!Importing,
    P!D!Importing, D!Releasing, P!D!Releasing, D!Deleting, P!D!Deleting, D!Go, P!D!Go, D!Is,
    P!D!Is, D!Stop, P!D!Stop, D!Begin, P!D!Begin, D!Still, P!D!Still, D!Import, P!D!Import,
    D!Clear, P!D!Clear, D!Copy, P!D!Copy, D!Extract, P!D!Extract, D!Check, P!D!Check,
    D!Rename, P!D!Rename, D!ImportFails, P!D!ImportFails, D!Insert, P!D!Insert, D!Release,
    P!D!Release, D!Look, P!D!Look, D!Stage, P!D!Stage, D!Add, P!D!Add, D!Track, P!D!Track,
    D!Publish, P!D!Publish, D!Whole, P!D!Whole, D!Register, P!D!Register, D!Registered,
    P!D!Registered, D!Delete, P!D!Delete, D!Unregister, P!D!Unregister, D!Remove,
    P!D!Remove, D!Removed, P!D!Removed, D!Trouble, P!D!Trouble, D!SessionFails,
    P!D!SessionFails, D!Crash, P!D!Crash, D!Next, P!D!Next, D!Directories, P!D!Directories,
    D!TypeOK, P!D!TypeOK, D!ImportedIsItsArchive, P!D!ImportedIsItsArchive,
    D!ReleaseHasItsFiles, P!D!ReleaseHasItsFiles

LEMMA BackupsSame ==
  /\ B!Init => P!B!Init
  /\ [B!Next]_B!vars => [P!B!Next]_(P!B!vars)
  /\ P!B!BackupsHold => B!BackupsHold
  /\ P!B!TypeOK => B!TypeOK
  BY DEF B!vars, P!B!vars, B!Init, P!B!Init, B!Create, P!B!Create, B!Copy, P!B!Copy,
    B!Insert, P!B!Insert, B!Old, P!B!Old, B!Unlink, P!B!Unlink, B!Commit, P!B!Commit,
    B!Fail, P!B!Fail, B!Next, P!B!Next, B!TypeOK, P!B!TypeOK, B!BackupsHold,
    P!B!BackupsHold, B!Cardinality, P!B!Cardinality

LEMMA GateSame ==
  /\ G!Init => P!G!Init
  /\ [G!Next]_G!vars => [P!G!Next]_(P!G!vars)
  /\ P!G!GatePassesMatch => G!GatePassesMatch
  /\ P!G!TypeOK => G!TypeOK
  BY DEF G!vars, P!G!vars, G!Init, P!G!Init, G!Limit, P!G!Limit, G!Round, P!G!Round,
    G!Samples, P!G!Samples, G!Begin, P!G!Begin, G!SmallerOf, P!G!SmallerOf, G!LargerOf,
    P!G!LargerOf, G!Length, P!G!Length, G!Iou, P!G!Iou, G!NoMask, P!G!NoMask, G!MaskIou,
    P!G!MaskIou, G!Score, P!G!Score, G!Pairings, P!G!Pairings, G!Total, P!G!Total, G!Best,
    P!G!Best, G!Apart, P!G!Apart, G!Close, P!G!Close, G!Passes, P!G!Passes, G!MasksPass,
    P!G!MasksPass, G!Detections, P!G!Detections, G!Match, P!G!Match, G!Compare, P!G!Compare,
    G!Finish, P!G!Finish, G!Next, P!G!Next, G!TypeOK, P!G!TypeOK, G!GatePassesMatch,
    P!G!GatePassesMatch, G!Cardinality, P!G!Cardinality, G!MapThenSumSet, P!G!MapThenSumSet,
    G!MapThenFoldSet, P!G!MapThenFoldSet

LEMMA TasksSame ==
  /\ T!Init => P!T!Init
  /\ [T!Next]_T!vars => [P!T!Next]_(P!T!vars)
  /\ P!T!CascadeSpares => T!CascadeSpares
  /\ P!T!TypeOK => T!TypeOK
  BY DEF T!vars, P!T!vars, T!rows, P!T!rows, T!history, P!T!history, T!Gone, P!T!Gone,
    T!Idle, P!T!Idle, T!Init, P!T!Init, T!OnTask, P!T!OnTask, T!Begin, P!T!Begin, T!Go,
    P!T!Go, T!End, P!T!End, T!BeginCreate, P!T!BeginCreate, T!BeginUpdate, P!T!BeginUpdate,
    T!BeginImport, P!T!BeginImport, T!BeginDelete, P!T!BeginDelete, T!Write, P!T!Write,
    T!Commit, P!T!Commit, T!Look, P!T!Look, T!Runs, P!T!Runs, T!ActiveInference,
    P!T!ActiveInference, T!Check, P!T!Check, T!Delete, P!T!Delete, T!Unlink, P!T!Unlink,
    T!Make, P!T!Make, T!Publish, P!T!Publish, T!Known, P!T!Known, T!Synced, P!T!Synced,
    T!Train, P!T!Train, T!EndTraining,
    P!T!EndTraining, T!Register, P!T!Register, T!Infer, P!T!Infer, T!EndInference,
    P!T!EndInference, T!Trouble, P!T!Trouble, T!Next, P!T!Next, T!TypeOK, P!T!TypeOK,
    T!CascadeSpares, P!T!CascadeSpares

LEMMA ValidationSame ==
  /\ V!Init => P!V!Init
  /\ [V!Next]_V!vars => [P!V!Next]_(P!V!vars)
  /\ P!V!LeaksAreFound => V!LeaksAreFound
  /\ P!V!TypeOK => V!TypeOK
  BY DEF V!vars, P!V!vars, V!Absent, P!V!Absent, V!Rows, P!V!Rows, V!NoEntry, P!V!NoEntry,
    V!Init, P!V!Init, V!Present, P!V!Present, V!Edit, P!V!Edit, V!Put, P!V!Put, V!Replace,
    P!V!Replace, V!Remove, P!V!Remove, V!Unchanged, P!V!Unchanged, V!Digest, P!V!Digest,
    V!Order, P!V!Order, V!Leaks, P!V!Leaks, V!Describe, P!V!Describe, V!Led, P!V!Led,
    V!LedTo, P!V!LedTo,
    V!Labels, P!V!Labels, V!Outside, P!V!Outside, V!Plain, P!V!Plain, V!Issues,
    P!V!Issues, V!Blockers, P!V!Blockers, V!Check, P!V!Check, V!Next, P!V!Next, V!TypeOK,
    P!V!TypeOK, V!Shared, P!V!Shared, V!LeaksAreFound, P!V!LeaksAreFound

LEMMA LimitsSame ==
  /\ L!Init => P!L!Init
  /\ [L!Next]_L!vars => [P!L!Next]_(P!L!vars)
  /\ P!L!RetriesEnd => L!RetriesEnd
  /\ P!L!AdmittedMayTrain => L!AdmittedMayTrain
  /\ P!L!TypeOK => L!TypeOK
  BY DEF L!vars, P!L!vars, L!Devices, P!L!Devices, L!Kinds, P!L!Kinds, L!Presets,
    P!L!Presets, L!Unknown, P!L!Unknown, L!None, P!L!None, L!Ask, P!L!Ask, L!Init, P!L!Init,
    L!Positive, P!L!Positive, L!Valid, P!L!Valid, L!Boot, P!L!Boot, L!Stop, P!L!Stop,
    L!Fits, P!L!Fits,
    L!Enough, P!L!Enough, L!Room, P!L!Room, L!PresetAsk, P!L!PresetAsk, L!Start, P!L!Start,
    L!Request, P!L!Request, L!Signatures, P!L!Signatures, L!Classify, P!L!Classify,
    L!FailAs, P!L!FailAs, L!Fail, P!L!Fail, L!Pressed, P!L!Pressed, L!Pressure,
    P!L!Pressure, L!Steps, P!L!Steps, L!Below, P!L!Below, L!Less, P!L!Less, L!Retryable,
    P!L!Retryable, L!Allowed, P!L!Allowed, L!Retry, P!L!Retry, L!RecoverEvaluation,
    P!L!RecoverEvaluation, L!Next, P!L!Next, L!TypeOK, P!L!TypeOK, L!Halved, P!L!Halved,
    L!Remaining, P!L!Remaining, L!RetriesEnd, P!L!RetriesEnd, L!AdmittedMayTrain,
    P!L!AdmittedMayTrain, L!Cardinality, P!L!Cardinality

LEMMA ImagesSame ==
  /\ I!Init => P!I!Init
  /\ [I!Next]_I!vars => [P!I!Next]_(P!I!vars)
  /\ P!I!ImageBatchHolds => I!ImageBatchHolds
  /\ P!I!TypeOK => I!TypeOK
  BY DEF I!vars, P!I!vars, I!rows, P!I!rows, I!disk, P!I!disk, I!Idle, P!I!Idle, I!Init,
    P!I!Init, I!Alone, P!I!Alone, I!LoopFree, P!I!LoopFree, I!Uploading, P!I!Uploading,
    I!Begin, P!I!Begin, I!Go, P!I!Go, I!At, P!I!At, I!Fail, P!I!Fail, I!Import, P!I!Import,
    I!Item, P!I!Item, I!Store, P!I!Store, I!InsertCollection, P!I!InsertCollection,
    I!InsertBatch, P!I!InsertBatch, I!InsertFrames, P!I!InsertFrames, I!Clear, P!I!Clear,
    I!Add, P!I!Add, I!Known, P!I!Known, I!Collect, P!I!Collect, I!Write, P!I!Write,
    I!InsertAppended, P!I!InsertAppended, I!Undo, P!I!Undo, I!Rewrite, P!I!Rewrite,
    I!Delete, P!I!Delete, I!Unlink, P!I!Unlink, I!Crash, P!I!Crash, I!Step, P!I!Step,
    I!Uploads, P!I!Uploads, I!Next, P!I!Next, I!TypeOK, P!I!TypeOK, I!ImageBatchHolds,
    P!I!ImageBatchHolds, I!Max, P!I!Max

LEMMA CapturesSame ==
  /\ C!Init => P!C!Init
  /\ [C!Next]_C!vars => [P!C!Next]_(P!C!vars)
  /\ P!C!CaptureFilesHold => C!CaptureFilesHold
  /\ P!C!TypeOK => C!TypeOK
  BY DEF C!vars, P!C!vars, C!rows, P!C!rows, C!disk, P!C!disk, C!counts, P!C!counts, C!Idle,
    P!C!Idle, C!Init, P!C!Init, C!Imported, P!C!Imported, C!BatchesOf, P!C!BatchesOf,
    C!Touched, P!C!Touched, C!Begin, P!C!Begin, C!Go, P!C!Go, C!At, P!C!At, C!End, P!C!End,
    C!BeginImport, P!C!BeginImport, C!BeginExtract, P!C!BeginExtract, C!BeginDeleteBatch,
    P!C!BeginDeleteBatch, C!BeginDeleteCollection, P!C!BeginDeleteCollection, C!Look,
    P!C!Look, C!Copy, P!C!Copy, C!Place, P!C!Place, C!Insert, P!C!Insert, C!Undo, P!C!Undo,
    C!List, P!C!List, C!Batch, P!C!Batch, C!Every, P!C!Every, C!Shots, P!C!Shots, C!Extract,
    P!C!Extract, C!Row, P!C!Row, C!Same, P!C!Same, C!Numbered, P!C!Numbered, C!Register,
    P!C!Register, C!Delete, P!C!Delete, C!Unlink, P!C!Unlink, C!FailCopy, P!C!FailCopy,
    C!Crash, P!C!Crash, C!Step, P!C!Step, C!Next, P!C!Next, C!TypeOK, P!C!TypeOK,
    C!CaptureFilesHold, P!C!CaptureFilesHold, C!Cardinality, P!C!Cardinality, C!ToSet,
    P!C!ToSet

LEMMA PlansSame ==
  /\ S!Init => P!R!Init
  /\ [S!Next]_S!vars => [P!R!Next]_(P!R!vars)
  /\ P!R!SplitsSound => S!SplitsSound
  /\ P!R!TypeOK => S!TypeOK
  BY DEF S!vars, P!R!vars, S!Splits, P!R!Splits, S!Rank, P!R!Rank, S!Even, P!R!Even, S!Init,
    P!R!Init, S!Present, P!R!Present, S!Placed, P!R!Placed, S!Active, P!R!Active, S!Frames,
    P!R!Frames, S!Of, P!R!Of, S!Total, P!R!Total, S!Count, P!R!Count, S!Plan, P!R!Plan,
    S!Before, P!R!Before, S!Put, P!R!Put, S!Seed, P!R!Seed, S!Deficit, P!R!Deficit,
    S!Spread, P!R!Spread, S!Done, P!R!Done, S!Next, P!R!Next, S!TypeOK, P!R!TypeOK,
    S!Largest, P!R!Largest, S!SplitsSound, P!R!SplitsSound, S!Cardinality, P!R!Cardinality,
    S!MapThenSumSet, P!R!MapThenSumSet, S!MapThenFoldSet, P!R!MapThenFoldSet

-----------------------------------------------------------------------------
(* The part a behaviour runs stays the same.                                 *)
LEMMA PartStays == [Next]_vars => UNCHANGED part
  BY DEF Next, JobsStep, vars

LEMMA JobsRun == Spec => P!J!Spec \/ []~(part = "jobs")
<1>1. Init /\ part = "jobs" => P!J!Init BY JobsSame DEF Init
<1>2. part = "jobs" /\ [Next]_vars => [P!J!Next]_(P!J!vars)
  <2>1. part = "jobs" /\ Next => J!Next BY DEF Next, JobsStep
  <2>2. UNCHANGED vars => UNCHANGED J!vars
    BY DEF vars, From5, From7, From8, From9, From10, From11, J!vars
  <2> QED BY <2>1, <2>2, JobsSame
<1>3. part = "jobs" /\ [Next]_vars => (part = "jobs")' BY PartStays
<1>4. ~(part = "jobs") /\ [Next]_vars => ~(part = "jobs")' BY PartStays
<1> QED BY <1>1, <1>2, <1>3, <1>4, PTL DEF Spec, P!J!Spec

LEMMA EditsRun == Spec => P!A!Spec \/ []~(part = "annotations")
<1>1. Init /\ part = "annotations" => P!A!Init BY EditsSame DEF Init
<1>2. part = "annotations" /\ [Next]_vars => [P!A!Next]_(P!A!vars)
  <2>1. part = "annotations" /\ Next => A!Next BY DEF Next, JobsStep
  <2>2. UNCHANGED vars => UNCHANGED A!vars
    BY DEF vars, From5, From7, From8, From9, From10, From11, A!vars, A!history
  <2> QED BY <2>1, <2>2, EditsSame
<1>3. part = "annotations" /\ [Next]_vars => (part = "annotations")' BY PartStays
<1>4. ~(part = "annotations") /\ [Next]_vars => ~(part = "annotations")' BY PartStays
<1> QED BY <1>1, <1>2, <1>3, <1>4, PTL DEF Spec, P!A!Spec

LEMMA FramesRun == Spec => P!F!Spec \/ []~(part = "frames")
<1>1. Init /\ part = "frames" => P!F!Init BY FramesSame DEF Init
<1>2. part = "frames" /\ [Next]_vars => [P!F!Next]_(P!F!vars)
  <2>1. part = "frames" /\ Next => F!Next BY DEF Next, JobsStep
  <2>2. UNCHANGED vars => UNCHANGED F!vars
    BY DEF vars, From5, From7, From8, From9, From10, From11, F!vars, F!history
  <2> QED BY <2>1, <2>2, FramesSame
<1>3. part = "frames" /\ [Next]_vars => (part = "frames")' BY PartStays
<1>4. ~(part = "frames") /\ [Next]_vars => ~(part = "frames")' BY PartStays
<1> QED BY <1>1, <1>2, <1>3, <1>4, PTL DEF Spec, P!F!Spec

LEMMA DatasetsRun == Spec => P!D!Spec \/ []~(part = "datasets")
<1>1. Init /\ part = "datasets" => P!D!Init BY DatasetsSame DEF Init
<1>2. part = "datasets" /\ [Next]_vars => [P!D!Next]_(P!D!vars)
  <2>1. part = "datasets" /\ Next => D!Next BY DEF Next, JobsStep
  <2>2. UNCHANGED vars => UNCHANGED D!vars
    BY DEF vars, From5, From7, From8, From9, From10, From11, D!vars, D!exports, D!releases,
    D!history
  <2> QED BY <2>1, <2>2, DatasetsSame
<1>3. part = "datasets" /\ [Next]_vars => (part = "datasets")' BY PartStays
<1>4. ~(part = "datasets") /\ [Next]_vars => ~(part = "datasets")' BY PartStays
<1> QED BY <1>1, <1>2, <1>3, <1>4, PTL DEF Spec, P!D!Spec

LEMMA BackupsRun == Spec => P!B!Spec \/ []~(part = "backups")
<1>1. Init /\ part = "backups" => P!B!Init BY BackupsSame DEF Init
<1>2. part = "backups" /\ [Next]_vars => [P!B!Next]_(P!B!vars)
  <2>1. part = "backups" /\ Next => B!Next BY DEF Next, JobsStep
  <2>2. UNCHANGED vars => UNCHANGED B!vars
    BY DEF vars, From5, From7, From8, From9, From10, From11, B!vars
  <2> QED BY <2>1, <2>2, BackupsSame
<1>3. part = "backups" /\ [Next]_vars => (part = "backups")' BY PartStays
<1>4. ~(part = "backups") /\ [Next]_vars => ~(part = "backups")' BY PartStays
<1> QED BY <1>1, <1>2, <1>3, <1>4, PTL DEF Spec, P!B!Spec

LEMMA GateRun == Spec => P!G!Spec \/ []~(part = "gate")
<1>1. Init /\ part = "gate" => P!G!Init BY GateSame DEF Init
<1>2. part = "gate" /\ [Next]_vars => [P!G!Next]_(P!G!vars)
  <2>1. part = "gate" /\ Next => G!Next BY DEF Next, JobsStep
  <2>2. UNCHANGED vars => UNCHANGED G!vars
    BY DEF vars, From5, From7, From8, From9, From10, From11, G!vars
  <2> QED BY <2>1, <2>2, GateSame
<1>3. part = "gate" /\ [Next]_vars => (part = "gate")' BY PartStays
<1>4. ~(part = "gate") /\ [Next]_vars => ~(part = "gate")' BY PartStays
<1> QED BY <1>1, <1>2, <1>3, <1>4, PTL DEF Spec, P!G!Spec

LEMMA TasksRun == Spec => P!T!Spec \/ []~(part = "tasks")
<1>1. Init /\ part = "tasks" => P!T!Init BY TasksSame DEF Init
<1>2. part = "tasks" /\ [Next]_vars => [P!T!Next]_(P!T!vars)
  <2>1. part = "tasks" /\ Next => T!Next BY DEF Next, JobsStep
  <2>2. UNCHANGED vars => UNCHANGED T!vars
    BY DEF vars, From5, From7, From8, From9, From10, From11, T!vars
  <2> QED BY <2>1, <2>2, TasksSame
<1>3. part = "tasks" /\ [Next]_vars => (part = "tasks")' BY PartStays
<1>4. ~(part = "tasks") /\ [Next]_vars => ~(part = "tasks")' BY PartStays
<1> QED BY <1>1, <1>2, <1>3, <1>4, PTL DEF Spec, P!T!Spec

LEMMA ValidationRun == Spec => P!V!Spec \/ []~(part = "validation")
<1>1. Init /\ part = "validation" => P!V!Init BY ValidationSame DEF Init
<1>2. part = "validation" /\ [Next]_vars => [P!V!Next]_(P!V!vars)
  <2>1. part = "validation" /\ Next => V!Next BY DEF Next, JobsStep
  <2>2. UNCHANGED vars => UNCHANGED V!vars
    BY DEF vars, From5, From7, From8, From9, From10, From11, V!vars
  <2> QED BY <2>1, <2>2, ValidationSame
<1>3. part = "validation" /\ [Next]_vars => (part = "validation")' BY PartStays
<1>4. ~(part = "validation") /\ [Next]_vars => ~(part = "validation")' BY PartStays
<1> QED BY <1>1, <1>2, <1>3, <1>4, PTL DEF Spec, P!V!Spec

LEMMA LimitsRun == Spec => P!L!Spec \/ []~(part = "limits")
<1>1. Init /\ part = "limits" => P!L!Init BY LimitsSame DEF Init
<1>2. part = "limits" /\ [Next]_vars => [P!L!Next]_(P!L!vars)
  <2>1. part = "limits" /\ Next => L!Next BY DEF Next, JobsStep
  <2>2. UNCHANGED vars => UNCHANGED L!vars
    BY DEF vars, From5, From7, From8, From9, From10, From11, L!vars
  <2> QED BY <2>1, <2>2, LimitsSame
<1>3. part = "limits" /\ [Next]_vars => (part = "limits")' BY PartStays
<1>4. ~(part = "limits") /\ [Next]_vars => ~(part = "limits")' BY PartStays
<1> QED BY <1>1, <1>2, <1>3, <1>4, PTL DEF Spec, P!L!Spec

LEMMA ImagesRun == Spec => P!I!Spec \/ []~(part = "images")
<1>1. Init /\ part = "images" => P!I!Init BY ImagesSame DEF Init
<1>2. part = "images" /\ [Next]_vars => [P!I!Next]_(P!I!vars)
  <2>1. part = "images" /\ Next => I!Next BY DEF Next, JobsStep
  <2>2. UNCHANGED vars => UNCHANGED I!vars
    BY DEF vars, From5, From7, From8, From9, From10, From11, I!vars, I!rows, I!disk
  <2> QED BY <2>1, <2>2, ImagesSame
<1>3. part = "images" /\ [Next]_vars => (part = "images")' BY PartStays
<1>4. ~(part = "images") /\ [Next]_vars => ~(part = "images")' BY PartStays
<1> QED BY <1>1, <1>2, <1>3, <1>4, PTL DEF Spec, P!I!Spec

LEMMA CapturesRun == Spec => P!C!Spec \/ []~(part = "captures")
<1>1. Init /\ part = "captures" => P!C!Init BY CapturesSame DEF Init
<1>2. part = "captures" /\ [Next]_vars => [P!C!Next]_(P!C!vars)
  <2>1. part = "captures" /\ Next => C!Next BY DEF Next, JobsStep
  <2>2. UNCHANGED vars => UNCHANGED C!vars
    BY DEF vars, From5, From7, From8, From9, From10, From11, C!vars
  <2> QED BY <2>1, <2>2, CapturesSame
<1>3. part = "captures" /\ [Next]_vars => (part = "captures")' BY PartStays
<1>4. ~(part = "captures") /\ [Next]_vars => ~(part = "captures")' BY PartStays
<1> QED BY <1>1, <1>2, <1>3, <1>4, PTL DEF Spec, P!C!Spec

LEMMA PlansRun == Spec => P!R!Spec \/ []~(part = "splits")
<1>1. Init /\ part = "splits" => P!R!Init BY PlansSame DEF Init
<1>2. part = "splits" /\ [Next]_vars => [P!R!Next]_(P!R!vars)
  <2>1. part = "splits" /\ Next => S!Next BY DEF Next, JobsStep
  <2>2. UNCHANGED vars => UNCHANGED S!vars
    BY DEF vars, From5, From7, From8, From9, From10, From11, S!vars
  <2> QED BY <2>1, <2>2, PlansSame
<1>3. part = "splits" /\ [Next]_vars => (part = "splits")' BY PartStays
<1>4. ~(part = "splits") /\ [Next]_vars => ~(part = "splits")' BY PartStays
<1> QED BY <1>1, <1>2, <1>3, <1>4, PTL DEF Spec, P!R!Spec

-----------------------------------------------------------------------------
(* KeepsBoard: in every behaviour of the platform, through failing sessions, *)
(* restarts and purges, a client is shown moves of its jobs that the board   *)
(* allows, and no other.                                                     *)
THEOREM BoardKept == Spec => KeepsBoard
<1> DEFINE shown == IF part = "jobs" THEN v1 ELSE [j \in Jobs |-> "none"]
<1>1. Init => JobBoard!Init
  BY DEF Init, J!Init, JobBoard!Init
<1>2. part = "jobs" /\ UNCHANGED part /\ [P!J!Board!Next]_v1 => [JobBoard!Next]_shown
  BY DEF P!J!Board!Next, P!J!Board!Accept, P!J!Board!Start, P!J!Board!Complete,
  P!J!Board!Fail,
    P!J!Board!Interrupt, P!J!Board!Forget, P!J!Board!Move, P!J!Board!Ended,
    JobBoard!Next, JobBoard!Accept, JobBoard!Start, JobBoard!Complete, JobBoard!Fail,
    JobBoard!Interrupt, JobBoard!Forget, JobBoard!Move, JobBoard!Ended
<1>3. ~(part = "jobs") /\ UNCHANGED part => UNCHANGED shown
  OBVIOUS
<1>4. part = "jobs" /\ [Next]_vars => (part = "jobs")' BY PartStays
<1>5. ~(part = "jobs") /\ [Next]_vars => ~(part = "jobs")' BY PartStays
<1>6. P!J!Spec => [][P!J!Board!Next]_v1
  BY P!ImplementsBoard, PTL DEF P!J!KeepsBoard, P!J!Board!Spec
<1>7. ~(part = "jobs") /\ [Next]_vars => [JobBoard!Next]_shown BY <1>3, PartStays
<1>8. part = "jobs" /\ [Next]_vars /\ [P!J!Board!Next]_v1 => [JobBoard!Next]_shown
  BY <1>2, PartStays
<1> QED BY <1>1, <1>4, <1>5, <1>6, <1>7, <1>8, JobsRun, PTL DEF Spec, KeepsBoard,
JobBoard!Spec

(* EditsAreSeen: whoever saves an annotation edit has seen every edit saved  *)
(* before it, and a reviewed image has the shapes its review was made of, as *)
(* long as no two edits of it overlapped.                                    *)
THEOREM EditsSeen == Spec => []EditsAreSeen
<1>1. ~(part = "annotations") => EditsAreSeen BY DEF EditsAreSeen
<1>2. P!A!NoBlindSave /\ P!A!ReviewStands => EditsAreSeen BY EditsSame DEF EditsAreSeen
<1> QED BY <1>1, <1>2, EditsRun, P!SavesAreSeen, P!ReviewsStand, PTL

LEMMA FolderNames == P!Places
  BY NameAssumption DEF P!Places

(* FramesHold: a frame with a row has its file and a purged one has none but *)
(* the strays the recycle bin cannot follow, and settled rows agree with the *)
(* folders.                                                                  *)
THEOREM FramesKept == Spec => []FramesHold
<1>1. ~(part = "frames") => FramesHold BY DEF FramesHold
<1>2. P!F!FilesAndRows /\ P!F!SettledRowsAgree => FramesHold BY FramesSame DEF FramesHold
<1>3. P!F!Spec => []P!F!FilesAndRows BY FolderNames, P!RowsHaveFiles
<1>4. P!F!Spec => []P!F!SettledRowsAgree BY FolderNames, P!RowsAgree
<1> QED BY <1>1, <1>2, <1>3, <1>4, FramesRun, PTL

(* PurgedFromBin: no step purges an active frame, except one restored since  *)
(* the purge checked it.                                                     *)
THEOREM PurgesSpare == Spec => PurgedFromBin
<1>1. ~(part = "frames") => [part = "frames" => F!SparesActive]_vars OBVIOUS
<1>2. part = "frames" /\ [Next]_vars /\ [P!F!SparesActive]_(P!F!vars)
        => [part = "frames" => F!SparesActive]_vars
  <2>1. part = "frames" /\ [Next]_vars /\ UNCHANGED P!F!vars => UNCHANGED vars
    BY DEF Next, JobsStep, vars, From5, From7, From8, From9, From10, From11, P!F!vars,
    P!F!history
  <2> QED BY <2>1, FramesSame
<1>3. part = "frames" /\ [Next]_vars => (part = "frames")' BY PartStays
<1>4. ~(part = "frames") /\ [Next]_vars => ~(part = "frames")' BY PartStays
<1>5. P!F!Spec => [][P!F!SparesActive]_(P!F!vars)
  BY FolderNames, P!PurgeSparesActive DEF P!F!PurgedFromBin
<1> QED BY <1>1, <1>2, <1>3, <1>4, <1>5, FramesRun, PTL DEF Spec, PurgedFromBin

LEMMA ArchiveNames == P!ArchivesNamed
  BY NameAssumption DEF P!ArchivesNamed

(* ImportedIsItsArchive: the row of an annotation export names the archive   *)
(* its directory was extracted from, unless two imports of it overlapped.    *)
THEOREM ImportsKept == Spec => []ImportedIsItsArchive
<1>1. ~(part = "datasets") => ImportedIsItsArchive BY DEF ImportedIsItsArchive
<1>2. P!D!ImportedIsItsArchive => ImportedIsItsArchive BY DatasetsSame DEF ImportedIsItsArchive
<1>3. P!D!Spec => []P!D!ImportedIsItsArchive BY ArchiveNames, P!ImportsFaithful
<1> QED BY <1>1, <1>2, <1>3, DatasetsRun, PTL

(* ReleaseHasItsFiles: a release row has the whole directory of that         *)
(* release, unless a deletion took the directory from under it.              *)
THEOREM ReleasesKept == Spec => []ReleaseHasItsFiles
<1>1. ~(part = "datasets") => ReleaseHasItsFiles BY DEF ReleaseHasItsFiles
<1>2. P!D!ReleaseHasItsFiles => ReleaseHasItsFiles BY DatasetsSame DEF ReleaseHasItsFiles
<1>3. P!D!Spec => []P!D!ReleaseHasItsFiles BY ArchiveNames, P!ReleasesWhole
<1> QED BY <1>1, <1>2, <1>3, DatasetsRun, PTL

(* BackupsHold: the backups a client was told of are there, the newest of    *)
(* them up to the retention.                                                 *)
THEOREM BackupsStay == Spec => []BackupsHold
<1>1. ~(part = "backups") => BackupsHold BY DEF BackupsHold
<1>2. P!B!BackupsHold => BackupsHold BY BackupsSame DEF BackupsHold
<1>3. P!B!Spec => []P!B!BackupsHold BY P!BackupsKept
<1> QED BY <1>1, <1>2, <1>3, BackupsRun, PTL

(* GatePassesMatch: a gate passes only on detections that match one to one.  *)
THEOREM GateMatches == Spec => []GatePassesMatch
<1>1. ~(part = "gate") => GatePassesMatch BY DEF GatePassesMatch
<1>2. P!G!GatePassesMatch => GatePassesMatch BY GateSame DEF GatePassesMatch
<1>3. P!G!Spec => []P!G!GatePassesMatch
  <2>1. {0, 2, 6, 7, 11} \subseteq Nat OBVIOUS
  <2> QED BY <2>1, P!GateSound
<1> QED BY <1>1, <1>2, <1>3, GateRun, PTL

(* CascadeSpares: deleting a task spares every run that was active when it   *)
(* looked, and the config file and the row agree, up to the display names a  *)
(* registration does not store, whenever nobody writes.                      *)
THEOREM CascadesHold == Spec => []CascadeSpares
<1>1. ~(part = "tasks") => CascadeSpares BY DEF CascadeSpares
<1>2. P!T!CascadeSpares => CascadeSpares BY TasksSame DEF CascadeSpares
<1>3. P!T!Spec => []P!T!CascadeSpares
  <2>1. P!NamesApart BY NameAssumption DEF P!NamesApart
  <2> QED BY <2>1, P!CascadesSpare
<1> QED BY <1>1, <1>2, <1>3, TasksRun, PTL

(* LeaksAreFound: a validation reports a leak exactly when two splits hold   *)
(* one image, and corruption where it is, unless an image changed behind its *)
(* modification time; what it passes, with a data.yaml that names the        *)
(* directories of its splits, is blocked by an empty split only.             *)
THEOREM LeaksReported == Spec => []LeaksAreFound
<1>1. ~(part = "validation") => LeaksAreFound BY DEF LeaksAreFound
<1>2. P!V!LeaksAreFound => LeaksAreFound BY ValidationSame DEF LeaksAreFound
<1>3. P!V!Spec => []P!V!LeaksAreFound
  <2>1. P!SplitsKnown
    BY DEF P!SplitsKnown, P!Splits, P!V!Absent
  <2> QED BY <2>1, P!LeaksFound
<1> QED BY <1>1, <1>2, <1>3, ValidationRun, PTL

LEMMA SettingsMeasured == P!Measured
<1>1. Settings \subseteq P!Policies
  <2>1. Defaults \in P!Policies BY DEF Defaults, P!Policies, P!Limits, P!L!Devices
  <2>2. ASSUME NEW d \in P!Policies, NEW n \in Int
        PROVE  [d EXCEPT !.runtime = n] \in P!Policies /\ [d EXCEPT !.percent = n] \in P!Policies
    BY DEF P!Policies
  <2>3. ASSUME NEW d \in P!Policies PROVE [d EXCEPT !.gpuAllowed = FALSE] \in P!Policies
    BY DEF P!Policies
  <2>4. 12 \in Int /\ 0 \in Int OBVIOUS
  <2> QED BY <2>1, <2>2, <2>3, <2>4 DEF Settings
<1>2. \A r \in Shown : r.commit \in Int BY DEF Shown
<1> QED BY <1>1, <1>2 DEF P!Measured

(* RetriesEnd: whatever the settings become between two starts of the API,   *)
(* every safe retry asks for less than the run before it and for what the    *)
(* limits it was started under allow, no chain of them is longer than the    *)
(* first run has halvings and smaller sizes, and the reading that let a run  *)
(* in does not stop it.                                                      *)
THEOREM RetriesStop == Spec => []RetriesEnd
<1>1. ~(part = "limits") => RetriesEnd BY DEF RetriesEnd
<1>2. P!L!RetriesEnd /\ P!L!AdmittedMayTrain => RetriesEnd BY LimitsSame DEF RetriesEnd
<1>3. P!L!Spec => []P!L!RetriesEnd BY SettingsMeasured, P!RetriesShrink
<1>4. P!L!Spec => []P!L!AdmittedMayTrain BY SettingsMeasured, P!AdmittedTrain
<1> QED BY <1>1, <1>2, <1>3, <1>4, LimitsRun, PTL

(* ImageBatchHolds: a frame row of an uploaded batch has its file, an image  *)
(* added to a batch repeats none of it, and the manifest lists the frames,   *)
(* for requests that did not overlap others.                                 *)
THEOREM ImagesHold == Spec => []ImageBatchHolds
<1>1. ~(part = "images") => ImageBatchHolds BY DEF ImageBatchHolds
<1>2. P!I!ImageBatchHolds => ImageBatchHolds BY ImagesSame DEF ImageBatchHolds
<1>3. P!I!Spec => []P!I!ImageBatchHolds BY P!UploadsHold
<1> QED BY <1>1, <1>2, <1>3, ImagesRun, PTL

(* CaptureFilesHold: a video row keeps its file and a frame row its image,   *)
(* and a batch extracted with one interval has one row per picture, unless   *)
(* two jobs worked on the collection or the batch at once.                   *)
THEOREM CapturesHold == Spec => []CaptureFilesHold
<1>1. ~(part = "captures") => CaptureFilesHold BY DEF CaptureFilesHold
<1>2. P!C!CaptureFilesHold => CaptureFilesHold BY CapturesSame DEF CaptureFilesHold
<1>3. P!C!Spec => []P!C!CaptureFilesHold
  <2>1. P!NobodyApart BY NameAssumption DEF P!NobodyApart
  <2> QED BY <2>1, P!CaptureFilesKept
<1> QED BY <1>1, <1>2, <1>3, CapturesRun, PTL

LEMMA PlansFeasible == P!Plannable
<1>1. IsFiniteSet(1..4)
  <2>1. PICK a \in Int, b \in Int : a = 1 /\ b = 4 OBVIOUS
  <2>2. IsFiniteSet(a..b) BY FS_Interval
  <2> QED BY <2>1, <2>2
<1>2. {1, 3} \subseteq Nat \ {0} OBVIOUS
<1>3. Thirds \in [P!R!Splits -> Nat] BY DEF Thirds, P!R!Splits
<1>4. Halves \in [P!R!Splits -> Nat] BY DEF Halves, P!R!Splits
<1>5. Short \in [P!R!Splits -> Nat] BY DEF Short, P!R!Splits
<1>6. P!IsFiniteSet(1..4) BY <1>1 DEF P!IsFiniteSet, IsFiniteSet
<1> QED BY <1>2, <1>3, <1>4, <1>5, <1>6 DEF P!Plannable

(* SplitsSound: a finished plan has every split that was asked for and no    *)
(* other, and no split exceeds its share by as much as the largest group.    *)
THEOREM PlansHold == Spec => []SplitsSound
<1>1. ~(part = "splits") => SplitsSound BY DEF SplitsSound
<1>2. P!R!SplitsSound => SplitsSound BY PlansSame DEF SplitsSound
<1>3. P!R!Spec => []P!R!SplitsSound BY PlansFeasible, P!PlansSound
<1> QED BY <1>1, <1>2, <1>3, PlansRun, PTL

(* The type invariant: each part keeps its variables in their types.         *)
THEOREM PlatformTypeCorrect == Spec => []TypeOK
<1>1. Spec => [](part = "jobs" => J!TypeOK)
  <2>2. P!J!Spec => []P!J!TypeOK BY P!JobsTypeCorrect
  <2>3. P!J!TypeOK => (part = "jobs" => J!TypeOK) BY JobsSame
  <2>4. ~(part = "jobs") => (part = "jobs" => J!TypeOK) OBVIOUS
  <2> QED BY <2>2, <2>3, <2>4, JobsRun, PTL
<1>2. Spec => [](part = "frames" => F!TypeOK)
  <2>2. P!F!Spec => []P!F!TypeOK BY FolderNames, P!FramesTypeCorrect
  <2>3. P!F!TypeOK => (part = "frames" => F!TypeOK) BY FramesSame
  <2>4. ~(part = "frames") => (part = "frames" => F!TypeOK) OBVIOUS
  <2> QED BY <2>2, <2>3, <2>4, FramesRun, PTL
<1>3. Spec => [](part = "annotations" => A!TypeOK)
  <2>2. P!A!Spec => []P!A!TypeOK BY P!EditsTypeCorrect
  <2>3. P!A!TypeOK => (part = "annotations" => A!TypeOK) BY EditsSame
  <2>4. ~(part = "annotations") => (part = "annotations" => A!TypeOK) OBVIOUS
  <2> QED BY <2>2, <2>3, <2>4, EditsRun, PTL
<1>4. Spec => [](part = "datasets" => D!TypeOK)
  <2>2. P!D!Spec => []P!D!TypeOK BY ArchiveNames, P!DatasetTypeCorrect
  <2>3. P!D!TypeOK => (part = "datasets" => D!TypeOK) BY DatasetsSame
  <2>4. ~(part = "datasets") => (part = "datasets" => D!TypeOK) OBVIOUS
  <2> QED BY <2>2, <2>3, <2>4, DatasetsRun, PTL
<1>5. Spec => [](part = "backups" => B!TypeOK)
  <2>1. 2 \in Nat OBVIOUS
  <2>2. P!B!Spec => []P!B!TypeOK BY <2>1, P!BackupTypeCorrect
  <2>3. P!B!TypeOK => (part = "backups" => B!TypeOK) BY BackupsSame
  <2>4. ~(part = "backups") => (part = "backups" => B!TypeOK) OBVIOUS
  <2> QED BY <2>2, <2>3, <2>4, BackupsRun, PTL
<1>6. Spec => [](part = "splits" => S!TypeOK)
  <2>2. P!R!Spec => []P!R!TypeOK BY PlansFeasible, P!PlanTypeCorrect
  <2>3. P!R!TypeOK => (part = "splits" => S!TypeOK) BY PlansSame
  <2>4. ~(part = "splits") => (part = "splits" => S!TypeOK) OBVIOUS
  <2> QED BY <2>2, <2>3, <2>4, PlansRun, PTL
<1>7. Spec => [](part = "limits" => L!TypeOK)
  <2>2. P!L!Spec => []P!L!TypeOK BY SettingsMeasured, P!LimitsTypeCorrect
  <2>3. P!L!TypeOK => (part = "limits" => L!TypeOK) BY LimitsSame
  <2>4. ~(part = "limits") => (part = "limits" => L!TypeOK) OBVIOUS
  <2> QED BY <2>2, <2>3, <2>4, LimitsRun, PTL
<1>8. Spec => [](part = "validation" => V!TypeOK)
  <2>2. P!V!Spec => []P!V!TypeOK BY P!ValidationTypeCorrect
  <2>3. P!V!TypeOK => (part = "validation" => V!TypeOK) BY ValidationSame
  <2>4. ~(part = "validation") => (part = "validation" => V!TypeOK) OBVIOUS
  <2> QED BY <2>2, <2>3, <2>4, ValidationRun, PTL
<1>9. Spec => [](part = "gate" => G!TypeOK)
  <2>1. {0, 2, 6, 7, 11} \subseteq Nat OBVIOUS
  <2>2. P!G!Spec => []P!G!TypeOK BY <2>1, P!GateTypeCorrect
  <2>3. P!G!TypeOK => (part = "gate" => G!TypeOK) BY GateSame
  <2>4. ~(part = "gate") => (part = "gate" => G!TypeOK) OBVIOUS
  <2> QED BY <2>2, <2>3, <2>4, GateRun, PTL
<1>10. Spec => [](part = "captures" => C!TypeOK)
  <2>1. P!NobodyApart BY NameAssumption DEF P!NobodyApart
  <2>2. P!C!Spec => []P!C!TypeOK BY <2>1, P!CaptureTypeCorrect
  <2>3. P!C!TypeOK => (part = "captures" => C!TypeOK) BY CapturesSame
  <2>4. ~(part = "captures") => (part = "captures" => C!TypeOK) OBVIOUS
  <2> QED BY <2>2, <2>3, <2>4, CapturesRun, PTL
<1>11. Spec => [](part = "images" => I!TypeOK)
  <2>2. P!I!Spec => []P!I!TypeOK BY P!UploadTypeCorrect
  <2>3. P!I!TypeOK => (part = "images" => I!TypeOK) BY ImagesSame
  <2>4. ~(part = "images") => (part = "images" => I!TypeOK) OBVIOUS
  <2> QED BY <2>2, <2>3, <2>4, ImagesRun, PTL
<1>12. Spec => [](part = "tasks" => T!TypeOK)
  <2>1. P!NamesApart BY NameAssumption DEF P!NamesApart
  <2>2. P!T!Spec => []P!T!TypeOK BY <2>1, P!CascadeTypeCorrect
  <2>3. P!T!TypeOK => (part = "tasks" => T!TypeOK) BY TasksSame
  <2>4. ~(part = "tasks") => (part = "tasks" => T!TypeOK) OBVIOUS
  <2> QED BY <2>2, <2>3, <2>4, TasksRun, PTL
<1> QED
  BY <1>1, <1>2, <1>3, <1>4, <1>5, <1>6, <1>7, <1>8, <1>9, <1>10, <1>11, <1>12,
  PTL DEF TypeOK
=============================================================================
