----------------------------- MODULE Publication -----------------------------
(***************************************************************************)
(* src/src/platform/publication.cpp: publishing a file, or a staging       *)
(* directory, under a name that must not exist yet.                        *)
(*                                                                         *)
(* Several processes publish into one parent directory.  Every system call *)
(* is an action of its own and may fail; a process may be killed and the   *)
(* system may crash between any two of them.  The file system keeps, per   *)
(* file, how much of it is visible and how much is on disk, and for the    *)
(* directory every state a crash may bring back: those it went through     *)
(* since it was last synced.                                               *)
(***************************************************************************)
EXTENDS Integers

CONSTANTS
  Publishers,    \* the processes
  Targets,       \* the names they publish under
  Chunks,        \* how many chunks a complete file has
  MaxAttempts,   \* kMaximumTemporaryNameAttempts
  MaxSequence,   \* bound on temporary_name_sequence
  MaxFiles,      \* bound on the files ever created
  MaxDeaths      \* bound on kills and crashes

Temp(p, n) == <<p, "temporary", n>>
Staging(p) == <<p, "staging", 0>>
Scratch    == {Temp(p, n) : p \in Publishers, n \in 0 .. MaxSequence}
                \union {Staging(p) : p \in Publishers}
Names      == Targets \union Scratch

\* A target is not one of the temporary names: nobody publishes under a name
\* that his own, or another, process makes up.
ASSUME ConstantsAssumption ==
  /\ Chunks \in Nat \ {0} /\ MaxAttempts \in Nat \ {0}
  /\ MaxSequence \in Nat /\ MaxFiles \in Nat /\ MaxDeaths \in Nat
  /\ Targets \intersect Scratch = {}

NoFile == 0
Files  == 1 .. MaxFiles

VARIABLES
  \* the file system
  names,       \* names[n]: the file that name n of the directory refers to
  survivors,   \* the directory states a crash may bring back
  created,     \* how many files were ever created
  content,     \* content[f]: the chunks written; Chunks + 1 when one too many
  stable,      \* stable[f]: the chunks of file f that are on disk
  live,        \* live[p][d]: opens minus closes of descriptor d
  deaths,
  \* a process
  sequence,    \* temporary_name_sequence
  place,       \* where it is in publish_..._no_replace
  kind,        \* which of the two it is in: "file" or "directory"
  goal,        \* the target of its call
  attempt,     \* how many temporary names its call has tried
  held,        \* the descriptors its variables still hold
  temp,        \* temporary_name, and staging_name
  owns,        \* temporary_created
  file,        \* the file it has created, or staged
  sinkActive, poisoned,  \* active_ and primary_error_ of the sink's state
  result,
  reported     \* history: the file a caller was told is published under a name

fsVars   == <<names, survivors, created, content, stable>>
callVars == <<kind, goal, attempt, temp, owns, file>>
sinkVars == <<sinkActive, poisoned>>
vars == <<fsVars, live, deaths, sequence, place, callVars, held, sinkVars,
          result, reported>>

Descriptors == {"parent", "file"}
Outcome(state, cleanup) == [state |-> state, cleanup_error |-> cleanup]

----------------------------------------------------------------------------
(* The file system and the descriptors.                                    *)

Init ==
  /\ names = [n \in Names |-> NoFile]
  /\ survivors = {names}
  /\ created = 0
  /\ content = [f \in Files |-> 0] /\ stable = [f \in Files |-> 0]
  /\ live = [p \in Publishers |-> [d \in Descriptors |-> 0]]
  /\ deaths = 0
  /\ sequence = [p \in Publishers |-> 0]
  /\ place = [p \in Publishers |-> "idle"]
  /\ kind = [p \in Publishers |-> "file"]
  /\ goal \in [Publishers -> Targets]
  /\ attempt = [p \in Publishers |-> 0]
  /\ held = [p \in Publishers |-> {}]
  /\ temp = [p \in Publishers |-> Temp(p, 0)]
  /\ owns = [p \in Publishers |-> FALSE]
  /\ file = [p \in Publishers |-> NoFile]
  /\ sinkActive = [p \in Publishers |-> FALSE]
  /\ poisoned = [p \in Publishers |-> FALSE]
  /\ result = [p \in Publishers |-> Outcome("none", FALSE)]
  /\ reported = [t \in Targets |-> NoFile]

\* The directory changes; until it is synced a crash may undo the change.
SetNames(ns) ==
  /\ names' = ns
  /\ survivors' = survivors \union {ns}

Goto(p, where) == place' = [place EXCEPT ![p] = where]

Open(p, d) ==
  /\ held' = [held EXCEPT ![p] = @ \union {d}]
  /\ live' = [live EXCEPT ![p][d] = @ + 1]

\* Mutant: a descriptor whose close failed is kept, and closed again.
CloseOnce_Retried(p, d, failed) ==
  /\ held' = [held EXCEPT ![p] = IF failed THEN @ ELSE @ \ {d}]
  /\ live' = [live EXCEPT ![p][d] = IF d \in held[p] THEN @ - 1 ELSE @]

\* close_once: a close that fails has still consumed the descriptor.
CloseOnce(p, d, failed) ==
  /\ failed => d \in held[p]
  /\ held' = [held EXCEPT ![p] = @ \ {d}]
  /\ live' = [live EXCEPT ![p][d] = IF d \in held[p] THEN @ - 1 ELSE @]

\* basic_result, and the first cleanup error that is remembered.
Settle(p, state) == result' = [result EXCEPT ![p] = Outcome(state, FALSE)]
RememberCleanupError(p, failed) ==
  result' = [result EXCEPT ![p].cleanup_error = @ \/ failed]

----------------------------------------------------------------------------
(* A call, up to the rename.                                               *)

\* The bounds leave room for the call's names, and for its file if it gets to
\* creating one.
RoomForFile(p) ==
  /\ sequence[p] + MaxAttempts <= MaxSequence + 1
  /\ \/ created < MaxFiles
     \/ \A n \in sequence[p] .. sequence[p] + MaxAttempts - 1 :
          names[Temp(p, n)] # NoFile

PublishFile(p, t) ==
  /\ place[p] = "idle"
  /\ RoomForFile(p)
  /\ goal' = [goal EXCEPT ![p] = t] /\ kind' = [kind EXCEPT ![p] = "file"]
  /\ attempt' = [attempt EXCEPT ![p] = 0]
  /\ owns' = [owns EXCEPT ![p] = FALSE] /\ file' = [file EXCEPT ![p] = NoFile]
  /\ poisoned' = [poisoned EXCEPT ![p] = FALSE]
  /\ Settle(p, "none")
  /\ Goto(p, "openParent")
  /\ UNCHANGED <<fsVars, live, deaths, sequence, held, temp, sinkActive, reported>>

\* The caller fills a new staging directory and publishes it.
PublishDirectory(p, t) ==
  /\ place[p] = "idle"
  /\ names[Staging(p)] = NoFile /\ created < MaxFiles
  /\ created' = created + 1
  /\ SetNames([names EXCEPT ![Staging(p)] = created'])
  /\ content' = [content EXCEPT ![created'] = Chunks]
  /\ goal' = [goal EXCEPT ![p] = t] /\ kind' = [kind EXCEPT ![p] = "directory"]
  /\ temp' = [temp EXCEPT ![p] = Staging(p)]
  /\ owns' = [owns EXCEPT ![p] = FALSE] /\ file' = [file EXCEPT ![p] = created']
  /\ Settle(p, "none")
  /\ Goto(p, "openParent")
  /\ UNCHANGED <<stable, live, deaths, sequence, attempt, held, sinkVars, reported>>

\* A call ends, before the parent is open, with nothing to clean up.
OpenParentFails(p) ==
  /\ place[p] = "openParent"
  /\ Settle(p, "not_published")
  /\ Goto(p, "idle")
  /\ UNCHANGED <<fsVars, live, deaths, sequence, callVars, held, sinkVars, reported>>

OpenParent(p) ==
  /\ place[p] = "openParent"
  /\ Open(p, "parent")
  /\ Goto(p, IF kind[p] = "file" THEN "create" ELSE "openStaging")
  /\ UNCHANGED <<fsVars, deaths, sequence, callVars, sinkVars, result, reported>>

\* What every failure before the rename begins with.
FailBeforeRename(p, state) == Settle(p, state) /\ Goto(p, "failClose")

TriesName(p, name) ==
  /\ place[p] = "create" /\ attempt[p] < MaxAttempts
  /\ name = Temp(p, sequence[p])
  /\ sequence' = [sequence EXCEPT ![p] = @ + 1]
  /\ attempt' = [attempt EXCEPT ![p] = @ + 1]
  /\ temp' = [temp EXCEPT ![p] = name]

CreateTemporary(p, name) ==
  /\ TriesName(p, name)
  /\ name # goal[p]
  /\ names[name] = NoFile /\ created < MaxFiles
  /\ created' = created + 1
  /\ SetNames([names EXCEPT ![name] = created'])
  /\ file' = [file EXCEPT ![p] = created']
  /\ owns' = [owns EXCEPT ![p] = TRUE]
  /\ sinkActive' = [sinkActive EXCEPT ![p] = TRUE]
  /\ Open(p, "file")
  /\ Goto(p, "write")
  /\ UNCHANGED <<content, stable, deaths, kind, goal, poisoned, result, reported>>

\* O_EXCL found the name, left by a process that died with the same id; or it
\* is the name of the target.
NameIsTaken(p, name) ==
  /\ TriesName(p, name)
  /\ names[name] # NoFile \/ name = goal[p]
  /\ UNCHANGED <<fsVars, live, deaths, place, kind, goal, owns, file, held,
                 sinkVars, result, reported>>

CreateFails(p, name) ==
  /\ TriesName(p, name)
  /\ FailBeforeRename(p, "not_published")
  /\ UNCHANGED <<fsVars, live, deaths, kind, goal, owns, file, held, sinkVars,
                 reported>>

NoNameLeft(p) ==
  /\ place[p] = "create" /\ attempt[p] = MaxAttempts
  /\ FailBeforeRename(p, "not_published")
  /\ UNCHANGED <<fsVars, live, deaths, sequence, callVars, held, sinkVars, reported>>

OpenStaging(p) ==
  /\ place[p] = "openStaging"
  /\ Open(p, "file")
  /\ Goto(p, "sync")
  /\ UNCHANGED <<fsVars, deaths, sequence, callVars, sinkVars, result, reported>>

OpenStagingFails(p) ==
  /\ place[p] = "openStaging"
  /\ FailBeforeRename(p, "not_published")
  /\ UNCHANGED <<fsVars, live, deaths, sequence, callVars, held, sinkVars, reported>>

\* PublicationSinkState::write, called by the writer or by whoever kept a copy
\* of the sink; the writer itself writes no more than the file.
SinkWrites(p) ==
  /\ sinkActive[p] /\ ~poisoned[p]
  /\ content[file[p]] <= Chunks
  /\ place[p] = "write" => content[file[p]] < Chunks
  /\ content' = [content EXCEPT ![file[p]] = @ + 1]
  /\ UNCHANGED <<names, survivors, created, stable, live, deaths, sequence,
                 place, callVars, held, sinkVars, result, reported>>

\* The first error is kept; the sink throws it, and throws from then on.
SinkFails(p) ==
  /\ sinkActive[p] /\ ~poisoned[p]
  /\ poisoned' = [poisoned EXCEPT ![p] = TRUE]
  /\ UNCHANGED <<fsVars, live, deaths, sequence, place, callVars, held,
                 sinkActive, result, reported>>

Terminalize(p) == sinkActive' = [sinkActive EXCEPT ![p] = FALSE]

\* The writer returns: it has written everything, or it swallowed the sink's
\* exception, which the sink still remembers.
WriterReturns(p) ==
  /\ place[p] = "write"
  /\ poisoned[p] \/ content[file[p]] = Chunks
  /\ Terminalize(p)
  /\ IF poisoned[p] THEN FailBeforeRename(p, "not_published")
                    ELSE Goto(p, "sync") /\ UNCHANGED result
  /\ UNCHANGED <<fsVars, live, deaths, sequence, callVars, held, poisoned, reported>>

\* The sink's exception, one of the writer's own, or make_shared's.
WriterThrows(p) ==
  /\ place[p] = "write"
  /\ Terminalize(p)
  /\ FailBeforeRename(p, "not_published")
  /\ UNCHANGED <<fsVars, live, deaths, sequence, callVars, held, poisoned, reported>>

\* Mutant: the content is not synced.
SyncContent_Skipped(p) ==
  /\ place[p] = "sync"
  /\ Goto(p, "close")
  /\ UNCHANGED <<fsVars, live, deaths, sequence, callVars, held, sinkVars,
                 result, reported>>

SyncContent(p) ==
  /\ place[p] = "sync"
  /\ stable' = [stable EXCEPT ![file[p]] = content[file[p]]]
  /\ Goto(p, "close")
  /\ UNCHANGED <<names, survivors, created, content, live, deaths, sequence,
                 callVars, held, sinkVars, result, reported>>

SyncContentFails(p) ==
  /\ place[p] = "sync"
  /\ FailBeforeRename(p, "not_published")
  /\ UNCHANGED <<fsVars, live, deaths, sequence, callVars, held, sinkVars, reported>>

CloseContent(p) ==
  /\ place[p] = "close"
  /\ CloseOnce(p, "file", FALSE)
  /\ Goto(p, "rename")
  /\ UNCHANGED <<fsVars, deaths, sequence, callVars, sinkVars, result, reported>>

CloseContentFails(p) ==
  /\ place[p] = "close"
  /\ CloseOnce(p, "file", TRUE)
  /\ FailBeforeRename(p, "not_published")
  /\ UNCHANGED <<fsVars, deaths, sequence, callVars, sinkVars, reported>>

----------------------------------------------------------------------------
(* The rename, and what follows it.                                        *)

RenameNoReplace(p) ==
  /\ place[p] = "rename"
  /\ names[goal[p]] = NoFile
  /\ SetNames([names EXCEPT ![goal[p]] = file[p], ![temp[p]] = NoFile])
  /\ owns' = [owns EXCEPT ![p] = FALSE]
  /\ Goto(p, "syncParent")
  /\ UNCHANGED <<created, content, stable, live, deaths, sequence, kind, goal,
                 attempt, temp, file, held, sinkVars, result, reported>>

RenameErrors == {"EEXIST", "ENOSYS", "EOPNOTSUPP", "EINVAL", "EIO"}

\* Mutant: every failure is taken for an existing target.
RenameFailureState_Exists(errno) == "target_exists"

RenameFailureState(errno) ==
  CASE errno = "EEXIST" -> "target_exists"
    [] errno \in {"ENOSYS", "EOPNOTSUPP", "EINVAL"} -> "no_replace_unsupported"
    [] OTHER -> "not_published"

RenameFails(p, errno) ==
  /\ place[p] = "rename"
  /\ errno = "EEXIST" => names[goal[p]] # NoFile
  /\ FailBeforeRename(p, RenameFailureState(errno))
  /\ UNCHANGED <<fsVars, live, deaths, sequence, callVars, held, sinkVars, reported>>

\* Mutant: the parent is not synced.
SyncParent_Skipped(p) ==
  /\ place[p] = "syncParent"
  /\ Settle(p, "published")
  /\ Goto(p, "closeParent")
  /\ UNCHANGED <<fsVars, live, deaths, sequence, callVars, held, sinkVars, reported>>

SyncParent(p) ==
  /\ place[p] = "syncParent"
  /\ survivors' = {names}
  /\ Settle(p, "published")
  /\ Goto(p, "closeParent")
  /\ UNCHANGED <<names, created, content, stable, live, deaths, sequence,
                 callVars, held, sinkVars, reported>>

SyncParentFails(p) ==
  /\ place[p] = "syncParent"
  /\ Settle(p, "durability_uncertain")
  /\ Goto(p, "closeParent")
  /\ UNCHANGED <<fsVars, live, deaths, sequence, callVars, held, sinkVars, reported>>

\* The end of every call that opened the parent.
CloseParent(p, failed) ==
  /\ place[p] = "closeParent"
  /\ CloseOnce(p, "parent", failed)
  /\ RememberCleanupError(p, failed)
  /\ reported' = IF result[p].state = "published"
                   THEN [reported EXCEPT ![goal[p]] = file[p]] ELSE reported
  /\ Goto(p, "idle")
  /\ UNCHANGED <<fsVars, deaths, sequence, callVars, sinkVars>>

----------------------------------------------------------------------------
(* fail_file_before_rename, fail_directory_before_rename, and the guards.  *)

FailClose(p, failed) ==
  /\ place[p] = "failClose"
  /\ CloseOnce(p, "file", failed)
  /\ RememberCleanupError(p, failed)
  /\ Goto(p, IF owns[p] THEN "failUnlink" ELSE "closeParent")
  /\ UNCHANGED <<fsVars, deaths, sequence, callVars, sinkVars, reported>>

\* Mutant: the failure to remove the temporary file is not remembered.
FailUnlink_Silent(p, failed) ==
  /\ place[p] = "failUnlink"
  /\ IF failed THEN UNCHANGED <<names, survivors>>
               ELSE SetNames([names EXCEPT ![temp[p]] = NoFile])
  /\ owns' = [owns EXCEPT ![p] = FALSE]
  /\ Goto(p, "closeParent")
  /\ UNCHANGED <<created, content, stable, live, deaths, sequence, kind, goal,
                 attempt, temp, file, held, sinkVars, result, reported>>

FailUnlink(p, failed) ==
  /\ place[p] = "failUnlink"
  /\ IF failed THEN UNCHANGED <<names, survivors>>
               ELSE SetNames([names EXCEPT ![temp[p]] = NoFile])
  /\ RememberCleanupError(p, failed)
  /\ owns' = [owns EXCEPT ![p] = FALSE]
  /\ Goto(p, "closeParent")
  /\ UNCHANGED <<created, content, stable, live, deaths, sequence, kind, goal,
                 attempt, temp, file, held, sinkVars, reported>>

\* An allocation fails where nothing catches it: before the parent is open, for
\* a temporary name, for the result before the rename or in a failure's result.
AllocationFails(p) ==
  /\ \/ place[p] = "openParent"
     \/ kind[p] = "file" /\ place[p] \in {"create", "rename"}
     \/ place[p] = "failClose" /\ owns[p]
  /\ Settle(p, "threw")
  /\ Goto(p, "unwind")
  /\ UNCHANGED <<fsVars, live, deaths, sequence, callVars, held, sinkVars, reported>>

\* The destructors: the descriptors are closed and the temporary file is
\* removed, errors ignored.
Unwind(p, removed) ==
  /\ place[p] = "unwind"
  /\ held' = [held EXCEPT ![p] = {}]
  /\ live' = [live EXCEPT ![p] =
                [d \in Descriptors |-> IF d \in held[p] THEN @[d] - 1 ELSE @[d]]]
  /\ IF owns[p] /\ removed THEN SetNames([names EXCEPT ![temp[p]] = NoFile])
                           ELSE UNCHANGED <<names, survivors>>
  /\ owns' = [owns EXCEPT ![p] = FALSE]
  /\ Goto(p, "idle")
  /\ UNCHANGED <<created, content, stable, deaths, sequence, kind, goal,
                 attempt, temp, file, sinkVars, result, reported>>

----------------------------------------------------------------------------
(* Kills and crashes.                                                      *)

\* The processes of P are gone; each may be started again with the same id.
Die(P) ==
  /\ deaths < MaxDeaths
  /\ deaths' = deaths + 1
  /\ place' = [p \in Publishers |-> IF p \in P THEN "idle" ELSE place[p]]
  /\ held' = [p \in Publishers |-> IF p \in P THEN {} ELSE held[p]]
  /\ live' = [p \in Publishers |-> IF p \in P THEN [d \in Descriptors |-> 0]
                                   ELSE live[p]]
  /\ sequence' = [p \in Publishers |-> IF p \in P THEN 0 ELSE sequence[p]]
  /\ owns' = [p \in Publishers |-> IF p \in P THEN FALSE ELSE owns[p]]
  /\ sinkActive' = [p \in Publishers |-> IF p \in P THEN FALSE ELSE sinkActive[p]]
  /\ result' = [p \in Publishers |-> IF p \in P THEN Outcome("none", FALSE)
                                     ELSE result[p]]
  /\ UNCHANGED <<created, kind, goal, attempt, temp, file, poisoned, reported>>

Kill(p) ==
  /\ Die({p})
  /\ UNCHANGED <<names, survivors, content, stable>>

\* What was not synced may be lost: changes of the directory, and of each file.
Crash(ns, lost) ==
  /\ Die(Publishers)
  /\ names' = ns /\ survivors' = {ns}
  /\ content' = [f \in Files |-> IF f \in lost THEN stable[f] ELSE content[f]]
  /\ stable' = content'

----------------------------------------------------------------------------
Begin(p) == \E t \in Targets : PublishFile(p, t) \/ PublishDirectory(p, t)

Create(p) ==
  \/ \E name \in Scratch :
       CreateTemporary(p, name) \/ NameIsTaken(p, name) \/ CreateFails(p, name)
  \/ NoNameLeft(p)

Step(p) ==
  \/ OpenParent(p) \/ OpenParentFails(p) \/ Create(p)
  \/ OpenStaging(p) \/ OpenStagingFails(p)
  \/ SinkWrites(p) \/ SinkFails(p) \/ WriterReturns(p) \/ WriterThrows(p)
  \/ SyncContent(p) \/ SyncContentFails(p)
  \/ CloseContent(p) \/ CloseContentFails(p)
  \/ RenameNoReplace(p) \/ \E errno \in RenameErrors : RenameFails(p, errno)
  \/ SyncParent(p) \/ SyncParentFails(p) \/ AllocationFails(p)
  \/ \E failed \in BOOLEAN :
       CloseParent(p, failed) \/ FailClose(p, failed) \/ FailUnlink(p, failed)
         \/ Unwind(p, failed)

\* Nobody has to publish anything.
Resting == (\A p \in Publishers : place[p] = "idle") /\ UNCHANGED vars

Next ==
  \/ \E p \in Publishers : Begin(p) \/ Step(p) \/ Kill(p)
  \/ \E ns \in survivors : \E lost \in SUBSET {f \in Files : stable[f] # content[f]} :
       Crash(ns, lost)
  \/ Resting

Spec == Init /\ [][Next]_vars

----------------------------------------------------------------------------
(* Properties.                                                             *)

\* Whoever opens a published name, now or after a crash, finds all of the file.
WholeOrAbsent ==
  \A ns \in survivors : \A t \in Targets : ns[t] # NoFile =>
    content[ns[t]] = Chunks /\ stable[ns[t]] = Chunks

\* What the caller is told is what happened to the name: it is the caller's
\* file, somebody else's, or at least not the caller's; and a staging directory
\* that was not published is still there.
TruthfulResult ==
  \A p \in Publishers : place[p] = "idle" =>
    LET state == result[p].state
        mine  == names[goal[p]] = file[p]
    IN  /\ state \in {"published", "durability_uncertain"} => mine
        /\ state = "target_exists" => ~mine /\ names[goal[p]] # NoFile
        /\ state \in {"not_published", "no_replace_unsupported", "threw"} =>
             /\ file[p] # NoFile => ~mine
             /\ kind[p] = "directory" => names[Staging(p)] = file[p]

\* A call leaves no temporary file behind without saying so.
NothingLeftBehind ==
  \A p \in Publishers :
    /\ place[p] = "idle" /\ kind[p] = "file"
    /\ result[p].state \notin {"none", "threw"} /\ ~result[p].cleanup_error
    => \A n \in Scratch : names[n] # NoFile => names[n] # file[p]

\* Every descriptor is closed once: never twice, whatever close reports, and
\* none is open when the call is over.
DescriptorsClosedOnce ==
  \A p \in Publishers : \A d \in Descriptors :
    /\ live[p][d] = IF d \in held[p] THEN 1 ELSE 0
    /\ place[p] = "idle" => d \notin held[p]

----------------------------------------------------------------------------
(* Publication implements NoReplaceStore.                                  *)

Store == INSTANCE NoReplaceStore WITH
  entry    <- [t \in Targets |-> names[t]],
  durable  <- {t \in Targets : /\ names[t] # NoFile
                               /\ \A ns \in survivors : ns[t] = names[t]},
  reported <- {t \in Targets : reported[t] # NoFile}

\* A name is given once and never replaced, and a reported one survives crashes.
StoreSpec == Store!Spec
==============================================================================
