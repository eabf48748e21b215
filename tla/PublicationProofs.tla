-------------------------- MODULE PublicationProofs --------------------------
(***************************************************************************)
(* For any number of processes, names, chunks and files, and any kills and *)
(* crashes: a target names a complete file or nothing, every descriptor is *)
(* closed once, a call tells the truth and leaves nothing behind, and      *)
(* publication implements NoReplaceStore.                                  *)
(*                                                                         *)
(* The argument.  A file is known to one process only until it is renamed  *)
(* (FilesDiffer, Unpublished), and it is complete and on disk before that  *)
(* (Complete).  The names of the targets only ever grow, so every          *)
(* directory that a crash may bring back has a part of them (Earlier).     *)
(* What a process knows of its own call (CallInv) is not disturbed by the  *)
(* steps of the others, whatever they do to the directory (OtherKept).     *)
(***************************************************************************)
EXTENDS Publication, TLAPS

LEMMA ScratchNames ==
  ASSUME NEW p \in Publishers
  PROVE  /\ Staging(p) \in Scratch /\ Temp(p, 0) \in Scratch
         /\ Scratch \subseteq Names /\ Targets \subseteq Names
         /\ \A t \in Targets : t \notin Scratch
         /\ \A q, n : q # p => Temp(q, n) # Staging(p) /\ Staging(q) # Staging(p)
         /\ \A q, n : Temp(q, n) # Staging(p)
BY ConstantsAssumption DEF Scratch, Names, Temp, Staging

Places == {"idle", "openParent", "create", "openStaging", "write", "sync", "close",
           "rename", "syncParent", "closeParent", "failClose", "failUnlink", "unwind"}
Failures == {"not_published", "target_exists", "no_replace_unsupported"}
States   == {"none", "published", "durability_uncertain", "threw"} \union Failures

\* The directory, the files, and what the processes have of them.
FileTypes ==
  /\ created \in 0 .. MaxFiles
  /\ survivors \subseteq [Names -> 0 .. created] /\ names \in survivors
  /\ content \in [Files -> Nat] /\ stable \in [Files -> Nat]
  /\ file \in [Publishers -> 0 .. created]

DescriptorTypes ==
  /\ live \in [Publishers -> [Descriptors -> Int]]
  /\ held \in [Publishers -> SUBSET Descriptors]

CallTypes ==
  /\ place \in [Publishers -> Places]
  /\ kind \in [Publishers -> {"file", "directory"}]
  /\ goal \in [Publishers -> Targets]
  /\ temp \in [Publishers -> Scratch]
  /\ owns \in [Publishers -> BOOLEAN]
  /\ sinkActive \in [Publishers -> BOOLEAN]

ResultTypes ==
  /\ result \in [Publishers -> [state : States, cleanup_error : BOOLEAN]]
  /\ reported \in [Targets -> 0 .. MaxFiles]

Types == FileTypes /\ DescriptorTypes /\ CallTypes /\ ResultTypes

LEMMA Ranges ==
  ASSUME Types
  PROVE  /\ created \in Nat /\ MaxFiles \in Nat /\ names \in survivors
         /\ \A ns \in survivors : \A t \in Targets : ns[t] \in 0 .. created
         /\ \A ns \in survivors : \A n \in Scratch : ns[n] \in 0 .. created
         /\ \A p \in Publishers : file[p] \in 0 .. created
<1>1. created \in Nat /\ MaxFiles \in Nat
  BY ConstantsAssumption DEF Types, FileTypes
<1>2. \A ns \in survivors : \A n \in Names : ns[n] \in 0 .. created
  BY DEF Types, FileTypes
<1>3. Targets \subseteq Names /\ Scratch \subseteq Names
  BY DEF Names
<1> QED BY <1>1, <1>2, <1>3 DEF Types, FileTypes

----------------------------------------------------------------------------
(* What a process knows of its own call.                                   *)

\* The call is under way, or its result is known.
Calling(p) == place[p] # "idle" \/ result[p].state # "none"

\* The rename has been done, and has not been lost in a crash.
Renamed(p) == \/ place[p] = "syncParent"
              \/ result[p].state \in {"published", "durability_uncertain"}

Control(p) ==
  /\ place[p] \in {"create", "write"} => kind[p] = "file"
  /\ place[p] = "openStaging" => kind[p] = "directory"
  /\ sinkActive[p] => place[p] = "write"
  /\ owns[p] => /\ kind[p] = "file"
                /\ place[p] \in {"write", "sync", "close", "rename", "failClose",
                                 "failUnlink", "unwind"}
  /\ place[p] \notin {"idle", "closeParent", "failClose", "failUnlink", "unwind"} =>
       result[p] = Outcome("none", FALSE)
  /\ place[p] \in {"failClose", "failUnlink"} => result[p].state \in Failures
  /\ place[p] = "unwind" => result[p].state = "threw"
  /\ place[p] = "closeParent" => result[p].state \notin {"none", "threw"}
  /\ place[p] = "failUnlink" => owns[p]

Holds(p) ==
  /\ live[p] = [d \in Descriptors |-> IF d \in held[p] THEN 1 ELSE 0]
  /\ place[p] \in {"idle", "openParent"} => held[p] = {}
  /\ place[p] \in {"create", "openStaging", "rename", "syncParent", "closeParent",
                   "failUnlink"} => held[p] = {"parent"}
  /\ place[p] \in {"write", "sync", "close"} => held[p] = Descriptors
  /\ place[p] = "failClose" => "parent" \in held[p]

\* The file of the call, and how much of it there is.
Complete(p) ==
  /\ \/ place[p] \in {"write", "sync", "close", "rename"} \/ Renamed(p)
     \/ kind[p] = "directory" /\ place[p] # "idle"
     => file[p] # NoFile
  /\ place[p] \in {"sync", "close", "rename"} => content[file[p]] = Chunks
  /\ place[p] \in {"close", "rename"} => stable[file[p]] = Chunks
  /\ kind[p] = "directory" /\ place[p] # "idle" => content[file[p]] = Chunks
  /\ kind[p] = "file" /\ place[p] \in {"openParent", "create"} => file[p] = NoFile

\* No directory, now or after a crash, has it under a target before the rename.
Unpublished(p) ==
  file[p] # NoFile /\ Calling(p) /\ ~Renamed(p) =>
    \A ns \in survivors : \A t \in Targets : ns[t] # file[p]

\* What the names of the call refer to.
Entries(p) ==
  /\ Renamed(p) => names[goal[p]] = file[p]
  /\ result[p].state = "target_exists" => names[goal[p]] # NoFile
  /\ kind[p] = "directory" /\ Calling(p) => temp[p] = Staging(p)
  /\ kind[p] = "directory" /\ Calling(p) /\ ~Renamed(p) => names[Staging(p)] = file[p]
  /\ \E n \in Nat : temp[p] \in {Temp(p, n), Staging(p)}

\* The temporary name is the only one besides the target, and it goes.
Scratched(p) ==
  file[p] # NoFile /\ Calling(p) =>
    \A n \in Scratch : names[n] = file[p] =>
      /\ n = temp[p]
      /\ kind[p] = "file" =>
           owns[p] \/ result[p].cleanup_error \/ result[p].state = "threw"

Durable(t) == names[t] # NoFile /\ \A ns \in survivors : ns[t] = names[t]

CallInv(p) ==
  /\ Control(p) /\ Holds(p) /\ Complete(p) /\ Unpublished(p) /\ Entries(p) /\ Scratched(p)
  /\ place[p] = "closeParent" /\ result[p].state = "published" => Durable(goal[p])

----------------------------------------------------------------------------
(* What all of them rely on.                                               *)

FilesDiffer ==
  \A p, q \in Publishers : p # q /\ file[p] # NoFile => file[p] # file[q]

\* A crash brings back some of the names that the targets have now.
Earlier == \A ns \in survivors : \A t \in Targets : ns[t] \in {NoFile, names[t]}

SharedInv ==
  /\ FilesDiffer /\ Earlier /\ WholeOrAbsent
  /\ \A t \in Targets : reported[t] # NoFile => Durable(t)

IInv == Types /\ SharedInv /\ \A p \in Publishers : CallInv(p)

LEMMA InitInv == Init => IInv
<1> SUFFICES ASSUME Init PROVE IInv
  OBVIOUS
<1> USE ConstantsAssumption DEF Init
<1>1. Types
  BY ScratchNames DEF Types, FileTypes, DescriptorTypes, CallTypes, ResultTypes, Files,
     NoFile, Places, States, Failures, Outcome, Descriptors
<1>2. SharedInv
  BY ScratchNames DEF SharedInv, FilesDiffer, Earlier, WholeOrAbsent, NoFile, Names
<1>3. ASSUME NEW p \in Publishers PROVE CallInv(p)
  <2>1. /\ place[p] = "idle" /\ result[p].state = "none" /\ ~sinkActive[p] /\ ~owns[p]
        /\ held[p] = {} /\ live[p] = [d \in Descriptors |-> 0] /\ temp[p] = Temp(p, 0)
        /\ kind[p] = "file"
    BY DEF Outcome
  <2> QED
    BY <2>1 DEF CallInv, Control, Holds, Complete, Unpublished, Entries, Scratched,
       Calling, Renamed
<1> QED BY <1>1, <1>2, <1>3 DEF IInv

----------------------------------------------------------------------------
(* What a step of q may do to the directory, and what the others keep.     *)

FsStep(q) ==
  /\ created' \in {created, created + 1}
  /\ \A t \in Targets :
       \/ names'[t] = names[t]
       \/ place[q] = "rename" /\ t = goal[q] /\ names[t] = NoFile /\ names'[t] = file[q]
  /\ \A n \in Scratch :
       \/ names'[n] \in {names[n], NoFile}
       \/ created' = created + 1 /\ names'[n] = created + 1
  /\ \A p \in Publishers \ {q} : names'[Staging(p)] = names[Staging(p)]
  /\ \A ns \in survivors' : ns \in survivors \/ ns = names'
  /\ \A f \in 1 .. created :
       \/ content'[f] = content[f] /\ stable'[f] = stable[f]
       \/ f = file[q] /\ place[q] \in {"write", "sync"}
  /\ \/ file'[q] \in {file[q], NoFile}
     \/ created' = created + 1 /\ file'[q] = created + 1

Kept(p) ==
  /\ live'[p] = live[p] /\ held'[p] = held[p] /\ place'[p] = place[p]
  /\ kind'[p] = kind[p] /\ goal'[p] = goal[p] /\ temp'[p] = temp[p]
  /\ owns'[p] = owns[p] /\ file'[p] = file[p] /\ sinkActive'[p] = sinkActive[p]
  /\ result'[p] = result[p]

OthersKept(q) == \A p \in Publishers \ {q} : Kept(p)

LEMMA DurableKept ==
  ASSUME Types, NEW q \in Publishers, FsStep(q), NEW t \in Targets, Durable(t)
  PROVE  Durable(t)'
BY DEF Durable, FsStep

LEMMA OtherKept ==
  ASSUME IInv, NEW q \in Publishers, FsStep(q), OthersKept(q),
         NEW p \in Publishers \ {q}
  PROVE  CallInv(p)'
<1>0. Kept(p) /\ CallInv(p) /\ Types /\ file[p] \in 0 .. created /\ goal[p] \in Targets
  BY DEF OthersKept, IInv, Types, FileTypes, CallTypes
<1>1. Control(p)' /\ Holds(p)'
  <2>1. Control(p)'
    BY <1>0 DEF Kept, CallInv, Control
  <2>2. Holds(p)'
    BY <1>0 DEF Kept, CallInv, Holds
  <2> QED BY <2>1, <2>2
<1>2. file[p] # NoFile => file[p] \in 1 .. created /\ file[p] # file[q]
  BY <1>0 DEF IInv, SharedInv, FilesDiffer, NoFile, Types, FileTypes
<1>3. Complete(p)'
  BY <1>0, <1>2 DEF Kept, CallInv, Complete, Renamed, FsStep
<1>4. Unpublished(p)'
  <2> SUFFICES ASSUME file'[p] # NoFile /\ Calling(p)' /\ ~Renamed(p)',
                      NEW ns \in survivors', NEW t \in Targets
               PROVE  ns[t] # file'[p]
    BY DEF Unpublished
  <2>1. file[p] # NoFile /\ Calling(p) /\ ~Renamed(p) /\ file'[p] = file[p]
    BY <1>0 DEF Kept, Calling, Renamed
  <2>2. /\ \A ms \in survivors : ms[t] # file[p]
        /\ names \in survivors /\ file[q] # file[p]
    BY <1>0, <1>2, <2>1 DEF CallInv, Unpublished, Types, FileTypes
  <2>3. names'[t] \in {names[t], file[q]} /\ (ns \in survivors \/ ns = names')
    BY DEF FsStep
  <2> QED BY <2>1, <2>2, <2>3
<1>5. Entries(p)'
  BY <1>0, <1>2 DEF Kept, CallInv, Entries, Complete, Calling, Renamed, FsStep
<1>6. Scratched(p)'
  <2>1. file[p] # created + 1
    BY <1>0, ConstantsAssumption DEF Types, FileTypes
  <2> QED BY <1>0, <2>1 DEF Kept, CallInv, Scratched, Calling, FsStep
<1>7. place'[p] = "closeParent" /\ result'[p].state = "published" => Durable(goal[p])'
  BY <1>0, DurableKept DEF Kept, CallInv
<1> QED BY <1>0, <1>1, <1>3, <1>4, <1>5, <1>6, <1>7 DEF CallInv, Kept

LEMMA SharedKept ==
  ASSUME IInv, NEW q \in Publishers, FsStep(q), OthersKept(q),
         \A t \in Targets : reported'[t] # NoFile => reported[t] # NoFile \/ Durable(t)
  PROVE  SharedInv'
<1>0. Types /\ SharedInv /\ CallInv(q) /\ file[q] \in 0 .. created
  BY DEF IInv, Types, FileTypes
<1>w. place[q] \in {"write", "sync"} /\ file[q] # NoFile =>
        \A ns \in survivors : \A t \in Targets : ns[t] # file[q]
  <2>1. place[q] \in {"write", "sync"} => result[q].state = "none"
    BY <1>0 DEF CallInv, Control, Outcome
  <2> QED BY <1>0, <2>1 DEF CallInv, Unpublished, Calling, Renamed
<1>1. FilesDiffer'
  <2>1. \A p \in Publishers : file[p] \in 0 .. created
    BY <1>0 DEF Types, FileTypes
  <2>2. created + 1 \notin 0 .. created /\ created + 1 # NoFile
    BY <1>0 DEF Types, FileTypes, NoFile
  <2>3. \A p \in Publishers \ {q} : file'[p] = file[p]
    BY DEF OthersKept, Kept
  <2> QED BY <1>0, <2>1, <2>2, <2>3 DEF SharedInv, FilesDiffer, FsStep
<1>2. Earlier'
  BY <1>0 DEF SharedInv, Earlier, FsStep, Types, FileTypes
<1>3. WholeOrAbsent'
  <2> SUFFICES ASSUME NEW ns \in survivors', NEW t \in Targets, ns[t] # NoFile
               PROVE  content'[ns[t]] = Chunks /\ stable'[ns[t]] = Chunks
    BY DEF WholeOrAbsent
  <2>1. CASE ns \in survivors
    <3>1. ns[t] \in 1 .. created
      <4>1. ns[t] \in 0 .. created /\ ns[t] # NoFile /\ created \in Nat
        BY <1>0, <2>1, Ranges
      <4> QED BY <4>1 DEF NoFile
    <3>2. place[q] \in {"write", "sync"} => ns[t] # file[q]
      BY <1>w, <2>1
    <3> QED BY <1>0, <2>1, <3>1, <3>2 DEF FsStep, SharedInv, WholeOrAbsent
  <2>2. CASE ns = names' /\ names'[t] = names[t]
    <3>1. names \in survivors /\ names[t] \in 1 .. created /\ names[t] # NoFile
      <4>1. names[t] \in 0 .. created /\ names[t] # NoFile /\ created \in Nat
            /\ names \in survivors
        BY <1>0, <2>2, Ranges
      <4> QED BY <4>1 DEF NoFile
    <3>2. place[q] \in {"write", "sync"} => names[t] # file[q]
      BY <1>w, <3>1
    <3> QED BY <1>0, <2>2, <3>1, <3>2 DEF FsStep, SharedInv, WholeOrAbsent
  <2>3. CASE ns = names' /\ place[q] = "rename" /\ names'[t] = file[q]
    <3>1. file[q] \in 1 .. created /\ content[file[q]] = Chunks /\ stable[file[q]] = Chunks
      BY <1>0, <2>3 DEF CallInv, Complete, NoFile, Types, FileTypes
    <3> QED BY <2>3, <3>1 DEF FsStep
  <2> QED BY <2>1, <2>2, <2>3 DEF FsStep
<1>4. \A t \in Targets : reported'[t] # NoFile => Durable(t)'
  BY <1>0, DurableKept DEF SharedInv
<1> QED BY <1>1, <1>2, <1>3, <1>4 DEF SharedInv

----------------------------------------------------------------------------
(* The steps of one process.                                               *)

\* One step that is not a crash.
Moves(q) == Begin(q) \/ Step(q) \/ Kill(q)

LEMMA CallTypesStep ==
  ASSUME Types, NEW q \in Publishers, Moves(q)
  PROVE  CallTypes'
<1> USE DEF Types, CallTypes, callVars, sinkVars, Places, Goto
<1>1. ASSUME NEW t \in Targets, PublishFile(q, t) PROVE CallTypes'
  BY <1>1 DEF PublishFile
<1>2. ASSUME NEW t \in Targets, PublishDirectory(q, t) PROVE CallTypes'
  BY <1>2, ScratchNames DEF PublishDirectory
<1>3. CASE OpenParentFails(q)
  BY <1>3 DEF OpenParentFails
<1>4. CASE OpenParent(q)
  BY <1>4 DEF OpenParent
<1>5. ASSUME NEW name \in Scratch, CreateTemporary(q, name) PROVE CallTypes'
  BY <1>5 DEF CreateTemporary, TriesName
<1>6. ASSUME NEW name \in Scratch, NameIsTaken(q, name) PROVE CallTypes'
  BY <1>6 DEF NameIsTaken, TriesName
<1>7. ASSUME NEW name \in Scratch, CreateFails(q, name) PROVE CallTypes'
  BY <1>7 DEF CreateFails, TriesName, FailBeforeRename
<1>8. CASE NoNameLeft(q)
  BY <1>8 DEF NoNameLeft, FailBeforeRename
<1>9. CASE OpenStaging(q)
  BY <1>9 DEF OpenStaging
<1>10. CASE OpenStagingFails(q)
  BY <1>10 DEF OpenStagingFails, FailBeforeRename
<1>11. CASE SinkWrites(q)
  BY <1>11 DEF SinkWrites
<1>12. CASE SinkFails(q)
  BY <1>12 DEF SinkFails
<1>13. CASE WriterReturns(q)
  BY <1>13 DEF WriterReturns, FailBeforeRename, Terminalize
<1>14. CASE WriterThrows(q)
  BY <1>14 DEF WriterThrows, FailBeforeRename, Terminalize
<1>15. CASE SyncContent(q)
  BY <1>15 DEF SyncContent
<1>16. CASE SyncContentFails(q)
  BY <1>16 DEF SyncContentFails, FailBeforeRename
<1>17. CASE CloseContent(q)
  BY <1>17 DEF CloseContent
<1>18. CASE CloseContentFails(q)
  BY <1>18 DEF CloseContentFails, FailBeforeRename
<1>19. CASE RenameNoReplace(q)
  BY <1>19 DEF RenameNoReplace
<1>20. ASSUME NEW errno \in RenameErrors, RenameFails(q, errno) PROVE CallTypes'
  BY <1>20 DEF RenameFails, FailBeforeRename
<1>21. CASE SyncParent(q)
  BY <1>21 DEF SyncParent
<1>22. CASE SyncParentFails(q)
  BY <1>22 DEF SyncParentFails
<1>23. CASE AllocationFails(q)
  BY <1>23 DEF AllocationFails
<1>24. ASSUME NEW failed \in BOOLEAN, CloseParent(q, failed) PROVE CallTypes'
  BY <1>24 DEF CloseParent
<1>25. ASSUME NEW failed \in BOOLEAN, FailClose(q, failed) PROVE CallTypes'
  BY <1>25 DEF FailClose
<1>26. ASSUME NEW failed \in BOOLEAN, FailUnlink(q, failed) PROVE CallTypes'
  BY <1>26 DEF FailUnlink
<1>27. ASSUME NEW removed \in BOOLEAN, Unwind(q, removed) PROVE CallTypes'
  BY <1>27 DEF Unwind
<1>28. CASE Kill(q)
  BY <1>28 DEF Kill, Die
<1> QED
  BY <1>1, <1>2, <1>3, <1>4, <1>5, <1>6, <1>7, <1>8, <1>9, <1>10, <1>11, <1>12,
     <1>13, <1>14, <1>15, <1>16, <1>17, <1>18, <1>19, <1>20, <1>21, <1>22,
     <1>23, <1>24, <1>25, <1>26, <1>27, <1>28
  DEF Moves, Begin, Step, Create

LEMMA DescriptorTypesStep ==
  ASSUME Types, NEW q \in Publishers, Moves(q)
  PROVE  DescriptorTypes'
<1> USE DEF Types, DescriptorTypes, Descriptors
<1>1. ASSUME NEW t \in Targets, PublishFile(q, t) PROVE DescriptorTypes'
  BY <1>1 DEF PublishFile
<1>2. ASSUME NEW t \in Targets, PublishDirectory(q, t) PROVE DescriptorTypes'
  BY <1>2 DEF PublishDirectory
<1>3. CASE OpenParentFails(q)
  BY <1>3 DEF OpenParentFails
<1>4. CASE OpenParent(q)
  BY <1>4 DEF OpenParent, Open
<1>5. ASSUME NEW name \in Scratch, CreateTemporary(q, name) PROVE DescriptorTypes'
  BY <1>5 DEF CreateTemporary, TriesName, Open
<1>6. ASSUME NEW name \in Scratch, NameIsTaken(q, name) PROVE DescriptorTypes'
  BY <1>6 DEF NameIsTaken, TriesName
<1>7. ASSUME NEW name \in Scratch, CreateFails(q, name) PROVE DescriptorTypes'
  BY <1>7 DEF CreateFails, TriesName, FailBeforeRename
<1>8. CASE NoNameLeft(q)
  BY <1>8 DEF NoNameLeft, FailBeforeRename
<1>9. CASE OpenStaging(q)
  BY <1>9 DEF OpenStaging, Open
<1>10. CASE OpenStagingFails(q)
  BY <1>10 DEF OpenStagingFails, FailBeforeRename
<1>11. CASE SinkWrites(q)
  BY <1>11 DEF SinkWrites
<1>12. CASE SinkFails(q)
  BY <1>12 DEF SinkFails
<1>13. CASE WriterReturns(q)
  BY <1>13 DEF WriterReturns, FailBeforeRename, Terminalize
<1>14. CASE WriterThrows(q)
  BY <1>14 DEF WriterThrows, FailBeforeRename, Terminalize
<1>15. CASE SyncContent(q)
  BY <1>15 DEF SyncContent
<1>16. CASE SyncContentFails(q)
  BY <1>16 DEF SyncContentFails, FailBeforeRename
<1>17. CASE CloseContent(q)
  BY <1>17 DEF CloseContent, CloseOnce
<1>18. CASE CloseContentFails(q)
  BY <1>18 DEF CloseContentFails, FailBeforeRename, CloseOnce
<1>19. CASE RenameNoReplace(q)
  BY <1>19 DEF RenameNoReplace
<1>20. ASSUME NEW errno \in RenameErrors, RenameFails(q, errno) PROVE DescriptorTypes'
  BY <1>20 DEF RenameFails, FailBeforeRename
<1>21. CASE SyncParent(q)
  BY <1>21 DEF SyncParent
<1>22. CASE SyncParentFails(q)
  BY <1>22 DEF SyncParentFails
<1>23. CASE AllocationFails(q)
  BY <1>23 DEF AllocationFails
<1>24. ASSUME NEW failed \in BOOLEAN, CloseParent(q, failed) PROVE DescriptorTypes'
  BY <1>24 DEF CloseParent, CloseOnce
<1>25. ASSUME NEW failed \in BOOLEAN, FailClose(q, failed) PROVE DescriptorTypes'
  BY <1>25 DEF FailClose, CloseOnce
<1>26. ASSUME NEW failed \in BOOLEAN, FailUnlink(q, failed) PROVE DescriptorTypes'
  BY <1>26 DEF FailUnlink
<1>27. ASSUME NEW removed \in BOOLEAN, Unwind(q, removed) PROVE DescriptorTypes'
  BY <1>27 DEF Unwind
<1>28. CASE Kill(q)
  BY <1>28 DEF Kill, Die
<1> QED
  BY <1>1, <1>2, <1>3, <1>4, <1>5, <1>6, <1>7, <1>8, <1>9, <1>10, <1>11, <1>12,
     <1>13, <1>14, <1>15, <1>16, <1>17, <1>18, <1>19, <1>20, <1>21, <1>22, <1>23,
     <1>24, <1>25, <1>26, <1>27, <1>28
  DEF Moves, Begin, Step, Create

LEMMA ResultTypesStep ==
  ASSUME Types, NEW q \in Publishers, Moves(q)
  PROVE  ResultTypes'
<1> DEFINE Results == [state : States, cleanup_error : BOOLEAN]
<1>s. ASSUME NEW state \in States, Settle(q, state)
      PROVE  result' \in [Publishers -> Results]
  BY <1>s DEF Settle, Outcome, Types, ResultTypes
<1>c. ASSUME NEW failed \in BOOLEAN, RememberCleanupError(q, failed)
      PROVE  result' \in [Publishers -> Results]
  <2> DEFINE error == result[q].cleanup_error \/ failed
  <2>1. result' = [result EXCEPT ![q].cleanup_error = error]
    BY <1>c DEF RememberCleanupError
  <2>2. error \in BOOLEAN /\ result[q] \in Results
    BY DEF Types, ResultTypes
  <2> HIDE DEF error
  <2>3. [result[q] EXCEPT !.cleanup_error = error] \in Results
    BY <2>2
  <2> HIDE DEF Results
  <2> QED BY <2>1, <2>3 DEF Types, ResultTypes, Results
<1>f. \A p \in Publishers : file[p] \in 0 .. MaxFiles
  <2>1. created \in 0 .. MaxFiles /\ \A p \in Publishers : file[p] \in 0 .. created
    BY DEF Types, FileTypes
  <2>2. created \in Nat /\ MaxFiles \in Nat
    BY Ranges
  <2> TAKE p \in Publishers
  <2>3. file[p] \in 0 .. created
    BY <2>1
  <2> QED BY <2>1, <2>2, <2>3
<1> HIDE DEF Results
<1>r. /\ result \in [Publishers -> Results] /\ reported \in [Targets -> 0 .. MaxFiles]
      /\ goal \in [Publishers -> Targets]
  BY DEF Types, ResultTypes, CallTypes, Results
<1>q. ASSUME result' \in [Publishers -> Results], reported' \in [Targets -> 0 .. MaxFiles]
      PROVE  ResultTypes'
  BY <1>q DEF ResultTypes, Results
<1>st. /\ {"none", "published", "durability_uncertain", "threw"} \subseteq States
       /\ {"not_published", "target_exists", "no_replace_unsupported"} \subseteq States
  BY DEF States, Failures
<1>1. ASSUME NEW t \in Targets, PublishFile(q, t) PROVE ResultTypes'
  BY <1>1, <1>r, <1>q, <1>s, <1>st DEF PublishFile
<1>2. ASSUME NEW t \in Targets, PublishDirectory(q, t) PROVE ResultTypes'
  BY <1>2, <1>r, <1>q, <1>s, <1>st DEF PublishDirectory
<1>3. CASE OpenParentFails(q)
  BY <1>3, <1>r, <1>q, <1>s, <1>st DEF OpenParentFails
<1>4. CASE OpenParent(q)
  BY <1>4, <1>r, <1>q DEF OpenParent
<1>5. ASSUME NEW name \in Scratch, CreateTemporary(q, name) PROVE ResultTypes'
  BY <1>5, <1>r, <1>q DEF CreateTemporary, TriesName
<1>6. ASSUME NEW name \in Scratch, NameIsTaken(q, name) PROVE ResultTypes'
  BY <1>6, <1>r, <1>q DEF NameIsTaken, TriesName
<1>7. ASSUME NEW name \in Scratch, CreateFails(q, name) PROVE ResultTypes'
  BY <1>7, <1>r, <1>q, <1>s, <1>st DEF CreateFails, TriesName, FailBeforeRename
<1>8. CASE NoNameLeft(q)
  BY <1>8, <1>r, <1>q, <1>s, <1>st DEF NoNameLeft, FailBeforeRename
<1>9. CASE OpenStaging(q)
  BY <1>9, <1>r, <1>q DEF OpenStaging
<1>10. CASE OpenStagingFails(q)
  BY <1>10, <1>r, <1>q, <1>s, <1>st DEF OpenStagingFails, FailBeforeRename
<1>11. CASE SinkWrites(q)
  BY <1>11, <1>r, <1>q DEF SinkWrites
<1>12. CASE SinkFails(q)
  BY <1>12, <1>r, <1>q DEF SinkFails
<1>13. CASE WriterReturns(q)
  BY <1>13, <1>r, <1>q, <1>s, <1>st DEF WriterReturns, FailBeforeRename, Terminalize
<1>14. CASE WriterThrows(q)
  BY <1>14, <1>r, <1>q, <1>s, <1>st DEF WriterThrows, FailBeforeRename, Terminalize
<1>15. CASE SyncContent(q)
  BY <1>15, <1>r, <1>q DEF SyncContent
<1>16. CASE SyncContentFails(q)
  BY <1>16, <1>r, <1>q, <1>s, <1>st DEF SyncContentFails, FailBeforeRename
<1>17. CASE CloseContent(q)
  BY <1>17, <1>r, <1>q DEF CloseContent
<1>18. CASE CloseContentFails(q)
  BY <1>18, <1>r, <1>q, <1>s, <1>st DEF CloseContentFails, FailBeforeRename
<1>19. CASE RenameNoReplace(q)
  BY <1>19, <1>r, <1>q DEF RenameNoReplace
<1>20. ASSUME NEW errno \in RenameErrors, RenameFails(q, errno) PROVE ResultTypes'
  BY <1>20, <1>r, <1>q, <1>s, <1>st
  DEF RenameFails, FailBeforeRename, RenameFailureState
<1>21. CASE SyncParent(q)
  BY <1>21, <1>r, <1>q, <1>s, <1>st DEF SyncParent
<1>22. CASE SyncParentFails(q)
  BY <1>22, <1>r, <1>q, <1>s, <1>st DEF SyncParentFails
<1>23. CASE AllocationFails(q)
  BY <1>23, <1>r, <1>q, <1>s, <1>st DEF AllocationFails
<1>24. ASSUME NEW failed \in BOOLEAN, CloseParent(q, failed) PROVE ResultTypes'
  BY <1>24, <1>r, <1>q, <1>c, <1>f DEF CloseParent
<1>25. ASSUME NEW failed \in BOOLEAN, FailClose(q, failed) PROVE ResultTypes'
  BY <1>25, <1>r, <1>q, <1>c DEF FailClose
<1>26. ASSUME NEW failed \in BOOLEAN, FailUnlink(q, failed) PROVE ResultTypes'
  BY <1>26, <1>r, <1>q, <1>c DEF FailUnlink
<1>27. ASSUME NEW removed \in BOOLEAN, Unwind(q, removed) PROVE ResultTypes'
  BY <1>27, <1>r, <1>q DEF Unwind
<1>28. CASE Kill(q)
  <2>1. [state |-> "none", cleanup_error |-> FALSE] \in Results
    BY <1>st DEF Results
  <2> QED BY <1>28, <1>r, <1>q, <2>1 DEF Kill, Die, Outcome
<1> QED
  BY <1>1, <1>2, <1>3, <1>4, <1>5, <1>6, <1>7, <1>8, <1>9, <1>10, <1>11, <1>12,
     <1>13, <1>14, <1>15, <1>16, <1>17, <1>18, <1>19, <1>20, <1>21, <1>22, <1>23,
     <1>24, <1>25, <1>26, <1>27, <1>28
  DEF Moves, Begin, Step, Create

LEMMA FileTypesStep ==
  ASSUME Types, NEW q \in Publishers, Moves(q)
  PROVE  FileTypes'
<1>t. /\ created \in Nat /\ MaxFiles \in Nat /\ names \in survivors
      /\ names \in [Names -> 0 .. created] /\ survivors \subseteq [Names -> 0 .. created]
      /\ content \in [Files -> Nat] /\ stable \in [Files -> Nat] /\ created \in 0 .. MaxFiles
      /\ file \in [Publishers -> 0 .. created] /\ Chunks \in Nat
      /\ file[q] \in 0 .. created
  BY Ranges, ConstantsAssumption DEF Types, FileTypes
<1>n. /\ Targets \subseteq Names /\ Scratch \subseteq Names /\ Staging(q) \in Scratch
      /\ temp[q] \in Scratch
  BY ScratchNames DEF Types, CallTypes
\* The directory takes a new state.
<1>s. ASSUME NEW ns \in [Names -> 0 .. created'], created' \in {created, created + 1},
             SetNames(ns)
      PROVE  survivors' \subseteq [Names -> 0 .. created'] /\ names' \in survivors'
  <2>1. \A old \in [Names -> 0 .. created] : old \in [Names -> 0 .. created']
    BY <1>t, <1>s
  <2> QED BY <1>t, <1>s, <2>1 DEF SetNames
<1>1. ASSUME NEW t \in Targets, PublishFile(q, t) PROVE FileTypes'
  <2>1. UNCHANGED fsVars /\ file' = [file EXCEPT ![q] = NoFile]
    BY <1>1 DEF PublishFile
  <2>2. file' \in [Publishers -> 0 .. created]
    BY <1>t, <2>1 DEF NoFile
  <2> QED BY <1>t, <2>1, <2>2 DEF FileTypes, fsVars
<1>2. ASSUME NEW t \in Targets, PublishDirectory(q, t) PROVE FileTypes'
  <2>1. created' = created + 1 /\ created < MaxFiles /\ file' = [file EXCEPT ![q] = created + 1]
    BY <1>2 DEF PublishDirectory
  <2>2. created' \in 0 .. MaxFiles /\ file' \in [Publishers -> 0 .. created']
    BY <1>t, <2>1
  <2>3. survivors' \subseteq [Names -> 0 .. created'] /\ names' \in survivors'
    <3> DEFINE ns == [names EXCEPT ![Staging(q)] = created + 1]
    <3>1. ns \in [Names -> 0 .. created']
      BY <1>t, <1>n, <2>1
    <3>2. SetNames(ns)
      BY <1>2, <2>1 DEF PublishDirectory
    <3> HIDE DEF ns
    <3> QED BY <1>s, <2>1, <3>1, <3>2
  <2>4. content' \in [Files -> Nat] /\ stable' \in [Files -> Nat]
    BY <1>t, <1>2 DEF PublishDirectory
  <2> QED BY <2>2, <2>3, <2>4 DEF FileTypes
<1>3. CASE OpenParentFails(q)
  BY <1>3, <1>t DEF OpenParentFails, FileTypes, fsVars, callVars
<1>4. CASE OpenParent(q)
  BY <1>4, <1>t DEF OpenParent, FileTypes, fsVars, callVars
<1>5. ASSUME NEW name \in Scratch, CreateTemporary(q, name) PROVE FileTypes'
  <2>1. created' = created + 1 /\ created < MaxFiles /\ file' = [file EXCEPT ![q] = created + 1]
    BY <1>5 DEF CreateTemporary
  <2>2. created' \in 0 .. MaxFiles /\ file' \in [Publishers -> 0 .. created']
    BY <1>t, <2>1
  <2>3. survivors' \subseteq [Names -> 0 .. created'] /\ names' \in survivors'
    <3> DEFINE ns == [names EXCEPT ![name] = created + 1]
    <3>1. ns \in [Names -> 0 .. created']
      BY <1>t, <1>n, <2>1
    <3>2. SetNames(ns)
      BY <1>5, <2>1 DEF CreateTemporary
    <3> HIDE DEF ns
    <3> QED BY <1>s, <2>1, <3>1, <3>2
  <2>4. content' \in [Files -> Nat] /\ stable' \in [Files -> Nat]
    BY <1>t, <1>5 DEF CreateTemporary
  <2> QED BY <2>2, <2>3, <2>4 DEF FileTypes
<1>6. ASSUME NEW name \in Scratch, NameIsTaken(q, name) PROVE FileTypes'
  BY <1>6, <1>t DEF NameIsTaken, TriesName, FileTypes, fsVars, callVars
<1>7. ASSUME NEW name \in Scratch, CreateFails(q, name) PROVE FileTypes'
  BY <1>7, <1>t
  DEF CreateFails, TriesName, FailBeforeRename, FileTypes, fsVars, callVars
<1>8. CASE NoNameLeft(q)
  BY <1>8, <1>t DEF NoNameLeft, FailBeforeRename, FileTypes, fsVars, callVars
<1>9. CASE OpenStaging(q)
  BY <1>9, <1>t DEF OpenStaging, FileTypes, fsVars, callVars
<1>10. CASE OpenStagingFails(q)
  BY <1>10, <1>t DEF OpenStagingFails, FailBeforeRename, FileTypes, fsVars, callVars
<1>11. CASE SinkWrites(q)
  <2>1. /\ content' = [content EXCEPT ![file[q]] = @ + 1]
        /\ UNCHANGED <<created, names, survivors, stable, file>>
    BY <1>11 DEF SinkWrites, callVars
  <2>2. content' \in [Files -> Nat]
    <3>1. CASE file[q] \in Files
      BY <1>t, <2>1, <3>1
    <3>2. CASE file[q] \notin Files
      BY <1>t, <2>1, <3>2
    <3> QED BY <3>1, <3>2
  <2> QED BY <1>t, <2>1, <2>2 DEF FileTypes
<1>12. CASE SinkFails(q)
  BY <1>12, <1>t DEF SinkFails, FileTypes, fsVars, callVars
<1>13. CASE WriterReturns(q)
  BY <1>13, <1>t
  DEF WriterReturns, FailBeforeRename, Terminalize, FileTypes, fsVars, callVars
<1>14. CASE WriterThrows(q)
  BY <1>14, <1>t
  DEF WriterThrows, FailBeforeRename, Terminalize, FileTypes, fsVars, callVars
<1>15. CASE SyncContent(q)
  <2>1. /\ stable' = [stable EXCEPT ![file[q]] = content[file[q]]]
        /\ UNCHANGED <<created, names, survivors, content, file>>
    BY <1>15 DEF SyncContent, callVars
  <2>2. stable' \in [Files -> Nat]
    BY <1>t, <2>1
  <2> QED BY <1>t, <2>1, <2>2 DEF FileTypes
<1>16. CASE SyncContentFails(q)
  BY <1>16, <1>t DEF SyncContentFails, FailBeforeRename, FileTypes, fsVars, callVars
<1>17. CASE CloseContent(q)
  BY <1>17, <1>t DEF CloseContent, FileTypes, fsVars, callVars
<1>18. CASE CloseContentFails(q)
  BY <1>18, <1>t DEF CloseContentFails, FailBeforeRename, FileTypes, fsVars, callVars
<1>19. CASE RenameNoReplace(q)
  <2> DEFINE ns == [names EXCEPT ![goal[q]] = file[q], ![temp[q]] = NoFile]
  <2>1. SetNames(ns) /\ UNCHANGED <<created, content, stable, file>>
    BY <1>19 DEF RenameNoReplace
  <2>2. ns \in [Names -> 0 .. created]
    <3>1. NoFile \in 0 .. created
      BY <1>t DEF NoFile
    <3> QED BY <1>t, <3>1
  <2> HIDE DEF ns
  <2>3. survivors' \subseteq [Names -> 0 .. created'] /\ names' \in survivors'
    BY <1>s, <2>1, <2>2
  <2> QED BY <1>t, <2>1, <2>3 DEF FileTypes
<1>20. ASSUME NEW errno \in RenameErrors, RenameFails(q, errno) PROVE FileTypes'
  BY <1>20, <1>t DEF RenameFails, FailBeforeRename, FileTypes, fsVars, callVars
<1>21. CASE SyncParent(q)
  BY <1>21, <1>t DEF SyncParent, FileTypes, fsVars, callVars
<1>22. CASE SyncParentFails(q)
  BY <1>22, <1>t DEF SyncParentFails, FileTypes, fsVars, callVars
<1>23. CASE AllocationFails(q)
  BY <1>23, <1>t DEF AllocationFails, FileTypes, fsVars, callVars
<1>24. ASSUME NEW failed \in BOOLEAN, CloseParent(q, failed) PROVE FileTypes'
  BY <1>24, <1>t DEF CloseParent, FileTypes, fsVars, callVars
<1>25. ASSUME NEW failed \in BOOLEAN, FailClose(q, failed) PROVE FileTypes'
  BY <1>25, <1>t DEF FailClose, FileTypes, fsVars, callVars
<1>26. ASSUME NEW failed \in BOOLEAN, FailUnlink(q, failed) PROVE FileTypes'
  <2> DEFINE ns == [names EXCEPT ![temp[q]] = NoFile]
  <2>1. SetNames(ns) \/ UNCHANGED <<names, survivors>>
    BY <1>26 DEF FailUnlink
  <2>2. ns \in [Names -> 0 .. created] /\ UNCHANGED <<created, content, stable, file>>
    BY <1>t, <1>n, <1>26 DEF NoFile, FailUnlink
  <2> HIDE DEF ns
  <2>3. survivors' \subseteq [Names -> 0 .. created'] /\ names' \in survivors'
    BY <1>t, <1>s, <2>1, <2>2
  <2> QED BY <1>t, <2>2, <2>3 DEF FileTypes
<1>27. ASSUME NEW removed \in BOOLEAN, Unwind(q, removed) PROVE FileTypes'
  <2> DEFINE ns == [names EXCEPT ![temp[q]] = NoFile]
  <2>1. SetNames(ns) \/ UNCHANGED <<names, survivors>>
    BY <1>27 DEF Unwind
  <2>2. ns \in [Names -> 0 .. created] /\ UNCHANGED <<created, content, stable, file>>
    BY <1>t, <1>n, <1>27 DEF NoFile, Unwind
  <2> HIDE DEF ns
  <2>3. survivors' \subseteq [Names -> 0 .. created'] /\ names' \in survivors'
    BY <1>t, <1>s, <2>1, <2>2
  <2> QED BY <1>t, <2>2, <2>3 DEF FileTypes
<1>28. CASE Kill(q)
  BY <1>28, <1>t DEF Kill, Die, FileTypes, fsVars, callVars
<1> QED
  BY <1>1, <1>2, <1>3, <1>4, <1>5, <1>6, <1>7, <1>8, <1>9, <1>10, <1>11, <1>12,
     <1>13, <1>14, <1>15, <1>16, <1>17, <1>18, <1>19, <1>20, <1>21, <1>22, <1>23,
     <1>24, <1>25, <1>26, <1>27, <1>28
  DEF Moves, Begin, Step, Create

LEMMA OthersKeptStep ==
  ASSUME Types, NEW q \in Publishers, Moves(q)
  PROVE  OthersKept(q)
<1>t. /\ DescriptorTypes /\ CallTypes /\ ResultTypes
      /\ file \in [Publishers -> 0 .. created]
  BY DEF Types, FileTypes
<1> USE DEF OthersKept, Kept, DescriptorTypes, CallTypes, ResultTypes, callVars, sinkVars, Goto
<1>1. ASSUME NEW t \in Targets, PublishFile(q, t) PROVE OthersKept(q)
  BY <1>1, <1>t DEF PublishFile, Settle
<1>2. ASSUME NEW t \in Targets, PublishDirectory(q, t) PROVE OthersKept(q)
  BY <1>2, <1>t DEF PublishDirectory, Settle
<1>3. CASE OpenParentFails(q)
  BY <1>3, <1>t DEF OpenParentFails, Settle
<1>4. CASE OpenParent(q)
  BY <1>4, <1>t DEF OpenParent, Open
<1>5. ASSUME NEW name \in Scratch, CreateTemporary(q, name) PROVE OthersKept(q)
  BY <1>5, <1>t DEF CreateTemporary, TriesName, Open
<1>6. ASSUME NEW name \in Scratch, NameIsTaken(q, name) PROVE OthersKept(q)
  BY <1>6, <1>t DEF NameIsTaken, TriesName
<1>7. ASSUME NEW name \in Scratch, CreateFails(q, name) PROVE OthersKept(q)
  BY <1>7, <1>t DEF CreateFails, TriesName, FailBeforeRename, Settle
<1>8. CASE NoNameLeft(q)
  BY <1>8, <1>t DEF NoNameLeft, FailBeforeRename, Settle
<1>9. CASE OpenStaging(q)
  BY <1>9, <1>t DEF OpenStaging, Open
<1>10. CASE OpenStagingFails(q)
  BY <1>10, <1>t DEF OpenStagingFails, FailBeforeRename, Settle
<1>11. CASE SinkWrites(q)
  BY <1>11, <1>t DEF SinkWrites
<1>12. CASE SinkFails(q)
  BY <1>12, <1>t DEF SinkFails
<1>13. CASE WriterReturns(q)
  BY <1>13, <1>t DEF WriterReturns, FailBeforeRename, Terminalize, Settle
<1>14. CASE WriterThrows(q)
  BY <1>14, <1>t DEF WriterThrows, FailBeforeRename, Terminalize, Settle
<1>15. CASE SyncContent(q)
  BY <1>15, <1>t DEF SyncContent
<1>16. CASE SyncContentFails(q)
  BY <1>16, <1>t DEF SyncContentFails, FailBeforeRename, Settle
<1>17. CASE CloseContent(q)
  BY <1>17, <1>t DEF CloseContent, CloseOnce
<1>18. CASE CloseContentFails(q)
  BY <1>18, <1>t DEF CloseContentFails, FailBeforeRename, CloseOnce, Settle
<1>19. CASE RenameNoReplace(q)
  BY <1>19, <1>t DEF RenameNoReplace
<1>20. ASSUME NEW errno \in RenameErrors, RenameFails(q, errno) PROVE OthersKept(q)
  BY <1>20, <1>t DEF RenameFails, FailBeforeRename, Settle
<1>21. CASE SyncParent(q)
  BY <1>21, <1>t DEF SyncParent, Settle
<1>22. CASE SyncParentFails(q)
  BY <1>22, <1>t DEF SyncParentFails, Settle
<1>23. CASE AllocationFails(q)
  BY <1>23, <1>t DEF AllocationFails, Settle
<1>24. ASSUME NEW failed \in BOOLEAN, CloseParent(q, failed) PROVE OthersKept(q)
  BY <1>24, <1>t DEF CloseParent, CloseOnce, RememberCleanupError
<1>25. ASSUME NEW failed \in BOOLEAN, FailClose(q, failed) PROVE OthersKept(q)
  BY <1>25, <1>t DEF FailClose, CloseOnce, RememberCleanupError
<1>26. ASSUME NEW failed \in BOOLEAN, FailUnlink(q, failed) PROVE OthersKept(q)
  BY <1>26, <1>t DEF FailUnlink, RememberCleanupError
<1>27. ASSUME NEW removed \in BOOLEAN, Unwind(q, removed) PROVE OthersKept(q)
  BY <1>27, <1>t DEF Unwind
<1>28. CASE Kill(q)
  BY <1>28, <1>t DEF Kill, Die
<1> QED
  BY <1>1, <1>2, <1>3, <1>4, <1>5, <1>6, <1>7, <1>8, <1>9, <1>10, <1>11, <1>12,
     <1>13, <1>14, <1>15, <1>16, <1>17, <1>18, <1>19, <1>20, <1>21, <1>22, <1>23,
     <1>24, <1>25, <1>26, <1>27, <1>28
  DEF Moves, Begin, Step, Create

LEMMA FsStepStep ==
  ASSUME Types, NEW q \in Publishers, CallInv(q), Moves(q)
  PROVE  FsStep(q)
<1>t. /\ created \in Nat /\ names \in survivors
      /\ names \in [Names -> 0 .. created]
      /\ content \in [Files -> Nat] /\ stable \in [Files -> Nat]
      /\ file \in [Publishers -> 0 .. created]
  BY Ranges DEF Types, FileTypes
<1>n. /\ Targets \subseteq Names /\ Scratch \subseteq Names /\ Staging(q) \in Scratch
      /\ \A t \in Targets : t \notin Scratch
      /\ \A p \in Publishers \ {q} : Staging(p) # Staging(q) /\ Staging(p) \in Scratch
      /\ \A p \in Publishers \ {q} : \A n : Temp(q, n) # Staging(p)
  BY ScratchNames
<1>e. \E n \in Nat : temp[q] \in {Temp(q, n), Staging(q)}
  BY DEF CallInv, Entries
<1>m. temp[q] \in Scratch /\ \A p \in Publishers \ {q} : temp[q] # Staging(p)
  BY <1>n, <1>e DEF Types, CallTypes
<1>1. ASSUME NEW t \in Targets, PublishFile(q, t) PROVE FsStep(q)
  BY <1>1, <1>t DEF PublishFile, FsStep, fsVars, callVars, sinkVars
<1>2. ASSUME NEW t \in Targets, PublishDirectory(q, t) PROVE FsStep(q)
  BY <1>2, <1>t, <1>n, <1>m DEF PublishDirectory, FsStep, SetNames
<1>3. CASE OpenParentFails(q)
  BY <1>3, <1>t DEF OpenParentFails, FsStep, fsVars, callVars, sinkVars
<1>4. CASE OpenParent(q)
  BY <1>4, <1>t DEF OpenParent, FsStep, fsVars, callVars, sinkVars
<1>5. ASSUME NEW name \in Scratch, CreateTemporary(q, name) PROVE FsStep(q)
  BY <1>5, <1>t, <1>n, <1>m DEF CreateTemporary, TriesName, FsStep, SetNames
<1>6. ASSUME NEW name \in Scratch, NameIsTaken(q, name) PROVE FsStep(q)
  BY <1>6, <1>t DEF NameIsTaken, TriesName, FsStep, fsVars, callVars, sinkVars
<1>7. ASSUME NEW name \in Scratch, CreateFails(q, name) PROVE FsStep(q)
  BY <1>7, <1>t
  DEF CreateFails, TriesName, FailBeforeRename, FsStep, fsVars, callVars, sinkVars
<1>8. CASE NoNameLeft(q)
  BY <1>8, <1>t DEF NoNameLeft, FailBeforeRename, FsStep, fsVars, callVars, sinkVars
<1>9. CASE OpenStaging(q)
  BY <1>9, <1>t DEF OpenStaging, FsStep, fsVars, callVars, sinkVars
<1>10. CASE OpenStagingFails(q)
  BY <1>10, <1>t
  DEF OpenStagingFails, FailBeforeRename, FsStep, fsVars, callVars, sinkVars
<1>11. CASE SinkWrites(q)
  <2>1. place[q] = "write"
    BY <1>11 DEF SinkWrites, CallInv, Control
  <2>2. /\ content' = [content EXCEPT ![file[q]] = @ + 1]
        /\ UNCHANGED <<names, survivors, created, stable, file>>
    BY <1>11 DEF SinkWrites, callVars
  <2>3. \A f \in 1 .. created : f # file[q] => content'[f] = content[f]
    BY <1>t, <2>2
  <2> QED BY <2>1, <2>2, <2>3 DEF FsStep
<1>12. CASE SinkFails(q)
  BY <1>12, <1>t DEF SinkFails, FsStep, fsVars, callVars, sinkVars
<1>13. CASE WriterReturns(q)
  BY <1>13, <1>t
  DEF WriterReturns, FailBeforeRename, Terminalize, FsStep, fsVars, callVars,
      sinkVars
<1>14. CASE WriterThrows(q)
  BY <1>14, <1>t
  DEF WriterThrows, FailBeforeRename, Terminalize, FsStep, fsVars, callVars,
      sinkVars
<1>15. CASE SyncContent(q)
  BY <1>15, <1>t DEF SyncContent, FsStep, fsVars, callVars, sinkVars
<1>16. CASE SyncContentFails(q)
  BY <1>16, <1>t
  DEF SyncContentFails, FailBeforeRename, FsStep, fsVars, callVars, sinkVars
<1>17. CASE CloseContent(q)
  BY <1>17, <1>t DEF CloseContent, FsStep, fsVars, callVars, sinkVars
<1>18. CASE CloseContentFails(q)
  BY <1>18, <1>t
  DEF CloseContentFails, FailBeforeRename, FsStep, fsVars, callVars, sinkVars
<1>19. CASE RenameNoReplace(q)
  <2>1. /\ place[q] = "rename" /\ names[goal[q]] = NoFile
        /\ names' = [names EXCEPT ![goal[q]] = file[q], ![temp[q]] = NoFile]
        /\ survivors' = survivors \union {names'}
        /\ UNCHANGED <<created, content, stable, file>>
    BY <1>19 DEF RenameNoReplace, SetNames
  <2>2. \A t \in Targets : names'[t] = IF t = goal[q] THEN file[q] ELSE names[t]
    BY <1>t, <1>n, <1>m, <2>1
  <2>3. \A n \in Scratch : names'[n] = IF n = temp[q] THEN NoFile ELSE names[n]
    BY <1>t, <1>n, <1>m, <2>1 DEF Types, CallTypes
  <2> QED BY <1>n, <1>m, <2>1, <2>2, <2>3 DEF FsStep
<1>20. ASSUME NEW errno \in RenameErrors, RenameFails(q, errno) PROVE FsStep(q)
  BY <1>20, <1>t DEF RenameFails, FailBeforeRename, FsStep, fsVars, callVars, sinkVars
<1>21. CASE SyncParent(q)
  BY <1>21, <1>t DEF SyncParent, FsStep, fsVars, callVars, sinkVars
<1>22. CASE SyncParentFails(q)
  BY <1>22, <1>t DEF SyncParentFails, FsStep, fsVars, callVars, sinkVars
<1>23. CASE AllocationFails(q)
  BY <1>23, <1>t DEF AllocationFails, FsStep, fsVars, callVars, sinkVars
<1>24. ASSUME NEW failed \in BOOLEAN, CloseParent(q, failed) PROVE FsStep(q)
  BY <1>24, <1>t DEF CloseParent, FsStep, fsVars, callVars, sinkVars
<1>25. ASSUME NEW failed \in BOOLEAN, FailClose(q, failed) PROVE FsStep(q)
  BY <1>25, <1>t DEF FailClose, FsStep, fsVars, callVars, sinkVars
<1>26. ASSUME NEW failed \in BOOLEAN, FailUnlink(q, failed) PROVE FsStep(q)
  BY <1>26, <1>t, <1>n, <1>m DEF FailUnlink, FsStep, SetNames
<1>27. ASSUME NEW removed \in BOOLEAN, Unwind(q, removed) PROVE FsStep(q)
  BY <1>27, <1>t, <1>n, <1>m DEF Unwind, FsStep, SetNames
<1>28. CASE Kill(q)
  BY <1>28, <1>t DEF Kill, Die, FsStep, fsVars, callVars, sinkVars
<1> QED
  BY <1>1, <1>2, <1>3, <1>4, <1>5, <1>6, <1>7, <1>8, <1>9, <1>10, <1>11, <1>12,
     <1>13, <1>14, <1>15, <1>16, <1>17, <1>18, <1>19, <1>20, <1>21, <1>22, <1>23,
     <1>24, <1>25, <1>26, <1>27, <1>28
  DEF Moves, Begin, Step, Create

LEMMA ControlStep ==
  ASSUME Types, NEW q \in Publishers, CallInv(q), Moves(q)
  PROVE  Control(q)'
<1>t. Control(q) /\ CallTypes /\ ResultTypes
  BY DEF Types, CallInv
<1>e. \A st, e : Outcome(st, e).state = st
  BY DEF Outcome
<1>s. ASSUME NEW st, Settle(q, st) PROVE result'[q].state = st
  BY <1>t, <1>s, <1>e DEF Settle, ResultTypes
<1>f. ASSUME NEW st \in Failures, FailBeforeRename(q, st)
      PROVE  place' = [place EXCEPT ![q] = "failClose"] /\ result'[q].state \in Failures
  BY <1>s, <1>f DEF FailBeforeRename, Goto
<1>r. ASSUME NEW failed, RememberCleanupError(q, failed)
      PROVE  result'[q].state = result[q].state
  BY <1>t, <1>r DEF RememberCleanupError, ResultTypes
<1>n. /\ "not_published" \in Failures /\ "none" \notin Failures /\ "threw" \notin Failures
      /\ \A errno \in RenameErrors : RenameFailureState(errno) \in Failures
  BY DEF Failures, RenameFailureState, RenameErrors
<1> USE <1>n DEF Control, CallTypes, ResultTypes, callVars, sinkVars, Goto
<1>1. ASSUME NEW t \in Targets, PublishFile(q, t) PROVE Control(q)'
  BY <1>1, <1>t, <1>e DEF PublishFile, Settle
<1>2. ASSUME NEW t \in Targets, PublishDirectory(q, t) PROVE Control(q)'
  BY <1>2, <1>t, <1>e DEF PublishDirectory, Settle
<1>3. CASE OpenParentFails(q)
  BY <1>3, <1>t, <1>s DEF OpenParentFails
<1>4. CASE OpenParent(q)
  BY <1>4, <1>t DEF OpenParent
<1>5. ASSUME NEW name \in Scratch, CreateTemporary(q, name) PROVE Control(q)'
  BY <1>5, <1>t DEF CreateTemporary, TriesName
<1>6. ASSUME NEW name \in Scratch, NameIsTaken(q, name) PROVE Control(q)'
  BY <1>6, <1>t DEF NameIsTaken, TriesName
<1>7. ASSUME NEW name \in Scratch, CreateFails(q, name) PROVE Control(q)'
  BY <1>7, <1>t, <1>f DEF CreateFails, TriesName
<1>8. CASE NoNameLeft(q)
  BY <1>8, <1>t, <1>f DEF NoNameLeft
<1>9. CASE OpenStaging(q)
  BY <1>9, <1>t DEF OpenStaging
<1>10. CASE OpenStagingFails(q)
  BY <1>10, <1>t, <1>f DEF OpenStagingFails
<1>11. CASE SinkWrites(q)
  BY <1>11, <1>t DEF SinkWrites
<1>12. CASE SinkFails(q)
  BY <1>12, <1>t DEF SinkFails
<1>13. CASE WriterReturns(q)
  BY <1>13, <1>t, <1>f DEF WriterReturns, Terminalize
<1>14. CASE WriterThrows(q)
  BY <1>14, <1>t, <1>f DEF WriterThrows, Terminalize
<1>15. CASE SyncContent(q)
  BY <1>15, <1>t DEF SyncContent
<1>16. CASE SyncContentFails(q)
  BY <1>16, <1>t, <1>f DEF SyncContentFails
<1>17. CASE CloseContent(q)
  BY <1>17, <1>t DEF CloseContent
<1>18. CASE CloseContentFails(q)
  BY <1>18, <1>t, <1>f DEF CloseContentFails
<1>19. CASE RenameNoReplace(q)
  BY <1>19, <1>t DEF RenameNoReplace
<1>20. ASSUME NEW errno \in RenameErrors, RenameFails(q, errno) PROVE Control(q)'
  BY <1>20, <1>t, <1>f, <1>n DEF RenameFails
<1>21. CASE SyncParent(q)
  BY <1>21, <1>t, <1>s DEF SyncParent
<1>22. CASE SyncParentFails(q)
  BY <1>22, <1>t, <1>s DEF SyncParentFails
<1>23. CASE AllocationFails(q)
  BY <1>23, <1>t, <1>s DEF AllocationFails
<1>24. ASSUME NEW failed \in BOOLEAN, CloseParent(q, failed) PROVE Control(q)'
  BY <1>24, <1>t, <1>r DEF CloseParent
<1>25. ASSUME NEW failed \in BOOLEAN, FailClose(q, failed) PROVE Control(q)'
  BY <1>25, <1>t, <1>r DEF FailClose
<1>26. ASSUME NEW failed \in BOOLEAN, FailUnlink(q, failed) PROVE Control(q)'
  BY <1>26, <1>t, <1>r DEF FailUnlink
<1>27. ASSUME NEW removed \in BOOLEAN, Unwind(q, removed) PROVE Control(q)'
  BY <1>27, <1>t DEF Unwind
<1>28. CASE Kill(q)
  BY <1>28, <1>t, <1>e DEF Kill, Die
<1> QED
  BY <1>1, <1>2, <1>3, <1>4, <1>5, <1>6, <1>7, <1>8, <1>9, <1>10, <1>11, <1>12,
     <1>13, <1>14, <1>15, <1>16, <1>17, <1>18, <1>19, <1>20, <1>21, <1>22, <1>23,
     <1>24, <1>25, <1>26, <1>27, <1>28
  DEF Moves, Begin, Step, Create

LEMMA HoldsStep ==
  ASSUME Types, NEW q \in Publishers, CallInv(q), Moves(q)
  PROVE  Holds(q)'
<1>t. /\ Holds(q) /\ Control(q) /\ DescriptorTypes /\ place \in [Publishers -> Places]
      /\ kind \in [Publishers -> {"file", "directory"}]
  BY DEF Types, CallTypes, CallInv
<1>o. ASSUME NEW d \in Descriptors, Open(q, d), d \notin held[q]
      PROVE  /\ held'[q] = held[q] \union {d}
             /\ live'[q] = [x \in Descriptors |-> IF x \in held'[q] THEN 1 ELSE 0]
  BY <1>t, <1>o DEF Open, Holds, DescriptorTypes
<1>c. ASSUME NEW d \in Descriptors, NEW failed, CloseOnce(q, d, failed)
      PROVE  /\ held'[q] = held[q] \ {d}
             /\ live'[q] = [x \in Descriptors |-> IF x \in held'[q] THEN 1 ELSE 0]
  BY <1>t, <1>c DEF CloseOnce, Holds, DescriptorTypes
<1> USE DEF Holds, Control, DescriptorTypes, Descriptors, Goto
<1>1. ASSUME NEW t \in Targets, PublishFile(q, t) PROVE Holds(q)'
  BY <1>1, <1>t DEF PublishFile
<1>2. ASSUME NEW t \in Targets, PublishDirectory(q, t) PROVE Holds(q)'
  BY <1>2, <1>t DEF PublishDirectory
<1>3. CASE OpenParentFails(q)
  BY <1>3, <1>t DEF OpenParentFails
<1>4. CASE OpenParent(q)
  BY <1>4, <1>t, <1>o DEF OpenParent
<1>5. ASSUME NEW name \in Scratch, CreateTemporary(q, name) PROVE Holds(q)'
  BY <1>5, <1>t, <1>o DEF CreateTemporary, TriesName
<1>6. ASSUME NEW name \in Scratch, NameIsTaken(q, name) PROVE Holds(q)'
  BY <1>6, <1>t DEF NameIsTaken, TriesName
<1>7. ASSUME NEW name \in Scratch, CreateFails(q, name) PROVE Holds(q)'
  BY <1>7, <1>t DEF CreateFails, TriesName, FailBeforeRename
<1>8. CASE NoNameLeft(q)
  BY <1>8, <1>t DEF NoNameLeft, FailBeforeRename
<1>9. CASE OpenStaging(q)
  BY <1>9, <1>t, <1>o DEF OpenStaging
<1>10. CASE OpenStagingFails(q)
  BY <1>10, <1>t DEF OpenStagingFails, FailBeforeRename
<1>11. CASE SinkWrites(q)
  BY <1>11, <1>t DEF SinkWrites
<1>12. CASE SinkFails(q)
  BY <1>12, <1>t DEF SinkFails
<1>13. CASE WriterReturns(q)
  BY <1>13, <1>t DEF WriterReturns, FailBeforeRename, Terminalize
<1>14. CASE WriterThrows(q)
  BY <1>14, <1>t DEF WriterThrows, FailBeforeRename, Terminalize
<1>15. CASE SyncContent(q)
  BY <1>15, <1>t DEF SyncContent
<1>16. CASE SyncContentFails(q)
  BY <1>16, <1>t DEF SyncContentFails, FailBeforeRename
<1>17. CASE CloseContent(q)
  BY <1>17, <1>t, <1>c DEF CloseContent
<1>18. CASE CloseContentFails(q)
  <2>1. place' = [place EXCEPT ![q] = "failClose"] /\ CloseOnce(q, "file", TRUE)
        /\ place[q] = "close"
    BY <1>18 DEF CloseContentFails, FailBeforeRename
  <2>2. /\ held'[q] = held[q] \ {"file"}
        /\ live'[q] = [x \in Descriptors |-> IF x \in held'[q] THEN 1 ELSE 0]
    <3> HIDE DEF Holds, DescriptorTypes
    <3> QED BY <1>c, <2>1
  <2> QED BY <1>t, <2>1, <2>2
<1>19. CASE RenameNoReplace(q)
  BY <1>19, <1>t DEF RenameNoReplace
<1>20. ASSUME NEW errno \in RenameErrors, RenameFails(q, errno) PROVE Holds(q)'
  BY <1>20, <1>t DEF RenameFails, FailBeforeRename
<1>21. CASE SyncParent(q)
  BY <1>21, <1>t DEF SyncParent
<1>22. CASE SyncParentFails(q)
  BY <1>22, <1>t DEF SyncParentFails
<1>23. CASE AllocationFails(q)
  BY <1>23, <1>t DEF AllocationFails
<1>24. ASSUME NEW failed \in BOOLEAN, CloseParent(q, failed) PROVE Holds(q)'
  BY <1>24, <1>t, <1>c DEF CloseParent
<1>25. ASSUME NEW failed \in BOOLEAN, FailClose(q, failed) PROVE Holds(q)'
  BY <1>25, <1>t, <1>c DEF FailClose
<1>26. ASSUME NEW failed \in BOOLEAN, FailUnlink(q, failed) PROVE Holds(q)'
  BY <1>26, <1>t DEF FailUnlink
<1>27. ASSUME NEW removed \in BOOLEAN, Unwind(q, removed) PROVE Holds(q)'
  BY <1>27, <1>t DEF Unwind
<1>28. CASE Kill(q)
  BY <1>28, <1>t DEF Kill, Die
<1> QED
  BY <1>1, <1>2, <1>3, <1>4, <1>5, <1>6, <1>7, <1>8, <1>9, <1>10, <1>11, <1>12,
     <1>13, <1>14, <1>15, <1>16, <1>17, <1>18, <1>19, <1>20, <1>21, <1>22, <1>23,
     <1>24, <1>25, <1>26, <1>27, <1>28
  DEF Moves, Begin, Step, Create

LEMMA CompleteStep ==
  ASSUME Types, NEW q \in Publishers, CallInv(q), Moves(q)
  PROVE  Complete(q)'
<1>t. /\ Complete(q) /\ Control(q) /\ CallTypes /\ ResultTypes
      /\ file \in [Publishers -> 0 .. created] /\ created \in 0 .. MaxFiles
      /\ MaxFiles \in Nat
      /\ content \in [Files -> Nat] /\ stable \in [Files -> Nat]
  BY Ranges DEF Types, FileTypes, CallInv
<1>e. \A st, e : Outcome(st, e).state = st
  BY DEF Outcome
<1>s. ASSUME NEW st, Settle(q, st) PROVE result'[q].state = st
  BY <1>t, <1>s, <1>e DEF Settle, ResultTypes
<1>f. ASSUME NEW st, FailBeforeRename(q, st)
      PROVE  place' = [place EXCEPT ![q] = "failClose"] /\ result'[q].state = st
  BY <1>s, <1>f DEF FailBeforeRename, Goto
<1>r. ASSUME NEW failed, RememberCleanupError(q, failed)
      PROVE  result'[q].state = result[q].state
  BY <1>t, <1>r DEF RememberCleanupError, ResultTypes
<1>n. \A errno : RenameFailureState(errno) \notin {"published", "durability_uncertain"}
  BY DEF RenameFailureState
<1> USE <1>n DEF Complete, Renamed, CallTypes, fsVars, callVars, sinkVars, Goto
<1>1. ASSUME NEW t \in Targets, PublishFile(q, t) PROVE Complete(q)'
  BY <1>1, <1>t, <1>s DEF PublishFile
<1>2. ASSUME NEW t \in Targets, PublishDirectory(q, t) PROVE Complete(q)'
  BY <1>2, <1>t, <1>s DEF PublishDirectory, Files, NoFile
<1>3. CASE OpenParentFails(q)
  BY <1>3, <1>t, <1>s DEF OpenParentFails
<1>4. CASE OpenParent(q)
  BY <1>4, <1>t DEF OpenParent, Control
<1>5. ASSUME NEW name \in Scratch, CreateTemporary(q, name) PROVE Complete(q)'
  BY <1>5, <1>t DEF CreateTemporary, TriesName, Files, NoFile, Control, Outcome
<1>6. ASSUME NEW name \in Scratch, NameIsTaken(q, name) PROVE Complete(q)'
  BY <1>6, <1>t DEF NameIsTaken, TriesName, Control
<1>7. ASSUME NEW name \in Scratch, CreateFails(q, name) PROVE Complete(q)'
  BY <1>7, <1>t, <1>f DEF CreateFails, TriesName, Control
<1>8. CASE NoNameLeft(q)
  BY <1>8, <1>t, <1>f DEF NoNameLeft, Control
<1>9. CASE OpenStaging(q)
  BY <1>9, <1>t DEF OpenStaging, Control
<1>10. CASE OpenStagingFails(q)
  BY <1>10, <1>t, <1>f DEF OpenStagingFails, Control
<1>11. CASE SinkWrites(q)
  BY <1>11, <1>t DEF SinkWrites, Control
<1>12. CASE SinkFails(q)
  BY <1>12, <1>t DEF SinkFails, Control
<1>13. CASE WriterReturns(q)
  BY <1>13, <1>t, <1>f DEF WriterReturns, Terminalize, Control
<1>14. CASE WriterThrows(q)
  BY <1>14, <1>t, <1>f DEF WriterThrows, Terminalize, Control
<1>15. CASE SyncContent(q)
  <2>1. place[q] = "sync" /\ file[q] \in Files
    BY <1>15, <1>t DEF SyncContent, Files, NoFile
  <2>2. stable'[file[q]] = content[file[q]]
    BY <1>15, <1>t, <2>1 DEF SyncContent
  <2> QED BY <1>15, <1>t, <2>1, <2>2 DEF SyncContent
<1>16. CASE SyncContentFails(q)
  BY <1>16, <1>t, <1>f DEF SyncContentFails
<1>17. CASE CloseContent(q)
  BY <1>17, <1>t DEF CloseContent
<1>18. CASE CloseContentFails(q)
  BY <1>18, <1>t, <1>f DEF CloseContentFails
<1>19. CASE RenameNoReplace(q)
  BY <1>19, <1>t DEF RenameNoReplace
<1>20. ASSUME NEW errno \in RenameErrors, RenameFails(q, errno) PROVE Complete(q)'
  BY <1>20, <1>t, <1>f DEF RenameFails
<1>21. CASE SyncParent(q)
  BY <1>21, <1>t, <1>s DEF SyncParent
<1>22. CASE SyncParentFails(q)
  BY <1>22, <1>t, <1>s DEF SyncParentFails
<1>23. CASE AllocationFails(q)
  BY <1>23, <1>t, <1>s DEF AllocationFails
<1>24. ASSUME NEW failed \in BOOLEAN, CloseParent(q, failed) PROVE Complete(q)'
  BY <1>24, <1>t, <1>r DEF CloseParent
<1>25. ASSUME NEW failed \in BOOLEAN, FailClose(q, failed) PROVE Complete(q)'
  BY <1>25, <1>t, <1>r DEF FailClose
<1>26. ASSUME NEW failed \in BOOLEAN, FailUnlink(q, failed) PROVE Complete(q)'
  BY <1>26, <1>t, <1>r DEF FailUnlink
<1>27. ASSUME NEW removed \in BOOLEAN, Unwind(q, removed) PROVE Complete(q)'
  BY <1>27, <1>t DEF Unwind
<1>28. CASE Kill(q)
  BY <1>28, <1>t, <1>e DEF Kill, Die, Outcome
<1> QED
  BY <1>1, <1>2, <1>3, <1>4, <1>5, <1>6, <1>7, <1>8, <1>9, <1>10, <1>11, <1>12,
     <1>13, <1>14, <1>15, <1>16, <1>17, <1>18, <1>19, <1>20, <1>21, <1>22, <1>23,
     <1>24, <1>25, <1>26, <1>27, <1>28
  DEF Moves, Begin, Step, Create

\* A step that only takes the temporary name away, or leaves the directory alone.
LEMMA Quiet ==
  ASSUME Types, NEW q \in Publishers, CallInv(q),
         \/ names' = names
         \/ kind[q] = "file" /\ names' = [names EXCEPT ![temp[q]] = NoFile],
         survivors' \subseteq survivors \union {names'},
         kind'[q] = kind[q], goal'[q] = goal[q], temp'[q] = temp[q], file'[q] = file[q],
         Calling(q), Renamed(q)' <=> Renamed(q),
         result'[q].state = "target_exists" => names[goal[q]] # NoFile,
         owns[q] \/ result[q].cleanup_error \/ result[q].state = "threw" =>
           \/ owns'[q] \/ result'[q].cleanup_error \/ result'[q].state = "threw"
           \/ names'[temp[q]] = NoFile
  PROVE  Unpublished(q)' /\ Entries(q)' /\ Scratched(q)'
<1>1. /\ Unpublished(q) /\ Entries(q) /\ Scratched(q)
      /\ names \in survivors /\ names \in [Names -> 0 .. created]
      /\ temp[q] \in Scratch /\ goal[q] \in Targets
  BY DEF CallInv, Types, FileTypes, CallTypes
<1>n. Scratch \subseteq Names /\ \A t \in Targets : t \in Names /\ t \notin Scratch
  BY ScratchNames
<1>2. /\ \A t \in Targets : names'[t] = names[t]
      /\ \A n \in Scratch : names'[n] = names[n] \/ (n = temp[q] /\ names'[n] = NoFile)
      /\ kind[q] = "directory" => names' = names
  <2>1. CASE names' = names
    BY <2>1
  <2>2. CASE kind[q] = "file" /\ names' = [names EXCEPT ![temp[q]] = NoFile]
    BY <1>1, <1>n, <2>2
  <2> QED BY <2>1, <2>2
<1>3. Unpublished(q)'
  BY <1>1, <1>2 DEF Unpublished
<1>4. Entries(q)'
  BY <1>1, <1>2 DEF Entries
<1>5. Scratched(q)'
  BY <1>1, <1>2 DEF Scratched
<1> QED BY <1>3, <1>4, <1>5

\* What the directory holds of the call of q.
EntryInv(q) == Unpublished(q) /\ Entries(q) /\ Scratched(q)

\* The call goes on, or ends, with the result it had.
LEMMA GoesOnQuietly ==
  ASSUME Types, NEW q \in Publishers, CallInv(q),
         UNCHANGED <<names, survivors, kind, goal, temp, file, owns>>,
         place[q] \notin {"idle", "syncParent"}, place'[q] # "syncParent",
         result'[q].state = result[q].state,
         result[q].cleanup_error => result'[q].cleanup_error
  PROVE  EntryInv(q)'
<1>1. names' = names /\ survivors' \subseteq survivors \union {names'}
  OBVIOUS
<1>2. kind'[q] = kind[q] /\ goal'[q] = goal[q] /\ temp'[q] = temp[q] /\ file'[q] = file[q]
  OBVIOUS
<1>3. Calling(q) /\ (Renamed(q)' <=> Renamed(q))
  BY DEF Calling, Renamed
<1>4. result'[q].state = "target_exists" => names[goal[q]] # NoFile
  BY DEF CallInv, Entries
<1>5. owns[q] \/ result[q].cleanup_error \/ result[q].state = "threw" =>
        owns'[q] \/ result'[q].cleanup_error \/ result'[q].state = "threw"
  OBVIOUS
<1> QED BY ONLY <1>1, <1>2, <1>3, <1>4, <1>5, Quiet, Types, CallInv(q), q \in Publishers DEF EntryInv

\* The call fails before the rename.
LEMMA FailsQuietly ==
  ASSUME Types, NEW q \in Publishers, CallInv(q),
         UNCHANGED <<names, survivors, kind, goal, temp, file, owns>>,
         place[q] \notin {"idle", "syncParent", "closeParent", "failUnlink", "unwind"},
         place[q] = "failClose" => result'[q].state = "threw",
         place'[q] # "syncParent", result'[q].state \in Failures \union {"threw"},
         result'[q].state = "target_exists" => names[goal[q]] # NoFile
  PROVE  EntryInv(q)'
<1>1. names' = names /\ survivors' \subseteq survivors \union {names'}
  OBVIOUS
<1>2. kind'[q] = kind[q] /\ goal'[q] = goal[q] /\ temp'[q] = temp[q] /\ file'[q] = file[q]
  OBVIOUS
<1>3. /\ place[q] # "failClose" => result[q].state = "none" /\ result[q].cleanup_error = FALSE
      /\ place[q] = "failClose" => result[q].state \in Failures
  BY DEF CallInv, Control, Outcome
<1>4. Calling(q) /\ ~Renamed(q) /\ ~Renamed(q)'
  BY <1>3 DEF Calling, Renamed, Failures
<1>5. result'[q].state = "target_exists" => names[goal[q]] # NoFile
  OBVIOUS
<1>6. owns[q] \/ result[q].cleanup_error \/ result[q].state = "threw" =>
        owns'[q] \/ result'[q].cleanup_error \/ result'[q].state = "threw"
  BY <1>3 DEF Failures
<1> QED BY ONLY <1>1, <1>2, <1>4, <1>5, <1>6, Quiet, Types, CallInv(q), q \in Publishers DEF EntryInv

\* The call has no file.
LEMMA NothingQuietly ==
  ASSUME NEW q \in Publishers, file'[q] = NoFile, kind'[q] = "file", place'[q] # "syncParent",
         result'[q].state \notin {"published", "durability_uncertain", "target_exists"},
         \E n \in Nat : temp'[q] \in {Temp(q, n), Staging(q)}
  PROVE  EntryInv(q)'
BY DEF EntryInv, Unpublished, Entries, Scratched, Renamed

LEMMA EntriesStep ==
  ASSUME Types, NEW q \in Publishers, CallInv(q), Moves(q)
  PROVE  EntryInv(q)'
<1>t. /\ Control(q) /\ CallTypes /\ ResultTypes /\ Unpublished(q) /\ Entries(q) /\ Scratched(q)
      /\ file \in [Publishers -> 0 .. created] /\ names \in survivors
      /\ created \in Nat /\ names \in [Names -> 0 .. created]
      /\ kind[q] = "file" /\ place[q] \in {"openParent", "create"} => file[q] = NoFile
  BY Ranges DEF Types, FileTypes, CallInv, Complete
<1>n. /\ Targets \subseteq Names /\ Scratch \subseteq Names /\ Staging(q) \in Scratch
      /\ \A t \in Targets : t \notin Scratch
  BY ScratchNames
<1>e. \A st, e : Outcome(st, e).state = st /\ Outcome(st, e).cleanup_error = e
  BY DEF Outcome
<1>s. ASSUME NEW st, Settle(q, st)
      PROVE  result'[q].state = st /\ result'[q].cleanup_error = FALSE
  BY <1>t, <1>s, <1>e DEF Settle, ResultTypes
<1>f. ASSUME NEW st, FailBeforeRename(q, st)
      PROVE  place'[q] = "failClose" /\ result'[q].state = st
  BY <1>s, <1>f, <1>t DEF FailBeforeRename, Goto, CallTypes
<1>r. ASSUME NEW failed \in BOOLEAN, RememberCleanupError(q, failed)
      PROVE  /\ result'[q].state = result[q].state
             /\ result[q].cleanup_error => result'[q].cleanup_error
             /\ failed => result'[q].cleanup_error
  BY <1>t, <1>r DEF RememberCleanupError, ResultTypes
<1>x. /\ \A errno : RenameFailureState(errno) \in Failures
      /\ \A errno : RenameFailureState(errno) = "target_exists" => errno = "EEXIST"
      /\ "not_published" \in Failures
  BY DEF RenameFailureState, Failures
<1>1. ASSUME NEW t \in Targets, PublishFile(q, t) PROVE EntryInv(q)'
  <2>1. /\ file'[q] = NoFile /\ kind'[q] = "file" /\ place'[q] = "openParent"
        /\ result'[q].state = "none" /\ temp' = temp
    BY <1>1, <1>t, <1>s DEF PublishFile, CallTypes, Goto
  <2> QED BY <1>t, <2>1, NothingQuietly DEF Entries
<1>2. ASSUME NEW t \in Targets, PublishDirectory(q, t) PROVE EntryInv(q)'
  <2>1. /\ file'[q] = created + 1 /\ names' = [names EXCEPT ![Staging(q)] = created + 1]
        /\ survivors' = survivors \union {names'} /\ kind'[q] = "directory"
        /\ temp'[q] = Staging(q) /\ place'[q] = "openParent" /\ result'[q].state = "none"
    BY <1>2, <1>t, <1>s DEF PublishDirectory, SetNames, CallTypes, Goto
  <2>2. /\ \A ns \in survivors : \A t1 \in Targets : ns[t1] # created + 1
        /\ \A n \in Scratch : names[n] # created + 1
    BY <1>t, Ranges
  <2>3. Unpublished(q)'
    BY <1>t, <1>n, <2>1, <2>2 DEF Unpublished
  <2>4. Entries(q)'
    BY <1>t, <1>n, <2>1 DEF Entries, Renamed
  <2>5. Scratched(q)'
    BY <1>t, <1>n, <2>1, <2>2 DEF Scratched
  <2> QED BY <2>3, <2>4, <2>5 DEF EntryInv
<1>3. CASE OpenParentFails(q)
  <2>1. UNCHANGED <<names, survivors, kind, goal, temp, file, owns>>
    BY <1>3 DEF OpenParentFails, fsVars, callVars
  <2>2. result'[q].state = "not_published"
    <3>1. Settle(q, "not_published")
      BY <1>3 DEF OpenParentFails
    <3> QED BY <3>1, <1>s
  <2>3. place[q] \notin {"idle", "syncParent", "closeParent", "failUnlink", "unwind"}
    BY <1>3 DEF OpenParentFails
  <2>4. place'[q] = "idle"
    BY <1>3, <1>t DEF OpenParentFails, CallTypes, Goto
  <2>5. place[q] = "failClose" => result'[q].state = "threw"
    BY <1>3, <2>2 DEF OpenParentFails
  <2> QED BY <2>1, <2>2, <2>3, <2>4, <2>5, <1>x, FailsQuietly
<1>4. CASE OpenParent(q)
  <2>1. /\ UNCHANGED <<names, survivors, kind, goal, temp, file, owns>>
        /\ place[q] \notin {"idle", "syncParent"} /\ place'[q] # "syncParent"
        /\ result'[q].state = result[q].state
        /\ result[q].cleanup_error => result'[q].cleanup_error
    BY <1>4, <1>t DEF OpenParent, CallTypes, fsVars, callVars, Goto
  <2> QED BY <2>1, GoesOnQuietly
<1>5. ASSUME NEW name \in Scratch, CreateTemporary(q, name) PROVE EntryInv(q)'
  <2>1. /\ file'[q] = created + 1 /\ names' = [names EXCEPT ![name] = created + 1]
        /\ survivors' = survivors \union {names'} /\ temp'[q] = name /\ owns'[q]
        /\ place'[q] = "write" /\ result' = result /\ kind' = kind
        /\ name = Temp(q, sequence[q]) /\ place[q] = "create"
    BY <1>5, <1>t DEF CreateTemporary, TriesName, SetNames, CallTypes, Goto
  <2>c. kind[q] = "file" /\ result[q].state = "none"
    BY <1>t, <2>1 DEF Control, Outcome
  <2>2. /\ \A ns \in survivors : \A t \in Targets : ns[t] # created + 1
        /\ \A n \in Scratch : names[n] # created + 1
    BY <1>t, Ranges
  <2>3. Unpublished(q)'
    BY <1>t, <1>n, <2>1, <2>2 DEF Unpublished
  <2>4. \E n \in Nat : name \in {Temp(q, n), Staging(q)}
    BY <2>1, ConstantsAssumption DEF Scratch, Temp, Staging
  <2>5. Entries(q)'
    BY <2>1, <2>c, <2>4 DEF Entries, Renamed
  <2>6. Scratched(q)'
    BY <1>t, <1>n, <2>1, <2>2 DEF Scratched
  <2> QED BY <2>3, <2>5, <2>6 DEF EntryInv
<1>6. ASSUME NEW name \in Scratch, NameIsTaken(q, name) PROVE EntryInv(q)'
  <2>1. /\ kind[q] = "file" /\ file[q] = NoFile /\ place[q] = "create"
        /\ name = Temp(q, sequence[q]) /\ temp'[q] = name /\ file' = file /\ kind' = kind
    BY <1>6, <1>t DEF NameIsTaken, TriesName, Control, CallTypes
  <2>2. place'[q] # "syncParent" /\ result'[q].state \in {"none", "not_published"}
    <3>1. result[q].state = "none"
      BY <1>t, <2>1 DEF Control, Outcome
    <3> QED BY <1>6, <2>1, <3>1 DEF NameIsTaken
  <2>3. \E n \in Nat : name \in {Temp(q, n), Staging(q)}
    BY <2>1, ConstantsAssumption DEF Scratch, Temp, Staging
  <2> QED BY <2>1, <2>2, <2>3, NothingQuietly
<1>7. ASSUME NEW name \in Scratch, CreateFails(q, name) PROVE EntryInv(q)'
  <2>1. /\ kind[q] = "file" /\ file[q] = NoFile /\ place[q] = "create"
        /\ name = Temp(q, sequence[q]) /\ temp'[q] = name /\ file' = file /\ kind' = kind
    BY <1>7, <1>t DEF CreateFails, TriesName, Control, CallTypes
  <2>2. place'[q] # "syncParent" /\ result'[q].state \in {"none", "not_published"}
    BY <1>7, <1>t, <2>1, <1>f DEF CreateFails, Control
  <2>3. \E n \in Nat : name \in {Temp(q, n), Staging(q)}
    BY <2>1, ConstantsAssumption DEF Scratch, Temp, Staging
  <2> QED BY <2>1, <2>2, <2>3, NothingQuietly
<1>8. CASE NoNameLeft(q)
  <2>1. UNCHANGED <<names, survivors, kind, goal, temp, file, owns>>
    BY <1>8 DEF NoNameLeft, fsVars, callVars
  <2>2. /\ place[q] \notin {"idle", "syncParent", "closeParent", "failUnlink", "unwind"}
        /\ place[q] = "failClose" => result'[q].state = "threw"
        /\ place'[q] # "syncParent" /\ result'[q].state \in Failures \union {"threw"}
        /\ result'[q].state = "target_exists" => names[goal[q]] # NoFile
    BY <1>8, <1>t, <1>x, <1>f DEF NoNameLeft, CallTypes, Goto
  <2> QED BY <2>1, <2>2, FailsQuietly
<1>9. CASE OpenStaging(q)
  <2>1. /\ UNCHANGED <<names, survivors, kind, goal, temp, file, owns>>
        /\ place[q] \notin {"idle", "syncParent"} /\ place'[q] # "syncParent"
        /\ result'[q].state = result[q].state
        /\ result[q].cleanup_error => result'[q].cleanup_error
    BY <1>9, <1>t DEF OpenStaging, CallTypes, fsVars, callVars, Goto
  <2> QED BY <2>1, GoesOnQuietly
<1>10. CASE OpenStagingFails(q)
  <2>1. UNCHANGED <<names, survivors, kind, goal, temp, file, owns>>
    BY <1>10 DEF OpenStagingFails, fsVars, callVars
  <2>2. /\ place[q] \notin {"idle", "syncParent", "closeParent", "failUnlink", "unwind"}
        /\ place[q] = "failClose" => result'[q].state = "threw"
        /\ place'[q] # "syncParent" /\ result'[q].state \in Failures \union {"threw"}
        /\ result'[q].state = "target_exists" => names[goal[q]] # NoFile
    BY <1>10, <1>t, <1>x, <1>f DEF OpenStagingFails, CallTypes, Goto
  <2> QED BY <2>1, <2>2, FailsQuietly
<1>11. CASE SinkWrites(q)
  <2>1. /\ UNCHANGED <<names, survivors, kind, goal, temp, file, owns>>
        /\ place[q] \notin {"idle", "syncParent"} /\ place'[q] # "syncParent"
        /\ result'[q].state = result[q].state
        /\ result[q].cleanup_error => result'[q].cleanup_error
    BY <1>11, <1>t DEF SinkWrites, Control, CallTypes, fsVars, callVars, Goto
  <2> QED BY <2>1, GoesOnQuietly
<1>12. CASE SinkFails(q)
  <2>1. /\ UNCHANGED <<names, survivors, kind, goal, temp, file, owns>>
        /\ place[q] \notin {"idle", "syncParent"} /\ place'[q] # "syncParent"
        /\ result'[q].state = result[q].state
        /\ result[q].cleanup_error => result'[q].cleanup_error
    BY <1>12, <1>t DEF SinkFails, Control, CallTypes, fsVars, callVars, Goto
  <2> QED BY <2>1, GoesOnQuietly
<1>13. CASE WriterReturns(q)
  <2>1. UNCHANGED <<names, survivors, kind, goal, temp, file, owns>> /\ place[q] = "write"
    BY <1>13 DEF WriterReturns, fsVars, callVars
  <2>2. CASE FailBeforeRename(q, "not_published")
    <3>1. place'[q] = "failClose" /\ result'[q].state = "not_published"
      BY <2>2, <1>f
    <3> QED BY <2>1, <3>1, <1>x, FailsQuietly
  <2>3. CASE Goto(q, "sync") /\ UNCHANGED result
    <3>1. place'[q] = "sync"
      BY <2>3, <1>t DEF Goto, CallTypes
    <3> QED BY <2>1, <2>3, <3>1, GoesOnQuietly
  <2> QED BY <1>13, <2>2, <2>3 DEF WriterReturns
<1>14. CASE WriterThrows(q)
  <2>1. UNCHANGED <<names, survivors, kind, goal, temp, file, owns>>
    BY <1>14 DEF WriterThrows, fsVars, callVars
  <2>2. /\ place[q] \notin {"idle", "syncParent", "closeParent", "failUnlink", "unwind"}
        /\ place[q] = "failClose" => result'[q].state = "threw"
        /\ place'[q] # "syncParent" /\ result'[q].state \in Failures \union {"threw"}
        /\ result'[q].state = "target_exists" => names[goal[q]] # NoFile
    BY <1>14, <1>t, <1>x, <1>f DEF WriterThrows, CallTypes, Goto
  <2> QED BY <2>1, <2>2, FailsQuietly
<1>15. CASE SyncContent(q)
  <2>1. /\ UNCHANGED <<names, survivors, kind, goal, temp, file, owns>>
        /\ place[q] \notin {"idle", "syncParent"} /\ place'[q] # "syncParent"
        /\ result'[q].state = result[q].state
        /\ result[q].cleanup_error => result'[q].cleanup_error
    BY <1>15, <1>t DEF SyncContent, CallTypes, fsVars, callVars, Goto
  <2> QED BY <2>1, GoesOnQuietly
<1>16. CASE SyncContentFails(q)
  <2>1. UNCHANGED <<names, survivors, kind, goal, temp, file, owns>>
    BY <1>16 DEF SyncContentFails, fsVars, callVars
  <2>2. /\ place[q] \notin {"idle", "syncParent", "closeParent", "failUnlink", "unwind"}
        /\ place[q] = "failClose" => result'[q].state = "threw"
        /\ place'[q] # "syncParent" /\ result'[q].state \in Failures \union {"threw"}
        /\ result'[q].state = "target_exists" => names[goal[q]] # NoFile
    BY <1>16, <1>t, <1>x, <1>f DEF SyncContentFails, CallTypes, Goto
  <2> QED BY <2>1, <2>2, FailsQuietly
<1>17. CASE CloseContent(q)
  <2>1. /\ UNCHANGED <<names, survivors, kind, goal, temp, file, owns>>
        /\ place[q] \notin {"idle", "syncParent"} /\ place'[q] # "syncParent"
        /\ result'[q].state = result[q].state
        /\ result[q].cleanup_error => result'[q].cleanup_error
    BY <1>17, <1>t DEF CloseContent, CallTypes, fsVars, callVars, Goto
  <2> QED BY <2>1, GoesOnQuietly
<1>18. CASE CloseContentFails(q)
  <2>1. UNCHANGED <<names, survivors, kind, goal, temp, file, owns>>
    BY <1>18 DEF CloseContentFails, fsVars, callVars
  <2>2. /\ place[q] \notin {"idle", "syncParent", "closeParent", "failUnlink", "unwind"}
        /\ place[q] = "failClose" => result'[q].state = "threw"
        /\ place'[q] # "syncParent" /\ result'[q].state \in Failures \union {"threw"}
        /\ result'[q].state = "target_exists" => names[goal[q]] # NoFile
    BY <1>18, <1>t, <1>x, <1>f DEF CloseContentFails, CallTypes, Goto
  <2> QED BY <2>1, <2>2, FailsQuietly
<1>19. CASE RenameNoReplace(q)
  <2>1. /\ names' = [names EXCEPT ![goal[q]] = file[q], ![temp[q]] = NoFile]
        /\ survivors' = survivors \union {names'} /\ place'[q] = "syncParent"
        /\ result' = result /\ temp' = temp /\ goal' = goal
        /\ kind' = kind /\ file' = file /\ place[q] = "rename"
    BY <1>19, <1>t DEF RenameNoReplace, SetNames, CallTypes, Goto
  <2>c. result[q].state = "none"
    BY <1>t, <2>1 DEF Control, Outcome
  <2>2. /\ goal[q] \in Targets /\ temp[q] \in Scratch /\ goal[q] # temp[q]
        /\ \A n \in Scratch : n # goal[q]
    BY <1>t, <1>n DEF CallTypes
  <2>3. Unpublished(q)'
    BY <2>1 DEF Unpublished, Renamed
  <2>4. Entries(q)'
    BY <1>t, <1>n, <2>1, <2>2, <2>c DEF Entries, Renamed, Calling
  <2>5. /\ \A n \in Scratch : n # temp[q] => names'[n] = names[n]
        /\ names'[temp[q]] = NoFile
    BY <1>t, <1>n, <2>1, <2>2
  <2>6. Scratched(q)'
    BY <1>t, <2>1, <2>5 DEF Scratched, Calling
  <2> QED BY <2>3, <2>4, <2>6 DEF EntryInv
<1>20. ASSUME NEW errno \in RenameErrors, RenameFails(q, errno) PROVE EntryInv(q)'
  <2>1. UNCHANGED <<names, survivors, kind, goal, temp, file, owns>>
    BY <1>20 DEF RenameFails, fsVars, callVars
  <2>2. /\ place[q] \notin {"idle", "syncParent", "closeParent", "failUnlink", "unwind"}
        /\ place[q] = "failClose" => result'[q].state = "threw"
        /\ place'[q] # "syncParent" /\ result'[q].state \in Failures \union {"threw"}
        /\ result'[q].state = "target_exists" => names[goal[q]] # NoFile
    BY <1>20, <1>t, <1>x, <1>f DEF RenameFails, CallTypes, Goto
  <2> QED BY <2>1, <2>2, FailsQuietly
<1>21. CASE SyncParent(q)
  <2>1. /\ names' = names /\ survivors' \subseteq survivors \union {names'}
        /\ kind' = kind /\ goal' = goal /\ temp' = temp /\ file' = file
        /\ place[q] = "syncParent"
    BY <1>21, <1>t DEF SyncParent, fsVars, callVars
  <2>s. result'[q].state = "published"
    <3>1. Settle(q, "published")
      BY <1>21 DEF SyncParent
    <3> QED BY <3>1, <1>s
  <2>2. ~owns[q] /\ result[q].state = "none" /\ result[q].cleanup_error = FALSE
    BY <1>t, <2>1 DEF Control, Outcome
  <2>3. Calling(q) /\ Renamed(q) /\ Renamed(q)'
    BY <2>1, <2>s DEF Calling, Renamed
  <2> QED BY <2>1, <2>s, <2>2, <2>3, Quiet DEF EntryInv
<1>22. CASE SyncParentFails(q)
  <2>1. /\ names' = names /\ survivors' \subseteq survivors \union {names'}
        /\ kind' = kind /\ goal' = goal /\ temp' = temp /\ file' = file
        /\ place[q] = "syncParent"
    BY <1>22, <1>t DEF SyncParentFails, fsVars, callVars
  <2>s. result'[q].state = "durability_uncertain"
    <3>1. Settle(q, "durability_uncertain")
      BY <1>22 DEF SyncParentFails
    <3> QED BY <3>1, <1>s
  <2>2. ~owns[q] /\ result[q].state = "none" /\ result[q].cleanup_error = FALSE
    BY <1>t, <2>1 DEF Control, Outcome
  <2>3. Calling(q) /\ Renamed(q) /\ Renamed(q)'
    BY <2>1, <2>s DEF Calling, Renamed
  <2> QED BY <2>1, <2>s, <2>2, <2>3, Quiet DEF EntryInv
<1>23. CASE AllocationFails(q)
  <2>1. UNCHANGED <<names, survivors, kind, goal, temp, file, owns>>
    BY <1>23 DEF AllocationFails, fsVars, callVars
  <2>2. result'[q].state = "threw"
    <3>1. Settle(q, "threw")
      BY <1>23 DEF AllocationFails
    <3> QED BY <3>1, <1>s
  <2>3. place[q] \notin {"idle", "syncParent", "closeParent", "failUnlink", "unwind"}
    BY <1>23 DEF AllocationFails
  <2>4. place'[q] = "unwind"
    BY <1>23, <1>t DEF AllocationFails, CallTypes, Goto
  <2>5. place[q] = "failClose" => result'[q].state = "threw"
    BY <1>23, <2>2 DEF AllocationFails
  <2> QED BY <2>1, <2>2, <2>3, <2>4, <2>5, <1>x, FailsQuietly
<1>24. ASSUME NEW failed \in BOOLEAN, CloseParent(q, failed) PROVE EntryInv(q)'
  <2>1. /\ UNCHANGED <<names, survivors, kind, goal, temp, file, owns>>
        /\ place[q] \notin {"idle", "syncParent"} /\ place'[q] # "syncParent"
        /\ result'[q].state = result[q].state
        /\ result[q].cleanup_error => result'[q].cleanup_error
    BY <1>24, <1>t, <1>r DEF CloseParent, CallTypes, fsVars, callVars, Goto
  <2> QED BY <2>1, GoesOnQuietly
<1>25. ASSUME NEW failed \in BOOLEAN, FailClose(q, failed) PROVE EntryInv(q)'
  <2>1. /\ UNCHANGED <<names, survivors, kind, goal, temp, file, owns>>
        /\ place[q] \notin {"idle", "syncParent"} /\ place'[q] # "syncParent"
        /\ result'[q].state = result[q].state
        /\ result[q].cleanup_error => result'[q].cleanup_error
    BY <1>25, <1>t, <1>r DEF FailClose, CallTypes, fsVars, callVars, Goto
  <2> QED BY <2>1, GoesOnQuietly
<1>26. ASSUME NEW failed \in BOOLEAN, FailUnlink(q, failed) PROVE EntryInv(q)'
  <2>1. /\ \/ names' = names /\ failed
           \/ names' = [names EXCEPT ![temp[q]] = NoFile]
        /\ survivors' \subseteq survivors \union {names'} /\ place[q] = "failUnlink"
        /\ kind' = kind /\ goal' = goal /\ temp' = temp /\ file' = file
        /\ place'[q] = "closeParent" /\ kind[q] = "file"
    BY <1>26, <1>t DEF FailUnlink, SetNames, CallTypes, Goto, Control
  <2>2. /\ result'[q].state = result[q].state /\ (failed => result'[q].cleanup_error)
        /\ result[q].state \in Failures
    BY <1>26, <1>t, <1>r DEF FailUnlink, Control
  <2>3. Calling(q) /\ ~Renamed(q) /\ ~Renamed(q)'
    BY <2>1, <2>2 DEF Calling, Renamed, Failures
  <2>4. result'[q].state = "target_exists" => names[goal[q]] # NoFile
    BY <1>t, <2>2 DEF Entries
  <2>5. result'[q].cleanup_error \/ names'[temp[q]] = NoFile
    BY <1>t, <1>n, <2>1, <2>2 DEF CallTypes
  <2> QED BY <2>1, <2>3, <2>4, <2>5, Quiet DEF EntryInv
<1>27. ASSUME NEW removed \in BOOLEAN, Unwind(q, removed) PROVE EntryInv(q)'
  <2>1. /\ \/ names' = names
           \/ owns[q] /\ names' = [names EXCEPT ![temp[q]] = NoFile]
        /\ survivors' \subseteq survivors \union {names'} /\ place[q] = "unwind"
        /\ kind' = kind /\ goal' = goal /\ temp' = temp /\ file' = file /\ result' = result
        /\ place'[q] = "idle"
    BY <1>27, <1>t DEF Unwind, SetNames, CallTypes, Goto
  <2>2. (owns[q] => kind[q] = "file") /\ result[q].state = "threw"
    BY <1>t, <2>1 DEF Control
  <2>3. Calling(q) /\ ~Renamed(q) /\ ~Renamed(q)'
    BY <2>1, <2>2 DEF Calling, Renamed
  <2> QED BY <2>1, <2>2, <2>3, Quiet DEF EntryInv
<1>28. CASE Kill(q)
  <2>1. /\ place'[q] = "idle" /\ result'[q].state = "none" /\ temp' = temp
    BY <1>28, <1>e DEF Kill, Die
  <2> QED BY <1>t, <2>1 DEF EntryInv, Unpublished, Entries, Scratched, Calling, Renamed
<1> QED
  BY <1>1, <1>2, <1>3, <1>4, <1>5, <1>6, <1>7, <1>8, <1>9, <1>10, <1>11, <1>12,
     <1>13, <1>14, <1>15, <1>16, <1>17, <1>18, <1>19, <1>20, <1>21, <1>22, <1>23,
     <1>24, <1>25, <1>26, <1>27, <1>28
  DEF Moves, Begin, Step, Create

\* A name is told to be published once it is durable.
ToldDurable(q) == place[q] = "closeParent" /\ result[q].state = "published" => Durable(goal[q])

LEMMA ToldDurableStep ==
  ASSUME Types, NEW q \in Publishers, CallInv(q), Moves(q)
  PROVE  ToldDurable(q)'
<1>t. Control(q) /\ CallTypes /\ ResultTypes /\ Complete(q) /\ Entries(q)
  BY DEF Types, CallInv
<1>e. \A st, e : Outcome(st, e).state = st
  BY DEF Outcome
<1>s. ASSUME NEW st, Settle(q, st) PROVE result'[q].state = st
  BY <1>t, <1>s, <1>e DEF Settle, ResultTypes
<1>r. ASSUME NEW failed, RememberCleanupError(q, failed)
      PROVE  result'[q].state = result[q].state
  BY <1>t, <1>r DEF RememberCleanupError, ResultTypes
<1>f. ASSUME NEW st, FailBeforeRename(q, st) PROVE place'[q] = "failClose"
  BY <1>t, <1>f DEF FailBeforeRename, Goto, CallTypes
<1> USE DEF ToldDurable, CallTypes, Goto
<1>1. ASSUME NEW t \in Targets, PublishFile(q, t) PROVE ToldDurable(q)'
  BY <1>1, <1>t DEF PublishFile
<1>2. ASSUME NEW t \in Targets, PublishDirectory(q, t) PROVE ToldDurable(q)'
  BY <1>2, <1>t DEF PublishDirectory
<1>3. CASE OpenParentFails(q)
  BY <1>3, <1>t DEF OpenParentFails
<1>4. CASE OpenParent(q)
  BY <1>4, <1>t DEF OpenParent
<1>5. ASSUME NEW name \in Scratch, CreateTemporary(q, name) PROVE ToldDurable(q)'
  BY <1>5, <1>t DEF CreateTemporary, TriesName
<1>6. ASSUME NEW name \in Scratch, NameIsTaken(q, name) PROVE ToldDurable(q)'
  BY <1>6, <1>t DEF NameIsTaken, TriesName
<1>7. ASSUME NEW name \in Scratch, CreateFails(q, name) PROVE ToldDurable(q)'
  BY <1>7, <1>t, <1>f DEF CreateFails, TriesName
<1>8. CASE NoNameLeft(q)
  BY <1>8, <1>t, <1>f DEF NoNameLeft
<1>9. CASE OpenStaging(q)
  BY <1>9, <1>t DEF OpenStaging
<1>10. CASE OpenStagingFails(q)
  BY <1>10, <1>t, <1>f DEF OpenStagingFails
<1>11. CASE SinkWrites(q)
  BY <1>11, <1>t DEF SinkWrites, Control
<1>12. CASE SinkFails(q)
  BY <1>12, <1>t DEF SinkFails, Control
<1>13. CASE WriterReturns(q)
  BY <1>13, <1>t, <1>f DEF WriterReturns, Terminalize
<1>14. CASE WriterThrows(q)
  BY <1>14, <1>t, <1>f DEF WriterThrows, Terminalize
<1>15. CASE SyncContent(q)
  BY <1>15, <1>t DEF SyncContent
<1>16. CASE SyncContentFails(q)
  BY <1>16, <1>t, <1>f DEF SyncContentFails
<1>17. CASE CloseContent(q)
  BY <1>17, <1>t DEF CloseContent
<1>18. CASE CloseContentFails(q)
  BY <1>18, <1>t, <1>f DEF CloseContentFails
<1>19. CASE RenameNoReplace(q)
  BY <1>19, <1>t DEF RenameNoReplace
<1>20. ASSUME NEW errno \in RenameErrors, RenameFails(q, errno) PROVE ToldDurable(q)'
  BY <1>20, <1>t, <1>f DEF RenameFails
<1>21. CASE SyncParent(q)
  <2>1. place[q] = "syncParent" /\ names' = names /\ survivors' = {names} /\ goal' = goal
    BY <1>21 DEF SyncParent, callVars
  <2>2. file[q] # NoFile /\ names[goal[q]] = file[q]
    BY <1>t, <2>1 DEF Complete, Entries, Renamed
  <2> QED BY <2>1, <2>2 DEF Durable
<1>22. CASE SyncParentFails(q)
  <2>1. Settle(q, "durability_uncertain")
    BY <1>22 DEF SyncParentFails
  <2> QED BY <2>1, <1>s
<1>23. CASE AllocationFails(q)
  BY <1>23, <1>t DEF AllocationFails
<1>24. ASSUME NEW failed \in BOOLEAN, CloseParent(q, failed) PROVE ToldDurable(q)'
  BY <1>24, <1>t DEF CloseParent
<1>25. ASSUME NEW failed \in BOOLEAN, FailClose(q, failed) PROVE ToldDurable(q)'
  <2>1. result[q].state \in Failures
    BY <1>25, <1>t DEF FailClose, Control
  <2>2. result'[q].state = result[q].state
    BY <1>25, <1>r DEF FailClose
  <2> QED BY <2>1, <2>2 DEF Failures
<1>26. ASSUME NEW failed \in BOOLEAN, FailUnlink(q, failed) PROVE ToldDurable(q)'
  <2>1. result[q].state \in Failures
    BY <1>26, <1>t DEF FailUnlink, Control
  <2>2. result'[q].state = result[q].state
    BY <1>26, <1>r DEF FailUnlink
  <2> QED BY <2>1, <2>2 DEF Failures
<1>27. ASSUME NEW removed \in BOOLEAN, Unwind(q, removed) PROVE ToldDurable(q)'
  BY <1>27, <1>t DEF Unwind
<1>28. CASE Kill(q)
  BY <1>28, <1>t DEF Kill, Die
<1> QED
  BY <1>1, <1>2, <1>3, <1>4, <1>5, <1>6, <1>7, <1>8, <1>9, <1>10, <1>11, <1>12,
     <1>13, <1>14, <1>15, <1>16, <1>17, <1>18, <1>19, <1>20, <1>21, <1>22, <1>23,
     <1>24, <1>25, <1>26, <1>27, <1>28
  DEF Moves, Begin, Step, Create

\* Nothing else is told.
LEMMA ReportedStep ==
  ASSUME Types, NEW q \in Publishers, CallInv(q), Moves(q)
  PROVE  \A t \in Targets : reported'[t] # NoFile => reported[t] # NoFile \/ Durable(t)
<1> DEFINE Told == \A t \in Targets : reported'[t] # NoFile => reported[t] # NoFile \/ Durable(t)
<1>1. ASSUME NEW t \in Targets, PublishFile(q, t) PROVE Told
  BY <1>1 DEF PublishFile
<1>2. ASSUME NEW t \in Targets, PublishDirectory(q, t) PROVE Told
  BY <1>2 DEF PublishDirectory
<1>3. CASE OpenParentFails(q)
  BY <1>3 DEF OpenParentFails
<1>4. CASE OpenParent(q)
  BY <1>4 DEF OpenParent
<1>5. ASSUME NEW name \in Scratch, CreateTemporary(q, name) PROVE Told
  BY <1>5 DEF CreateTemporary
<1>6. ASSUME NEW name \in Scratch, NameIsTaken(q, name) PROVE Told
  BY <1>6 DEF NameIsTaken
<1>7. ASSUME NEW name \in Scratch, CreateFails(q, name) PROVE Told
  BY <1>7 DEF CreateFails
<1>8. CASE NoNameLeft(q)
  BY <1>8 DEF NoNameLeft
<1>9. CASE OpenStaging(q)
  BY <1>9 DEF OpenStaging
<1>10. CASE OpenStagingFails(q)
  BY <1>10 DEF OpenStagingFails
<1>11. CASE SinkWrites(q)
  BY <1>11 DEF SinkWrites
<1>12. CASE SinkFails(q)
  BY <1>12 DEF SinkFails
<1>13. CASE WriterReturns(q)
  BY <1>13 DEF WriterReturns
<1>14. CASE WriterThrows(q)
  BY <1>14 DEF WriterThrows
<1>15. CASE SyncContent(q)
  BY <1>15 DEF SyncContent
<1>16. CASE SyncContentFails(q)
  BY <1>16 DEF SyncContentFails
<1>17. CASE CloseContent(q)
  BY <1>17 DEF CloseContent
<1>18. CASE CloseContentFails(q)
  BY <1>18 DEF CloseContentFails
<1>19. CASE RenameNoReplace(q)
  BY <1>19 DEF RenameNoReplace
<1>20. ASSUME NEW errno \in RenameErrors, RenameFails(q, errno) PROVE Told
  BY <1>20 DEF RenameFails
<1>21. CASE SyncParent(q)
  BY <1>21 DEF SyncParent
<1>22. CASE SyncParentFails(q)
  BY <1>22 DEF SyncParentFails
<1>23. CASE AllocationFails(q)
  BY <1>23 DEF AllocationFails
<1>24. ASSUME NEW failed \in BOOLEAN, CloseParent(q, failed) PROVE Told
  <2>1. /\ reported' = IF result[q].state = "published"
                          THEN [reported EXCEPT ![goal[q]] = file[q]] ELSE reported
        /\ place[q] = "closeParent"
    BY <1>24 DEF CloseParent
  <2>2. result[q].state = "published" => Durable(goal[q])
    BY <2>1 DEF CallInv
  <2>3. reported \in [Targets -> 0 .. MaxFiles]
    BY DEF Types, ResultTypes
  <2> QED BY <2>1, <2>2, <2>3
<1>25. ASSUME NEW failed \in BOOLEAN, FailClose(q, failed) PROVE Told
  BY <1>25 DEF FailClose
<1>26. ASSUME NEW failed \in BOOLEAN, FailUnlink(q, failed) PROVE Told
  BY <1>26 DEF FailUnlink
<1>27. ASSUME NEW removed \in BOOLEAN, Unwind(q, removed) PROVE Told
  BY <1>27 DEF Unwind
<1>28. CASE Kill(q)
  BY <1>28 DEF Kill, Die
<1> QED
  BY <1>1, <1>2, <1>3, <1>4, <1>5, <1>6, <1>7, <1>8, <1>9, <1>10, <1>11, <1>12,
     <1>13, <1>14, <1>15, <1>16, <1>17, <1>18, <1>19, <1>20, <1>21, <1>22, <1>23,
     <1>24, <1>25, <1>26, <1>27, <1>28
  DEF Moves, Begin, Step, Create

----------------------------------------------------------------------------
(* Every step.                                                             *)

LEMMA MovesInv ==
  ASSUME IInv, NEW q \in Publishers, Moves(q)
  PROVE  IInv'
<1>1. Types /\ CallInv(q)
  BY DEF IInv
<1>2. FsStep(q) /\ OthersKept(q)
  BY <1>1, FsStepStep, OthersKeptStep
<1>3. Types'
  BY <1>1, CallTypesStep, DescriptorTypesStep, ResultTypesStep, FileTypesStep DEF Types
<1>4. SharedInv'
  BY <1>1, <1>2, ReportedStep, SharedKept
<1>5. CallInv(q)'
  BY <1>1, ControlStep, HoldsStep, CompleteStep, EntriesStep, ToldDurableStep
  DEF CallInv, EntryInv, ToldDurable
<1>6. ASSUME NEW p \in Publishers \ {q} PROVE CallInv(p)'
  BY <1>2, OtherKept
<1> QED BY <1>3, <1>4, <1>5, <1>6 DEF IInv

LEMMA CrashInv ==
  ASSUME IInv, NEW ns \in survivors,
         NEW lost \in SUBSET {f \in Files : stable[f] # content[f]}, Crash(ns, lost)
  PROVE  IInv'
<1>1. Types /\ SharedInv /\ \A p \in Publishers : CallInv(p)
  BY DEF IInv
<1>2. /\ names' = ns /\ survivors' = {ns}
      /\ content' = [f \in Files |-> IF f \in lost THEN stable[f] ELSE content[f]]
      /\ stable' = content'
      /\ UNCHANGED <<created, kind, goal, temp, file, reported>>
  BY DEF Crash, Die
<1>3. /\ place' = [p \in Publishers |-> "idle"]
      /\ held' = [p \in Publishers |-> {}]
      /\ live' = [p \in Publishers |-> [d \in Descriptors |-> 0]]
      /\ owns' = [p \in Publishers |-> FALSE]
      /\ sinkActive' = [p \in Publishers |-> FALSE]
      /\ result' = [p \in Publishers |-> Outcome("none", FALSE)]
  BY DEF Crash, Die
<1>4. Types'
  <2>1. FileTypes'
    BY <1>1, <1>2 DEF Types, FileTypes
  <2>2. DescriptorTypes'
    BY <1>3 DEF DescriptorTypes
  <2>3. CallTypes'
    BY <1>1, <1>2, <1>3 DEF Types, CallTypes, Places
  <2>4. ResultTypes'
    BY <1>1, <1>2, <1>3 DEF Types, ResultTypes, Outcome, States
  <2> QED BY <2>1, <2>2, <2>3, <2>4 DEF Types
<1>5. SharedInv'
  <2>1. FilesDiffer'
    BY <1>1, <1>2 DEF SharedInv, FilesDiffer
  <2>2. Earlier'
    BY <1>2 DEF Earlier
  <2>3. WholeOrAbsent'
    <3> SUFFICES ASSUME NEW t \in Targets, ns[t] # NoFile
                 PROVE  content'[ns[t]] = Chunks /\ stable'[ns[t]] = Chunks
      BY <1>2 DEF WholeOrAbsent
    <3>1. content[ns[t]] = Chunks /\ stable[ns[t]] = Chunks
      BY <1>1 DEF SharedInv, WholeOrAbsent
    <3>2. ns[t] \in Files
      BY <1>1, Ranges, ConstantsAssumption DEF Files, NoFile, Types, FileTypes
    <3> QED BY <1>2, <3>1, <3>2
  <2>4. ASSUME NEW t \in Targets, reported'[t] # NoFile PROVE Durable(t)'
    BY <1>1, <1>2, <2>4 DEF SharedInv, Durable
  <2> QED BY <2>1, <2>2, <2>3, <2>4 DEF SharedInv
<1>6. ASSUME NEW p \in Publishers PROVE CallInv(p)'
  <2>1. /\ place'[p] = "idle" /\ result'[p].state = "none" /\ ~sinkActive'[p] /\ ~owns'[p]
        /\ held'[p] = {} /\ live'[p] = [d \in Descriptors |-> 0]
    BY <1>3 DEF Outcome
  <2>2. \E n \in Nat : temp'[p] \in {Temp(p, n), Staging(p)}
    BY <1>1, <1>2 DEF CallInv, Entries
  <2> QED
    BY <2>1, <2>2 DEF CallInv, Control, Holds, Complete, Unpublished, Entries, Scratched,
       Calling, Renamed
<1> QED BY <1>4, <1>5, <1>6 DEF IInv

LEMMA StutterInv ==
  ASSUME IInv, UNCHANGED vars
  PROVE  IInv'
<1> USE DEF vars, fsVars, callVars, sinkVars
<1>1. Types'
  BY DEF IInv, Types, FileTypes, DescriptorTypes, CallTypes, ResultTypes
<1>2. SharedInv'
  BY DEF IInv, SharedInv, FilesDiffer, Earlier, WholeOrAbsent, Durable
<1>3. ASSUME NEW p \in Publishers PROVE CallInv(p)'
  <2>1. CallInv(p)
    BY DEF IInv
  <2>2. (Control(p) /\ Holds(p) /\ Complete(p))'
    BY <2>1 DEF CallInv, Control, Holds, Complete, Renamed
  <2>3. (Unpublished(p) /\ Entries(p) /\ Scratched(p))'
    BY <2>1 DEF CallInv, Unpublished, Entries, Scratched, Calling, Renamed
  <2>4. place'[p] = "closeParent" /\ result'[p].state = "published" => Durable(goal[p])'
    BY <2>1 DEF CallInv, Durable
  <2> QED BY <2>2, <2>3, <2>4 DEF CallInv
<1> QED BY <1>1, <1>2, <1>3 DEF IInv

LEMMA Invariant == Spec => []IInv
<1>1. ASSUME IInv, [Next]_vars PROVE IInv'
  <2>1. CASE \E p \in Publishers : Begin(p) \/ Step(p) \/ Kill(p)
    BY <1>1, <2>1, MovesInv DEF Moves
  <2>2. CASE \E ns \in survivors :
               \E lost \in SUBSET {f \in Files : stable[f] # content[f]} : Crash(ns, lost)
    BY <1>1, <2>2, CrashInv
  <2>3. CASE Resting \/ UNCHANGED vars
    BY <1>1, <2>3, StutterInv DEF Resting
  <2> QED BY <1>1, <2>1, <2>2, <2>3 DEF Next
<1> QED BY <1>1, InitInv, PTL DEF Spec

\* A file that can be opened under a target, now or after a crash, is complete
\* and on disk: whatever a reader of a published name finds was published whole.
THEOREM PublishedFilesAreWhole == Spec => []WholeOrAbsent
<1>1. IInv => WholeOrAbsent
  BY DEF IInv, SharedInv
<1> QED BY <1>1, Invariant, PTL

\* No descriptor is closed twice, and none is open when its call is over, on
\* every way out of publish_file_no_replace and publish_directory_no_replace.
THEOREM DescriptorsAreClosedOnce == Spec => []DescriptorsClosedOnce
<1>1. ASSUME IInv PROVE DescriptorsClosedOnce
  <2> SUFFICES ASSUME NEW p \in Publishers, NEW d \in Descriptors
               PROVE  /\ live[p][d] = IF d \in held[p] THEN 1 ELSE 0
                      /\ place[p] = "idle" => d \notin held[p]
    BY DEF DescriptorsClosedOnce
  <2>1. Holds(p)
    BY <1>1 DEF IInv, CallInv
  <2> QED BY <2>1 DEF Holds
<1> QED BY <1>1, Invariant, PTL

\* What a caller is told is what happened to the name, in every interleaving
\* with the other processes, their deaths and crashes.
THEOREM ResultsAreTrue == Spec => []TruthfulResult
<1>1. ASSUME IInv PROVE TruthfulResult
  <2> SUFFICES ASSUME NEW p \in Publishers, place[p] = "idle"
               PROVE  LET state == result[p].state
                          mine  == names[goal[p]] = file[p]
                      IN  /\ state \in {"published", "durability_uncertain"} => mine
                          /\ state = "target_exists" => ~mine /\ names[goal[p]] # NoFile
                          /\ state \in {"not_published", "no_replace_unsupported", "threw"} =>
                               /\ file[p] # NoFile => ~mine
                               /\ kind[p] = "directory" => names[Staging(p)] = file[p]
    BY DEF TruthfulResult
  <2>1. Entries(p) /\ Unpublished(p) /\ names \in survivors /\ goal[p] \in Targets
    BY <1>1 DEF IInv, CallInv, Types, FileTypes, CallTypes
  <2>2. CASE result[p].state \in {"published", "durability_uncertain"}
    <3>1. names[goal[p]] = file[p]
      BY <2>1, <2>2 DEF Entries, Renamed
    <3> QED BY <2>2, <3>1
  <2>3. CASE result[p].state \in Failures \union {"threw"}
    <3>1. Calling(p) /\ ~Renamed(p)
      BY <2>3 DEF Calling, Renamed, Failures
    <3>2. file[p] # NoFile => names[goal[p]] # file[p]
      BY <2>1, <3>1 DEF Unpublished
    <3>3. kind[p] = "directory" => names[Staging(p)] = file[p]
      BY <2>1, <3>1 DEF Entries
    <3>4. result[p].state = "target_exists" => names[goal[p]] # NoFile
      BY <2>1 DEF Entries
    <3> QED BY <2>3, <3>2, <3>3, <3>4 DEF Failures
  <2>4. CASE result[p].state = "none"
    BY <2>4
  <2> QED
    BY <1>1, <2>2, <2>3, <2>4 DEF IInv, Types, ResultTypes, States
<1> QED BY <1>1, Invariant, PTL

\* A call that ends without a cleanup error, and without an exception, leaves
\* none of its file under a temporary name.
THEOREM NothingIsLeftBehind == Spec => []NothingLeftBehind
<1>1. ASSUME IInv PROVE NothingLeftBehind
  <2> SUFFICES ASSUME NEW p \in Publishers, place[p] = "idle", kind[p] = "file",
                      result[p].state \notin {"none", "threw"}, ~result[p].cleanup_error,
                      NEW n \in Scratch, names[n] # NoFile
               PROVE  names[n] # file[p]
    BY DEF NothingLeftBehind
  <2>1. Scratched(p) /\ Control(p)
    BY <1>1 DEF IInv, CallInv
  <2> QED BY <2>1 DEF Scratched, Control, Calling
<1> QED BY <1>1, Invariant, PTL

----------------------------------------------------------------------------
(* Publication implements NoReplaceStore.                                  *)

\* The variables of the abstract store.
Entry  == [t \in Targets |-> names[t]]
OnDisk == {t \in Targets : names[t] # NoFile /\ \A ns \in survivors : ns[t] = names[t]}
Told   == {t \in Targets : reported[t] # NoFile}

\* The abstract store does not see the step.
Hidden ==
  /\ \A t \in Targets : names'[t] = names[t]
  /\ survivors \subseteq survivors' /\ survivors' \subseteq survivors \union {names'}
  /\ reported' = reported

LEMMA HiddenSteps ==
  ASSUME Types, NEW q \in Publishers, Moves(q)
  PROVE  Hidden \/ RenameNoReplace(q) \/ SyncParent(q) \/ \E e \in BOOLEAN : CloseParent(q, e)
<1>t. /\ names \in [Names -> 0 .. created] /\ temp[q] \in Scratch /\ Staging(q) \in Scratch
      /\ Targets \subseteq Names /\ \A t \in Targets : t \notin Scratch
  BY ScratchNames DEF Types, FileTypes, CallTypes
<1> DEFINE Seen == \/ RenameNoReplace(q) \/ SyncParent(q)
                   \/ \E e \in BOOLEAN : CloseParent(q, e)
<1>1. ASSUME NEW t \in Targets, PublishFile(q, t) PROVE Hidden \/ Seen
  BY <1>1 DEF PublishFile, Hidden, fsVars
<1>2. ASSUME NEW t \in Targets, PublishDirectory(q, t) PROVE Hidden \/ Seen
  BY <1>2, <1>t DEF PublishDirectory, Hidden, fsVars, SetNames
<1>3. CASE OpenParentFails(q)
  BY <1>3 DEF OpenParentFails, Hidden, fsVars
<1>4. CASE OpenParent(q)
  BY <1>4 DEF OpenParent, Hidden, fsVars
<1>5. ASSUME NEW name \in Scratch, CreateTemporary(q, name) PROVE Hidden \/ Seen
  BY <1>5, <1>t DEF CreateTemporary, Hidden, fsVars, SetNames
<1>6. ASSUME NEW name \in Scratch, NameIsTaken(q, name) PROVE Hidden \/ Seen
  BY <1>6 DEF NameIsTaken, Hidden, fsVars
<1>7. ASSUME NEW name \in Scratch, CreateFails(q, name) PROVE Hidden \/ Seen
  BY <1>7 DEF CreateFails, Hidden, fsVars
<1>8. CASE NoNameLeft(q)
  BY <1>8 DEF NoNameLeft, Hidden, fsVars
<1>9. CASE OpenStaging(q)
  BY <1>9 DEF OpenStaging, Hidden, fsVars
<1>10. CASE OpenStagingFails(q)
  BY <1>10 DEF OpenStagingFails, Hidden, fsVars
<1>11. CASE SinkWrites(q)
  BY <1>11 DEF SinkWrites, Hidden, fsVars
<1>12. CASE SinkFails(q)
  BY <1>12 DEF SinkFails, Hidden, fsVars
<1>13. CASE WriterReturns(q)
  BY <1>13 DEF WriterReturns, Hidden, fsVars
<1>14. CASE WriterThrows(q)
  BY <1>14 DEF WriterThrows, Hidden, fsVars
<1>15. CASE SyncContent(q)
  BY <1>15 DEF SyncContent, Hidden, fsVars
<1>16. CASE SyncContentFails(q)
  BY <1>16 DEF SyncContentFails, Hidden, fsVars
<1>17. CASE CloseContent(q)
  BY <1>17 DEF CloseContent, Hidden, fsVars
<1>18. CASE CloseContentFails(q)
  BY <1>18 DEF CloseContentFails, Hidden, fsVars
<1>19. CASE RenameNoReplace(q)
  BY <1>19 DEF Seen
<1>20. ASSUME NEW errno \in RenameErrors, RenameFails(q, errno) PROVE Hidden \/ Seen
  BY <1>20 DEF RenameFails, Hidden, fsVars
<1>21. CASE SyncParent(q)
  BY <1>21 DEF Seen
<1>22. CASE SyncParentFails(q)
  BY <1>22 DEF SyncParentFails, Hidden, fsVars
<1>23. CASE AllocationFails(q)
  BY <1>23 DEF AllocationFails, Hidden, fsVars
<1>24. ASSUME NEW failed \in BOOLEAN, CloseParent(q, failed) PROVE Hidden \/ Seen
  BY <1>24 DEF Seen
<1>25. ASSUME NEW failed \in BOOLEAN, FailClose(q, failed) PROVE Hidden \/ Seen
  BY <1>25 DEF FailClose, Hidden, fsVars
<1>26. ASSUME NEW failed \in BOOLEAN, FailUnlink(q, failed) PROVE Hidden \/ Seen
  BY <1>26, <1>t DEF FailUnlink, Hidden, fsVars, SetNames
<1>27. ASSUME NEW removed \in BOOLEAN, Unwind(q, removed) PROVE Hidden \/ Seen
  BY <1>27, <1>t DEF Unwind, Hidden, fsVars, SetNames
<1>28. CASE Kill(q)
  BY <1>28 DEF Kill, Die, Hidden, fsVars
<1> QED
  BY <1>1, <1>2, <1>3, <1>4, <1>5, <1>6, <1>7, <1>8, <1>9, <1>10, <1>11, <1>12,
     <1>13, <1>14, <1>15, <1>16, <1>17, <1>18, <1>19, <1>20, <1>21, <1>22, <1>23,
     <1>24, <1>25, <1>26, <1>27, <1>28
  DEF Moves, Begin, Step, Create

LEMMA StoreStep ==
  ASSUME IInv, NEW q \in Publishers, Moves(q)
  PROVE  Store!Next \/ UNCHANGED Store!vars
<1>1. /\ Types /\ CallInv(q) /\ SharedInv /\ goal[q] \in Targets /\ temp[q] \in Scratch
      /\ names \in survivors /\ names \in [Names -> 0 .. created]
      /\ Targets \subseteq Names /\ \A t \in Targets : t \notin Scratch
  BY ScratchNames DEF IInv, Types, FileTypes, CallTypes
<1>2. CASE Hidden
  <2>1. Entry' = Entry /\ Told' = Told
    BY <1>2 DEF Hidden, Entry, Told
  <2>2. OnDisk' = OnDisk
    BY <1>1, <1>2 DEF Hidden, OnDisk
  <2> QED BY <2>1, <2>2 DEF Store!vars, Entry, OnDisk, Told
<1>3. CASE RenameNoReplace(q)
  <2>1. /\ names[goal[q]] = NoFile /\ place[q] = "rename"
        /\ names' = [names EXCEPT ![goal[q]] = file[q], ![temp[q]] = NoFile]
        /\ survivors' = survivors \union {names'} /\ reported' = reported
    BY <1>3 DEF RenameNoReplace, SetNames
  <2>2. file[q] \in Files
    <3>1. file[q] # NoFile
      BY <1>1, <2>1 DEF CallInv, Complete
    <3> QED BY <1>1, <3>1, ConstantsAssumption DEF Types, FileTypes, Files, NoFile
  <2>3. \A t \in Targets : names'[t] = IF t = goal[q] THEN file[q] ELSE names[t]
    BY <1>1, <2>1
  <2>4. Entry' = [Entry EXCEPT ![goal[q]] = file[q]] /\ Entry[goal[q]] = NoFile
    BY <1>1, <2>1, <2>3 DEF Entry
  <2>5. goal[q] \notin OnDisk /\ goal[q] \notin OnDisk'
    BY <1>1, <2>1, <2>2, <2>3 DEF OnDisk, Files, NoFile
  <2>6. \A t \in Targets \ {goal[q]} : t \in OnDisk' <=> t \in OnDisk
    BY <1>1, <2>1, <2>3 DEF OnDisk
  <2>7. OnDisk' = OnDisk /\ Told' = Told
    BY <2>1, <2>5, <2>6 DEF OnDisk, Told
  <2>8. PICK t \in Targets, f \in Files : t = goal[q] /\ f = file[q]
    BY <1>1, <2>2
  <2>9. Store!Publish(t, f)
    BY <2>4, <2>7, <2>8 DEF Store!Publish, Entry, OnDisk, Told
  <2> QED BY <2>9 DEF Store!Next
<1>4. CASE SyncParent(q)
  <2>1. names' = names /\ survivors' = {names} /\ reported' = reported
    BY <1>4 DEF SyncParent
  <2>2. Entry' = Entry /\ Told' = Told /\ OnDisk' = {t \in Targets : Entry[t] # NoFile}
    BY <2>1 DEF Entry, Told, OnDisk
  <2>3. Store!Persist
    BY <2>2 DEF Store!Persist, Store!Named, Entry, OnDisk, Told
  <2> QED BY <2>3 DEF Store!Next
<1>5. ASSUME NEW e \in BOOLEAN, CloseParent(q, e) PROVE Store!Next \/ UNCHANGED Store!vars
  <2>1. /\ names' = names /\ survivors' = survivors /\ place[q] = "closeParent"
        /\ reported' = IF result[q].state = "published"
                         THEN [reported EXCEPT ![goal[q]] = file[q]] ELSE reported
    BY <1>5 DEF CloseParent, fsVars
  <2>2. Entry' = Entry /\ OnDisk' = OnDisk
    BY <2>1 DEF Entry, OnDisk
  <2>3. CASE result[q].state = "published"
    <3>1. Durable(goal[q]) /\ file[q] # NoFile
      BY <1>1, <2>1, <2>3 DEF CallInv, Complete, Renamed
    <3>2. goal[q] \in OnDisk
      BY <1>1, <3>1 DEF Durable, OnDisk
    <3>3. reported \in [Targets -> 0 .. MaxFiles]
      BY <1>1 DEF Types, ResultTypes
    <3>4. Told' = Told \union {goal[q]}
      BY <1>1, <2>1, <2>3, <3>1, <3>3 DEF Told
    <3>5. PICK t \in Targets : t = goal[q]
      BY <1>1
    <3>6. Store!Report(t)
      BY <2>2, <3>2, <3>4, <3>5 DEF Store!Report, Entry, OnDisk, Told
    <3> QED BY <3>6 DEF Store!Next
  <2>4. CASE result[q].state # "published"
    <3>1. Told' = Told
      BY <2>1, <2>4 DEF Told
    <3> QED BY <2>2, <3>1 DEF Store!vars, Entry, OnDisk, Told
  <2> QED BY <2>3, <2>4
<1> QED BY <1>1, <1>2, <1>3, <1>4, <1>5, HiddenSteps

LEMMA StoreCrash ==
  ASSUME IInv, NEW ns \in survivors, NEW lost, Crash(ns, lost)
  PROVE  Store!Crash
<1>1. names' = ns /\ survivors' = {ns} /\ reported' = reported
  BY DEF Crash, Die
<1>2. \A t \in Targets : ns[t] \in {NoFile, names[t]}
  BY DEF IInv, SharedInv, Earlier
<1> DEFINE gone == {t \in Targets : ns[t] # names[t]}
<1>3. gone \in SUBSET (Targets \ OnDisk)
  BY DEF OnDisk
<1>4. Entry' = [t \in Targets |-> IF t \in gone THEN NoFile ELSE Entry[t]]
  BY <1>1, <1>2 DEF Entry
<1>5. OnDisk' = {t \in Targets : Entry'[t] # NoFile} /\ Told' = Told
  BY <1>1 DEF OnDisk, Entry, Told
<1> HIDE DEF gone
<1> QED BY <1>3, <1>4, <1>5 DEF Store!Crash, Store!Named, Entry, OnDisk, Told

\* Publication implements the store that gives a name once, to one file, never
\* replaces it, and keeps the reported names across crashes.
THEOREM PublicationImplementsTheStore == Spec => StoreSpec
<1>1. ASSUME Init PROVE Store!Init
  <2>1. /\ Entry = [t \in Targets |-> NoFile] /\ OnDisk = {} /\ Told = {}
    BY <1>1 DEF Init, Entry, OnDisk, Told, Names, NoFile
  <2> QED BY <2>1 DEF Store!Init, Entry, OnDisk, Told
<1>2. ASSUME IInv, [Next]_vars PROVE [Store!Next]_(Store!vars)
  <2>1. CASE \E p \in Publishers : Begin(p) \/ Step(p) \/ Kill(p)
    BY <1>2, <2>1, StoreStep DEF Moves
  <2>2. CASE \E ns \in survivors :
               \E lost \in SUBSET {f \in Files : stable[f] # content[f]} : Crash(ns, lost)
    <3>1. Store!Crash
      BY <1>2, <2>2, StoreCrash
    <3> QED BY <3>1 DEF Store!Next
  <2>3. CASE Resting \/ UNCHANGED vars
    BY <2>3 DEF Resting, vars, fsVars, Store!vars
  <2> QED BY <1>2, <2>1, <2>2, <2>3 DEF Next
<1> QED BY <1>1, <1>2, Invariant, PTL DEF Spec, StoreSpec, Store!Spec
=============================================================================
