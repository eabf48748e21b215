---------------------------- MODULE NoReplaceStore ----------------------------
(***************************************************************************)
(* What publication promises of a set of target names: a name is given     *)
(* once, to one complete file, and is never replaced; a reported name      *)
(* outlives a crash.                                                       *)
(***************************************************************************)
CONSTANTS Targets, Files, NoFile

VARIABLES
  entry,     \* entry[t]: the file a target names
  durable,   \* the targets whose name outlives a crash
  reported   \* the targets a caller has been told are published

vars == <<entry, durable, reported>>

Named(e) == {t \in Targets : e[t] # NoFile}

Init ==
  /\ entry = [t \in Targets |-> NoFile]
  /\ durable = {} /\ reported = {}

Publish(t, f) ==
  /\ entry[t] = NoFile
  /\ entry' = [entry EXCEPT ![t] = f]
  /\ UNCHANGED <<durable, reported>>

Persist ==
  /\ durable' = Named(entry)
  /\ UNCHANGED <<entry, reported>>

Report(t) ==
  /\ t \in durable
  /\ reported' = reported \union {t}
  /\ UNCHANGED <<entry, durable>>

\* A crash loses any of the names that are not durable, and no other.
Crash ==
  /\ \E lost \in SUBSET (Targets \ durable) :
       entry' = [t \in Targets |-> IF t \in lost THEN NoFile ELSE entry[t]]
  /\ durable' = Named(entry')
  /\ UNCHANGED reported

Next ==
  \/ \E t \in Targets : Report(t) \/ \E f \in Files : Publish(t, f)
  \/ Persist
  \/ Crash

Spec == Init /\ [][Next]_vars
==============================================================================
