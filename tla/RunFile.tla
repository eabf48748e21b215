------------------------------- MODULE RunFile -------------------------------
(***************************************************************************)
(* RunFileWriter of src/src/preprocess/run_file.cpp: one writer of one     *)
(* file of fixed-size records.  The header is a placeholder until the      *)
(* payload is complete, and the file belongs to the writer, which removes  *)
(* it, until finish has closed it.  Every system call may fail, the        *)
(* removal too: the file then stays, with what has been written of it.     *)
(*                                                                         *)
(* A byte is <<record, i>>, the i-th byte of a record.  A header holds the *)
(* payload it describes, for the count of records and the checksum.        *)
(***************************************************************************)
EXTENDS Integers, Sequences

CONSTANTS
  RecordBytes,   \* header_.record_bytes
  BufferBytes    \* buffer_.size(), at least RecordBytes

VARIABLES
  writer,   \* the writer, or NoWriter
  files,    \* what the directory holds: path -> file
  stuck     \* history: the files that could not be removed

Placeholder      == [bytes |-> -1, describes |-> <<>>]
Header(payload)  == [bytes |-> Len(payload), describes |-> payload]
EmptyFile   == [header |-> Placeholder, payload |-> <<>>]

NoWriter == [state |-> "none", path |-> "none", open |-> FALSE, owns |-> FALSE,
             appended |-> <<>>,   \* what header_ and payload_crc_ describe
             buffer |-> <<>>, step |-> "none"]

Encoded(record) == [i \in 1 .. RecordBytes |-> <<record, i>>]
File == files[writer.path]

Without(S) == [p \in DOMAIN files \ S |-> files[p]]

Created(path) ==
  /\ path \notin DOMAIN files
  /\ files' = [p \in DOMAIN files \union {path} |->
                 IF p = path THEN EmptyFile ELSE files[p]]

\* create: O_EXCL, then the placeholder.
Create(path) ==
  /\ Created(path) /\ UNCHANGED stuck
  /\ writer' = [NoWriter EXCEPT !.state = "active", !.path = path,
                                !.open = TRUE, !.owns = TRUE]

\* Nothing is left when the file cannot be created.  When its placeholder
\* cannot be written it is removed, or stays if that fails as well.
CreateFails(path) ==
  /\ writer' = NoWriter
  /\ \/ UNCHANGED <<files, stuck>>
     \/ Created(path) /\ stuck' = stuck \union {path}

\* poison_and_cleanup, after a write that has put some of the bytes into the
\* file: nobody is told when cleanup_incomplete cannot remove it.
Poison(bytes) ==
  /\ \/ files' = Without({writer.path}) /\ UNCHANGED stuck
     \/ /\ \E n \in 0 .. Len(bytes) :
             files' = [files EXCEPT ![writer.path].payload = @ \o SubSeq(bytes, 1, n)]
        /\ stuck' = stuck \union {writer.path}
  /\ writer' = [writer EXCEPT !.state = "failed", !.open = FALSE, !.owns = FALSE]

\* The loop of append_records flushes the buffer whenever it is full and
\* there is more to copy.
Flushed(bytes) == ((Len(bytes) - 1) \div BufferBytes) * BufferBytes

\* Mutant: the part of the record after a flush is taken from its start.
AppendRecord_Restart(record) ==
  LET bytes == writer.buffer \o Encoded(record)
      whole == Flushed(bytes) IN
  /\ writer.state = "active"
  /\ files' = [files EXCEPT ![writer.path].payload = @ \o SubSeq(bytes, 1, whole)]
  /\ writer' = [writer EXCEPT !.appended = @ \o Encoded(record),
                              !.buffer = IF whole > 0
                                         THEN SubSeq(Encoded(record), 1, Len(bytes) - whole)
                                         ELSE bytes]
  /\ UNCHANGED stuck

\* append_records of one record.
AppendRecord(record) ==
  LET bytes == writer.buffer \o Encoded(record)
      whole == Flushed(bytes) IN
  /\ writer.state = "active"
  /\ files' = [files EXCEPT ![writer.path].payload = @ \o SubSeq(bytes, 1, whole)]
  /\ writer' = [writer EXCEPT !.appended = @ \o Encoded(record),
                              !.buffer = SubSeq(bytes, whole + 1, Len(bytes))]
  /\ UNCHANGED stuck

AppendFails(record) ==
  LET bytes == writer.buffer \o Encoded(record)
      whole == Flushed(bytes) IN
  /\ writer.state = "active" /\ whole > 0
  /\ Poison(SubSeq(bytes, 1, whole - 1))

\* finish_impl: the buffer, the length of the file, the header, close.
FinishFlush ==
  /\ writer.state = "active" /\ writer.step = "none"
  /\ files' = [files EXCEPT ![writer.path].payload = @ \o writer.buffer]
  /\ writer' = [writer EXCEPT !.buffer = <<>>, !.step = "flushed"]
  /\ UNCHANGED stuck

\* Mutant: the header goes in front of a payload that is still incomplete.
FinishHeader_Early ==
  /\ writer.state = "active" /\ writer.step \in {"none", "flushed"}
  /\ files' = [files EXCEPT ![writer.path].header = Header(writer.appended)]
  /\ writer' = [writer EXCEPT !.step = "headed"]
  /\ UNCHANGED stuck

\* A file of another length is refused: FinishFails.
FinishHeader ==
  /\ writer.state = "active" /\ writer.step = "flushed"
  /\ Len(File.payload) = Len(writer.appended)
  /\ files' = [files EXCEPT ![writer.path].header = Header(writer.appended)]
  /\ writer' = [writer EXCEPT !.step = "headed"]
  /\ UNCHANGED stuck

FinishClose ==
  /\ writer.state = "active" /\ writer.step = "headed"
  /\ writer' = [writer EXCEPT !.state = "finished", !.open = FALSE, !.owns = FALSE]
  /\ UNCHANGED <<files, stuck>>

\* One of the system calls of finish fails: write, fstat, pwrite or close.
FinishFails ==
  /\ writer.state = "active"
  /\ Poison(writer.buffer)
=============================================================================
