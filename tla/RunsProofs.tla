------------------------------- MODULE RunsProofs -------------------------------
(***************************************************************************)
(* What is promised of the runs on disk: of the initial ones, which the    *)
(* ingest writes, and of the generations that the compact edge merge makes.*)
(*                                                                         *)
(* THE INGEST.                                                             *)
(* For any digits, limits, capacities and sizes of buffers: no header ever *)
(* stands before a payload that it does not describe                       *)
(* (HeaderOnlyWhenWhole), an ingest that has failed leaves nothing but     *)
(* what could not be removed (FailureLeavesNothing), and the files are     *)
(* never more, in number or in bytes, than what was asked of the           *)
(* filesystem (IngestFitsItsPlan).                                         *)
(*                                                                         *)
(* The argument for the first.  The payload of an open file and the buffer *)
(* of its writer are together what was appended (WriterAgrees), wherever   *)
(* the buffer was flushed in the middle of a record; nothing is appended   *)
(* once finish has begun (RawAt, RunAt), so what is whole stays whole.     *)
(* For the second, there is no file but those that abort_noexcept knows by *)
(* name, the one that is being written and those that could not be removed *)
(* (NamesKnown), and an exception passes the writer of that one first.     *)
(* What a failed writer leaves behind has a placeholder for a header, or   *)
(* is whole (TornAgrees).                                                  *)
(*   For the third, the parser has seen four bytes for the header and four *)
(* for every row, but for the last line feed (Seen), so there are no more  *)
(* rows than the plan allows for the length of the text (RowsAreInText).   *)
(* The raw file has no more records than there were rows (EdgesCounted),   *)
(* and a run is cut only from a full buffer, but for the last: the runs    *)
(* before it, taken as full, and the buffer are what the rows have         *)
(* (EndpointsCounted).  So every file fits the place that it has in the    *)
(* plan (FilesFit), and SumHasRoom adds the files up.                      *)
(*                                                                         *)
(* THE MERGE.                                                              *)
(* What reduce_compact_edge_runs promises, for every set of edges, every   *)
(* fan-in and every number of initial runs.                                *)
(*                                                                         *)
(* No edge is lost (IInv).  While a pass runs, current is the frontier,    *)
(* and the runs made so far hold the edges of the runs consumed so far     *)
(* (PassIsExact).  The pass writes and cleans up one generation above the  *)
(* frontier, and removes only below it once it has moved (Placed).  What   *)
(* the caller may still know is an older frontier: either some run of it   *)
(* is gone, and the checks at the start of a call refuse it, or it is      *)
(* still whole (KnownIsWholeOrGone), because nothing is ever written into  *)
(* it.                                                                     *)
(*                                                                         *)
(* What a call leaves behind (RInv).  Beyond the frontier there is only    *)
(* what the present pass created, below it only what the present removal   *)
(* has not reached, unless a clean-up or a removal met an error.  A call   *)
(* starts at no older frontier, because the frontier's own name is among   *)
(* those it wants free: Lineage counts the passes, and needs the recursive *)
(* function Passes unfolded.                                               *)
(***************************************************************************)
EXTENDS Ingest, GenerationMerge, WellFoundedInduction, FiniteSetTheorems, SequenceTheorems, TLAPS

IsSeq(s) == s \in Seq(Range(s))

----------------------------------------------------------------------------
(* Sequences of bytes, whatever the bytes are.                             *)

LEMMA SomeSeq ==
  ASSUME NEW S, NEW s \in Seq(S)
  PROVE  IsSeq(s) /\ Len(s) \in Nat
BY SeqOfRange, LenProperties DEF IsSeq

\* Two sequences are over one set.
LEMMA Common ==
  ASSUME NEW s, NEW t, IsSeq(s), IsSeq(t)
  PROVE  \E S : s \in Seq(S) /\ t \in Seq(S)
<1> DEFINE S == Range(s) \union Range(t)
<1>1. s \in Seq(S) /\ t \in Seq(S)
  BY SeqMonotonic DEF IsSeq
<1> QED BY <1>1

LEMMA Concat ==
  ASSUME NEW s, NEW t, IsSeq(s), IsSeq(t)
  PROVE  IsSeq(s \o t) /\ Len(s \o t) = Len(s) + Len(t)
<1> PICK S : s \in Seq(S) /\ t \in Seq(S)
  BY Common
<1> QED BY ConcatProperties, SomeSeq

LEMMA ConcatTwice ==
  ASSUME NEW s, NEW t, NEW u, IsSeq(s), IsSeq(t), IsSeq(u)
  PROVE  (s \o t) \o u = s \o (t \o u)
<1> DEFINE S == (Range(s) \union Range(t)) \union Range(u)
<1>1. s \in Seq(S) /\ t \in Seq(S) /\ u \in Seq(S)
  BY SeqMonotonic DEF IsSeq
<1> HIDE DEF S
<1> QED BY <1>1, ConcatAssociative

\* A sequence that is cut is its two parts.
LEMMA InTwo ==
  ASSUME NEW s, IsSeq(s), NEW n \in 0 .. Len(s)
  PROVE  /\ IsSeq(SubSeq(s, 1, n)) /\ IsSeq(SubSeq(s, n + 1, Len(s)))
         /\ SubSeq(s, 1, n) \o SubSeq(s, n + 1, Len(s)) = s
<1> DEFINE S == Range(s)
<1>1. s \in Seq(S) /\ Len(s) \in Nat
  BY LenProperties DEF IsSeq
<1>2. \A i \in 1 .. Len(s) : s[i] \in S
  BY <1>1, ElementOfSeq
<1> HIDE DEF S
<1>3. SubSeq(s, 1, n) \in Seq(S)
  <2>1. \A i \in 1 .. n : s[i] \in S
    BY <1>1, <1>2
  <2> QED BY <2>1, SubSeqProperties
<1>4. SubSeq(s, n + 1, Len(s)) \in Seq(S)
  <2>1. \A i \in n + 1 .. Len(s) : s[i] \in S
    BY <1>1, <1>2
  <2>2. n + 1 \in Int /\ Len(s) \in Int
    BY <1>1
  <2> QED BY <2>1, <2>2, SubSeqProperties
<1>5. SubSeq(s, 1, n) \o SubSeq(s, n + 1, Len(s)) = SubSeq(s, 1, Len(s))
  <2>1. /\ 1 \in 1 .. Len(s) + 1 /\ n \in 1 - 1 .. Len(s) /\ Len(s) \in n .. Len(s)
    BY <1>1
  <2> QED BY <1>1, <2>1, ConcatAdjacentSubSeq
<1>6. SubSeq(s, 1, Len(s)) = s
  BY <1>1, SubSeqFull
<1> QED BY <1>3, <1>4, <1>5, <1>6, SomeSeq

\* What is flushed of some bytes, and what is kept: RunFile!Flushed.
Rounded(bytes, size)   == ((Len(bytes) - 1) \div size) * size
FlushedOf(bytes, size) == SubSeq(bytes, 1, Rounded(bytes, size))
KeptOf(bytes, size)    == SubSeq(bytes, Rounded(bytes, size) + 1, Len(bytes))

\* The whole buffers in a number of bytes are no more than there are.
LEMMA WholeBuffers ==
  ASSUME NEW n \in Nat, NEW size \in Nat \ {0}
  PROVE  (n \div size) * size \in 0 .. n
<1>1. n \div size \in Nat /\ (n \div size) * size <= n
  BY Z3
<1> QED BY <1>1

LEMMA RecordIsSeq ==
  ASSUME NEW record, NEW size \in Nat
  PROVE  /\ IsSeq([i \in 1 .. size |-> <<record, i>>])
         /\ Len([i \in 1 .. size |-> <<record, i>>]) = size
<1> DEFINE S == {<<record, i>> : i \in 1 .. size}
           s == [i \in 1 .. size |-> <<record, i>>]
<1>1. s \in [1 .. size -> S]
  OBVIOUS
<1>2. s \in Seq(S)
  BY <1>1, SeqDef
<1>3. Len(s) = size
  OBVIOUS
<1> QED BY <1>2, <1>3, SomeSeq

\* What is flushed and what is kept are all there is.
LEMMA Flushing ==
  ASSUME NEW bytes, NEW size \in Nat \ {0}, IsSeq(bytes), Len(bytes) \in Nat \ {0}
  PROVE  /\ IsSeq(FlushedOf(bytes, size)) /\ IsSeq(KeptOf(bytes, size))
         /\ FlushedOf(bytes, size) \o KeptOf(bytes, size) = bytes
<1>1. Rounded(bytes, size) \in 0 .. Len(bytes)
  <2>1. Rounded(bytes, size) \in 0 .. Len(bytes) - 1
    BY WholeBuffers DEF Rounded
  <2> QED BY <2>1
<1> QED BY <1>1, InTwo DEF FlushedOf, KeptOf

----------------------------------------------------------------------------
(* A writer and its file.  The operators of RunFile are the same for the   *)
(* raw file and for a run, so the lemmas take the writer w, its successor  *)
(* v, and the files before and after.                                      *)

IsWriter(w) ==
  w = [state |-> w.state, path |-> w.path, open |-> w.open, owns |-> w.owns,
       appended |-> w.appended, buffer |-> w.buffer, step |-> w.step]

IsFile(f) == f = [header |-> f.header, payload |-> f.payload]

AreFiles(fs) ==
  fs = [p \in DOMAIN fs |-> fs[p]] /\ \A p \in DOMAIN fs : IsFile(fs[p])

\* What HeaderOnlyWhenWhole says of one file.
Sound(f) == f.header = Raw!Placeholder \/ f.header = Raw!Header(f.payload)

\* The payload and the buffer are what was appended.
WriterAgrees(w, fs) ==
  /\ w.owns /\ w.path \in DOMAIN fs
  /\ IsSeq(fs[w.path].payload) /\ IsSeq(w.buffer)
  /\ w.step \in {"none", "flushed", "headed"}
  /\ w.step # "none" => w.buffer = <<>>
  /\ w.step # "headed" => fs[w.path].header = Raw!Placeholder
  /\ w.step = "none" => fs[w.path].payload \o w.buffer = w.appended
  /\ w.step = "flushed" => fs[w.path].payload = w.appended

\* What a step does to the file it writes.
WithPayload(fs, path, x) == [fs EXCEPT ![path].payload = x]
WithHeader(fs, path, x)  == [fs EXCEPT ![path].header = x]

LEMMA PayloadWritten ==
  ASSUME NEW fs, NEW gs, NEW path \in DOMAIN fs, NEW x, AreFiles(fs),
         gs = WithPayload(fs, path, x)
  PROVE  /\ AreFiles(gs) /\ DOMAIN gs = DOMAIN fs
         /\ gs[path].payload = x /\ gs[path].header = fs[path].header
         /\ \A p \in DOMAIN fs \ {path} : gs[p] = fs[p]
<1> DEFINE f == [header |-> fs[path].header, payload |-> x]
<1>1. fs[path] = [header |-> fs[path].header, payload |-> fs[path].payload]
  BY DEF AreFiles, IsFile
<1>2. [fs[path] EXCEPT !.payload = x] = f
  BY <1>1
<1>3. IsFile(f) /\ f.payload = x /\ f.header = fs[path].header
  BY DEF IsFile
<1>4. gs = [fs EXCEPT ![path] = f]
  BY <1>2 DEF WithPayload, WithHeader
<1> HIDE DEF f
<1>5. /\ DOMAIN gs = DOMAIN fs /\ gs[path] = f
      /\ \A p \in DOMAIN fs \ {path} : gs[p] = fs[p]
      /\ gs = [p \in DOMAIN gs |-> gs[p]]
  BY <1>4 DEF AreFiles
<1> QED BY <1>3, <1>5 DEF AreFiles

LEMMA HeaderWritten ==
  ASSUME NEW fs, NEW gs, NEW path \in DOMAIN fs, NEW x, AreFiles(fs),
         gs = WithHeader(fs, path, x)
  PROVE  /\ AreFiles(gs) /\ DOMAIN gs = DOMAIN fs
         /\ gs[path].header = x /\ gs[path].payload = fs[path].payload
         /\ \A p \in DOMAIN fs \ {path} : gs[p] = fs[p]
<1> DEFINE f == [header |-> x, payload |-> fs[path].payload]
<1>1. fs[path] = [header |-> fs[path].header, payload |-> fs[path].payload]
  BY DEF AreFiles, IsFile
<1>2. [fs[path] EXCEPT !.header = x] = f
  BY <1>1
<1>3. IsFile(f) /\ f.payload = fs[path].payload /\ f.header = x
  BY DEF IsFile
<1>4. gs = [fs EXCEPT ![path] = f]
  BY <1>2 DEF WithPayload, WithHeader
<1> HIDE DEF f
<1>5. /\ DOMAIN gs = DOMAIN fs /\ gs[path] = f
      /\ \A p \in DOMAIN fs \ {path} : gs[p] = fs[p]
      /\ gs = [p \in DOMAIN gs |-> gs[p]]
  BY <1>4 DEF AreFiles
<1> QED BY <1>3, <1>5 DEF AreFiles

\* AppendRecord, FinishFlush and FinishHeader, in terms of w, v, fs and gs.
Appends(w, v, fs, gs, record, n, size) ==
  LET encoded == [i \in 1 .. n |-> <<record, i>>]
      bytes == w.buffer \o encoded IN
  /\ gs = [fs EXCEPT ![w.path].payload = @ \o FlushedOf(bytes, size)]
  /\ v = [w EXCEPT !.appended = @ \o encoded, !.buffer = KeptOf(bytes, size)]

Flushes(w, v, fs, gs) ==
  /\ gs = [fs EXCEPT ![w.path].payload = @ \o w.buffer]
  /\ v = [w EXCEPT !.buffer = <<>>, !.step = "flushed"]

Heads(w, v, fs, gs) ==
  /\ gs = [fs EXCEPT ![w.path].header = Raw!Header(w.appended)]
  /\ v = [w EXCEPT !.step = "headed"]

\* What appending leaves.
Appended(w, v, fs, gs) ==
  /\ IsWriter(v) /\ AreFiles(gs) /\ WriterAgrees(v, gs)
  /\ v.state = w.state /\ v.path = w.path /\ v.open = w.open /\ v.step = "none"
  /\ DOMAIN gs = DOMAIN fs /\ Sound(gs[w.path])
  /\ \A p \in DOMAIN fs \ {w.path} : gs[p] = fs[p]

LEMMA AppendAgrees ==
  ASSUME NEW w, NEW v, NEW fs, NEW gs, NEW record, NEW n \in Nat \ {0}, NEW size \in Nat \ {0},
         IsWriter(w), AreFiles(fs), WriterAgrees(w, fs), w.step = "none",
         Appends(w, v, fs, gs, record, n, size)
  PROVE  Appended(w, v, fs, gs)
<1> DEFINE encoded == [i \in 1 .. n |-> <<record, i>>]
           bytes == w.buffer \o encoded
           flushed == FlushedOf(bytes, size)
           kept == KeptOf(bytes, size)
           payload == fs[w.path].payload
           written == payload \o flushed
           appended == w.appended \o encoded
<1>1. /\ gs = WithPayload(fs, w.path, written)
      /\ v = [w EXCEPT !.appended = appended, !.buffer = kept]
  BY DEF Appends, WithPayload
<1>2. w.path \in DOMAIN fs /\ IsSeq(payload) /\ IsSeq(w.buffer)
      /\ payload \o w.buffer = w.appended /\ fs[w.path].header = Raw!Placeholder
      /\ w.owns
  BY DEF WriterAgrees
<1>3. IsSeq(encoded) /\ Len(encoded) \in Nat \ {0}
  <2>1. IsSeq(encoded) /\ Len(encoded) = n
    BY ONLY n \in Nat, RecordIsSeq
  <2> HIDE DEF encoded
  <2> QED BY <2>1
<1> HIDE DEF encoded, payload
<1>4. IsSeq(bytes) /\ Len(bytes) \in Nat \ {0}
  <2>1. Len(w.buffer) \in Nat
    BY ONLY <1>2, SomeSeq DEF IsSeq
  <2>2. IsSeq(bytes) /\ Len(bytes) = Len(w.buffer) + Len(encoded)
    BY <1>2, <1>3, Concat
  <2> QED BY <1>3, <2>1, <2>2
<1>5. IsSeq(flushed) /\ IsSeq(kept) /\ flushed \o kept = bytes
  <2> HIDE DEF bytes
  <2> QED BY ONLY <1>4, size \in Nat \ {0}, Flushing DEF flushed, kept
<1> HIDE DEF flushed, kept
<1>6. IsSeq(written)
  BY <1>2, <1>5, Concat
<1>7. written \o kept = appended
  <2>1. /\ IsSeq(payload) /\ IsSeq(flushed) /\ IsSeq(kept)
        /\ IsSeq(w.buffer) /\ IsSeq(encoded)
    BY ONLY <1>2, <1>3, <1>5
  <2>2. (payload \o flushed) \o kept = payload \o (flushed \o kept)
    BY ONLY <2>1, ConcatTwice, SMTT(20)
  <2>3. (payload \o w.buffer) \o encoded = payload \o (w.buffer \o encoded)
    <3> DEFINE buffer == w.buffer
    <3>1. IsSeq(payload) /\ IsSeq(buffer) /\ IsSeq(encoded)
      BY <2>1
    <3> HIDE DEF buffer
    <3>2. (payload \o buffer) \o encoded = payload \o (buffer \o encoded)
      BY ONLY <3>1, ConcatTwice
    <3> QED BY <3>2 DEF buffer
  <2> QED BY <1>2, <1>5, <2>2, <2>3
<1> HIDE DEF bytes, written, appended
<1>8. /\ AreFiles(gs) /\ DOMAIN gs = DOMAIN fs
      /\ gs[w.path].payload = written /\ gs[w.path].header = fs[w.path].header
      /\ \A p \in DOMAIN fs \ {w.path} : gs[p] = fs[p]
  <2>1. w.path \in DOMAIN fs
    BY <1>2
  <2> QED BY ONLY <1>1, <2>1, AreFiles(fs), PayloadWritten
<1>9. /\ IsWriter(v) /\ v.appended = appended /\ v.buffer = kept
      /\ v.state = w.state /\ v.path = w.path /\ v.open = w.open /\ v.owns = w.owns
      /\ v.step = w.step
  BY <1>1 DEF IsWriter
<1>10. WriterAgrees(v, gs)
  BY <1>2, <1>5, <1>6, <1>7, <1>8, <1>9 DEF WriterAgrees
<1> QED BY <1>2, <1>8, <1>9, <1>10 DEF Sound, Appended

LEMMA FlushAgrees ==
  ASSUME NEW w, NEW v, NEW fs, NEW gs,
         IsWriter(w), AreFiles(fs), WriterAgrees(w, fs), w.step = "none",
         Flushes(w, v, fs, gs)
  PROVE  /\ IsWriter(v) /\ AreFiles(gs) /\ WriterAgrees(v, gs)
         /\ v.state = w.state /\ v.path = w.path /\ v.open = w.open
         /\ v.appended = w.appended /\ v.step = "flushed"
         /\ DOMAIN gs = DOMAIN fs /\ Sound(gs[w.path])
         /\ \A p \in DOMAIN fs \ {w.path} : gs[p] = fs[p]
<1> DEFINE written == fs[w.path].payload \o w.buffer
<1>1. gs = WithPayload(fs, w.path, written)
  BY DEF Flushes, WithPayload
<1>2. w.path \in DOMAIN fs /\ IsSeq(fs[w.path].payload) /\ IsSeq(w.buffer)
      /\ written = w.appended /\ fs[w.path].header = Raw!Placeholder
      /\ w.owns
  BY DEF WriterAgrees
<1>3. IsSeq(written)
  BY <1>2, Concat
<1> HIDE DEF written
<1>4. /\ AreFiles(gs) /\ DOMAIN gs = DOMAIN fs
      /\ gs[w.path].payload = written /\ gs[w.path].header = fs[w.path].header
      /\ \A p \in DOMAIN fs \ {w.path} : gs[p] = fs[p]
  <2>1. w.path \in DOMAIN fs
    BY <1>2
  <2> QED BY ONLY <1>1, <2>1, AreFiles(fs), PayloadWritten
<1>5. /\ IsWriter(v) /\ v.appended = w.appended /\ v.buffer = <<>>
      /\ v.state = w.state /\ v.path = w.path /\ v.open = w.open /\ v.owns = w.owns
      /\ v.step = "flushed"
  BY DEF Flushes, IsWriter
<1>6. IsSeq(<<>>)
  BY EmptySeq DEF IsSeq
<1>7. WriterAgrees(v, gs)
  BY <1>2, <1>3, <1>4, <1>5, <1>6 DEF WriterAgrees
<1> QED BY <1>2, <1>4, <1>5, <1>7 DEF Sound

LEMMA HeaderAgrees ==
  ASSUME NEW w, NEW v, NEW fs, NEW gs,
         IsWriter(w), AreFiles(fs), WriterAgrees(w, fs), w.step = "flushed",
         Heads(w, v, fs, gs)
  PROVE  /\ IsWriter(v) /\ AreFiles(gs) /\ WriterAgrees(v, gs)
         /\ v.state = w.state /\ v.path = w.path /\ v.open = w.open
         /\ v.appended = w.appended /\ v.step = "headed"
         /\ DOMAIN gs = DOMAIN fs /\ Sound(gs[w.path])
         /\ \A p \in DOMAIN fs \ {w.path} : gs[p] = fs[p]
<1>1. w.path \in DOMAIN fs /\ fs[w.path].payload = w.appended
      /\ IsSeq(fs[w.path].payload) /\ IsSeq(w.buffer) /\ w.owns
  BY DEF WriterAgrees
<1>2. /\ AreFiles(gs) /\ DOMAIN gs = DOMAIN fs
      /\ gs[w.path].header = Raw!Header(w.appended)
      /\ gs[w.path].payload = fs[w.path].payload
      /\ \A p \in DOMAIN fs \ {w.path} : gs[p] = fs[p]
  <2> DEFINE header == Raw!Header(w.appended)
  <2>1. gs = WithHeader(fs, w.path, header)
    BY DEF Heads, WithHeader
  <2> HIDE DEF header
  <2>2. /\ AreFiles(gs) /\ DOMAIN gs = DOMAIN fs
        /\ gs[w.path].header = header /\ gs[w.path].payload = fs[w.path].payload
        /\ \A p \in DOMAIN fs \ {w.path} : gs[p] = fs[p]
    BY ONLY <1>1, <2>1, AreFiles(fs), HeaderWritten
  <2> QED BY <2>2 DEF header
<1>3. /\ IsWriter(v) /\ v.appended = w.appended /\ v.buffer = w.buffer
      /\ v.state = w.state /\ v.path = w.path /\ v.open = w.open /\ v.owns = w.owns
      /\ v.step = "headed"
  BY DEF Heads, IsWriter
<1>4. WriterAgrees(v, gs)
  BY <1>1, <1>2, <1>3 DEF WriterAgrees
<1> QED BY <1>1, <1>2, <1>3, <1>4 DEF Sound

\* The beginning of some bytes.
LEMMA Beginning ==
  ASSUME NEW s, IsSeq(s), NEW n \in 0 .. Len(s)
  PROVE  IsSeq(SubSeq(s, 1, n)) /\ Len(SubSeq(s, 1, n)) = n
<1>1. IsSeq(SubSeq(s, 1, n))
  BY InTwo
<1>2. s \in Seq(Range(s)) /\ Len(s) \in Nat
  BY LenProperties DEF IsSeq
<1>3. \A i \in 1 .. n : s[i] \in Range(s)
  BY <1>2, ElementOfSeq
<1>4. Len(SubSeq(s, 1, n)) = n
  BY <1>2, <1>3, SubSeqProperties
<1> QED BY <1>1, <1>4

\* What Poison leaves of a file that stays: some of the bytes were written.
Torn(w, fs, gs, bytes) ==
  \E n \in 0 .. Len(bytes) :
    gs = [fs EXCEPT ![w.path].payload = @ \o SubSeq(bytes, 1, n)]

\* It is as sound as before, as its header is still the placeholder, or nothing
\* was to be written any more.
LEMMA TornAgrees ==
  ASSUME NEW w, NEW fs, NEW gs, NEW bytes,
         AreFiles(fs), WriterAgrees(w, fs), Sound(fs[w.path]),
         IsSeq(bytes), w.step = "none" \/ bytes = <<>>, Torn(w, fs, gs, bytes)
  PROVE  /\ AreFiles(gs) /\ DOMAIN gs = DOMAIN fs /\ Sound(gs[w.path])
         /\ \A p \in DOMAIN fs \ {w.path} : gs[p] = fs[p]
         /\ Len(gs[w.path].payload) \in Nat /\ Len(bytes) \in Nat
         /\ Len(gs[w.path].payload) <= Len(fs[w.path].payload) + Len(bytes)
<1>0. ASSUME NEW x, gs = WithPayload(fs, w.path, x)
      PROVE  /\ AreFiles(gs) /\ DOMAIN gs = DOMAIN fs
             /\ gs[w.path].payload = x /\ gs[w.path].header = fs[w.path].header
             /\ \A p \in DOMAIN fs \ {w.path} : gs[p] = fs[p]
  <2>1. w.path \in DOMAIN fs
    BY DEF WriterAgrees
  <2> QED BY ONLY <1>0, <2>1, AreFiles(fs), PayloadWritten
<1> DEFINE payload == fs[w.path].payload
<1>1. PICK n \in 0 .. Len(bytes) :
        gs = [fs EXCEPT ![w.path].payload = payload \o SubSeq(bytes, 1, n)]
  BY DEF Torn
<1> DEFINE part == SubSeq(bytes, 1, n)
           written == payload \o part
<1>2. gs = WithPayload(fs, w.path, written)
  BY <1>1 DEF WithPayload
<1>3. w.path \in DOMAIN fs /\ IsSeq(payload)
  BY DEF WriterAgrees
<1>4. IsSeq(part) /\ Len(part) = n
  BY ONLY IsSeq(bytes), n \in 0 .. Len(bytes), Beginning
<1>5. Len(payload) \in Nat /\ Len(bytes) \in Nat
  BY ONLY <1>3, IsSeq(bytes), SomeSeq DEF IsSeq
<1> HIDE DEF payload, part
<1>6. IsSeq(written) /\ Len(written) = Len(payload) + n
  BY <1>3, <1>4, Concat
<1>7. CASE w.step = "none"
  <2>1. fs[w.path].header = Raw!Placeholder
    BY <1>7 DEF WriterAgrees
  <2> HIDE DEF written
  <2>2. /\ AreFiles(gs) /\ DOMAIN gs = DOMAIN fs
        /\ gs[w.path].payload = written /\ gs[w.path].header = fs[w.path].header
        /\ \A p \in DOMAIN fs \ {w.path} : gs[p] = fs[p]
    BY <1>0, <1>2
  <2>3. Len(gs[w.path].payload) = Len(payload) + n /\ n \in Nat /\ n <= Len(bytes)
    BY <1>5, <1>6, <2>2
  <2>4. Len(gs[w.path].payload) \in Nat
        /\ Len(gs[w.path].payload) <= Len(payload) + Len(bytes)
    BY ONLY <1>5, <2>3
  <2> QED BY <1>5, <2>1, <2>2, <2>4 DEF Sound, payload
<1>8. CASE bytes = <<>>
  <2>1. Len(bytes) = 0
    BY <1>8, EmptySeq
  <2>2. part = <<>>
    <3>1. Len(part) = 0 /\ part \in Seq(Range(part))
      BY <1>4, <1>5, <2>1 DEF IsSeq
    <3> QED BY ONLY <3>1, EmptySeq
  <2>3. written = payload
    <3>1. payload \in Seq(Range(payload))
      BY <1>3 DEF IsSeq
    <3> QED BY <2>2, <3>1, ConcatEmptySeq
  <2> HIDE DEF written
  <2>4. /\ AreFiles(gs) /\ DOMAIN gs = DOMAIN fs
        /\ gs[w.path].payload = written /\ gs[w.path].header = fs[w.path].header
        /\ \A p \in DOMAIN fs \ {w.path} : gs[p] = fs[p]
    BY <1>0, <1>2
  <2>5. Len(gs[w.path].payload) = Len(payload)
    BY <2>3, <2>4
  <2> QED BY <1>5, <2>1, <2>3, <2>4, <2>5 DEF Sound, payload
<1> QED BY <1>7, <1>8

----------------------------------------------------------------------------
(* The invariant.                                                          *)

Types ==
  /\ IsWriter(raw_writer) /\ IsWriter(run_writer) /\ AreFiles(files)
  /\ completed_run_files \in Nat
  /\ summary = [raw_edge_count |-> summary.raw_edge_count,
                endpoint_ids_seen |-> summary.endpoint_ids_seen,
                endpoint_run_count |-> completed_run_files,
                endpoint_run_records |-> summary.endpoint_run_records]

\* The raw file is appended to until finish closes it.
RawAt ==
  raw_writer.state = "active" /\ pc # "done" =>
    /\ raw_writer.path = RawPath /\ WriterAgrees(raw_writer, files)
    /\ raw_writer.step # "none" => pc \in {"check", "unwind"}

\* A run is open in one place only, and complete before it is finished.
RunAt ==
  /\ run_writer.state = "active" =>
       /\ pc = "write_run" /\ run_writer.path = RunPath(completed_run_files)
       /\ WriterAgrees(run_writer, files)
       /\ run_writer.step # "none" => RunWritten
  /\ run_writer.open => run_writer.state = "active"

\* The run that is being written.
Written == IF run_writer.state = "active" THEN {run_writer.path} ELSE {}

\* What could not be removed was the file of a writer, or of abort_noexcept.
NamesKnown ==
  /\ pc # "done" => DOMAIN files \subseteq (Abandoned \union Written) \union stuck
  /\ stuck \subseteq DOMAIN files
  /\ stuck \subseteq Abandoned \union {RunPath(completed_run_files)}
  /\ pc \notin {"unwind", "done"} => stuck = {}
  /\ state = "active" <=> pc # "done"

IngestInv ==
  /\ Types /\ RawAt /\ RunAt /\ NamesKnown
  /\ HeaderOnlyWhenWhole /\ FailureLeavesNothing

\* flush_endpoint_run never returns to the end of the call.
Returns == after # "done"

LEMMA IngestStarts == IngestInit => IngestInv
<1> SUFFICES ASSUME IngestInit PROVE IngestInv
  OBVIOUS
<1>1. Types
  BY DEF IngestInit, Types, IsWriter, AreFiles, Raw!NoWriter, Run!NoWriter
<1> QED
  BY <1>1 DEF IngestInit, IngestInv, RawAt, RunAt, NamesKnown, HeaderOnlyWhenWhole,
     FailureLeavesNothing, Raw!NoWriter, Run!NoWriter, Abandoned, Written

\* The paths of the raw file and of the runs.
LEMMA PathsDiffer ==
  ASSUME NEW i, NEW j
  PROVE  RawPath # RunPath(i) /\ (RunPath(i) = RunPath(j) => i = j)
BY DEF RawPath, RunPath

\* A step that touches neither the files nor their writers.
LEMMA Quiet ==
  ASSUME IngestInv, UNCHANGED <<raw_writer, run_writer, files, completed_run_files, state, stuck>>,
         pc \notin {"write_run", "check", "unwind", "done"}, pc' # "done",
         summary' = [raw_edge_count |-> summary'.raw_edge_count,
                     endpoint_ids_seen |-> summary'.endpoint_ids_seen,
                     endpoint_run_count |-> summary.endpoint_run_count,
                     endpoint_run_records |-> summary.endpoint_run_records]
  PROVE  IngestInv'
<1>1. Types'
  BY DEF IngestInv, Types
<1>2. RawAt'
  BY DEF IngestInv, RawAt
<1>3. run_writer.state # "active" /\ ~run_writer.open
  BY DEF IngestInv, RunAt
<1>4. RunAt'
  BY <1>3 DEF RunAt
<1>5. NamesKnown'
  BY DEF IngestInv, NamesKnown, Abandoned, RunPaths, Written
<1>6. HeaderOnlyWhenWhole'
  BY DEF IngestInv, HeaderOnlyWhenWhole
<1>7. FailureLeavesNothing'
  BY <1>5 DEF NamesKnown, FailureLeavesNothing
<1> QED BY <1>1, <1>2, <1>4, <1>5, <1>6, <1>7 DEF IngestInv

Others == <<completed_run_files, summary, state>>

\* The raw file and its writer take a step.
LEMMA RawWrites ==
  ASSUME IngestInv, UNCHANGED <<run_writer, Others, stuck>>,
         pc \in {"parse", "check"}, pc' \in {"source", "check"}, raw_writer.state = "active",
         IsWriter(raw_writer'), AreFiles(files'), WriterAgrees(raw_writer', files'),
         raw_writer'.path = RawPath,
         raw_writer'.step # "none" => pc' = "check",
         DOMAIN files' = DOMAIN files, Sound(files'[RawPath]),
         \A p \in DOMAIN files \ {RawPath} : files'[p] = files[p]
  PROVE  IngestInv'
<1>1. Types'
  BY DEF IngestInv, Types, Others
<1>2. RawAt'
  BY DEF RawAt
<1>3. run_writer.state # "active" /\ ~run_writer.open
  BY DEF IngestInv, RunAt
<1>4. RunAt'
  BY <1>3 DEF RunAt
<1>5. NamesKnown'
  BY DEF IngestInv, NamesKnown, Abandoned, RunPaths, Written, Others
<1>6. HeaderOnlyWhenWhole'
  BY DEF IngestInv, HeaderOnlyWhenWhole, Sound
<1>7. FailureLeavesNothing'
  BY DEF IngestInv, NamesKnown, FailureLeavesNothing, Others
<1> QED BY <1>1, <1>2, <1>4, <1>5, <1>6, <1>7 DEF IngestInv

\* The run that is being written and its writer take a step.
LEMMA RunWrites ==
  ASSUME IngestInv, UNCHANGED <<raw_writer, Others, endpoints, stuck>>,
         pc = "write_run", pc' = "write_run", run_writer.state = "active",
         run_writer'.state = "active",
         IsWriter(run_writer'), AreFiles(files'), WriterAgrees(run_writer', files'),
         run_writer'.path = run_writer.path,
         run_writer'.step # "none" => RunWritten',
         DOMAIN files' = DOMAIN files, Sound(files'[run_writer.path]),
         \A p \in DOMAIN files \ {run_writer.path} : files'[p] = files[p]
  PROVE  IngestInv'
<1>1. Types'
  BY DEF IngestInv, Types, Others
<1>2. run_writer.path = RunPath(completed_run_files) /\ RawPath # run_writer.path
  BY PathsDiffer DEF IngestInv, RunAt
<1>3. RawAt'
  <2> SUFFICES ASSUME raw_writer.state = "active" PROVE RawAt'
    BY DEF RawAt
  <2>1. raw_writer.path = RawPath /\ WriterAgrees(raw_writer, files)
        /\ raw_writer.step = "none"
    BY DEF IngestInv, RawAt
  <2>2. RawPath \in DOMAIN files /\ files'[RawPath] = files[RawPath]
    BY <1>2, <2>1 DEF WriterAgrees
  <2>3. WriterAgrees(raw_writer, files')
    BY <2>1, <2>2 DEF WriterAgrees
  <2> QED BY <2>1, <2>3 DEF RawAt
<1>4. RunAt'
  BY <1>2 DEF RunAt, Others
<1>5. NamesKnown'
  BY DEF IngestInv, NamesKnown, Abandoned, RunPaths, Written, Others
<1>6. HeaderOnlyWhenWhole'
  BY DEF IngestInv, HeaderOnlyWhenWhole, Sound
<1>7. FailureLeavesNothing'
  BY DEF IngestInv, NamesKnown, FailureLeavesNothing, Others
<1> QED BY <1>1, <1>3, <1>4, <1>5, <1>6, <1>7 DEF IngestInv

\* What a failed system call makes of the files, and which of them stays.
Leaves(w, fs, gs, bytes, kept) ==
  \/ gs = [p \in DOMAIN fs \ {w.path} |-> fs[p]] /\ kept = {}
  \/ Torn(w, fs, gs, bytes) /\ kept = {w.path}

\* A system call of a writer fails: its file is gone, or is known to have stayed,
\* and the exception is on its way.
LEMMA PoisonLeaves ==
  ASSUME NEW w, NEW fs, NEW gs, NEW bytes, NEW kept,
         AreFiles(fs), WriterAgrees(w, fs), Sound(fs[w.path]),
         IsSeq(bytes), w.step = "none" \/ bytes = <<>>, Leaves(w, fs, gs, bytes, kept)
  PROVE  /\ AreFiles(gs) /\ DOMAIN gs \subseteq DOMAIN fs /\ DOMAIN gs \ {w.path} = DOMAIN fs \ {w.path}
         /\ \A p \in DOMAIN gs \ {w.path} : gs[p] = fs[p]
         /\ w.path \in DOMAIN gs =>
              /\ Sound(gs[w.path]) /\ w.path \in kept
              /\ Len(gs[w.path].payload) \in Nat /\ Len(bytes) \in Nat
              /\ Len(gs[w.path].payload) <= Len(fs[w.path].payload) + Len(bytes)
         /\ kept \subseteq {w.path} /\ kept \subseteq DOMAIN gs
<1>1. CASE gs = [p \in DOMAIN fs \ {w.path} |-> fs[p]] /\ kept = {}
  <2>1. DOMAIN gs = DOMAIN fs \ {w.path} /\ \A p \in DOMAIN gs : gs[p] = fs[p]
    BY <1>1
  <2>2. AreFiles(gs)
    BY <1>1, <2>1 DEF AreFiles
  <2> QED BY <1>1, <2>1, <2>2
<1>2. CASE Torn(w, fs, gs, bytes) /\ kept = {w.path}
  <2>1. /\ AreFiles(gs) /\ DOMAIN gs = DOMAIN fs /\ Sound(gs[w.path])
        /\ \A p \in DOMAIN fs \ {w.path} : gs[p] = fs[p]
        /\ Len(gs[w.path].payload) \in Nat /\ Len(bytes) \in Nat
        /\ Len(gs[w.path].payload) <= Len(fs[w.path].payload) + Len(bytes)
    BY <1>2, TornAgrees
  <2>2. w.path \in DOMAIN fs
    BY DEF WriterAgrees
  <2> QED BY <1>2, <2>1, <2>2
<1> QED BY <1>1, <1>2 DEF Leaves

LEMMA RawPoisoned ==
  ASSUME IngestInv, pc \in {"parse", "check"}, NEW bytes, IsSeq(bytes),
         raw_writer.state = "active", raw_writer.step = "none" \/ bytes = <<>>,
         Raw!Poison(bytes)
  PROVE  /\ AreFiles(files') /\ DOMAIN files' \subseteq DOMAIN files
         /\ \A p \in DOMAIN files' \ {RawPath} : files'[p] = files[p]
         /\ RawPath \in DOMAIN files' =>
              /\ Sound(files'[RawPath])
              /\ Len(files'[RawPath].payload) \in Nat /\ Len(bytes) \in Nat
              /\ Len(files'[RawPath].payload) <= Len(files[RawPath].payload) + Len(bytes)
         /\ stuck' \subseteq {RawPath} /\ stuck' \subseteq DOMAIN files'
         /\ raw_writer' = [raw_writer EXCEPT !.state = "failed", !.open = FALSE, !.owns = FALSE]
<1>1. /\ raw_writer.path = RawPath /\ WriterAgrees(raw_writer, files) /\ AreFiles(files)
      /\ Sound(files[RawPath]) /\ stuck = {}
  BY DEF IngestInv, Types, RawAt, NamesKnown, HeaderOnlyWhenWhole, Sound, WriterAgrees
<1>2. \/ files' = [p \in DOMAIN files \ {raw_writer.path} |-> files[p]] /\ stuck' = stuck
      \/ Torn(raw_writer, files, files', bytes) /\ stuck' = stuck \union {raw_writer.path}
  BY DEF Raw!Poison, Raw!Without, Torn
<1>3. raw_writer' = [raw_writer EXCEPT !.state = "failed", !.open = FALSE, !.owns = FALSE]
  BY DEF Raw!Poison
<1> DEFINE w == raw_writer
           fs == files
           gs == files'
           kept == stuck'
<1>4. /\ AreFiles(fs) /\ WriterAgrees(w, fs) /\ Sound(fs[w.path])
  BY <1>1
<1>5. w.step = "none" \/ bytes = <<>>
  OBVIOUS
<1>6. Leaves(w, fs, gs, bytes, kept)
  BY <1>1, <1>2 DEF Leaves
<1>7. w.path = RawPath
  BY <1>1
<1> HIDE DEF w, fs, gs, kept
<1>8. /\ AreFiles(gs) /\ DOMAIN gs \subseteq DOMAIN fs
      /\ \A p \in DOMAIN gs \ {w.path} : gs[p] = fs[p]
      /\ w.path \in DOMAIN gs =>
           /\ Sound(gs[w.path])
           /\ Len(gs[w.path].payload) \in Nat /\ Len(bytes) \in Nat
           /\ Len(gs[w.path].payload) <= Len(fs[w.path].payload) + Len(bytes)
      /\ kept \subseteq {w.path} /\ kept \subseteq DOMAIN gs
  BY ONLY <1>4, <1>5, <1>6, IsSeq(bytes), PoisonLeaves
<1> QED BY <1>3, <1>7, <1>8 DEF w, fs, gs, kept

LEMMA RunPoisoned ==
  ASSUME IngestInv, pc = "write_run", NEW bytes, IsSeq(bytes),
         run_writer.state = "active", run_writer.step = "none" \/ bytes = <<>>,
         Run!Poison(bytes), NEW path, path = RunPath(completed_run_files)
  PROVE  /\ run_writer.path = path
         /\ AreFiles(files') /\ DOMAIN files' \subseteq DOMAIN files
         /\ DOMAIN files' \ {path} = DOMAIN files \ {path}
         /\ \A p \in DOMAIN files' \ {path} : files'[p] = files[p]
         /\ path \in DOMAIN files' =>
              /\ Sound(files'[path]) /\ path \in stuck'
              /\ Len(files'[path].payload) \in Nat /\ Len(bytes) \in Nat
              /\ Len(files'[path].payload) <= Len(files[path].payload) + Len(bytes)
         /\ stuck' \subseteq {path} /\ stuck' \subseteq DOMAIN files'
         /\ run_writer' = [run_writer EXCEPT !.state = "failed", !.open = FALSE, !.owns = FALSE]
<1>1. /\ run_writer.path = path /\ WriterAgrees(run_writer, files) /\ AreFiles(files)
      /\ Sound(files[path]) /\ stuck = {}
  BY DEF IngestInv, Types, RunAt, NamesKnown, HeaderOnlyWhenWhole, Sound, WriterAgrees
<1>2. \/ files' = [p \in DOMAIN files \ {run_writer.path} |-> files[p]] /\ stuck' = stuck
      \/ Torn(run_writer, files, files', bytes) /\ stuck' = stuck \union {run_writer.path}
  BY DEF Run!Poison, Run!Without, Torn
<1>3. run_writer' = [run_writer EXCEPT !.state = "failed", !.open = FALSE, !.owns = FALSE]
  BY DEF Run!Poison
<1> DEFINE w == run_writer
           fs == files
           gs == files'
           kept == stuck'
<1>4. /\ AreFiles(fs) /\ WriterAgrees(w, fs) /\ Sound(fs[w.path])
  BY <1>1
<1>5. w.step = "none" \/ bytes = <<>>
  OBVIOUS
<1>6. Leaves(w, fs, gs, bytes, kept)
  BY <1>1, <1>2 DEF Leaves
<1>7. w.path = path
  BY <1>1
<1> HIDE DEF w, fs, gs, kept
<1>8. /\ AreFiles(gs) /\ DOMAIN gs \subseteq DOMAIN fs
      /\ DOMAIN gs \ {w.path} = DOMAIN fs \ {w.path}
      /\ \A p \in DOMAIN gs \ {w.path} : gs[p] = fs[p]
      /\ w.path \in DOMAIN gs =>
           /\ Sound(gs[w.path]) /\ w.path \in kept
           /\ Len(gs[w.path].payload) \in Nat /\ Len(bytes) \in Nat
           /\ Len(gs[w.path].payload) <= Len(fs[w.path].payload) + Len(bytes)
      /\ kept \subseteq {w.path} /\ kept \subseteq DOMAIN gs
  BY ONLY <1>4, <1>5, <1>6, IsSeq(bytes), PoisonLeaves
<1> QED BY <1>1, <1>3, <1>7, <1>8 DEF w, fs, gs, kept

LEMMA RawFails ==
  ASSUME IngestInv, UNCHANGED <<run_writer, Others>>, NEW bytes, IsSeq(bytes),
         pc \in {"parse", "check"}, pc' = "unwind", raw_writer.state = "active",
         raw_writer.step = "none" \/ bytes = <<>>, Raw!Poison(bytes)
  PROVE  IngestInv'
<1>1. /\ AreFiles(files') /\ DOMAIN files' \subseteq DOMAIN files
      /\ \A p \in DOMAIN files' \ {RawPath} : files'[p] = files[p]
      /\ RawPath \in DOMAIN files' => Sound(files'[RawPath])
      /\ stuck' \subseteq {RawPath} /\ stuck' \subseteq DOMAIN files'
      /\ raw_writer' = [raw_writer EXCEPT !.state = "failed", !.open = FALSE, !.owns = FALSE]
  BY RawPoisoned
<1>2. /\ IsWriter(raw_writer') /\ raw_writer'.state = "failed"
  BY <1>1 DEF IngestInv, Types, IsWriter
<1>3. run_writer.state # "active" /\ ~run_writer.open
  BY DEF IngestInv, RunAt
<1>4. Types' /\ RawAt' /\ RunAt'
  BY <1>1, <1>2, <1>3 DEF IngestInv, Types, RawAt, RunAt, Others
<1>5. NamesKnown'
  <2>1. stuck = {}
    BY DEF IngestInv, NamesKnown
  <2> QED
    BY <1>1, <1>3, <2>1 DEF IngestInv, NamesKnown, Abandoned, RunPaths, Written, Others
<1>6. HeaderOnlyWhenWhole'
  BY <1>1 DEF IngestInv, HeaderOnlyWhenWhole, Sound
<1>7. FailureLeavesNothing'
  BY DEF IngestInv, NamesKnown, FailureLeavesNothing, Others
<1> QED BY <1>4, <1>5, <1>6, <1>7 DEF IngestInv

LEMMA RunFails ==
  ASSUME IngestInv, UNCHANGED <<raw_writer, Others>>, NEW bytes, IsSeq(bytes),
         pc = "write_run", pc' = "unwind", run_writer.state = "active",
         run_writer.step = "none" \/ bytes = <<>>, Run!Poison(bytes)
  PROVE  IngestInv'
<1> DEFINE path == RunPath(completed_run_files)
<1>1. /\ run_writer.path = path
      /\ AreFiles(files') /\ DOMAIN files' \subseteq DOMAIN files
      /\ DOMAIN files' \ {path} = DOMAIN files \ {path}
      /\ \A p \in DOMAIN files' \ {path} : files'[p] = files[p]
      /\ path \in DOMAIN files' => Sound(files'[path]) /\ path \in stuck'
      /\ stuck' \subseteq {path} /\ stuck' \subseteq DOMAIN files'
      /\ run_writer' = [run_writer EXCEPT !.state = "failed", !.open = FALSE, !.owns = FALSE]
  BY RunPoisoned
<1>2. /\ IsWriter(run_writer') /\ run_writer'.state = "failed" /\ ~run_writer'.open
  BY <1>1 DEF IngestInv, Types, IsWriter
<1>3. RawPath # path
  BY PathsDiffer
<1>4. Types' /\ RunAt'
  BY <1>1, <1>2 DEF IngestInv, Types, RunAt, Others
<1>5. RawAt'
  BY <1>1, <1>3 DEF IngestInv, RawAt, WriterAgrees
<1>6. NamesKnown'
  <2>1. stuck = {}
    BY DEF IngestInv, NamesKnown
  <2> QED
    BY <1>1, <1>2, <2>1 DEF IngestInv, NamesKnown, Abandoned, RunPaths, Written, Others
<1>7. HeaderOnlyWhenWhole'
  BY <1>1 DEF IngestInv, HeaderOnlyWhenWhole, Sound
<1>8. FailureLeavesNothing'
  BY DEF IngestInv, NamesKnown, FailureLeavesNothing, Others
<1> QED BY <1>4, <1>5, <1>6, <1>7, <1>8 DEF IngestInv

\* What append_records had to write when it failed.
LEMMA FailedWrite ==
  ASSUME NEW w, NEW fs, NEW record, NEW n \in Nat \ {0}, NEW size \in Nat \ {0},
         NEW total, total = w.buffer \o [i \in 1 .. n |-> <<record, i>>],
         NEW bytes, bytes = SubSeq(total, 1, Rounded(total, size) - 1),
         WriterAgrees(w, fs), Rounded(total, size) > 0
  PROVE  IsSeq(bytes) /\ Len(bytes) < Len(w.buffer) + n
         /\ Len(bytes) \in Nat /\ Len(w.buffer) \in Nat
<1> DEFINE encoded == [i \in 1 .. n |-> <<record, i>>]
           buffer == w.buffer
<1>1. IsSeq(encoded) /\ Len(encoded) = n
  BY ONLY n \in Nat, RecordIsSeq
<1>2. IsSeq(buffer)
  BY DEF WriterAgrees
<1>3. Len(buffer) \in Nat
  BY ONLY <1>2, SomeSeq DEF IsSeq
<1>4. total = buffer \o encoded
  OBVIOUS
<1> HIDE DEF encoded, buffer
<1>5. IsSeq(total) /\ Len(total) = Len(buffer) + n
  BY <1>1, <1>2, <1>4, Concat
<1>6. Len(total) \in Nat \ {0}
  BY <1>3, <1>5
<1>7. Rounded(total, size) \in 0 .. Len(total) - 1
  <2>1. Len(total) - 1 \in Nat
    BY <1>6
  <2> QED BY ONLY <2>1, size \in Nat \ {0}, WholeBuffers DEF Rounded
<1>8. Rounded(total, size) - 1 \in 0 .. Len(total)
  BY <1>6, <1>7
<1>9. IsSeq(bytes) /\ Len(bytes) = Rounded(total, size) - 1
  BY <1>5, <1>8, Beginning
<1>10. Len(bytes) \in Nat /\ Len(bytes) < Len(total)
  BY <1>6, <1>7, <1>8, <1>9
<1> QED BY <1>3, <1>5, <1>9, <1>10 DEF buffer

----------------------------------------------------------------------------
(* The steps.                                                              *)

\* A file that create has made holds nothing.
LEMMA EmptyFileAgrees ==
  ASSUME NEW w, NEW fs, NEW path,
         w = [Raw!NoWriter EXCEPT !.state = "active", !.path = path,
                                  !.open = TRUE, !.owns = TRUE],
         AreFiles(files), path \notin DOMAIN files,
         fs = [p \in DOMAIN files \union {path} |->
                 IF p = path THEN Raw!EmptyFile ELSE files[p]]
  PROVE  /\ IsWriter(w) /\ AreFiles(fs) /\ WriterAgrees(w, fs) /\ Sound(fs[path])
         /\ w.state = "active" /\ w.path = path /\ w.step = "none" /\ w.open
         /\ DOMAIN fs = DOMAIN files \union {path}
         /\ \A p \in DOMAIN files : fs[p] = files[p]
<1>1. /\ IsWriter(w) /\ w.state = "active" /\ w.path = path /\ w.step = "none"
      /\ w.open /\ w.owns /\ w.buffer = <<>> /\ w.appended = <<>>
  BY DEF IsWriter, Raw!NoWriter
<1>2. /\ AreFiles(fs) /\ DOMAIN fs = DOMAIN files \union {path}
      /\ fs[path] = Raw!EmptyFile
      /\ \A p \in DOMAIN files : fs[p] = files[p]
  BY DEF AreFiles, IsFile, Raw!EmptyFile
<1>3. Raw!EmptyFile.header = Raw!Placeholder /\ Raw!EmptyFile.payload = <<>>
  BY DEF Raw!EmptyFile
<1>4. IsSeq(<<>>)
  BY EmptySeq DEF IsSeq
<1>5. <<>> \o <<>> = <<>>
  BY EmptySeq, ConcatEmptySeq
<1>6. WriterAgrees(w, fs)
  BY <1>1, <1>2, <1>3, <1>4, <1>5 DEF WriterAgrees
<1> QED BY <1>1, <1>2, <1>3, <1>6 DEF Sound

\* A file that cannot be created is not there, or has stayed empty.
LEMMA CreationFails ==
  ASSUME AreFiles(files), stuck = {}, NEW path,
         \/ UNCHANGED <<files, stuck>>
         \/ /\ path \notin DOMAIN files
            /\ files' = [p \in DOMAIN files \union {path} |->
                           IF p = path THEN Raw!EmptyFile ELSE files[p]]
            /\ stuck' = stuck \union {path}
  PROVE  /\ AreFiles(files') /\ stuck' \subseteq {path} /\ stuck' \subseteq DOMAIN files'
         /\ DOMAIN files' = DOMAIN files \union stuck'
         /\ \A p \in DOMAIN files : files'[p] = files[p]
         /\ path \in stuck' => /\ Sound(files'[path]) /\ Len(files'[path].payload) = 0
                              /\ path \notin DOMAIN files
<1>1. CASE UNCHANGED <<files, stuck>>
  BY <1>1
<1>2. CASE /\ path \notin DOMAIN files
           /\ files' = [p \in DOMAIN files \union {path} |->
                          IF p = path THEN Raw!EmptyFile ELSE files[p]]
           /\ stuck' = stuck \union {path}
  <2>1. /\ AreFiles(files') /\ Sound(files'[path])
        /\ DOMAIN files' = DOMAIN files \union {path}
        /\ \A p \in DOMAIN files : files'[p] = files[p]
    BY <1>2, EmptyFileAgrees
  <2>2. files'[path].payload = <<>>
    BY <1>2 DEF Raw!EmptyFile
  <2>3. Len(<<>>) = 0
    BY EmptySeq
  <2> QED BY <1>2, <2>1, <2>2, <2>3
<1> QED BY <1>1, <1>2

LEMMA CreateRawInv == IngestInv /\ CreateRaw => IngestInv'
<1> SUFFICES ASSUME IngestInv, CreateRaw PROVE IngestInv'
  OBVIOUS
<1>1. CASE Raw!Create(RawPath) /\ Go("parse")
  <2>1. /\ IsWriter(raw_writer') /\ AreFiles(files') /\ WriterAgrees(raw_writer', files')
        /\ Sound(files'[RawPath]) /\ UNCHANGED stuck
        /\ raw_writer'.path = RawPath /\ raw_writer'.step = "none"
        /\ DOMAIN files' = DOMAIN files \union {RawPath}
        /\ \A p \in DOMAIN files : files'[p] = files[p]
    BY <1>1, EmptyFileAgrees DEF Raw!Create, Raw!Created, IngestInv, Types
  <2>2. run_writer.state # "active" /\ ~run_writer.open
    BY DEF IngestInv, RunAt, CreateRaw
  <2>3. Types' /\ RawAt' /\ RunAt'
    BY <1>1, <2>1, <2>2 DEF IngestInv, Types, RawAt, RunAt, CreateRaw, bufferVars, Go
  <2>4. NamesKnown'
    BY <1>1, <2>1 DEF IngestInv, NamesKnown, Abandoned, RunPaths, Written, CreateRaw,
       bufferVars, Go
  <2>5. HeaderOnlyWhenWhole'
    BY <2>1 DEF IngestInv, HeaderOnlyWhenWhole, Sound
  <2>6. FailureLeavesNothing'
    BY DEF IngestInv, NamesKnown, FailureLeavesNothing, CreateRaw
  <2> QED BY <2>3, <2>4, <2>5, <2>6 DEF IngestInv
<1>2. CASE Raw!CreateFails(RawPath) /\ Go("unwind")
  <2>1. IsWriter(raw_writer') /\ raw_writer'.state = "none"
    BY <1>2 DEF Raw!CreateFails, Raw!NoWriter, IsWriter
  <2>2. /\ run_writer.state # "active" /\ ~run_writer.open /\ stuck = {}
        /\ AreFiles(files) /\ pc = "create"
    BY DEF IngestInv, Types, RunAt, NamesKnown, CreateRaw
  <2>3. /\ AreFiles(files') /\ stuck' \subseteq {RawPath} /\ stuck' \subseteq DOMAIN files'
        /\ DOMAIN files' = DOMAIN files \union stuck'
        /\ \A p \in DOMAIN files : files'[p] = files[p]
        /\ RawPath \in stuck' => Sound(files'[RawPath])
    BY <1>2, <2>2, CreationFails DEF Raw!CreateFails, Raw!Created
  <2>4. Types' /\ RawAt' /\ RunAt'
    BY <1>2, <2>1, <2>2, <2>3 DEF IngestInv, Types, RawAt, RunAt, CreateRaw, bufferVars, Go
  <2>5. NamesKnown'
    BY <1>2, <2>2, <2>3 DEF IngestInv, NamesKnown, Abandoned, RunPaths, Written, CreateRaw,
       bufferVars, Go
  <2>6. HeaderOnlyWhenWhole'
    BY <2>3 DEF IngestInv, HeaderOnlyWhenWhole, Sound
  <2>7. FailureLeavesNothing'
    BY <2>2 DEF IngestInv, NamesKnown, FailureLeavesNothing, CreateRaw
  <2> QED BY <2>4, <2>5, <2>6, <2>7 DEF IngestInv
<1> QED BY <1>1, <1>2 DEF CreateRaw

LEMMA CreateRunInv == IngestInv /\ CreateRun => IngestInv'
<1> SUFFICES ASSUME IngestInv, CreateRun PROVE IngestInv'
  OBVIOUS
<1>0. summary.endpoint_run_count = completed_run_files /\ pc = "create_run"
  BY DEF IngestInv, Types, CreateRun
<1>1. CASE Run!Create(RunPath(summary.endpoint_run_count)) /\ Go("write_run")
  <2> DEFINE path == RunPath(completed_run_files)
  <2>1. /\ IsWriter(run_writer') /\ AreFiles(files') /\ WriterAgrees(run_writer', files')
        /\ Sound(files'[path]) /\ UNCHANGED stuck
        /\ run_writer'.state = "active"
        /\ run_writer'.path = path /\ run_writer'.step = "none"
        /\ DOMAIN files' = DOMAIN files \union {path}
        /\ \A p \in DOMAIN files : files'[p] = files[p]
    BY <1>0, <1>1, EmptyFileAgrees
       DEF Run!Create, Run!Created, Run!NoWriter, Raw!NoWriter, Run!EmptyFile, Raw!EmptyFile,
           Run!Placeholder, Raw!Placeholder, IngestInv, Types
  <2>2. path \notin DOMAIN files /\ RawPath # path
    BY <1>0, <1>1, PathsDiffer DEF Run!Create, Run!Created
  <2>3. Types' /\ RunAt'
    BY <1>1, <2>1 DEF IngestInv, Types, RunAt, CreateRun, bufferVars, Go
  <2>4. RawAt'
    BY <1>0, <1>1, <2>1, <2>2 DEF IngestInv, RawAt, WriterAgrees, CreateRun, Go
  <2>5. NamesKnown'
    BY <1>0, <1>1, <2>1 DEF IngestInv, NamesKnown, RunAt, Abandoned, RunPaths, Written, CreateRun,
       bufferVars, Go
  <2>6. HeaderOnlyWhenWhole'
    BY <2>1 DEF IngestInv, HeaderOnlyWhenWhole, Sound
  <2>7. FailureLeavesNothing'
    BY <1>0 DEF IngestInv, NamesKnown, FailureLeavesNothing, CreateRun
  <2> QED BY <2>3, <2>4, <2>5, <2>6, <2>7 DEF IngestInv
<1>2. CASE Run!CreateFails(RunPath(summary.endpoint_run_count)) /\ Go("unwind")
  <2> DEFINE path == RunPath(completed_run_files)
  <2>1. IsWriter(run_writer') /\ run_writer'.state = "none" /\ ~run_writer'.open
    BY <1>2 DEF Run!CreateFails, Run!NoWriter, IsWriter
  <2>2. /\ run_writer.state # "active" /\ stuck = {} /\ AreFiles(files) /\ RawPath # path
    BY <1>0, PathsDiffer DEF IngestInv, Types, RunAt, NamesKnown
  <2>3. /\ AreFiles(files') /\ stuck' \subseteq {path} /\ stuck' \subseteq DOMAIN files'
        /\ DOMAIN files' = DOMAIN files \union stuck'
        /\ \A p \in DOMAIN files : files'[p] = files[p]
        /\ path \in stuck' => Sound(files'[path])
    BY <1>0, <1>2, <2>2, CreationFails
       DEF Run!CreateFails, Run!Created, Run!EmptyFile, Raw!EmptyFile,
           Run!Placeholder, Raw!Placeholder
  <2>4. Types' /\ RunAt'
    BY <1>0, <1>2, <2>1, <2>3 DEF IngestInv, Types, RunAt, CreateRun, bufferVars, Go
  <2>5. RawAt'
    BY <1>0, <1>2, <2>3 DEF IngestInv, RawAt, WriterAgrees, CreateRun, Go
  <2>6. NamesKnown'
    BY <1>0, <1>2, <2>2, <2>3 DEF IngestInv, NamesKnown, Abandoned, RunPaths, Written,
       CreateRun, bufferVars, Go
  <2>7. HeaderOnlyWhenWhole'
    BY <2>3 DEF IngestInv, HeaderOnlyWhenWhole, Sound
  <2>8. FailureLeavesNothing'
    BY <1>0 DEF IngestInv, NamesKnown, FailureLeavesNothing, CreateRun
  <2> QED BY <2>4, <2>5, <2>6, <2>7, <2>8 DEF IngestInv
<1> QED BY <1>1, <1>2 DEF CreateRun

\* The record after appended records, whatever it is.
LEMMA AppendRawInv == IngestInv /\ AppendRaw => IngestInv'
<1> SUFFICES ASSUME IngestInv, AppendRaw PROVE IngestInv'
  OBVIOUS
<1> DEFINE record == <<parser.source, parser.destination>>
<1>0. pc = "parse" /\ UNCHANGED <<run_writer, Others>>
  BY DEF AppendRaw, bufferVars, Others
<1>1. CASE Raw!AppendRecord(record) /\ Go("source")
  <2> HIDE DEF record
  <2>1. raw_writer.state = "active" /\ pc' = "source" /\ UNCHANGED stuck
    BY <1>1 DEF Raw!AppendRecord, Go
  <2>2. /\ raw_writer.path = RawPath /\ WriterAgrees(raw_writer, files)
        /\ raw_writer.step = "none" /\ IsWriter(raw_writer) /\ AreFiles(files)
    BY <1>0, <2>1 DEF IngestInv, RawAt, Types
  <2>3. RawRecordBytes \in Nat \ {0} /\ WriterBufferBytes \in Nat \ {0}
    BY IngestAssumption
  <2>4. /\ IsWriter(raw_writer') /\ AreFiles(files') /\ WriterAgrees(raw_writer', files')
        /\ raw_writer'.path = raw_writer.path /\ raw_writer'.step = "none"
        /\ DOMAIN files' = DOMAIN files /\ Sound(files'[raw_writer.path])
        /\ \A p \in DOMAIN files \ {raw_writer.path} : files'[p] = files[p]
    <3>1. Appends(raw_writer, raw_writer', files, files', record, RawRecordBytes, WriterBufferBytes)
      BY <1>1 DEF Appends, Raw!AppendRecord, Raw!Encoded, Raw!Flushed, Rounded, FlushedOf, KeptOf
    <3>2. Appended(raw_writer, raw_writer', files, files')
      BY ONLY <2>2, <2>3, <3>1, AppendAgrees
    <3> QED BY ONLY <3>2 DEF Appended
  <2> QED BY <1>0, <2>1, <2>2, <2>4, RawWrites
<1>2. CASE Raw!AppendFails(record) /\ Go("unwind")
  <2> HIDE DEF record
  <2> DEFINE total == raw_writer.buffer \o [i \in 1 .. RawRecordBytes |-> <<record, i>>]
             bytes == SubSeq(total, 1, Rounded(total, WriterBufferBytes) - 1)
  <2>1. /\ raw_writer.state = "active" /\ Rounded(total, WriterBufferBytes) > 0
        /\ Raw!Poison(bytes) /\ pc' = "unwind"
    BY <1>2 DEF Raw!AppendFails, Raw!Encoded, Raw!Flushed, Rounded, Go
  <2>2. WriterAgrees(raw_writer, files) /\ raw_writer.step = "none"
    BY <1>0, <2>1 DEF IngestInv, RawAt
  <2>3. RawRecordBytes \in Nat \ {0} /\ WriterBufferBytes \in Nat \ {0}
    BY IngestAssumption
  <2>4. IsSeq(bytes)
    BY ONLY <2>1, <2>2, <2>3, FailedWrite
  <2> HIDE DEF bytes
  <2> QED BY <1>0, <2>1, <2>2, <2>4, RawFails
<1>3. \/ Raw!AppendRecord(record) /\ Go("source")
      \/ Raw!AppendFails(record) /\ Go("unwind")
  BY DEF AppendRaw
<1> QED BY <1>1, <1>2, <1>3

LEMMA WriteRunInv == IngestInv /\ WriteRun => IngestInv'
<1> SUFFICES ASSUME IngestInv, WriteRun PROVE IngestInv'
  OBVIOUS
<1> DEFINE record == UniqueEndpoints[Len(run_writer.appended) \div IdRecordBytes + 1]
<1> HIDE DEF record
<1>0. pc = "write_run" /\ ~RunWritten /\ UNCHANGED <<raw_writer, endpoints, Others>>
  BY DEF WriteRun, bufferVars, Others
<1>1. CASE Run!AppendRecord(record) /\ UNCHANGED pc
  <2>1. run_writer.state = "active" /\ UNCHANGED stuck
    BY <1>1 DEF Run!AppendRecord
  <2>2. /\ WriterAgrees(run_writer, files) /\ run_writer.step = "none"
        /\ IsWriter(run_writer) /\ AreFiles(files)
    BY <1>0, <2>1 DEF IngestInv, RunAt, Types, WriterAgrees
  <2>3. IdRecordBytes \in Nat \ {0} /\ WriterBufferBytes \in Nat \ {0}
    BY IngestAssumption
  <2>4. /\ IsWriter(run_writer') /\ AreFiles(files') /\ WriterAgrees(run_writer', files')
        /\ run_writer'.path = run_writer.path /\ run_writer'.step = "none"
        /\ run_writer'.state = run_writer.state
        /\ DOMAIN files' = DOMAIN files /\ Sound(files'[run_writer.path])
        /\ \A p \in DOMAIN files \ {run_writer.path} : files'[p] = files[p]
    <3>1. Appends(run_writer, run_writer', files, files', record, IdRecordBytes, WriterBufferBytes)
      BY <1>1 DEF Appends, Run!AppendRecord, Run!Encoded, Run!Flushed, Rounded, FlushedOf, KeptOf
    <3>2. Appended(run_writer, run_writer', files, files')
      BY ONLY <2>2, <2>3, <3>1, AppendAgrees
    <3> QED BY ONLY <3>2 DEF Appended
  <2> QED BY <1>0, <1>1, <2>1, <2>2, <2>4, RunWrites
<1>2. CASE Run!AppendFails(record) /\ Go("unwind")
  <2> DEFINE total == run_writer.buffer \o [i \in 1 .. IdRecordBytes |-> <<record, i>>]
             bytes == SubSeq(total, 1, Rounded(total, WriterBufferBytes) - 1)
  <2>1. /\ run_writer.state = "active" /\ Rounded(total, WriterBufferBytes) > 0
        /\ Run!Poison(bytes) /\ pc' = "unwind"
    BY <1>2 DEF Run!AppendFails, Run!Encoded, Run!Flushed, Rounded, Go
  <2>2. WriterAgrees(run_writer, files) /\ run_writer.step = "none"
    BY <1>0, <2>1 DEF IngestInv, RunAt, WriterAgrees
  <2>3. IdRecordBytes \in Nat \ {0} /\ WriterBufferBytes \in Nat \ {0}
    BY IngestAssumption
  <2>4. IsSeq(bytes)
    BY ONLY <2>1, <2>2, <2>3, FailedWrite
  <2> HIDE DEF bytes
  <2> QED BY <1>0, <2>1, <2>2, <2>4, RunFails
<1> QED BY <1>1, <1>2 DEF WriteRun, record

LEMMA FinishRunInv == IngestInv /\ FinishRun => IngestInv'
<1> SUFFICES ASSUME IngestInv, FinishRun PROVE IngestInv'
  OBVIOUS
<1>0. /\ pc = "write_run" /\ RunWritten /\ UNCHANGED <<raw_writer, endpoints, Others>>
  BY DEF FinishRun, bufferVars, Others
<1>1. ASSUME run_writer.state = "active"
      PROVE  WriterAgrees(run_writer, files) /\ IsWriter(run_writer) /\ AreFiles(files)
  BY <1>1 DEF IngestInv, RunAt, Types
<1>2. CASE Run!FinishFlush /\ UNCHANGED pc
  <2>1. run_writer.state = "active" /\ run_writer.step = "none" /\ UNCHANGED stuck
    BY <1>2 DEF Run!FinishFlush
  <2>2. /\ IsWriter(run_writer') /\ AreFiles(files') /\ WriterAgrees(run_writer', files')
        /\ run_writer'.path = run_writer.path /\ run_writer'.appended = run_writer.appended
        /\ run_writer'.state = run_writer.state
        /\ DOMAIN files' = DOMAIN files /\ Sound(files'[run_writer.path])
        /\ \A p \in DOMAIN files \ {run_writer.path} : files'[p] = files[p]
    <3>1. Flushes(run_writer, run_writer', files, files')
      BY <1>2 DEF Flushes, Run!FinishFlush
    <3> QED BY <1>1, <2>1, <3>1, FlushAgrees
  <2>3. RunWritten'
    BY <1>0, <2>2 DEF RunWritten, UniqueEndpoints
  <2> QED BY <1>0, <1>2, <2>1, <2>2, <2>3, RunWrites
<1>3. CASE Run!FinishHeader /\ UNCHANGED pc
  <2>1. run_writer.state = "active" /\ run_writer.step = "flushed" /\ UNCHANGED stuck
    BY <1>3 DEF Run!FinishHeader
  <2>2. /\ IsWriter(run_writer') /\ AreFiles(files') /\ WriterAgrees(run_writer', files')
        /\ run_writer'.path = run_writer.path /\ run_writer'.appended = run_writer.appended
        /\ run_writer'.state = run_writer.state
        /\ DOMAIN files' = DOMAIN files /\ Sound(files'[run_writer.path])
        /\ \A p \in DOMAIN files \ {run_writer.path} : files'[p] = files[p]
    <3>1. Heads(run_writer, run_writer', files, files')
      BY <1>3 DEF Heads, Run!FinishHeader, Run!Header, Raw!Header
    <3> QED BY <1>1, <2>1, <3>1, HeaderAgrees
  <2>3. RunWritten'
    BY <1>0, <2>2 DEF RunWritten, UniqueEndpoints
  <2> QED BY <1>0, <1>3, <2>1, <2>2, <2>3, RunWrites
<1>4. CASE Run!FinishFails /\ Go("unwind")
  <2>1. run_writer.state = "active" /\ Run!Poison(run_writer.buffer) /\ pc' = "unwind"
    BY <1>4 DEF Run!FinishFails, Go
  <2>2. IsSeq(run_writer.buffer) /\ (run_writer.step = "none" \/ run_writer.buffer = <<>>)
    BY <1>1, <2>1 DEF WriterAgrees
  <2> QED BY <1>0, <2>1, <2>2, RunFails
<1> QED BY <1>2, <1>3, <1>4 DEF FinishRun

LEMMA FinishRawInv == IngestInv /\ FinishRaw => IngestInv'
<1> SUFFICES ASSUME IngestInv, FinishRaw PROVE IngestInv'
  OBVIOUS
<1>0. /\ pc = "check" /\ UNCHANGED <<run_writer, Others>>
  BY DEF FinishRaw, bufferVars, Others
<1>1. ASSUME raw_writer.state = "active"
      PROVE  /\ WriterAgrees(raw_writer, files) /\ IsWriter(raw_writer) /\ AreFiles(files)
             /\ raw_writer.path = RawPath
  BY <1>0, <1>1 DEF IngestInv, RawAt, Types
<1>2. CASE Raw!FinishFlush /\ UNCHANGED pc
  <2>1. raw_writer.state = "active" /\ raw_writer.step = "none" /\ UNCHANGED stuck
    BY <1>2 DEF Raw!FinishFlush
  <2>2. /\ IsWriter(raw_writer') /\ AreFiles(files') /\ WriterAgrees(raw_writer', files')
        /\ raw_writer'.path = raw_writer.path
        /\ DOMAIN files' = DOMAIN files /\ Sound(files'[raw_writer.path])
        /\ \A p \in DOMAIN files \ {raw_writer.path} : files'[p] = files[p]
    <3>1. Flushes(raw_writer, raw_writer', files, files')
      BY <1>2 DEF Flushes, Raw!FinishFlush
    <3> QED BY <1>1, <2>1, <3>1, FlushAgrees
  <2> QED BY <1>0, <1>1, <1>2, <2>1, <2>2, RawWrites
<1>3. CASE Raw!FinishHeader /\ UNCHANGED pc
  <2>1. raw_writer.state = "active" /\ raw_writer.step = "flushed" /\ UNCHANGED stuck
    BY <1>3 DEF Raw!FinishHeader
  <2>2. /\ IsWriter(raw_writer') /\ AreFiles(files') /\ WriterAgrees(raw_writer', files')
        /\ raw_writer'.path = raw_writer.path
        /\ DOMAIN files' = DOMAIN files /\ Sound(files'[raw_writer.path])
        /\ \A p \in DOMAIN files \ {raw_writer.path} : files'[p] = files[p]
    <3>1. Heads(raw_writer, raw_writer', files, files')
      BY <1>3 DEF Heads, Raw!FinishHeader
    <3> QED BY <1>1, <2>1, <3>1, HeaderAgrees
  <2> QED BY <1>0, <1>1, <1>3, <2>1, <2>2, RawWrites
<1>4. CASE Raw!FinishFails /\ Go("unwind")
  <2>1. raw_writer.state = "active" /\ Raw!Poison(raw_writer.buffer) /\ pc' = "unwind"
    BY <1>4 DEF Raw!FinishFails, Go
  <2>2. IsSeq(raw_writer.buffer) /\ (raw_writer.step = "none" \/ raw_writer.buffer = <<>>)
    BY <1>1, <2>1 DEF WriterAgrees
  <2> QED BY <1>0, <2>1, <2>2, RawFails
<1>5. CASE Go("unwind") /\ UNCHANGED <<raw_writer, files, stuck>>
  <2>1. Types' /\ RawAt' /\ RunAt'
    BY <1>0, <1>5 DEF IngestInv, Types, RawAt, RunAt, Others, Go
  <2>2. NamesKnown' /\ HeaderOnlyWhenWhole' /\ FailureLeavesNothing'
    BY <1>0, <1>5 DEF IngestInv, NamesKnown, Abandoned, RunPaths, Written,
       HeaderOnlyWhenWhole, FailureLeavesNothing, Others, Go
  <2> QED BY <2>1, <2>2 DEF IngestInv
<1> QED BY <1>2, <1>3, <1>4, <1>5 DEF FinishRaw

\* A run that is finished is a file that abort_noexcept knows by name.
LEMMA CloseRunInv == IngestInv /\ Returns /\ CloseRun => IngestInv'
<1> SUFFICES ASSUME IngestInv, Returns, CloseRun PROVE IngestInv'
  OBVIOUS
<1> DEFINE path == RunPath(completed_run_files)
<1>1. /\ pc = "write_run" /\ UNCHANGED <<raw_writer, files, state, stuck>>
      /\ completed_run_files' = completed_run_files + 1
      /\ completed_run_files \in Nat
      /\ run_writer.state = "active" /\ run_writer.path = path
  BY DEF IngestInv, Types, RunAt, CloseRun, Run!FinishClose
<1>2. IsWriter(run_writer') /\ run_writer'.state = "finished" /\ ~run_writer'.open
  BY DEF IngestInv, Types, CloseRun, Run!FinishClose, IsWriter
<1>3. pc' # "done"
  BY DEF Returns, CloseRun, Go
<1>4. Types'
  <2>1. summary' = [raw_edge_count |-> summary'.raw_edge_count,
                    endpoint_ids_seen |-> summary'.endpoint_ids_seen,
                    endpoint_run_count |-> completed_run_files + 1,
                    endpoint_run_records |-> summary'.endpoint_run_records]
    <3> DEFINE records == summary.endpoint_run_records + Len(UniqueEndpoints)
    <3>1. summary' = [summary EXCEPT !.endpoint_run_count = @ + 1,
                                     !.endpoint_run_records = records]
      BY DEF CloseRun
    <3> HIDE DEF records
    <3>2. /\ summary = [raw_edge_count |-> summary.raw_edge_count,
                        endpoint_ids_seen |-> summary.endpoint_ids_seen,
                        endpoint_run_count |-> summary.endpoint_run_count,
                        endpoint_run_records |-> summary.endpoint_run_records]
          /\ summary.endpoint_run_count = completed_run_files
      BY DEF IngestInv, Types
    <3> QED BY ONLY <3>1, <3>2
  <2> QED BY <1>1, <1>2, <2>1 DEF IngestInv, Types
<1>5. RawAt' /\ RunAt'
  BY <1>1, <1>2, <1>3 DEF IngestInv, RawAt, RunAt
<1>6. NamesKnown'
  <2>1. RunPaths' = RunPaths \union {path}
    <3>1. 0 .. (completed_run_files + 1) - 1 = (0 .. completed_run_files - 1) \union {completed_run_files}
      BY <1>1
    <3> QED BY <1>1, <3>1 DEF RunPaths
  <2>2. Written = {path} /\ Written' = {}
    BY <1>1, <1>2 DEF Written
  <2> QED BY <1>1, <1>3, <2>1, <2>2 DEF IngestInv, NamesKnown, Abandoned
<1>7. HeaderOnlyWhenWhole' /\ FailureLeavesNothing'
  BY <1>1 DEF IngestInv, NamesKnown, HeaderOnlyWhenWhole, FailureLeavesNothing
<1> QED BY <1>4, <1>5, <1>6, <1>7 DEF IngestInv

LEMMA CloseRawInv == IngestInv /\ CloseRaw => IngestInv'
<1> SUFFICES ASSUME IngestInv, CloseRaw PROVE IngestInv'
  OBVIOUS
<1>1. /\ pc = "check" /\ pc' = "done" /\ state' = "finished"
      /\ UNCHANGED <<files, run_writer, completed_run_files, summary, stuck>>
  BY DEF CloseRaw, Raw!FinishClose, Go, bufferVars
<1>2. IsWriter(raw_writer')
  BY DEF IngestInv, Types, CloseRaw, Raw!FinishClose, IsWriter
<1>3. Types' /\ RawAt' /\ RunAt'
  BY <1>1, <1>2 DEF IngestInv, Types, RawAt, RunAt
<1>4. NamesKnown' /\ HeaderOnlyWhenWhole' /\ FailureLeavesNothing'
  BY <1>1 DEF IngestInv, NamesKnown, HeaderOnlyWhenWhole, FailureLeavesNothing
<1> QED BY <1>3, <1>4 DEF IngestInv

\* No file is being written when abort_noexcept runs, so it knows them all.
LEMMA AbortInv ==
  ASSUME IngestInv, pc \in {"unwind", "parse"}, NEW how \in {"failed", "destroyed"}, Abort(how)
  PROVE  IngestInv'
<1>1. /\ run_writer.state # "active" /\ ~run_writer.open
      /\ DOMAIN files \subseteq Abandoned \union stuck /\ stuck \subseteq DOMAIN files
      /\ stuck \subseteq Abandoned \union {RunPath(completed_run_files)}
  BY DEF IngestInv, RunAt, NamesKnown, Written
<1>2. /\ pc' = "done" /\ state' = how
      /\ UNCHANGED <<run_writer, completed_run_files, summary>>
      /\ raw_writer' = [raw_writer EXCEPT !.open = FALSE, !.owns = FALSE]
  BY DEF Abort, Go, bufferVars
<1>3. PICK kept \in SUBSET (Abandoned \intersect DOMAIN files) :
        /\ files' = [p \in (DOMAIN files \ Abandoned) \union kept |-> files[p]]
        /\ stuck' = (stuck \ Abandoned) \union kept
  BY DEF Abort
<1>4. /\ DOMAIN files' = stuck' /\ stuck' \subseteq DOMAIN files
      /\ stuck' \subseteq Abandoned \union {RunPath(completed_run_files)}
      /\ files' = [p \in stuck' |-> files[p]]
      /\ \A p \in stuck' : files'[p] = files[p]
  <2>1. (DOMAIN files \ Abandoned) \union kept = (stuck \ Abandoned) \union kept
    BY <1>1
  <2>2. stuck' \subseteq DOMAIN files
        /\ stuck' \subseteq Abandoned \union {RunPath(completed_run_files)}
    BY <1>1, <1>3
  <2> QED BY <1>3, <2>1, <2>2
<1>5. IsWriter(raw_writer') /\ ~raw_writer'.open
  BY <1>2 DEF IngestInv, Types, IsWriter
<1>6. AreFiles(files')
  BY <1>4 DEF IngestInv, Types, AreFiles
<1>7. Types' /\ RawAt' /\ RunAt'
  BY <1>1, <1>2, <1>5, <1>6 DEF IngestInv, Types, RawAt, RunAt
<1>8. Abandoned' = Abandoned
  BY <1>2 DEF Abandoned, RunPaths
<1>9. NamesKnown' /\ HeaderOnlyWhenWhole'
  BY <1>2, <1>4, <1>8 DEF IngestInv, NamesKnown, HeaderOnlyWhenWhole
<1>10. FailureLeavesNothing'
  BY <1>1, <1>2, <1>4, <1>5, <1>8 DEF FailureLeavesNothing
<1> QED BY <1>7, <1>9, <1>10 DEF IngestInv

\* The steps of the parser and of the buffer of endpoints.
LEMMA QuietSteps ==
  ASSUME IngestInv, \/ Consume \/ CallFinish \/ Accept \/ LastRun
               \/ AppendEndpoint("source", "destination")
               \/ AppendEndpoint("destination", "accepted")
  PROVE  IngestInv'
<1> USE DEF IngestInv, Types
<1>1. CASE Consume
  BY <1>1, Quiet DEF Consume, Parsed, Go, bufferVars, writerVars
<1>2. CASE CallFinish
  BY <1>2, Quiet DEF CallFinish, Parsed, Go, bufferVars, writerVars
<1>3. CASE Accept
  BY <1>3, Quiet DEF Accept, Parsed, Go, writerVars
<1>4. CASE LastRun
  BY <1>4, Quiet DEF LastRun, Go, bufferVars, writerVars
<1>5. CASE AppendEndpoint("source", "destination")
  BY <1>5, Quiet DEF AppendEndpoint, Go, writerVars
<1>6. CASE AppendEndpoint("destination", "accepted")
  BY <1>6, Quiet DEF AppendEndpoint, Go, writerVars
<1> QED BY <1>1, <1>2, <1>3, <1>4, <1>5, <1>6

LEMMA IngestKept == IngestInv /\ Returns /\ [IngestNext]_ingestVars => IngestInv' /\ Returns'
<1> SUFFICES ASSUME IngestInv, Returns, [IngestNext]_ingestVars PROVE IngestInv' /\ Returns'
  OBVIOUS
<1>1. Returns'
  <2>1. UNCHANGED after \/ after' \in {"destination", "accepted", "check"}
    BY DEF IngestNext, ingestVars, CreateRaw, Consume, CallFinish, AppendRaw, AppendEndpoint,
       CreateRun, WriteRun, FinishRun, CloseRun, Accept, LastRun, FinishRaw, CloseRaw,
       Fail, Destroy, Abort
  <2> QED BY <2>1 DEF Returns
<1>2. IngestInv'
  <2>1. CASE CreateRaw
    BY <2>1, CreateRawInv
  <2>2. CASE \/ Consume \/ CallFinish \/ Accept \/ LastRun
             \/ AppendEndpoint("source", "destination")
             \/ AppendEndpoint("destination", "accepted")
    BY <2>2, QuietSteps
  <2>3. CASE AppendRaw
    BY <2>3, AppendRawInv
  <2>4. CASE CreateRun
    BY <2>4, CreateRunInv
  <2>5. CASE WriteRun
    BY <2>5, WriteRunInv
  <2>6. CASE FinishRun
    BY <2>6, FinishRunInv
  <2>7. CASE CloseRun
    BY <2>7, CloseRunInv
  <2>8. CASE FinishRaw
    BY <2>8, FinishRawInv
  <2>9. CASE CloseRaw
    BY <2>9, CloseRawInv
  <2>10. CASE Fail
    BY <2>10, AbortInv DEF Fail
  <2>11. CASE Destroy
    BY <2>11, AbortInv DEF Destroy
  <2>12. CASE UNCHANGED ingestVars
    <3>1. UNCHANGED <<pc, state, endpoints, summary, completed_run_files, raw_writer,
                      run_writer, files, stuck>>
      BY <2>12 DEF ingestVars, bufferVars, writerVars
    <3>2. Types' /\ RawAt'
      BY <3>1 DEF IngestInv, Types, RawAt
    <3>3. RunAt'
      BY <3>1 DEF IngestInv, RunAt, RunWritten, UniqueEndpoints
    <3>4. NamesKnown'
      BY <3>1 DEF IngestInv, NamesKnown, Abandoned, RunPaths, Written
    <3>5. HeaderOnlyWhenWhole'
      BY <3>1 DEF IngestInv, HeaderOnlyWhenWhole
    <3>6. Abandoned' = Abandoned
      BY <3>1 DEF Abandoned, RunPaths
    <3>7. FailureLeavesNothing'
      BY <3>1, <3>6 DEF IngestInv, FailureLeavesNothing
    <3> QED BY <3>2, <3>3, <3>4, <3>5, <3>7 DEF IngestInv
  <2> QED
    BY <2>1, <2>2, <2>3, <2>4, <2>5, <2>6, <2>7, <2>8, <2>9, <2>10, <2>11, <2>12 DEF IngestNext
<1> QED BY <1>1, <1>2

LEMMA IngestInvariance == IngestSpec => [](IngestInv /\ Returns)
<1>1. IngestInit => IngestInv /\ Returns
  BY IngestStarts DEF IngestInit, Returns
<1> QED BY <1>1, IngestKept, PTL DEF IngestSpec

\* Whenever the process dies, and wherever the buffer was flushed, a header
\* that can be read describes the payload behind it to the last byte
\* (run_file.cpp:240-287).
THEOREM WholeUnderItsHeader == IngestSpec => []HeaderOnlyWhenWhole
BY IngestInvariance, PTL DEF IngestInv

\* After any failure, in the parser, in a writer or in the creation of a file,
\* at any point, abort_noexcept leaves no descriptor open and no file but those
\* whose removal failed (ingest.cpp:388-409).
THEOREM FailedIngestLeavesNothing == IngestSpec => []FailureLeavesNothing
BY IngestInvariance, PTL DEF IngestInv

\* Every non-empty set of naturals has a least element.
LEMMA LeastNumber ==
  ASSUME NEW S, S \subseteq Nat, S # {}
  PROVE  \E k \in S : \A j \in S : k <= j
<1> DEFINE Below == {p \in Nat \X Nat : p[1] < p[2]}
<1>1. IsWellFoundedOn(Below, Nat)
  BY NatLessThanWellFounded DEF OpToRel
<1>2. \E k \in S : \A j \in S : <<j, k>> \notin Below
  BY <1>1, WFMin
<1>3. \A j, k \in S : <<j, k>> \notin Below => k <= j
  OBVIOUS
<1> QED
  BY <1>2, <1>3

----------------------------------------------------------------------------
(* Sums over finite sets: SumFunctionOnSet folds a set in an order nobody  *)
(* knows, and any order gives the same.                                    *)

SomeOf(s) == CHOOSE x \in s : TRUE

\* What SumFunctionOnSet makes of s, when it has the sums of smaller sets.
Adding(f, sum, s) == IF s = {} THEN 0 ELSE f[SomeOf(s)] + sum[s \ {SomeOf(s)}]

Sums(f, sum, S) == sum \in [SUBSET S -> Nat] /\ \A s \in SUBSET S : sum[s] = Adding(f, sum, s)

SumsTo(f, sum, S, n) ==
  /\ sum \in [SUBSET S -> Nat]
  /\ \A s \in SUBSET S : Cardinality(s) <= n => sum[s] = Adding(f, sum, s)

Solves(f, sum, S) ==
  sum = [s \in SUBSET S |-> IF s = {} THEN 0
                            ELSE f[CHOOSE x \in s : TRUE] + sum[s \ {CHOOSE x \in s : TRUE}]]

LEMMA SmallerSets ==
  ASSUME NEW S, IsFiniteSet(S), NEW s \in SUBSET S
  PROVE  /\ IsFiniteSet(s) /\ Cardinality(s) \in Nat
         /\ Cardinality(s) <= Cardinality(S)
         /\ s # {} => SomeOf(s) \in s
         /\ \A x \in s : /\ s \ {x} \in SUBSET S
                         /\ Cardinality(s \ {x}) = Cardinality(s) - 1
         /\ Cardinality(s) = 0 <=> s = {}
<1>1. IsFiniteSet(s) /\ Cardinality(s) <= Cardinality(S)
  BY FS_Subset
<1>2. Cardinality(s) \in Nat
  BY <1>1, FS_CardinalityType
<1>3. s # {} => SomeOf(s) \in s
  BY DEF SomeOf
<1>4. ASSUME NEW x \in s
      PROVE  s \ {x} \in SUBSET S /\ Cardinality(s \ {x}) = Cardinality(s) - 1
  BY <1>1, FS_RemoveElement
<1>5. Cardinality(s) = 0 <=> s = {}
  BY <1>1, FS_EmptySet
<1> QED
  BY <1>1, <1>2, <1>3, <1>4, <1>5

LEMMA SumsExist ==
  ASSUME NEW S, IsFiniteSet(S), NEW f, \A x \in S : f[x] \in Nat
  PROVE  \E sum : Sums(f, sum, S)
<1> DEFINE Missing == {n \in Nat : ~\E sum : SumsTo(f, sum, S, n)}
<1>1. Missing = {}
  <2> SUFFICES ASSUME Missing # {} PROVE FALSE
    OBVIOUS
  <2>1. PICK k \in Missing : \A j \in Missing : k <= j
    BY LeastNumber
  <2>2. k # 0
    <3> DEFINE sum == [s \in SUBSET S |-> 0]
    <3>1. ASSUME NEW s \in SUBSET S, Cardinality(s) <= 0 PROVE sum[s] = Adding(f, sum, s)
      <4>1. s = {}
        BY <3>1, SmallerSets
      <4> QED
        BY <4>1 DEF Adding
    <3>2. SumsTo(f, sum, S, 0)
      BY <3>1 DEF SumsTo
    <3> HIDE DEF sum
    <3> QED
      BY <2>1, <3>2
  <2>3. k - 1 \in Nat /\ k - 1 < k
    BY <2>1, <2>2
  <2>4. PICK smaller : SumsTo(f, smaller, S, k - 1)
    BY <2>1, <2>3
  <2> DEFINE sum == [s \in SUBSET S |-> IF Cardinality(s) < k THEN smaller[s]
                                       ELSE Adding(f, smaller, s)]
  <2>5. ASSUME NEW s \in SUBSET S
        PROVE  Adding(f, smaller, s) \in Nat
    <3>1. CASE s = {}
      BY <3>1 DEF Adding
    <3>2. CASE s # {}
      <4>1. SomeOf(s) \in s /\ s \ {SomeOf(s)} \in SUBSET S
        BY <3>2, SmallerSets
      <4>2. f[SomeOf(s)] \in Nat /\ smaller[s \ {SomeOf(s)}] \in Nat
        BY <2>4, <4>1 DEF SumsTo
      <4> QED
        BY <3>2, <4>2 DEF Adding
    <3> QED
      BY <3>1, <3>2
  <2>6. sum \in [SUBSET S -> Nat]
    BY <2>4, <2>5 DEF SumsTo
  <2>7. ASSUME NEW s \in SUBSET S, Cardinality(s) <= k
        PROVE  sum[s] = Adding(f, sum, s)
    <3>1. Cardinality(s) \in Nat /\ k \in Nat
      BY <2>1, SmallerSets
    <3>2. sum[s] = Adding(f, smaller, s)
      <4>1. CASE Cardinality(s) < k
        <5>1. Cardinality(s) <= k - 1
          BY <3>1, <4>1
        <5> QED
          BY <2>4, <4>1, <5>1 DEF SumsTo
      <4>2. CASE ~(Cardinality(s) < k)
        BY <4>2
      <4> QED
        BY <4>1, <4>2
    <3>3. Adding(f, smaller, s) = Adding(f, sum, s)
      <4>1. CASE s = {}
        BY <4>1 DEF Adding
      <4>2. CASE s # {}
        <5>1. PICK r : r = s \ {SomeOf(s)}
          OBVIOUS
        <5>2. r \in SUBSET S /\ Cardinality(r) = Cardinality(s) - 1
          BY <4>2, <5>1, SmallerSets
        <5>3. Cardinality(r) < k
          BY <2>7, <3>1, <5>2
        <5>4. sum[r] = smaller[r]
          BY <5>2, <5>3
        <5> HIDE DEF sum
        <5> QED
          BY <4>2, <5>1, <5>4 DEF Adding
      <4> QED
        BY <4>1, <4>2
    <3> QED
      BY <3>2, <3>3
  <2> HIDE DEF sum
  <2>8. SumsTo(f, sum, S, k)
    BY <2>6, <2>7 DEF SumsTo
  <2> QED
    BY <2>1, <2>8
<1>2. Cardinality(S) \in Nat
  BY FS_CardinalityType
<1>3. PICK sum : SumsTo(f, sum, S, Cardinality(S))
  BY <1>1, <1>2
<1>4. \A s \in SUBSET S : Cardinality(s) <= Cardinality(S)
  BY SmallerSets
<1> QED
  BY <1>3, <1>4 DEF Sums, SumsTo

\* An equation as that of SumFunctionOnSet has one solution.
LEMMA SumsAgree ==
  ASSUME NEW S, IsFiniteSet(S), NEW f, NEW sum, Sums(f, sum, S),
         NEW other, \A s \in SUBSET S : other[s] = Adding(f, other, s)
  PROVE  \A s \in SUBSET S : other[s] = sum[s]
<1> DEFINE Differ == {n \in Nat : \E s \in SUBSET S : Cardinality(s) = n /\ other[s] # sum[s]}
<1>1. Differ = {}
  <2> SUFFICES ASSUME Differ # {} PROVE FALSE
    OBVIOUS
  <2>1. PICK k \in Differ : \A j \in Differ : k <= j
    BY LeastNumber
  <2>2. PICK s \in SUBSET S : Cardinality(s) = k /\ other[s] # sum[s]
    BY <2>1
  <2>3. s # {}
    BY <2>2 DEF Sums, Adding
  <2>4. PICK r : r = s \ {SomeOf(s)}
    OBVIOUS
  <2>5. r \in SUBSET S /\ Cardinality(r) = k - 1 /\ Cardinality(r) \in Nat
    <3>1. SomeOf(s) \in s
      BY <2>3, SmallerSets
    <3>2. r \in SUBSET S /\ Cardinality(r) = k - 1
      BY <2>2, <2>4, <3>1, SmallerSets
    <3> QED
      BY <3>2, SmallerSets
  <2>6. other[r] = sum[r]
    BY <2>1, <2>5
  <2> QED
    BY <2>2, <2>3, <2>4, <2>6 DEF Sums, Adding
<1> QED
  <2>1. \A s \in SUBSET S : Cardinality(s) \in Nat
    BY SmallerSets
  <2> QED
    BY <1>1, <2>1

LEMMA SumIs ==
  ASSUME NEW S, IsFiniteSet(S), NEW f, NEW sum, Sums(f, sum, S)
  PROVE  SumFunctionOnSet(f, S) = sum[S]
<1>1. PICK chosen : chosen = CHOOSE other : Solves(f, other, S)
  OBVIOUS
<1>2. SumFunctionOnSet(f, S) = chosen[S]
  BY <1>1 DEF SumFunctionOnSet, FoldFunctionOnSet, MapThenFoldSet, Solves
<1>3. Solves(f, sum, S)
  BY DEF Sums, Adding, SomeOf, Solves
<1>4. Solves(f, chosen, S)
  BY <1>1, <1>3, Zenon
<1>5. \A s \in SUBSET S : chosen[s] = Adding(f, chosen, s)
  BY <1>4 DEF Adding, SomeOf, Solves
<1> QED
  BY <1>2, <1>5, SumsAgree

Weighs(f, S) == \A x \in S : f[x] \in Nat

AnyOrder(f, sum, S) == \A s \in SUBSET S : \A x \in s : sum[s] = f[x] + sum[s \ {x}]

\* The order does not matter.
LEMMA SumsWithout ==
  ASSUME NEW S, IsFiniteSet(S), NEW f, NEW sum, Sums(f, sum, S), Weighs(f, S)
  PROVE  AnyOrder(f, sum, S)
<1> USE DEF Weighs, AnyOrder
<1> DEFINE Wrong == {n \in Nat : \E s \in SUBSET S : \E x \in s :
                        Cardinality(s) = n /\ sum[s] # f[x] + sum[s \ {x}]}
<1>1. Wrong = {}
  <2> SUFFICES ASSUME Wrong # {} PROVE FALSE
    OBVIOUS
  <2>1. PICK k \in Wrong : \A j \in Wrong : k <= j
    BY LeastNumber
  <2>2. PICK s \in SUBSET S : \E x \in s : Cardinality(s) = k /\ sum[s] # f[x] + sum[s \ {x}]
    BY <2>1
  <2>3. PICK x \in s : Cardinality(s) = k /\ sum[s] # f[x] + sum[s \ {x}]
    BY <2>2
  <2>4. PICK y : y = SomeOf(s)
    OBVIOUS
  <2>5. y \in s
    BY <2>4, SmallerSets
  <2>6. sum[s] = f[y] + sum[s \ {y}]
    BY <2>4, <2>5 DEF Sums, Adding
  <2>7. x # y
    BY <2>3, <2>6
  <2>8. PICK r, t, u : r = s \ {x} /\ t = s \ {y} /\ u = r \ {y}
    OBVIOUS
  <2>9. /\ r \in SUBSET S /\ t \in SUBSET S /\ u \in SUBSET S /\ u = t \ {x}
        /\ y \in r /\ x \in t
    BY <2>3, <2>5, <2>7, <2>8
  <2>10. Cardinality(r) = k - 1 /\ Cardinality(t) = k - 1
    BY <2>3, <2>5, <2>8, SmallerSets
  <2>11. Cardinality(r) \in Nat /\ Cardinality(t) \in Nat
    BY <2>9, SmallerSets
  <2>12. ASSUME NEW w \in SUBSET S, NEW z \in w, Cardinality(w) = k - 1, Cardinality(w) \in Nat
         PROVE  sum[w] = f[z] + sum[w \ {z}]
    <3>1. k \in Nat /\ ~(k <= k - 1)
      BY <2>1
    <3>2. k - 1 \notin Wrong
      <4> HIDE DEF Wrong
      <4> QED
        BY <2>1, <3>1
    <3> QED
      BY <2>12, <3>2
  <2>13. sum[r] = f[y] + sum[u] /\ sum[t] = f[x] + sum[u]
    <3>1. sum[r] = f[y] + sum[r \ {y}]
      BY <2>9, <2>10, <2>11, <2>12
    <3>2. sum[t] = f[x] + sum[t \ {x}]
      BY <2>9, <2>10, <2>11, <2>12
    <3> QED
      BY <2>8, <2>9, <3>1, <3>2
  <2>14. sum[u] \in Nat /\ f[x] \in Nat /\ f[y] \in Nat
    BY <2>9 DEF Sums
  <2> QED
    BY <2>3, <2>6, <2>8, <2>13, <2>14
<1> QED
  <2>1. \A s \in SUBSET S : Cardinality(s) \in Nat
    BY SmallerSets
  <2> QED
    BY <1>1, <2>1

\* When the members have places of their own, and up to each of them there is
\* room for as much as they take, the sum is no more than the room there is.
LEMMA SumHasRoom ==
  ASSUME NEW S, IsFiniteSet(S), NEW f, \A x \in S : f[x] \in Nat,
         NEW n \in Nat, NEW at \in [S -> 0 .. n - 1],
         \A x, y \in S : at[x] = at[y] => x = y,
         NEW room \in [0 .. n -> Nat],
         \A j \in 0 .. n - 1 : room[j] <= room[j + 1],
         \A x \in S : room[at[x]] + f[x] <= room[at[x] + 1]
  PROVE  SumFunctionOnSet(f, S) \in Nat /\ SumFunctionOnSet(f, S) <= room[n]
<1>1. PICK sum : Sums(f, sum, S)
  BY SumsExist
<1>2. AnyOrder(f, sum, S)
  <2>1. Weighs(f, S)
    BY DEF Weighs
  <2> QED
    BY ONLY <1>1, <2>1, IsFiniteSet(S), SumsWithout
<1>3. PICK upto : upto = [j \in 0 .. n |-> {x \in S : at[x] < j}]
  OBVIOUS
<1>4. \A j \in 0 .. n : upto[j] \in SUBSET S /\ sum[upto[j]] \in Nat /\ room[j] \in Nat
  BY <1>1, <1>3 DEF Sums
<1> DEFINE Over == {j \in 0 .. n : ~(sum[upto[j]] <= room[j])}
<1>5. Over = {}
  <2> SUFFICES ASSUME Over # {} PROVE FALSE
    OBVIOUS
  <2>1. PICK k \in Over : \A j \in Over : k <= j
    <3>1. Over \subseteq Nat
      OBVIOUS
    <3> HIDE DEF Over
    <3> QED
      BY <3>1, LeastNumber
  <2>2. k \in 0 .. n /\ ~(sum[upto[k]] <= room[k])
    BY <2>1
  <2>3. k # 0
    <3>1. upto[0] = {}
      BY <1>3
    <3>2. sum[{}] = 0
      BY <1>1 DEF Sums, Adding
    <3>3. room[0] \in Nat
      BY <1>4
    <3>4. sum[upto[0]] <= room[0]
      BY ONLY <3>1, <3>2, <3>3
    <3> QED
      BY ONLY <2>2, <3>4
  <2>4. PICK j : j = k - 1
    OBVIOUS
  <2>5. j \in 0 .. n - 1 /\ j \in 0 .. n /\ j < k /\ k = j + 1 /\ j \notin Over
    <3>1. j \in 0 .. n - 1 /\ j \in 0 .. n /\ j < k /\ k = j + 1
      BY <2>2, <2>3, <2>4
    <3> HIDE DEF Over
    <3> QED
      BY <2>1, <2>2, <3>1
  <2>6. sum[upto[j]] <= room[j]
    BY <2>5
  <2>7. PICK s, t : s = upto[j] /\ t = upto[k]
    OBVIOUS
  <2>8. /\ s \in SUBSET S /\ t \in SUBSET S /\ sum[s] \in Nat /\ sum[t] \in Nat
        /\ room[j] \in Nat /\ room[k] \in Nat /\ room[j] <= room[k]
    BY <1>4, <2>2, <2>5, <2>7
  <2>9. s = {x \in S : at[x] < j} /\ t = {x \in S : at[x] < k}
    BY <1>3, <2>2, <2>5, <2>7
  <2>10. \A x \in S : at[x] \in Int /\ (at[x] < k <=> at[x] < j \/ at[x] = j)
    <3>1. \A x \in S : at[x] \in Int
      OBVIOUS
    <3> QED
      BY ONLY <2>5, <3>1
  <2> HIDE DEF Over
  <2>11. CASE \E x \in S : at[x] = j
    <3>1. PICK x \in S : at[x] = j
      BY <2>11
    <3>2. x \in t
      BY <2>9, <2>10, <3>1
    <3>3. x \notin s /\ t = s \union {x}
      BY <2>9, <2>10, <3>1
    <3>4. t \ {x} = s
      BY <3>3
    <3>6. sum[t] = f[x] + sum[s]
      BY ONLY <1>2, <2>8, <3>2, <3>4 DEF AnyOrder
    <3>7. room[j] + f[x] <= room[k] /\ f[x] \in Nat
      BY <2>5, <3>1
    <3> QED
      BY ONLY <2>2, <2>6, <2>7, <2>8, <3>6, <3>7
  <2>12. CASE ~\E x \in S : at[x] = j
    <3>1. s = t
      BY <2>9, <2>10, <2>12
    <3> QED
      BY ONLY <2>2, <2>6, <2>7, <2>8, <3>1
  <2> QED
    BY <2>11, <2>12
<1>6. upto[n] = S
  BY <1>3
<1>7. SumFunctionOnSet(f, S) = sum[S]
  BY <1>1, SumIs
<1>8. sum[upto[n]] <= room[n]
  BY <1>5
<1>9. sum[S] \in Nat
  BY <1>1 DEF Sums
<1> QED
  BY <1>6, <1>7, <1>8, <1>9

----------------------------------------------------------------------------
(* The files of an ingest and their plan.                                  *)

\* The rows of the longest list of edges in n bytes.
RowsIn(n) == raw_edge_count_upper_bound(
               IF n < MinimumCsvBytes THEN MinimumCsvBytes ELSE n, Len(Header))

\* The identifiers of the runs before the i-th and those of the i-th are no
\* more than k rows have.
FitsRun(f, i, k) ==
  \E n \in 0 .. EndpointIdsPerRun :
    /\ Len(f.payload) <= IdRecordBytes * n
    /\ i * EndpointIdsPerRun < 2 * k /\ i * EndpointIdsPerRun + n <= 2 * k

Fits(path, f, k) ==
  /\ Len(f.payload) \in Nat
  /\ \/ path = RawPath /\ Len(f.payload) <= RawRecordBytes * k
     \/ \E i \in Nat : path = RunPath(i) /\ FitsRun(f, i, k)

FilesFit == \A p \in DOMAIN files : Fits(p, files[p], RowsIn(Len(text)))

LEMMA DivAtMost ==
  ASSUME NEW n \in Nat, NEW d \in Nat \ {0}, NEW m \in Nat, n <= d * m
  PROVE  (n + d - 1) \div d \in Nat /\ (n + d - 1) \div d <= m
<1>1. PICK e, q : e = n + d - 1 /\ q = e \div d
  OBVIOUS
<1>2. e \in Nat /\ e < d * m + d
  BY <1>1
<1>3. q \in Nat /\ d * q <= e
  BY <1>1, <1>2
<1>4. q <= m
  <2> SUFFICES ASSUME ~(q <= m) PROVE FALSE
    OBVIOUS
  <2>1. PICK r \in Nat : q = m + 1 + r
    <3>1. q - m - 1 \in Nat /\ q = m + 1 + (q - m - 1)
      BY <1>3
    <3> QED
      BY <3>1
  <2>2. d * q = d * m + d + d * r
    BY ONLY <2>1, d \in Nat, m \in Nat
  <2>3. d * r \in Nat /\ d * m \in Nat /\ d * q \in Nat
    BY <1>3, <2>1
  <2> QED
    BY <1>2, <1>3, <2>2, <2>3
<1> QED
  BY <1>1, <1>3, <1>4

LEMMA DivAtLeast ==
  ASSUME NEW n \in Nat, NEW d \in Nat \ {0}, NEW m \in Nat, m * d <= n
  PROVE  n \div d \in Nat /\ m <= n \div d
<1>1. PICK q : q = n \div d
  OBVIOUS
<1>2. q \in Nat /\ n < d * q + d
  BY <1>1
<1>3. m <= q
  <2> SUFFICES ASSUME ~(m <= q) PROVE FALSE
    OBVIOUS
  <2>1. PICK r \in Nat : m = q + 1 + r
    <3>1. m - q - 1 \in Nat /\ m = q + 1 + (m - q - 1)
      BY <1>2
    <3> QED
      BY <3>1
  <2>2. m * d = d * q + d + d * r
    BY ONLY <1>2, <2>1, d \in Nat
  <2>3. d * r \in Nat /\ d * q \in Nat /\ m * d \in Nat
    BY <1>2, <2>1
  <2> QED
    BY <1>2, <2>2, <2>3
<1> QED
  BY <1>1, <1>2, <1>3

LEMMA RowsInIs ==
  ASSUME NEW n \in Nat
  PROVE  /\ RowsIn(n) \in Nat \ {0}
         /\ \A m \in Nat : n <= m => RowsIn(n) <= RowsIn(m)
         /\ \A k \in Nat : 3 + 4 * k <= n => k <= RowsIn(n)
<1>1. Len(Header) = 3
  BY DEF Header
<1> QED
  BY <1>1 DEF RowsIn, raw_edge_count_upper_bound, MinimumCsvBytes

\* The place of a file among those that are planned.
PlaceOf(path) == IF path = RawPath THEN 0 ELSE (CHOOSE i \in Nat : path = RunPath(i)) + 1

LEMMA PlacesAre ==
  ASSUME NEW i \in Nat
  PROVE  PlaceOf(RawPath) = 0 /\ PlaceOf(RunPath(i)) = i + 1
<1>1. RunPath(i) # RawPath /\ \A j \in Nat : RunPath(i) = RunPath(j) => i = j
  BY PathsDiffer
<1>2. (CHOOSE j \in Nat : RunPath(i) = RunPath(j)) = i
  BY <1>1
<1> QED
  BY <1>1, <1>2 DEF PlaceOf

\* What is planned for the files at the places before j.
RoomAt(k, j) ==
  IF j = 0 THEN 0
  ELSE FileBytes(k, 8) + (j - 1) * 48 + 4 * AtMost((j - 1) * EndpointIdsPerRun, 2 * k)

\* A file has its place, and takes no more than there is between this place
\* and the next.
LEMMA FileHasItsRoom ==
  ASSUME NEW k \in Nat \ {0}, NEW p \in DOMAIN files, Fits(p, files[p], k)
  PROVE  LET at == PlaceOf(p) IN
         /\ at \in 0 .. endpoint_run_count_upper_bound(k, EndpointIdsPerRun)
         /\ SizeOf(p) \in Nat
         /\ RoomAt(k, at) + SizeOf(p) <= RoomAt(k, at + 1)
         /\ IF p = RawPath THEN at = 0 ELSE at # 0 /\ p = RunPath(at - 1)
<1> DEFINE R == endpoint_run_count_upper_bound(k, EndpointIdsPerRun)
           bytes == Len(files[p].payload)
<1>0. /\ EndpointIdsPerRun \in Nat \ {0} /\ RawRecordBytes \in Nat \ {0}
      /\ IdRecordBytes \in Nat \ {0} /\ bytes \in Nat
  BY IngestAssumption DEF Fits
<1>1. R \in Nat \ {0} /\ R = 1 + (2 * k - 1) \div EndpointIdsPerRun
  BY <1>0 DEF endpoint_run_count_upper_bound, ceil_div_positive
<1> HIDE DEF R, bytes
<1>2. CASE p = RawPath /\ bytes <= RawRecordBytes * k
  <2>1. /\ (bytes + RawRecordBytes - 1) \div RawRecordBytes \in Nat
        /\ (bytes + RawRecordBytes - 1) \div RawRecordBytes <= k
    BY ONLY <1>0, <1>2, k \in Nat, DivAtMost
  <2>2. PlaceOf(p) = 0
    BY <1>2 DEF PlaceOf
  <2>3. SizeOf(p) = 48 + ((bytes + RawRecordBytes - 1) \div RawRecordBytes) * 8
    BY <1>2 DEF SizeOf, RecordsBegun, FileBytes, kBinaryHeaderBytes, kRawEdgeRunRecordBytes, bytes
  <2>4. RoomAt(k, 0) = 0 /\ RoomAt(k, 0 + 1) = 48 + k * 8
    BY <1>0 DEF RoomAt, FileBytes, kBinaryHeaderBytes, AtMost
  <2>5. SizeOf(p) \in Nat /\ SizeOf(p) <= 48 + k * 8
    BY <2>1, <2>3
  <2>6. 0 \in 0 .. R
    BY <1>1
  <2> QED
    BY <1>2, <2>2, <2>4, <2>5, <2>6 DEF R
<1>3. ASSUME NEW i \in Nat, p = RunPath(i), FitsRun(files[p], i, k)
      PROVE  /\ PlaceOf(p) = i + 1 /\ i + 1 \in 0 .. R /\ SizeOf(p) \in Nat
             /\ RoomAt(k, i + 1) + SizeOf(p) <= RoomAt(k, i + 2)
  <2>1. PICK n \in 0 .. EndpointIdsPerRun :
          /\ bytes <= IdRecordBytes * n
          /\ i * EndpointIdsPerRun < 2 * k /\ i * EndpointIdsPerRun + n <= 2 * k
    BY <1>3 DEF FitsRun, bytes
  <2>2. PICK before, upto : before = i * EndpointIdsPerRun /\ upto = (i + 1) * EndpointIdsPerRun
    OBVIOUS
  <2>3. before \in Nat /\ upto = before + EndpointIdsPerRun
    BY ONLY <1>0, <2>2, i \in Nat
  <2>4. PlaceOf(p) = i + 1
    BY <1>3, PlacesAre
  <2>5. i + 1 \in 0 .. R
    <3>1. 2 * k - 1 \in Nat /\ i * EndpointIdsPerRun <= 2 * k - 1
      BY <2>1, <2>2, <2>3
    <3>2. /\ (2 * k - 1) \div EndpointIdsPerRun \in Nat
          /\ i <= (2 * k - 1) \div EndpointIdsPerRun
      BY ONLY <1>0, <3>1, i \in Nat, DivAtLeast
    <3> QED
      BY ONLY <1>1, <3>2, i \in Nat
  <2>6. PICK m : m = (bytes + IdRecordBytes - 1) \div IdRecordBytes
    OBVIOUS
  <2>7. m \in Nat /\ m <= n
    <3>1. n \in Nat /\ bytes <= IdRecordBytes * n
      BY <1>0, <2>1
    <3> QED
      BY ONLY <1>0, <2>6, <3>1, DivAtMost
  <2>8. SizeOf(p) = 48 + m * 4
    <3>1. p # RawPath
      BY <1>3, PathsDiffer
    <3> QED
      BY <2>6, <3>1 DEF SizeOf, RecordsBegun, FileBytes, kBinaryHeaderBytes, kScalarRecordBytes, bytes
  <2>9. /\ RoomAt(k, i + 1) = 48 + k * 8 + i * 48 + 4 * before
        /\ RoomAt(k, i + 2) = 48 + k * 8 + (i + 1) * 48 + 4 * AtMost(upto, 2 * k)
    <3>1. i + 1 # 0 /\ i + 2 # 0 /\ (i + 1) - 1 = i /\ (i + 2) - 1 = i + 1
      OBVIOUS
    <3>2. AtMost(before, 2 * k) = before
      BY <2>1, <2>2 DEF AtMost
    <3> QED
      BY <2>2, <3>1, <3>2 DEF RoomAt, FileBytes, kBinaryHeaderBytes
  <2>10. before + n <= AtMost(upto, 2 * k) /\ AtMost(upto, 2 * k) \in Nat
    BY <1>0, <2>1, <2>2, <2>3 DEF AtMost
  <2> QED
    BY <2>1, <2>3, <2>4, <2>5, <2>7, <2>8, <2>9, <2>10
<1>4. CASE \E i \in Nat : p = RunPath(i) /\ FitsRun(files[p], i, k)
  <2>1. PICK i \in Nat : p = RunPath(i) /\ FitsRun(files[p], i, k)
    BY <1>4
  <2>2. /\ PlaceOf(p) = i + 1 /\ i + 1 \in 0 .. R /\ SizeOf(p) \in Nat
        /\ RoomAt(k, i + 1) + SizeOf(p) <= RoomAt(k, i + 2)
    BY <1>3, <2>1
  <2>3. (i + 1) - 1 = i /\ (i + 1) + 1 = i + 2 /\ i + 1 # 0
    OBVIOUS
  <2>4. p # RawPath
    BY <2>1, PathsDiffer
  <2> QED
    BY <2>1, <2>2, <2>3, <2>4 DEF R
<1> QED
  BY <1>2, <1>4 DEF Fits, bytes

\* The room of the places up to the last is what is planned.
LEMMA RoomIsPlanned ==
  ASSUME NEW k \in Nat \ {0}
  PROVE  LET R == endpoint_run_count_upper_bound(k, EndpointIdsPerRun) IN
         /\ R \in Nat
         /\ \A j \in 0 .. R + 1 : RoomAt(k, j) \in Nat
         /\ \A j \in 0 .. R : RoomAt(k, j) <= RoomAt(k, j + 1)
         /\ make_initial_run_disk_plan(k, EndpointIdsPerRun).files = R + 1
         /\ RoomAt(k, R + 1) <= make_initial_run_disk_plan(k, EndpointIdsPerRun).bytes
         /\ make_initial_run_disk_plan(k, EndpointIdsPerRun).bytes \in Int
<1> DEFINE R == endpoint_run_count_upper_bound(k, EndpointIdsPerRun)
           plan == make_initial_run_disk_plan(k, EndpointIdsPerRun)
<1>0. EndpointIdsPerRun \in Nat \ {0}
  BY IngestAssumption
<1>1. R \in Nat
  BY <1>0 DEF endpoint_run_count_upper_bound, ceil_div_positive
<1>2. plan.files = R + 1 /\ plan.bytes = 48 + k * 8 + R * 48 + 2 * k * 4
  BY DEF make_initial_run_disk_plan, Plan, FileBytes, kBinaryHeaderBytes,
         kRawEdgeRunRecordBytes, kScalarRecordBytes
<1> HIDE DEF R, plan
<1>3. ASSUME NEW j \in Nat
      PROVE  /\ RoomAt(k, j) \in Nat /\ RoomAt(k, j) <= RoomAt(k, j + 1)
             /\ RoomAt(k, j + 1) <= 48 + k * 8 + j * 48 + 2 * k * 4
  <2>1. PICK a, b : a = (j - 1) * EndpointIdsPerRun /\ b = j * EndpointIdsPerRun
    OBVIOUS
  <2>2. b \in Nat /\ a \in Int /\ b = a + EndpointIdsPerRun /\ (j # 0 => a \in Nat)
    <3>1. b \in Nat /\ a \in Int /\ b = a + EndpointIdsPerRun
      BY ONLY <1>0, <2>1, j \in Nat
    <3>2. ASSUME j # 0 PROVE a \in Nat
      <4>1. j - 1 \in Nat
        BY <3>2
      <4> QED
        BY ONLY <1>0, <2>1, <4>1
    <3> QED
      BY <3>1, <3>2
  <2>3. PICK x, y : x = AtMost(a, 2 * k) /\ y = AtMost(b, 2 * k)
    OBVIOUS
  <2>4. y \in Nat /\ y <= 2 * k /\ (j # 0 => x \in Nat /\ x <= y)
    BY <1>0, <2>2, <2>3 DEF AtMost
  <2>5. RoomAt(k, j + 1) = 48 + k * 8 + j * 48 + 4 * y
    <3>1. j + 1 # 0 /\ (j + 1) - 1 = j
      OBVIOUS
    <3> QED
      BY <2>1, <2>3, <3>1 DEF RoomAt, FileBytes, kBinaryHeaderBytes
  <2>6. RoomAt(k, j) = IF j = 0 THEN 0 ELSE 48 + k * 8 + (j - 1) * 48 + 4 * x
    BY <2>1, <2>3 DEF RoomAt, FileBytes, kBinaryHeaderBytes
  <2> QED
    BY <2>4, <2>5, <2>6
<1>4. RoomAt(k, R + 1) <= plan.bytes /\ plan.bytes \in Int
  <2>1. RoomAt(k, R + 1) <= 48 + k * 8 + R * 48 + 2 * k * 4
    BY <1>1, <1>3
  <2>2. plan.bytes = 48 + k * 8 + R * 48 + 2 * k * 4
    BY <1>2
  <2> QED
    BY ONLY <1>1, <2>1, <2>2, k \in Nat
<1>5. /\ \A j \in 0 .. R + 1 : RoomAt(k, j) \in Nat
      /\ \A j \in 0 .. R : RoomAt(k, j) <= RoomAt(k, j + 1)
  BY <1>1, <1>3
<1> QED
  BY <1>1, <1>2, <1>4, <1>5 DEF R, plan

LEMMA FilesFitThePlan ==
  ASSUME FilesFit, Len(text) \in Nat
  PROVE  IngestFitsItsPlan
<1> DEFINE k == RowsIn(Len(text))
           R == endpoint_run_count_upper_bound(k, EndpointIdsPerRun)
           plan == make_initial_run_disk_plan(k, EndpointIdsPerRun)
           S == DOMAIN files
           size == [path \in DOMAIN files |-> SizeOf(path)]
           at == [path \in DOMAIN files |-> PlaceOf(path)]
           room == [j \in 0 .. R + 1 |-> RoomAt(k, j)]
<1>1. k \in Nat \ {0}
  BY RowsInIs
<1>2. \A p \in S : Fits(p, files[p], k)
  BY DEF FilesFit
<1>3. IngestFitsItsPlan <=> /\ Cardinality(S) <= plan.files
                            /\ SumFunctionOnSet(size, S) <= plan.bytes
  BY DEF IngestFitsItsPlan, RowsIn
<1> HIDE DEF k
<1>4. /\ R \in Nat
      /\ \A j \in 0 .. R + 1 : RoomAt(k, j) \in Nat
      /\ \A j \in 0 .. R : RoomAt(k, j) <= RoomAt(k, j + 1)
      /\ plan.files = R + 1 /\ RoomAt(k, R + 1) <= plan.bytes /\ plan.bytes \in Int
  BY <1>1, RoomIsPlanned
<1>5. \A p \in S : /\ PlaceOf(p) \in 0 .. R /\ SizeOf(p) \in Nat
                   /\ RoomAt(k, PlaceOf(p)) + SizeOf(p) <= RoomAt(k, PlaceOf(p) + 1)
                   /\ IF p = RawPath THEN PlaceOf(p) = 0
                      ELSE PlaceOf(p) # 0 /\ p = RunPath(PlaceOf(p) - 1)
  <2>1. ASSUME NEW p \in S
        PROVE  /\ PlaceOf(p) \in 0 .. R /\ SizeOf(p) \in Nat
               /\ RoomAt(k, PlaceOf(p)) + SizeOf(p) <= RoomAt(k, PlaceOf(p) + 1)
               /\ IF p = RawPath THEN PlaceOf(p) = 0
                  ELSE PlaceOf(p) # 0 /\ p = RunPath(PlaceOf(p) - 1)
    BY <1>1, <1>2, FileHasItsRoom
  <2> QED
    BY <2>1
<1>6. \A p, q \in S : PlaceOf(p) = PlaceOf(q) => p = q
  BY <1>5, Zenon
<1> HIDE DEF R, plan
<1>7. /\ at \in [S -> 0 .. R] /\ \A p, q \in S : at[p] = at[q] => p = q
      /\ \A p \in S : at[p] = PlaceOf(p) /\ size[p] = SizeOf(p)
  BY <1>5, <1>6
<1>8. /\ room \in [0 .. R + 1 -> Nat] /\ \A j \in 0 .. R + 1 : room[j] = RoomAt(k, j)
  BY <1>4
<1> HIDE DEF at, size, room, S
<1>9. IsFiniteSet(S) /\ Cardinality(S) <= R + 1
  <2>1. at \in Injection(S, 0 .. R)
    BY <1>7 DEF Injection, IsInjective
  <2>2. IsFiniteSet(0 .. R) /\ Cardinality(0 .. R) = R + 1
    <3>1. 0 \in Int /\ R \in Int /\ ~(0 > R) /\ R - 0 + 1 = R + 1
      BY <1>4
    <3> QED
      BY ONLY <3>1, FS_Interval
  <2> QED
    BY <2>1, <2>2, FS_Injection
<1>10. SumFunctionOnSet(size, S) \in Nat /\ SumFunctionOnSet(size, S) <= room[R + 1]
  <2>1. PICK n : n = R + 1
    OBVIOUS
  <2>2. n \in Nat /\ 0 .. n - 1 = 0 .. R
    BY <1>4, <2>1
  <2>3. \A p \in S : size[p] \in Nat
    BY <1>5, <1>7
  <2>4. at \in [S -> 0 .. n - 1] /\ room \in [0 .. n -> Nat]
    BY <1>7, <1>8, <2>1, <2>2
  <2>5. \A j \in 0 .. n - 1 : room[j] <= room[j + 1]
    <3>1. ASSUME NEW j \in 0 .. R PROVE room[j] <= room[j + 1]
      <4>1. j \in 0 .. R + 1 /\ j + 1 \in 0 .. R + 1
        BY <1>4
      <4> QED
        BY <1>4, <1>8, <4>1
    <3> QED
      BY <2>2, <3>1
  <2>6. \A p \in S : room[at[p]] + size[p] <= room[at[p] + 1]
    <3>1. ASSUME NEW p \in S PROVE room[at[p]] + size[p] <= room[at[p] + 1]
      <4>1. PICK j : j = PlaceOf(p)
        OBVIOUS
      <4>2. j \in 0 .. R + 1 /\ j + 1 \in 0 .. R + 1 /\ at[p] = j /\ size[p] = SizeOf(p)
        <5>1. j \in 0 .. R
          BY <1>5, <4>1
        <5>2. at[p] = j /\ size[p] = SizeOf(p)
          BY <1>7, <4>1
        <5> QED
          BY ONLY <1>4, <5>1, <5>2
      <4>3. RoomAt(k, j) + SizeOf(p) <= RoomAt(k, j + 1)
        BY <1>5, <4>1
      <4> QED
        BY <1>8, <4>2, <4>3
    <3> QED
      BY <3>1
  <2>7. \A p, q \in S : at[p] = at[q] => p = q
    BY <1>7
  <2> QED
    BY ONLY <1>9, <2>1, <2>2, <2>3, <2>4, <2>5, <2>6, <2>7, SumHasRoom
<1>11. R + 1 \in 0 .. R + 1
  BY <1>4
<1>12. room[R + 1] <= plan.bytes
  BY <1>4, <1>8, <1>11
<1>13. SumFunctionOnSet(size, S) <= plan.bytes
  <2>1. room[R + 1] \in Nat /\ plan.bytes \in Int
    BY <1>4, <1>8, <1>11
  <2> QED
    BY ONLY <1>10, <1>12, <2>1
<1> QED
  BY <1>3, <1>4, <1>9, <1>13

----------------------------------------------------------------------------
(* The bytes that the parser has seen at least.                            *)

\* What a step of the parser is about here.
Fields == {"state", "column", "header_index", "data_rows", "in_consumer"}

SameFields(p, q) ==
  /\ Fields \subseteq DOMAIN p /\ Fields \subseteq DOMAIN q
  /\ p.state = q.state /\ p.column = q.column /\ p.header_index = q.header_index
  /\ p.data_rows = q.data_rows /\ p.in_consumer = q.in_consumer

InRow == {"leading", "need_digit", "digits", "trailing", "row_cr"}

\* The header takes four bytes, a row four, but for its last line feed.
Seen(s, column, consumer, index, rows, n) ==
  LET AtLeast(bytes) == 4 * rows + bytes <= n IN
  /\ rows \in Nat
  /\ consumer \in {"no", "line", "finish"} /\ column \in {"source", "destination"}
  /\ s \in {"header", "header_cr"} => rows = 0 /\ column = "source" /\ consumer = "no"
  /\ s = "header" => index \in 0 .. n
  /\ s = "row_cr" => column = "destination"
  /\ consumer # "no" => s \in InRow
  /\ rows = 0 \/ AtLeast(3)
  /\ s = "header_cr" => AtLeast(3)
  /\ s \in InRow => AtLeast(4)
  /\ s \in {"digits", "trailing"} => AtLeast(5)
  /\ s \in InRow /\ column = "destination" => AtLeast(6)
  /\ s \in {"digits", "trailing", "row_cr"} /\ column = "destination" => AtLeast(7)
  /\ consumer # "no" => AtLeast(7)
  /\ consumer = "line" => AtLeast(8)

Covers(p, n) ==
  /\ Fields \subseteq DOMAIN p
  /\ Seen(p.state, p.column, p.in_consumer, p.header_index, p.data_rows, n)

\* The rows that are counted, and the one that is with the consumer.
RowsOf(p) == p.data_rows + (IF p.in_consumer = "no" THEN 0 ELSE 1)

LEMMA RowsAreInText ==
  ASSUME NEW p, NEW n \in Nat, Covers(p, n)
  PROVE  /\ RowsOf(p) \in Nat /\ RowsOf(p) <= RowsIn(n) /\ p.data_rows \in Nat
         /\ RowsOf(p) = IF p.in_consumer = "no" THEN p.data_rows ELSE p.data_rows + 1
<1>1. RowsOf(p) \in Nat /\ (RowsOf(p) = 0 \/ 3 + 4 * RowsOf(p) <= n)
  BY DEF Covers, Seen, RowsOf, InRow
<1>2. RowsIn(n) \in Nat
  BY RowsInIs
<1>3. 3 + 4 * RowsOf(p) <= n => RowsOf(p) <= RowsIn(n)
  BY <1>1, RowsInIs
<1>4. p.data_rows \in Nat
  BY DEF Covers, Seen
<1>5. RowsOf(p) = IF p.in_consumer = "no" THEN p.data_rows ELSE p.data_rows + 1
  BY <1>4 DEF RowsOf
<1> QED
  BY <1>1, <1>2, <1>3, <1>4, <1>5

LEMMA Fails ==
  ASSUME NEW n \in Nat, NEW m \in Nat, n <= m, NEW line, Covers(parser, n),
         parser.in_consumer = "no", FailAt(line)
  PROVE  /\ Covers(parser', m)
         /\ parser'.data_rows = parser.data_rows /\ parser'.in_consumer = "no"
         /\ parser'.state = "failed"
BY DEF Covers, Seen, FailAt, Fields, InRow

\* What a byte may do to the fields.
Advance(s, column, consumer, q) ==
  /\ Fields \subseteq DOMAIN q /\ q.state = s /\ q.column = column
  /\ q.in_consumer = consumer /\ q.data_rows = parser.data_rows

\* A byte more in a row.
LEMMA SeenMore ==
  ASSUME NEW s, NEW column, NEW index, NEW later, NEW rows, NEW n \in Nat,
         Seen(s, column, "no", index, rows, n), s \in InRow
  PROVE  /\ s = "leading" => Seen("leading", column, "no", later, rows, n + 1)
         /\ s = "leading" => Seen("need_digit", column, "no", later, rows, n + 1)
         /\ s \in {"leading", "need_digit", "digits"} =>
              Seen("digits", column, "no", later, rows, n + 1)
         /\ s \in {"digits", "trailing"} =>
              /\ Seen("trailing", column, "no", later, rows, n + 1)
              /\ column = "source" => Seen("leading", "destination", "no", later, rows, n + 1)
              /\ column = "destination" =>
                   Seen("row_cr", "destination", "no", later, rows, n + 1)
         /\ s \in {"digits", "trailing", "row_cr"} /\ column = "destination" =>
              Seen(s, "destination", "line", later, rows, n + 1)
BY DEF Seen, InRow

LEMMA AdvanceCovers ==
  ASSUME NEW n, NEW s, NEW column, NEW consumer, Advance(s, column, consumer, parser'),
         Seen(s, column, consumer, parser'.header_index, parser.data_rows, n)
  PROVE  Covers(parser', n) /\ parser'.data_rows = parser.data_rows
BY DEF Advance, Covers

LEMMA DigitAppended ==
  ASSUME NEW p, NEW number, NEW digit, SameFields(p, parser), parser.in_consumer = "no",
         AppendDigit(p, number, digit)
  PROVE  \/ Advance("digits", parser.column, "no", parser')
         \/ FailInput
<1>1. CASE Appendable(number, digit)
  <2> DEFINE longer == [number EXCEPT !.has_digit = TRUE,
                          !.leading_zero = IF number.has_digit THEN @ ELSE digit = 0,
                          !.magnitude = 10 * @ + digit]
  <2>1. Enter([p EXCEPT !.number = longer], "digits")
    BY <1>1 DEF AppendDigit
  <2> HIDE DEF longer
  <2> QED
    BY <2>1 DEF Enter, Advance, SameFields, Fields
<1>2. CASE ~Appendable(number, digit)
  BY <1>2 DEF AppendDigit
<1> QED
  BY <1>1, <1>2

LEMMA NumberEnded ==
  ASSUME NEW p, NEW b, SameFields(p, parser), parser.in_consumer = "no",
         parser.column \in {"source", "destination"}, AfterNumber(p, b)
  PROVE  \/ Advance("trailing", parser.column, "no", parser')
         \/ parser.column = "source" /\ Advance("leading", "destination", "no", parser')
         \/ parser.column = "destination" /\ Advance(parser.state, "destination", "line", parser')
         \/ parser.column = "destination" /\ Advance("row_cr", "destination", "no", parser')
         \/ FailInput
BY DEF AfterNumber, Enter, Deliver, Advance, SameFields, Fields

LEMMA ByteCovered ==
  ASSUME NEW n \in Nat, Covers(parser, n), NEW b, ConsumeByte(b)
  PROVE  Covers(parser', n + 1) /\ parser'.data_rows = parser.data_rows
<1>0. /\ parser.in_consumer = "no" /\ parser.column \in {"source", "destination"}
      /\ Fields \subseteq DOMAIN parser
  BY DEF ConsumeByte, Covers, Seen
<1>1. ASSUME NEW line, FailAt(line)
      PROVE  Covers(parser', n + 1) /\ parser'.data_rows = parser.data_rows
  BY <1>0, <1>1, Fails
<1>2. ASSUME parser.state \in InRow
       PROVE  LET Later(s, column, consumer) ==
                Seen(s, column, consumer, parser'.header_index, parser.data_rows, n + 1) IN
              /\ parser.state = "leading" =>
                   Later("leading", parser.column, "no") /\ Later("need_digit", parser.column, "no")
              /\ parser.state \in {"leading", "need_digit", "digits"} =>
                   Later("digits", parser.column, "no")
              /\ parser.state \in {"digits", "trailing"} =>
                   /\ Later("trailing", parser.column, "no")
                   /\ parser.column = "source" => Later("leading", "destination", "no")
                   /\ parser.column = "destination" => Later("row_cr", "destination", "no")
              /\ parser.state \in {"digits", "trailing", "row_cr"} =>
                   (parser.column = "destination" => Later(parser.state, "destination", "line"))
  <2>1. Seen(parser.state, parser.column, "no", parser.header_index, parser.data_rows, n)
    BY <1>0 DEF Covers
  <2> QED
    BY <1>2, <2>1, SeenMore
<1>3. SameFields(parser, parser)
  BY <1>0 DEF SameFields
<1>4. FailInput => Covers(parser', n + 1) /\ parser'.data_rows = parser.data_rows
  BY <1>1 DEF FailInput
<1>5. ASSUME BeginDataLines, parser.state \in {"header", "header_cr"}, n >= 3
      PROVE  Covers(parser', n + 1) /\ parser'.data_rows = parser.data_rows
  BY <1>0, <1>5 DEF BeginDataLines, Enter, Covers, Seen, InRow, Fields
<1>6. CASE ConsumeHeader(b)
  <2>1. Len(Header) = 3
    BY DEF Header
  <2>2. parser.state = "header" /\ parser.header_index \in 0 .. n
    BY <1>6 DEF ConsumeHeader, Covers, Seen
  <2>3. CASE parser' = [parser EXCEPT !.header_index = @ + 1]
    BY <1>0, <2>2, <2>3 DEF Covers, Seen, InRow, Fields
  <2>4. CASE parser.header_index = 3 /\ BeginDataLines
    BY <1>5, <2>2, <2>4
  <2>5. CASE parser.header_index = 3 /\ Enter(parser, "header_cr")
    BY <1>0, <2>2, <2>5 DEF Enter, Covers, Seen, InRow, Fields
  <2> QED
    BY <1>4, <1>6, <2>1, <2>3, <2>4, <2>5 DEF ConsumeHeader
<1>7. CASE ConsumeHeaderCr(b)
  <2>1. parser.state = "header_cr" /\ n >= 3
    BY <1>7 DEF ConsumeHeaderCr, Covers, Seen
  <2> QED
    BY <1>4, <1>5, <1>7, <2>1 DEF ConsumeHeaderCr
<1>8. ASSUME Advance("digits", parser.column, "no", parser'),
             parser.state \in {"leading", "need_digit", "digits"}
      PROVE  Covers(parser', n + 1) /\ parser'.data_rows = parser.data_rows
  BY <1>8, <1>2, AdvanceCovers DEF InRow
<1>9. CASE ConsumeLeading(b)
  <2> DEFINE touched == [parser EXCEPT !.row_touched = TRUE]
  <2>1. SameFields(touched, parser)
    BY <1>0 DEF SameFields, Fields
  <2>2. parser.state = "leading"
    BY <1>9 DEF ConsumeLeading
  <2>3. CASE parser' = touched
    <3>1. Advance("leading", parser.column, "no", parser')
      BY <1>0, <2>1, <2>2, <2>3 DEF Advance, SameFields
    <3> QED
      BY <1>2, <2>2, <3>1, AdvanceCovers DEF InRow
  <2>4. CASE Enter([touched EXCEPT !.number = [NoNumber EXCEPT !.negative = TRUE]], "need_digit")
    <3>1. Advance("need_digit", parser.column, "no", parser')
      BY <1>0, <2>4 DEF Advance, Enter, Fields
    <3> QED
      BY <1>2, <2>2, <3>1, AdvanceCovers DEF InRow
  <2>5. CASE AppendDigit(touched, NoNumber, Digit[b])
    <3> HIDE DEF touched
    <3> QED
      BY <1>0, <1>4, <1>8, <2>1, <2>2, <2>5, DigitAppended
  <2> QED
    BY <1>4, <1>9, <2>3, <2>4, <2>5 DEF ConsumeLeading
<1>10. CASE ConsumeNeedDigit(b)
  BY <1>0, <1>3, <1>4, <1>8, <1>10, DigitAppended DEF ConsumeNeedDigit
<1>11. ASSUME NEW p, SameFields(p, parser), AfterNumber(p, b),
              parser.state \in {"digits", "trailing"}
       PROVE  Covers(parser', n + 1) /\ parser'.data_rows = parser.data_rows
  <2>1. CASE Advance("trailing", parser.column, "no", parser')
    BY <1>11, <1>2, <2>1, AdvanceCovers DEF InRow
  <2>2. CASE parser.column = "source" /\ Advance("leading", "destination", "no", parser')
    BY <1>11, <1>2, <2>2, AdvanceCovers DEF InRow
  <2>3. CASE parser.column = "destination" /\ Advance(parser.state, "destination", "line", parser')
    BY <1>11, <1>2, <2>3, AdvanceCovers DEF InRow
  <2>4. CASE parser.column = "destination" /\ Advance("row_cr", "destination", "no", parser')
    BY <1>11, <1>2, <2>4, AdvanceCovers DEF InRow
  <2> QED
    BY <1>0, <1>4, <1>11, <2>1, <2>2, <2>3, <2>4, NumberEnded
<1>12. CASE ConsumeDigits(b)
  <2>1. SameFields(Completed, parser)
    BY <1>0 DEF Completed, SameFields, Fields
  <2> QED
    BY <1>0, <1>3, <1>4, <1>8, <1>11, <1>12, <2>1, DigitAppended DEF ConsumeDigits
<1>13. CASE ConsumeTrailing(b)
  BY <1>3, <1>11, <1>13 DEF ConsumeTrailing
<1>14. CASE ConsumeRowCr(b)
  <2>1. CASE Deliver(parser, "line")
    <3>1. parser.state = "row_cr" /\ parser.column = "destination"
      BY <1>14 DEF ConsumeRowCr, Covers, Seen
    <3>2. Advance("row_cr", "destination", "line", parser')
      BY <1>0, <2>1, <3>1 DEF Deliver, Advance, Fields
    <3> QED
      BY <1>2, <3>1, <3>2, AdvanceCovers DEF InRow
  <2> QED
    BY <1>4, <1>14, <2>1 DEF ConsumeRowCr
<1> QED
  BY <1>6, <1>7, <1>9, <1>10, <1>12, <1>13, <1>14 DEF ConsumeByte

LEMMA FinishCovered ==
  ASSUME NEW n \in Nat, Covers(parser, n), FinishText
  PROVE  Covers(parser', n) /\ parser'.data_rows = parser.data_rows
<1>1. /\ parser.in_consumer = "no" /\ Fields \subseteq DOMAIN parser
      /\ Seen(parser.state, parser.column, "no", parser.header_index, parser.data_rows, n)
  BY DEF FinishText, Covers
<1>2. ASSUME NEW line, FailAt(line)
      PROVE  Covers(parser', n) /\ parser'.data_rows = parser.data_rows
  BY <1>1, <1>2, Fails
<1>3. CASE /\ parser.column = "destination" /\ parser.state \in {"digits", "trailing"}
           /\ Deliver([parser EXCEPT !.destination = completed_number], "finish")
  <2>1. Advance(parser.state, "destination", "finish", parser')
    BY <1>1, <1>3 DEF Deliver, Advance, Fields
  <2>2. Seen(parser.state, "destination", "finish", parser'.header_index, parser.data_rows, n)
    BY <1>1, <1>3 DEF Seen, InRow
  <2> QED
    BY <2>1, <2>2, AdvanceCovers
<1>4. CASE EmptyRow(parser) /\ Enter(parser, "finished")
  <2>1. Advance("finished", "source", "no", parser')
    BY <1>1, <1>4 DEF EmptyRow, Enter, Advance, Fields
  <2>2. Seen("finished", "source", "no", parser'.header_index, parser.data_rows, n)
    BY <1>1, <1>4 DEF EmptyRow, Seen, InRow
  <2> QED
    BY <2>1, <2>2, AdvanceCovers
<1>5. CASE FailAt(2) \/ FailInput
  BY <1>2, <1>5 DEF FailInput
<1> QED
  BY <1>3, <1>4, <1>5 DEF FinishText

LEMMA SeenRow ==
  ASSUME NEW s, NEW column, NEW consumer, NEW index, NEW later, NEW rows, NEW n \in Nat,
         Seen(s, column, consumer, index, rows, n)
  PROVE  /\ consumer = "line" => Seen("leading", "source", "no", later, rows + 1, n)
         /\ consumer = "finish" => Seen("finished", column, "no", later, rows + 1, n)
BY DEF Seen, InRow

LEMMA ReturnCovered ==
  ASSUME NEW n \in Nat, Covers(parser, n), ConsumerReturns
  PROVE  /\ Covers(parser', n) /\ parser'.data_rows = parser.data_rows + 1
         /\ parser'.in_consumer = "no" /\ parser'.state \in {"leading", "finished"}
<1>1. /\ Fields \subseteq DOMAIN parser
      /\ Seen(parser.state, parser.column, parser.in_consumer, parser.header_index,
              parser.data_rows, n)
  BY DEF Covers
<1>2. CASE parser.in_consumer = "line" /\ parser' = RowEnded(parser)
  <2>1. /\ Fields \subseteq DOMAIN parser' /\ parser'.state = "leading"
        /\ parser'.column = "source" /\ parser'.in_consumer = "no"
        /\ parser'.data_rows = parser.data_rows + 1
    BY <1>1, <1>2 DEF RowEnded, Fields
  <2>2. Seen("leading", "source", "no", parser'.header_index, parser.data_rows + 1, n)
    BY <1>1, <1>2, SeenRow
  <2> QED
    BY <2>1, <2>2 DEF Covers
<1>3. CASE /\ parser.in_consumer = "finish"
           /\ parser' = [parser EXCEPT !.in_consumer = "no", !.data_rows = @ + 1,
                                       !.state = "finished"]
  <2>1. /\ Fields \subseteq DOMAIN parser' /\ parser'.state = "finished"
        /\ parser'.column = parser.column /\ parser'.in_consumer = "no"
        /\ parser'.data_rows = parser.data_rows + 1
    BY <1>1, <1>3 DEF Fields
  <2>2. Seen("finished", parser.column, "no", parser'.header_index, parser.data_rows + 1, n)
    BY <1>1, <1>3, SeenRow
  <2> QED
    BY <2>1, <2>2 DEF Covers
<1> QED
  BY <1>2, <1>3 DEF ConsumerReturns

----------------------------------------------------------------------------
(* The invariant of the sizes.                                             *)

\* Where flush_endpoint_run is called, or the ingestor is.
Stage == IF pc \in {"create_run", "write_run"} THEN after ELSE pc

\* The endpoints of the row at hand that are in the buffer, or were.
Taken == IF Stage = "destination" THEN 1 ELSE IF Stage = "accepted" THEN 2 ELSE 0

\* What is in the buffer, and in the runs before it, were they all full.
EndpointsCounted ==
  /\ IsSeq(endpoints) /\ Len(endpoints) <= EndpointIdsPerRun
  /\ pc # "check" =>
       completed_run_files * EndpointIdsPerRun + Len(endpoints) <= 2 * parser.data_rows + Taken
  /\ pc \in {"create_run", "write_run"} =>
       /\ Len(endpoints) # 0 /\ after # "parse"
       /\ after # "check" => Len(endpoints) = EndpointIdsPerRun
  /\ after \in {"parse", "destination", "accepted", "check"}
  /\ pc # "check" => Stage \in {"create", "parse", "source", "destination", "accepted",
                                "last_run", "check"}
  /\ Stage \in {"source", "destination", "accepted"} => parser.in_consumer # "no"
  /\ Stage \in {"check", "last_run"} => parser.in_consumer = "no"

\* The raw file has the edge at hand once accept_edge has gone on.
EdgesCounted ==
  raw_writer.state = "active" =>
    Len(raw_writer.appended) <=
      RawRecordBytes * (IF pc = "parse" THEN parser.data_rows ELSE RowsOf(parser))

IdentifiersCounted ==
  run_writer.state = "active" =>
    \E m \in 0 .. Len(UniqueEndpoints) : Len(run_writer.appended) = IdRecordBytes * m

Counting ==
  Covers(parser, Len(text)) /\ EndpointsCounted /\ EdgesCounted /\ IdentifiersCounted

FitInv ==
  /\ text \in Seq(Bytes) /\ FilesFit
  /\ pc \notin {"unwind", "done"} => Counting

\* Without duplicates there are no more.
LEMMA UniqueAreFewer ==
  ASSUME IsSeq(endpoints)
  PROVE  Len(UniqueEndpoints) \in Nat /\ Len(UniqueEndpoints) <= Len(endpoints)
<1> DEFINE ids == {endpoints[i] : i \in DOMAIN endpoints}
<1>1. Len(endpoints) \in Nat /\ DOMAIN endpoints = 1 .. Len(endpoints)
      /\ endpoints \in [1 .. Len(endpoints) -> ids]
  BY SomeSeq, LenProperties DEF IsSeq
<1>2. endpoints \in Surjection(1 .. Len(endpoints), ids)
  BY <1>1 DEF Surjection
<1>3. IsFiniteSet(1 .. Len(endpoints)) /\ Cardinality(1 .. Len(endpoints)) = Len(endpoints)
  <2>1. /\ 1 \in Int /\ Len(endpoints) \in Int
        /\ (IF 1 > Len(endpoints) THEN 0 ELSE Len(endpoints) - 1 + 1) = Len(endpoints)
    BY <1>1
  <2> QED
    BY ONLY <2>1, FS_Interval
<1> HIDE DEF ids
<1>4. IsFiniteSet(ids) /\ Cardinality(ids) <= Len(endpoints)
  BY <1>2, <1>3, FS_Surjection
<1>5. Cardinality(ids) \in Nat
  BY <1>4, FS_CardinalityType
<1>6. Len(Sorted(ids)) = Cardinality(ids)
  BY <1>5 DEF Sorted
<1> QED
  BY <1>4, <1>5, <1>6 DEF UniqueEndpoints, ids

\* A file and its writer.
LEMMA PayloadWithin ==
  ASSUME NEW w, NEW fs, WriterAgrees(w, fs), w.step # "headed"
  PROVE  /\ Len(fs[w.path].payload) \in Nat /\ IsSeq(w.appended) /\ Len(w.appended) \in Nat
         /\ Len(fs[w.path].payload) <= Len(w.appended)
<1>1. IsSeq(fs[w.path].payload) /\ IsSeq(w.buffer)
  BY DEF WriterAgrees
<1>2. Len(fs[w.path].payload) \in Nat /\ Len(w.buffer) \in Nat
  BY ONLY <1>1, SomeSeq DEF IsSeq
<1>3. CASE w.step = "none"
  <2>1. fs[w.path].payload \o w.buffer = w.appended
    BY <1>3 DEF WriterAgrees
  <2>2. IsSeq(w.appended) /\ Len(w.appended) = Len(fs[w.path].payload) + Len(w.buffer)
    BY <1>1, <2>1, Concat
  <2>3. PICK a, b, c : /\ a = Len(fs[w.path].payload) /\ b = Len(w.buffer)
                       /\ c = Len(w.appended)
    OBVIOUS
  <2>4. a \in Nat /\ b \in Nat /\ c = a + b
    BY <1>2, <2>2, <2>3
  <2>5. c \in Nat /\ a <= c
    BY ONLY <2>4
  <2> QED
    BY <2>2, <2>3, <2>4, <2>5
<1>4. CASE w.step = "flushed"
  <2>1. fs[w.path].payload = w.appended
    BY <1>4 DEF WriterAgrees
  <2> QED
    BY <1>1, <1>2, <2>1
<1> QED
  BY <1>3, <1>4 DEF WriterAgrees

\* A step that writes one file.
LEMMA FilesStillFit ==
  ASSUME FilesFit, UNCHANGED text, NEW path,
         DOMAIN files' \subseteq DOMAIN files \union {path},
         \A p \in DOMAIN files' \ {path} : files'[p] = files[p],
         Fits(path, files'[path], RowsIn(Len(text)))
  PROVE  FilesFit'
BY DEF FilesFit

LEMMA FewerFilesFit ==
  ASSUME FilesFit, UNCHANGED text, DOMAIN files' \subseteq DOMAIN files,
         \A p \in DOMAIN files' : files'[p] = files[p]
  PROVE  FilesFit'
BY DEF FilesFit

LEMMA TextGrows ==
  ASSUME FilesFit, UNCHANGED files, Len(text) \in Nat, Len(text') \in Nat, Len(text) <= Len(text')
  PROVE  FilesFit'
<1> DEFINE k == RowsIn(Len(text))
           m == RowsIn(Len(text'))
<1>1. k \in Nat /\ m \in Nat /\ k <= m
  BY RowsInIs
<1> HIDE DEF k, m
<1>2. ASSUME NEW p, NEW f, Fits(p, f, k) PROVE Fits(p, f, m)
  <2>1. RawRecordBytes * k <= RawRecordBytes * m /\ RawRecordBytes * m \in Nat
        /\ RawRecordBytes * k \in Nat
    <3>1. PICK d \in Nat : m = k + d
      <4>1. m - k \in Nat /\ m = k + (m - k)
        BY <1>1
      <4> QED
        BY <4>1
    <3>2. RawRecordBytes \in Nat
      BY IngestAssumption
    <3>3. RawRecordBytes * m = RawRecordBytes * k + RawRecordBytes * d
      BY ONLY <1>1, <3>1, <3>2
    <3>4. RawRecordBytes * d \in Nat /\ RawRecordBytes * k \in Nat
      BY ONLY <1>1, <3>1, <3>2
    <3> QED
      BY ONLY <3>3, <3>4
  <2>2. ASSUME NEW i \in Nat, FitsRun(f, i, k) PROVE FitsRun(f, i, m)
    <3>1. PICK n \in 0 .. EndpointIdsPerRun :
            /\ Len(f.payload) <= IdRecordBytes * n
            /\ i * EndpointIdsPerRun < 2 * k /\ i * EndpointIdsPerRun + n <= 2 * k
      BY <2>2 DEF FitsRun
    <3>2. PICK x : x = i * EndpointIdsPerRun
      OBVIOUS
    <3>3. x \in Nat /\ n \in Nat
      BY ONLY <3>2, IngestAssumption, i \in Nat, n \in 0 .. EndpointIdsPerRun
    <3>4. x < 2 * m /\ x + n <= 2 * m
      BY <1>1, <3>1, <3>2, <3>3
    <3> QED
      BY <3>1, <3>2, <3>4 DEF FitsRun
  <2> QED
    BY <1>2, <2>1, <2>2 DEF Fits
<1> QED
  BY <1>2 DEF FilesFit, k, m

----------------------------------------------------------------------------
(* The steps.                                                              *)

LEMMA SizesAreNumbers ==
  /\ EndpointIdsPerRun \in Nat \ {0} /\ RawRecordBytes \in Nat \ {0}
  /\ IdRecordBytes \in Nat \ {0}
BY IngestAssumption

LEMMA FitStarts == IngestInit => FitInv
<1> SUFFICES ASSUME IngestInit PROVE FitInv
  OBVIOUS
<1>1. text \in Seq(Bytes) /\ Len(text) = 0
  BY EmptySeq DEF IngestInit
<1>2. FilesFit
  BY DEF IngestInit, FilesFit
<1>3. Covers(parser, 0)
  <2>1. /\ Fields \subseteq DOMAIN parser /\ parser.state = "header" /\ parser.column = "source"
        /\ parser.in_consumer = "no" /\ parser.header_index = 0 /\ parser.data_rows = 0
    BY DEF IngestInit, ParserInit, Fields
  <2>2. Seen("header", "source", "no", 0, 0, 0)
    BY DEF Seen, InRow
  <2> QED
    BY <2>1, <2>2 DEF Covers
<1>4. EndpointsCounted
  <2>1. /\ endpoints = <<>> /\ completed_run_files = 0 /\ pc = "create" /\ after = "parse"
        /\ parser.data_rows = 0
    BY DEF IngestInit, ParserInit
  <2>2. IsSeq(<<>>) /\ Len(<<>>) = 0
    BY EmptySeq DEF IsSeq
  <2>3. 0 * EndpointIdsPerRun = 0
    BY SizesAreNumbers
  <2> QED
    BY <2>1, <2>2, <2>3, SizesAreNumbers DEF EndpointsCounted, Stage, Taken
<1>5. EdgesCounted /\ IdentifiersCounted
  BY DEF IngestInit, Raw!NoWriter, Run!NoWriter, EdgesCounted, IdentifiersCounted
<1> QED
  BY <1>1, <1>2, <1>3, <1>4, <1>5 DEF FitInv, Counting

\* The step of the parser that leaves it running, or done.
LEMMA ParserStep ==
  ASSUME IngestInv, Counting, pc = "parse", parser.in_consumer = "no", Parsed,
         NEW n, Covers(parser', n), parser'.data_rows = parser.data_rows,
         UNCHANGED <<after, bufferVars, raw_writer, run_writer>>,
         pc' \notin {"unwind", "done"}
  PROVE  EndpointsCounted' /\ EdgesCounted' /\ IdentifiersCounted'
<1>1. pc' \in {"parse", "last_run"}
  BY DEF Parsed, Go
<1>2. pc' = "last_run" => parser'.in_consumer = "no"
  BY DEF Parsed, Go, Covers, Seen, InRow
<1>3. EndpointsCounted'
  BY <1>1, <1>2 DEF Counting, EndpointsCounted, Stage, Taken, bufferVars
<1>4. EdgesCounted'
  <2>1. parser.data_rows \in Nat
    BY DEF Counting, Covers, Seen
  <2>2. pc' = "last_run" => RowsOf(parser') = parser.data_rows
    BY <1>2, <2>1 DEF RowsOf
  <2> QED
    BY <1>1, <2>2 DEF Counting, EdgesCounted
<1>5. run_writer'.state # "active"
  BY DEF IngestInv, RunAt
<1> QED
  BY <1>3, <1>4, <1>5 DEF IdentifiersCounted

LEMMA ConsumeFit == ASSUME IngestInv, FitInv, Consume PROVE FitInv'
<1>1. PICK b \in Bytes : ConsumeByte(b) /\ text' = Append(text, b)
  BY DEF Consume
<1>2. /\ pc = "parse" /\ Counting /\ parser.in_consumer = "no" /\ Parsed
      /\ UNCHANGED <<after, bufferVars, raw_writer, run_writer, files>>
  BY DEF FitInv, Consume, ConsumeByte, writerVars
<1>3. /\ text' \in Seq(Bytes) /\ Len(text) \in Nat /\ Len(text') = Len(text) + 1
  BY <1>1 DEF FitInv
<1>4. FilesFit'
  BY <1>2, <1>3, TextGrows DEF FitInv
<1>5. Covers(parser', Len(text')) /\ parser'.data_rows = parser.data_rows
  <2>1. Covers(parser, Len(text))
    BY <1>2 DEF Counting
  <2> QED
    BY <1>1, <1>3, <2>1, ByteCovered
<1>6. pc' \notin {"unwind", "done"} => EndpointsCounted' /\ EdgesCounted' /\ IdentifiersCounted'
  BY <1>2, <1>5, ParserStep
<1> QED
  BY <1>3, <1>4, <1>5, <1>6 DEF FitInv, Counting

LEMMA CallFinishFit == ASSUME IngestInv, FitInv, CallFinish PROVE FitInv'
<1>1. /\ pc = "parse" /\ Counting /\ parser.in_consumer = "no" /\ Parsed /\ FinishText
      /\ UNCHANGED <<text, after, bufferVars, raw_writer, run_writer, files>>
  BY DEF FitInv, CallFinish, FinishText, writerVars
<1>2. /\ text' \in Seq(Bytes) /\ Len(text) \in Nat
  BY <1>1 DEF FitInv
<1>3. FilesFit'
  BY <1>1 DEF FitInv, FilesFit
<1>4. Covers(parser', Len(text')) /\ parser'.data_rows = parser.data_rows
  BY <1>1, <1>2, FinishCovered DEF Counting
<1>5. pc' \notin {"unwind", "done"} => EndpointsCounted' /\ EdgesCounted' /\ IdentifiersCounted'
  BY <1>1, <1>4, ParserStep
<1> QED
  BY <1>2, <1>3, <1>4, <1>5 DEF FitInv, Counting

LEMMA AppendEndpointFit ==
  ASSUME IngestInv, FitInv, NEW column \in {"source", "destination"},
         NEW next \in {"destination", "accepted"}, column = "source" <=> next = "destination",
         AppendEndpoint(column, next)
  PROVE  FitInv'
<1>1. /\ pc = column /\ Counting
      /\ UNCHANGED <<parser, text, completed_run_files, raw_writer, run_writer, files>>
      /\ Len(endpoints) < EndpointIdsPerRun /\ endpoints' = Append(endpoints, parser[column])
      /\ IF Len(endpoints') = EndpointIdsPerRun THEN pc' = "create_run" /\ after' = next
         ELSE pc' = next /\ UNCHANGED after
  BY DEF FitInv, AppendEndpoint, Go, writerVars
<1>2. IsSeq(endpoints') /\ Len(endpoints) \in Nat /\ Len(endpoints') = Len(endpoints) + 1
  <2>1. IsSeq(endpoints)
    BY <1>1 DEF Counting, EndpointsCounted
  <2>2. PICK S : S = Range(endpoints) \union {parser[column]}
    OBVIOUS
  <2>3. endpoints \in Seq(S) /\ parser[column] \in S
    BY <2>1, <2>2, SeqMonotonic DEF IsSeq
  <2>4. /\ endpoints' \in Seq(S) /\ Len(endpoints) \in Nat
        /\ Len(endpoints') = Len(endpoints) + 1
    BY ONLY <1>1, <2>3, AppendProperties, LenProperties
  <2> QED
    BY <2>4, SomeSeq
<1>3. EndpointsCounted'
  <2>1. PICK c : c = completed_run_files * EndpointIdsPerRun
    OBVIOUS
  <2>2. c \in Nat
    BY ONLY <2>1, IngestInv, SizesAreNumbers DEF IngestInv, Types
  <2>3. Stage = column /\ Taken = (IF column = "source" THEN 0 ELSE 1)
    BY <1>1 DEF Stage, Taken
  <2>4. Stage' = next /\ Taken' = (IF column = "source" THEN 1 ELSE 2)
    BY <1>1 DEF Stage, Taken
  <2>5. parser.data_rows \in Nat /\ parser.in_consumer # "no"
    BY <1>1, <2>3 DEF Counting, Covers, Seen, EndpointsCounted
  <2>6. c + Len(endpoints) <= 2 * parser.data_rows + Taken
    BY <1>1, <2>1 DEF Counting, EndpointsCounted
  <2>7. completed_run_files' * EndpointIdsPerRun + Len(endpoints') <= 2 * parser'.data_rows + Taken'
    BY <1>1, <1>2, <2>1, <2>2, <2>3, <2>4, <2>5, <2>6
  <2>8. after \in {"parse", "destination", "accepted", "check"}
    BY <1>1 DEF Counting, EndpointsCounted
  <2> QED
    BY <1>1, <1>2, <2>4, <2>5, <2>7, <2>8, SizesAreNumbers DEF EndpointsCounted
<1>4. EdgesCounted'
  BY <1>1 DEF Counting, EdgesCounted
<1>5. run_writer'.state # "active"
  BY <1>1 DEF IngestInv, RunAt
<1> QED
  BY <1>1, <1>3, <1>4, <1>5 DEF FitInv, FilesFit, Counting, IdentifiersCounted

LEMMA AcceptFit == ASSUME IngestInv, FitInv, Accept PROVE FitInv'
<1>1. /\ pc = "accepted" /\ Counting /\ ConsumerReturns /\ Parsed
      /\ UNCHANGED <<text, after, endpoints, completed_run_files, raw_writer, run_writer, files>>
  BY DEF FitInv, Accept, writerVars
<1>2. Len(text) \in Nat
  BY DEF FitInv
<1>3. /\ Covers(parser', Len(text)) /\ parser'.data_rows = parser.data_rows + 1
      /\ parser'.in_consumer = "no" /\ parser'.state \in {"leading", "finished"}
      /\ parser.data_rows \in Nat
  BY <1>1, <1>2, ReturnCovered DEF Counting, Covers, Seen
<1>4. pc' \in {"parse", "last_run"}
  BY <1>1, <1>3 DEF Parsed, Go
<1>5. parser.in_consumer # "no"
  BY <1>1 DEF ConsumerReturns
<1>6. EndpointsCounted'
  <2>1. PICK c : c = completed_run_files * EndpointIdsPerRun + Len(endpoints)
    OBVIOUS
  <2>2. c <= 2 * parser.data_rows + 2
    BY <1>1, <2>1 DEF Counting, EndpointsCounted, Stage, Taken
  <2>3. Taken' = 0 /\ Stage' = pc'
    BY <1>4 DEF Stage, Taken
  <2>4. c \in Int
    <3>1. completed_run_files \in Nat /\ Len(endpoints) \in Nat
      BY <1>1, SomeSeq DEF IngestInv, Types, Counting, EndpointsCounted, IsSeq
    <3> QED
      BY ONLY <2>1, <3>1, SizesAreNumbers
  <2>5. c <= 2 * (parser.data_rows + 1) + 0
    BY ONLY <1>3, <2>2, <2>4
  <2>6. completed_run_files' * EndpointIdsPerRun + Len(endpoints') <= 2 * parser'.data_rows + Taken'
    BY <1>1, <1>3, <2>1, <2>3, <2>5
  <2> QED
    BY <1>1, <1>3, <1>4, <2>3, <2>6 DEF Counting, EndpointsCounted
<1>7. EdgesCounted'
  <2>1. RowsOf(parser) = parser.data_rows + 1 /\ RowsOf(parser') = parser.data_rows + 1
    BY <1>3, <1>5 DEF RowsOf
  <2> QED
    BY <1>1, <1>3, <1>4, <2>1 DEF Counting, EdgesCounted
<1>8. run_writer'.state # "active"
  BY <1>1 DEF IngestInv, RunAt
<1> QED
  BY <1>1, <1>3, <1>6, <1>7, <1>8 DEF FitInv, FilesFit, Counting, IdentifiersCounted

LEMMA LastRunFit == ASSUME IngestInv, FitInv, LastRun PROVE FitInv'
<1>1. /\ pc = "last_run" /\ Counting
      /\ UNCHANGED <<parser, text, endpoints, completed_run_files, raw_writer, run_writer, files>>
      /\ IF endpoints = <<>> THEN pc' = "check" /\ UNCHANGED after
         ELSE pc' = "create_run" /\ after' = "check"
  BY DEF FitInv, LastRun, Go, bufferVars, writerVars
<1>2. IsSeq(endpoints) /\ (endpoints # <<>> => Len(endpoints) # 0)
  BY <1>1, EmptySeq DEF Counting, EndpointsCounted, IsSeq
<1>3. EndpointsCounted'
  BY <1>1, <1>2 DEF Counting, EndpointsCounted, Stage, Taken
<1>4. EdgesCounted'
  BY <1>1 DEF Counting, EdgesCounted
<1>5. run_writer'.state # "active"
  BY <1>1 DEF IngestInv, RunAt
<1> QED
  BY <1>1, <1>3, <1>4, <1>5 DEF FitInv, FilesFit, Counting, IdentifiersCounted

\* How much the rows make of what is planned.
LEMMA RowsBound ==
  ASSUME FitInv, Counting, NEW bytes \in Int, NEW size \in Nat,
         \/ bytes <= size * RowsOf(parser)
         \/ bytes <= size * parser.data_rows
  PROVE  bytes <= size * RowsIn(Len(text))
<1>1. Len(text) \in Nat
  BY DEF FitInv
<1>2. /\ RowsOf(parser) \in Nat /\ parser.data_rows \in Nat
      /\ parser.data_rows <= RowsOf(parser) /\ RowsOf(parser) <= RowsIn(Len(text))
      /\ RowsIn(Len(text)) \in Nat
  <2>1. Covers(parser, Len(text))
    BY DEF Counting
  <2>2. RowsIn(Len(text)) \in Nat
    BY <1>1, RowsInIs
  <2>3. /\ RowsOf(parser) \in Nat /\ RowsOf(parser) <= RowsIn(Len(text))
        /\ parser.data_rows \in Nat
        /\ RowsOf(parser) = IF parser.in_consumer = "no" THEN parser.data_rows
                            ELSE parser.data_rows + 1
    BY <1>1, <2>1, RowsAreInText
  <2> QED
    BY ONLY <2>2, <2>3
<1>3. PICK a, d, k : a = RowsOf(parser) /\ d = parser.data_rows /\ k = RowsIn(Len(text))
  OBVIOUS
<1>4. a \in Nat /\ d \in Nat /\ k \in Nat /\ d <= k /\ a <= k
  BY <1>2, <1>3
<1>5. ASSUME NEW m \in Nat, m <= k
      PROVE  size * m <= size * k /\ size * m \in Nat /\ size * k \in Nat
  <2>1. PICK e \in Nat : k = m + e
    <3>1. k - m \in Nat /\ k = m + (k - m)
      BY <1>4, <1>5
    <3> QED
      BY <3>1
  <2>2. size * k = size * m + size * e /\ size * e \in Nat /\ size * m \in Nat
    BY ONLY <2>1, <1>5, size \in Nat
  <2> QED
    BY ONLY <2>2
<1>6. bytes <= size * a \/ bytes <= size * d
  BY <1>3
<1> QED
  BY <1>3, <1>4, <1>5, <1>6

LEMMA RawFileFits ==
  ASSUME IngestInv', FitInv, Counting, UNCHANGED <<text, parser>>,
         raw_writer'.state = "active", raw_writer'.step # "headed", pc' # "done",
         DOMAIN files' \subseteq DOMAIN files \union {RawPath},
         \A p \in DOMAIN files' \ {RawPath} : files'[p] = files[p],
         \/ Len(raw_writer'.appended) <= RawRecordBytes * RowsOf(parser)
         \/ Len(raw_writer'.appended) <= RawRecordBytes * parser.data_rows
  PROVE  FilesFit'
<1> DEFINE k == RowsIn(Len(text))
           w == raw_writer'
           fs == files'
<1>1. WriterAgrees(w, fs) /\ w.path = RawPath
  BY DEF IngestInv, RawAt
<1>2. w.step # "headed" /\ (\/ Len(w.appended) <= RawRecordBytes * RowsOf(parser)
                            \/ Len(w.appended) <= RawRecordBytes * parser.data_rows)
  OBVIOUS
<1>3. Len(fs[RawPath].payload) \in Nat
      /\ Len(fs[RawPath].payload) <= RawRecordBytes * k
  <2> HIDE DEF w, fs, k
  <2>1. /\ Len(fs[w.path].payload) \in Nat /\ Len(w.appended) \in Nat
        /\ Len(fs[w.path].payload) <= Len(w.appended)
    BY ONLY <1>1, <1>2, PayloadWithin
  <2>2. Len(w.appended) <= RawRecordBytes * k
    BY <1>2, <2>1, RowsBound, SizesAreNumbers DEF k
  <2>3. k \in Nat
    BY RowsInIs DEF FitInv, k
  <2>4. PICK n : n = RawRecordBytes * k
    OBVIOUS
  <2>5. n \in Nat
    BY ONLY <2>3, <2>4, SizesAreNumbers
  <2> QED
    BY <1>1, <2>1, <2>2, <2>4, <2>5
<1>4. Fits(RawPath, files'[RawPath], k)
  BY <1>3 DEF Fits
<1> QED
  BY <1>4, FilesStillFit DEF FitInv

\* The run at hand, and the runs before it, have no more than was read.
LEMMA RunFileFits ==
  ASSUME FitInv, Counting, UNCHANGED text, NEW path, path = RunPath(completed_run_files),
         completed_run_files \in Nat, pc \in {"create_run", "write_run"},
         DOMAIN files' \subseteq DOMAIN files \union {path},
         \A p \in DOMAIN files' \ {path} : files'[p] = files[p],
         Len(files'[path].payload) \in Nat,
         Len(files'[path].payload) <= IdRecordBytes * Len(endpoints)
  PROVE  FilesFit'
<1> DEFINE k == RowsIn(Len(text))
<1>1. PICK x : x = completed_run_files * EndpointIdsPerRun
  OBVIOUS
<1>2. x \in Nat
  BY ONLY <1>1, completed_run_files \in Nat, SizesAreNumbers
<1>3. Len(endpoints) \in 0 .. EndpointIdsPerRun /\ Len(endpoints) # 0
  BY SomeSeq, SizesAreNumbers DEF Counting, EndpointsCounted, IsSeq
<1>4. k \in Nat /\ RowsOf(parser) <= k
  BY RowsInIs, RowsAreInText DEF FitInv, Counting
<1>5. 2 * parser.data_rows + Taken <= 2 * RowsOf(parser) /\ RowsOf(parser) \in Nat
      /\ 2 * parser.data_rows + Taken \in Nat
  <2>1. Covers(parser, Len(text)) /\ Len(text) \in Nat
    BY DEF FitInv, Counting
  <2>2. /\ RowsOf(parser) \in Nat /\ parser.data_rows \in Nat
        /\ RowsOf(parser) = IF parser.in_consumer = "no" THEN parser.data_rows
                            ELSE parser.data_rows + 1
    BY <2>1, RowsAreInText
  <2>3. /\ Taken \in Nat /\ Taken <= 2
        /\ Stage \notin {"source", "destination", "accepted"} => Taken = 0
    BY DEF Taken
  <2>4. Stage \in {"source", "destination", "accepted"} => parser.in_consumer # "no"
    BY DEF Counting, EndpointsCounted
  <2> QED
    BY <2>2, <2>3, <2>4
<1>6. x + Len(endpoints) <= 2 * parser.data_rows + Taken
  BY <1>1 DEF Counting, EndpointsCounted
<1> HIDE DEF k
<1>7. x < 2 * k /\ x + Len(endpoints) <= 2 * k
  BY ONLY <1>2, <1>3, <1>4, <1>5, <1>6, SizesAreNumbers
<1>8. FitsRun(files'[path], completed_run_files, k)
  BY <1>1, <1>3, <1>7 DEF FitsRun
<1>9. Fits(path, files'[path], k)
  BY <1>8 DEF Fits
<1> QED
  BY <1>9, FilesStillFit DEF FitInv, k

\* What a writer leaves when it fails: its file, no longer than it may be.
LEMMA TornFits ==
  ASSUME FitInv, UNCHANGED text, pc' = "unwind", NEW path,
         DOMAIN files' \subseteq DOMAIN files \union {path},
         \A p \in DOMAIN files' \ {path} : files'[p] = files[p],
         path \in DOMAIN files' => Fits(path, files'[path], RowsIn(Len(text)))
  PROVE  FitInv'
BY DEF FitInv, FilesFit

\* A file that has become no longer still fits.
LEMMA ShorterFits ==
  ASSUME FitInv, NEW path \in DOMAIN files, NEW f,
         Len(f.payload) \in Nat, Len(f.payload) <= Len(files[path].payload)
  PROVE  Fits(path, f, RowsIn(Len(text)))
<1> DEFINE k == RowsIn(Len(text))
           g == files[path]
<1>1. Fits(path, g, k)
  BY DEF FitInv, FilesFit
<1>2. k \in Nat
  BY RowsInIs DEF FitInv
<1> HIDE DEF k, g
<1>3. PICK a, b : a = Len(f.payload) /\ b = Len(g.payload)
  OBVIOUS
<1>4. a \in Nat /\ b \in Nat /\ a <= b
  BY <1>1, <1>3 DEF Fits, g
<1>5. CASE path = RawPath /\ b <= RawRecordBytes * k
  <2>1. PICK n : n = RawRecordBytes * k
    OBVIOUS
  <2>2. n \in Nat
    BY ONLY <1>2, <2>1, SizesAreNumbers
  <2>3. a <= n
    BY <1>4, <1>5, <2>1, <2>2
  <2> QED
    BY <1>3, <1>4, <1>5, <2>1, <2>3 DEF Fits, k
<1>6. CASE \E i \in Nat : path = RunPath(i) /\ FitsRun(g, i, k)
  <2>1. PICK i \in Nat : path = RunPath(i) /\ FitsRun(g, i, k)
    BY <1>6
  <2>2. PICK n \in 0 .. EndpointIdsPerRun :
          /\ b <= IdRecordBytes * n
          /\ i * EndpointIdsPerRun < 2 * k /\ i * EndpointIdsPerRun + n <= 2 * k
    BY <1>3, <2>1 DEF FitsRun
  <2>3. PICK x : x = IdRecordBytes * n
    OBVIOUS
  <2>4. x \in Nat
    BY ONLY <2>2, <2>3, SizesAreNumbers
  <2>5. Len(f.payload) <= IdRecordBytes * n
    BY <1>3, <1>4, <2>2, <2>3, <2>4
  <2>6. FitsRun(f, i, k)
    BY <2>2, <2>5 DEF FitsRun
  <2> QED
    BY <2>1, <2>6 DEF Fits, k
<1> QED
  BY <1>1, <1>3, <1>5, <1>6 DEF Fits

\* Until finish begins.
LEMMA PayloadAndBuffer ==
  ASSUME NEW w, NEW fs, WriterAgrees(w, fs), w.step = "none"
  PROVE  /\ Len(fs[w.path].payload) \in Nat /\ Len(w.buffer) \in Nat
         /\ Len(w.appended) = Len(fs[w.path].payload) + Len(w.buffer)
<1>1. /\ IsSeq(fs[w.path].payload) /\ IsSeq(w.buffer)
      /\ fs[w.path].payload \o w.buffer = w.appended
  BY DEF WriterAgrees
<1>2. Len(fs[w.path].payload) \in Nat /\ Len(w.buffer) \in Nat
  BY ONLY <1>1, SomeSeq DEF IsSeq
<1> QED
  BY <1>1, <1>2, Concat

LEMMA RawTorn ==
  ASSUME IngestInv, FitInv, Counting, UNCHANGED text, pc \in {"parse", "check"}, pc' = "unwind",
         NEW bytes, IsSeq(bytes), raw_writer.state = "active",
         raw_writer.step = "none" \/ bytes = <<>>, Raw!Poison(bytes),
         raw_writer.step = "none" =>
           Len(files[RawPath].payload) + Len(bytes) <= RawRecordBytes * RowsOf(parser)
  PROVE  FitInv'
<1>1. /\ DOMAIN files' \subseteq DOMAIN files
      /\ \A p \in DOMAIN files' \ {RawPath} : files'[p] = files[p]
      /\ RawPath \in DOMAIN files' =>
           /\ Len(files'[RawPath].payload) \in Nat /\ Len(bytes) \in Nat
           /\ Len(files'[RawPath].payload) <= Len(files[RawPath].payload) + Len(bytes)
  BY RawPoisoned
<1>2. ASSUME RawPath \in DOMAIN files'
      PROVE  Fits(RawPath, files'[RawPath], RowsIn(Len(text)))
  <2>1. PICK a, b, c, n : /\ a = Len(files'[RawPath].payload) /\ b = Len(files[RawPath].payload)
                          /\ c = Len(bytes) /\ n = RawRecordBytes * RowsOf(parser)
    OBVIOUS
  <2>2. b \in Nat /\ RawPath \in DOMAIN files
    BY <1>1, <1>2, <2>1 DEF FitInv, FilesFit, Fits
  <2>3. a \in Nat /\ c \in Nat /\ a <= b + c
    BY <1>1, <1>2, <2>1
  <2>4. CASE raw_writer.step = "none"
    <3>1. RowsOf(parser) \in Nat
      BY RowsAreInText DEF FitInv, Counting
    <3>2. n \in Nat
      BY ONLY <2>1, <3>1, SizesAreNumbers
    <3>3. a <= n
      BY <2>1, <2>2, <2>3, <2>4, <3>2
    <3>4. a <= RawRecordBytes * RowsIn(Len(text))
      BY <2>1, <2>3, <3>3, RowsBound, SizesAreNumbers
    <3> QED
      BY <2>1, <2>3, <3>4 DEF Fits
  <2>5. CASE bytes = <<>>
    <3>1. c = 0
      BY <2>1, <2>5, EmptySeq
    <3>2. a <= b
      BY <2>2, <2>3, <3>1
    <3> QED
      BY <2>1, <2>2, <2>3, <3>2, ShorterFits
  <2> QED
    BY <2>4, <2>5
<1> QED
  BY <1>1, <1>2, TornFits

LEMMA RunTorn ==
  ASSUME IngestInv, FitInv, Counting, UNCHANGED text, pc = "write_run", pc' = "unwind",
         NEW bytes, IsSeq(bytes), run_writer.state = "active",
         run_writer.step = "none" \/ bytes = <<>>, Run!Poison(bytes),
         NEW path, path = RunPath(completed_run_files),
         run_writer.step = "none" =>
           Len(files[path].payload) + Len(bytes) <= IdRecordBytes * Len(endpoints)
  PROVE  FitInv'
<1>1. /\ DOMAIN files' \subseteq DOMAIN files /\ DOMAIN files' \subseteq DOMAIN files \union {path}
      /\ \A p \in DOMAIN files' \ {path} : files'[p] = files[p]
      /\ path \in DOMAIN files' =>
           /\ Len(files'[path].payload) \in Nat /\ Len(bytes) \in Nat
           /\ Len(files'[path].payload) <= Len(files[path].payload) + Len(bytes)
  BY RunPoisoned
<1>2. CASE path \notin DOMAIN files'
  BY <1>1, <1>2, TornFits
<1>3. CASE path \in DOMAIN files'
  <2>1. PICK a, b, c, n : /\ a = Len(files'[path].payload) /\ b = Len(files[path].payload)
                          /\ c = Len(bytes) /\ n = IdRecordBytes * Len(endpoints)
    OBVIOUS
  <2>2. b \in Nat /\ path \in DOMAIN files
    BY <1>1, <1>3, <2>1 DEF FitInv, FilesFit, Fits
  <2>3. a \in Nat /\ c \in Nat /\ a <= b + c
    BY <1>1, <1>3, <2>1
  <2>4. CASE run_writer.step = "none"
    <3>1. Len(endpoints) \in Nat
      BY SomeSeq DEF Counting, EndpointsCounted, IsSeq
    <3>2. n \in Nat
      BY ONLY <2>1, <3>1, SizesAreNumbers
    <3>3. a <= n
      BY <2>1, <2>2, <2>3, <2>4, <3>2
    <3>4. completed_run_files \in Nat
      BY DEF IngestInv, Types
    <3>5. FilesFit'
      BY <1>1, <2>1, <2>3, <3>3, <3>4, RunFileFits
    <3> QED
      BY <3>5 DEF FitInv
  <2>5. CASE bytes = <<>>
    <3>1. c = 0
      BY <2>1, <2>5, EmptySeq
    <3>2. a <= b
      BY <2>2, <2>3, <3>1
    <3>3. Fits(path, files'[path], RowsIn(Len(text)))
      BY <2>1, <2>2, <2>3, <3>2, ShorterFits
    <3> QED
      BY <1>1, <3>3, TornFits
  <2> QED
    BY <2>4, <2>5
<1> QED
  BY <1>2, <1>3

\* What is written of a run are endpoints.
LEMMA RecordsAreEndpoints ==
  ASSUME IsSeq(endpoints), NEW m \in 0 .. Len(UniqueEndpoints)
  PROVE  IdRecordBytes * m <= IdRecordBytes * Len(endpoints)
         /\ m \in Nat /\ IdRecordBytes * m \in Nat /\ IdRecordBytes * Len(endpoints) \in Nat
<1>1. /\ Len(UniqueEndpoints) \in Nat /\ Len(UniqueEndpoints) <= Len(endpoints)
      /\ Len(endpoints) \in Nat
  BY UniqueAreFewer, SomeSeq DEF IsSeq
<1>2. PICK e \in Nat : Len(endpoints) = m + e
  <2>1. Len(endpoints) - m \in Nat /\ Len(endpoints) = m + (Len(endpoints) - m)
    BY <1>1
  <2> QED
    BY <2>1
<1>3. m \in Nat
  BY <1>1
<1>4. /\ IdRecordBytes * Len(endpoints) = IdRecordBytes * m + IdRecordBytes * e
      /\ IdRecordBytes * m \in Nat /\ IdRecordBytes * e \in Nat
  BY ONLY <1>2, <1>3, SizesAreNumbers
<1> QED
  BY ONLY <1>3, <1>4

LEMMA CreateRawFit == ASSUME IngestInv, IngestInv', FitInv, CreateRaw PROVE FitInv'
<1>1. /\ pc = "create" /\ Counting
      /\ UNCHANGED <<parser, text, after, endpoints, completed_run_files, run_writer>>
  BY DEF FitInv, CreateRaw, bufferVars
<1>2. CASE Raw!Create(RawPath) /\ Go("parse")
  <2>1. /\ pc' = "parse" /\ raw_writer'.state = "active" /\ raw_writer'.step = "none"
        /\ raw_writer'.appended = <<>>
        /\ DOMAIN files' \subseteq DOMAIN files \union {RawPath}
        /\ \A p \in DOMAIN files' \ {RawPath} : files'[p] = files[p]
    BY <1>2 DEF Raw!Create, Raw!Created, Raw!NoWriter, Go
  <2>2. Len(raw_writer'.appended) <= RawRecordBytes * parser.data_rows
    <3>1. parser.data_rows \in Nat
      BY <1>1 DEF Counting, Covers, Seen
    <3>2. RawRecordBytes * parser.data_rows \in Nat
      BY ONLY <3>1, SizesAreNumbers
    <3>3. Len(<<>>) = 0
      BY EmptySeq
    <3> QED
      BY <2>1, <3>2, <3>3
  <2>3. FilesFit'
    BY <1>1, <2>1, <2>2, RawFileFits
  <2>4. EndpointsCounted'
    BY <1>1, <2>1 DEF Counting, EndpointsCounted, Stage, Taken
  <2>5. EdgesCounted'
    BY <1>1, <2>1, <2>2 DEF EdgesCounted
  <2>6. run_writer'.state # "active"
    BY <1>1 DEF IngestInv, RunAt
  <2> QED
    BY <1>1, <2>3, <2>4, <2>5, <2>6 DEF FitInv, Counting, IdentifiersCounted
<1>3. CASE Raw!CreateFails(RawPath) /\ Go("unwind")
  <2>1. AreFiles(files) /\ stuck = {}
    BY <1>1 DEF IngestInv, Types, NamesKnown
  <2>2. /\ stuck' \subseteq {RawPath} /\ DOMAIN files' = DOMAIN files \union stuck'
        /\ \A p \in DOMAIN files : files'[p] = files[p]
        /\ RawPath \in stuck' => Len(files'[RawPath].payload) = 0
    BY <1>3, <2>1, CreationFails DEF Raw!CreateFails, Raw!Created
  <2>3. ASSUME RawPath \in DOMAIN files'
        PROVE  Fits(RawPath, files'[RawPath], RowsIn(Len(text)))
    <3>1. CASE RawPath \in stuck'
      <4>1. RowsIn(Len(text)) \in Nat
        BY RowsInIs DEF FitInv
      <4>2. RawRecordBytes * RowsIn(Len(text)) \in Nat
        BY ONLY <4>1, SizesAreNumbers
      <4> QED
        BY <2>2, <3>1, <4>2 DEF Fits
    <3>2. CASE RawPath \in DOMAIN files
      BY <2>2, <3>2 DEF FitInv, FilesFit
    <3> QED
      BY <2>2, <2>3, <3>1, <3>2
  <2> QED
    BY <1>1, <1>3, <2>2, <2>3, TornFits DEF Go
<1> QED
  BY <1>2, <1>3 DEF CreateRaw

LEMMA AppendRawFit == ASSUME IngestInv, IngestInv', FitInv, AppendRaw PROVE FitInv'
<1> DEFINE record == <<parser.source, parser.destination>>
<1>1. /\ pc = "parse" /\ parser.in_consumer # "no" /\ Counting
      /\ UNCHANGED <<parser, text, after, endpoints, completed_run_files, run_writer>>
  BY DEF FitInv, AppendRaw, bufferVars
<1>2. CASE Raw!AppendRecord(record) /\ Go("source")
  <2> DEFINE w == raw_writer
             encoded == [i \in 1 .. RawRecordBytes |-> <<record, i>>]
  <2>1. /\ w.state = "active" /\ pc' = "source" /\ IsWriter(w)
        /\ w.path = RawPath /\ WriterAgrees(w, files) /\ w.step = "none"
    BY <1>1, <1>2 DEF Raw!AppendRecord, Go, IngestInv, Types, RawAt
  <2>2. /\ raw_writer'.state = "active" /\ raw_writer'.step = "none"
        /\ raw_writer'.appended = w.appended \o encoded
    <3> HIDE DEF record
    <3>1. IsWriter(raw_writer)
      BY <2>1
    <3> QED
      BY <1>2, <2>1, <3>1 DEF Raw!AppendRecord, Raw!Encoded, IsWriter
  <2>3. /\ DOMAIN files' = DOMAIN files
        /\ \A p \in DOMAIN files' \ {RawPath} : files'[p] = files[p]
    BY <1>2, <2>1 DEF Raw!AppendRecord
  <2>4. IsSeq(w.appended) /\ Len(w.appended) \in Nat
    BY <2>1, PayloadWithin
  <2>5. IsSeq(encoded) /\ Len(encoded) = RawRecordBytes
    <3> HIDE DEF record
    <3> QED
      BY RecordIsSeq, SizesAreNumbers
  <2> HIDE DEF encoded
  <2>6. Len(raw_writer'.appended) = Len(w.appended) + RawRecordBytes
    BY <2>2, <2>4, <2>5, Concat
  <2>7. Len(w.appended) <= RawRecordBytes * parser.data_rows
    BY <1>1, <2>1 DEF Counting, EdgesCounted
  <2>8. Len(raw_writer'.appended) <= RawRecordBytes * RowsOf(parser)
    <3>1. RowsOf(parser) = parser.data_rows + 1 /\ parser.data_rows \in Nat
      BY <1>1 DEF Counting, Covers, Seen, RowsOf
    <3>2. RawRecordBytes * RowsOf(parser) = RawRecordBytes * parser.data_rows + RawRecordBytes
          /\ RawRecordBytes * parser.data_rows \in Nat
      BY ONLY <3>1, SizesAreNumbers
    <3> QED
      BY ONLY <2>4, <2>6, <2>7, <3>2, SizesAreNumbers
  <2>9. FilesFit'
    BY <1>1, <2>1, <2>2, <2>3, <2>8, RawFileFits
  <2>10. EndpointsCounted'
    BY <1>1, <2>1 DEF Counting, EndpointsCounted, Stage, Taken
  <2>11. EdgesCounted'
    BY <1>1, <2>1, <2>8 DEF EdgesCounted
  <2>12. run_writer'.state # "active"
    BY <1>1 DEF IngestInv, RunAt
  <2> QED
    BY <1>1, <2>9, <2>10, <2>11, <2>12 DEF FitInv, Counting, IdentifiersCounted
<1>3. CASE Raw!AppendFails(record) /\ Go("unwind")
  <2> HIDE DEF record
  <2> DEFINE w == raw_writer
             total == w.buffer \o [i \in 1 .. RawRecordBytes |-> <<record, i>>]
             bytes == SubSeq(total, 1, Rounded(total, WriterBufferBytes) - 1)
  <2>1. /\ w.state = "active" /\ Rounded(total, WriterBufferBytes) > 0
        /\ Raw!Poison(bytes) /\ pc' = "unwind"
    BY <1>3 DEF Raw!AppendFails, Raw!Encoded, Raw!Flushed, Rounded, Go
  <2>2. WriterAgrees(w, files) /\ w.step = "none" /\ w.path = RawPath
    BY <1>1, <2>1 DEF IngestInv, RawAt
  <2>3. RawRecordBytes \in Nat \ {0} /\ WriterBufferBytes \in Nat \ {0}
    BY IngestAssumption
  <2>4. /\ IsSeq(bytes) /\ Len(bytes) < Len(w.buffer) + RawRecordBytes
        /\ Len(bytes) \in Nat /\ Len(w.buffer) \in Nat
    BY ONLY <2>1, <2>2, <2>3, FailedWrite
  <2>5. /\ Len(files[RawPath].payload) \in Nat
        /\ Len(w.appended) = Len(files[RawPath].payload) + Len(w.buffer)
    BY <2>2, PayloadAndBuffer
  <2> HIDE DEF bytes
  <2>6. Len(w.appended) <= RawRecordBytes * parser.data_rows
    BY <1>1, <2>1 DEF Counting, EdgesCounted
  <2>7. RowsOf(parser) = parser.data_rows + 1 /\ parser.data_rows \in Nat
    BY <1>1 DEF Counting, Covers, Seen, RowsOf
  <2>8. RawRecordBytes * RowsOf(parser) = RawRecordBytes * parser.data_rows + RawRecordBytes
        /\ RawRecordBytes * parser.data_rows \in Nat
    BY ONLY <2>7, SizesAreNumbers
  <2>9. Len(files[RawPath].payload) + Len(bytes) <= RawRecordBytes * RowsOf(parser)
    <3>1. PICK a, b, c, d, e, n : /\ a = Len(files[RawPath].payload) /\ b = Len(w.buffer)
                                  /\ c = Len(bytes) /\ d = RawRecordBytes * parser.data_rows
                                  /\ e = Len(w.appended) /\ n = RawRecordBytes * RowsOf(parser)
      OBVIOUS
    <3>2. /\ a \in Nat /\ b \in Nat /\ c \in Nat /\ d \in Nat /\ c < b + RawRecordBytes
          /\ e = a + b /\ e <= d /\ n = d + RawRecordBytes
      BY <2>4, <2>5, <2>6, <2>8, <3>1
    <3>3. a + c <= n
      BY ONLY <2>3, <3>2
    <3> QED
      BY <3>1, <3>3
  <2> QED
    BY <1>1, <2>1, <2>2, <2>4, <2>9, RawTorn
<1> QED
  BY <1>2, <1>3 DEF AppendRaw

LEMMA CreateRunFit == ASSUME IngestInv, IngestInv', FitInv, CreateRun PROVE FitInv'
<1> DEFINE path == RunPath(completed_run_files)
<1>1. /\ pc = "create_run" /\ Counting
      /\ UNCHANGED <<parser, text, after, endpoints, completed_run_files, raw_writer>>
  BY DEF FitInv, CreateRun, bufferVars
<1>2. completed_run_files \in Nat /\ summary.endpoint_run_count = completed_run_files
  BY DEF IngestInv, Types
<1>3. CASE Run!Create(RunPath(summary.endpoint_run_count)) /\ Go("write_run")
  <2>1. /\ pc' = "write_run" /\ run_writer'.appended = <<>>
        /\ DOMAIN files' \subseteq DOMAIN files \union {path}
        /\ \A p \in DOMAIN files' \ {path} : files'[p] = files[p]
        /\ files'[path].payload = <<>>
    BY <1>2, <1>3 DEF Run!Create, Run!Created, Run!NoWriter, Run!EmptyFile, Go
  <2>2. Len(files'[path].payload) \in Nat
        /\ Len(files'[path].payload) <= IdRecordBytes * Len(endpoints)
    <3>1. Len(endpoints) \in Nat
      BY <1>1, SomeSeq DEF Counting, EndpointsCounted, IsSeq
    <3>2. IdRecordBytes * Len(endpoints) \in Nat
      BY ONLY <3>1, SizesAreNumbers
    <3>3. Len(<<>>) = 0
      BY EmptySeq
    <3> QED
      BY <2>1, <3>2, <3>3
  <2>3. FilesFit'
    <3> HIDE DEF path
    <3>1. path = RunPath(completed_run_files)
      BY DEF path
    <3> QED
      BY <1>1, <1>2, <2>1, <2>2, <3>1, RunFileFits
  <2>4. EndpointsCounted'
    BY <1>1, <2>1 DEF Counting, EndpointsCounted, Stage, Taken
  <2>5. EdgesCounted'
    BY <1>1, <2>1 DEF Counting, EdgesCounted
  <2>6. IdentifiersCounted'
    <3>1. IsSeq(endpoints) /\ UniqueEndpoints' = UniqueEndpoints
      BY <1>1 DEF Counting, EndpointsCounted, UniqueEndpoints
    <3>2. 0 \in 0 .. Len(UniqueEndpoints) /\ IdRecordBytes * 0 = 0
      BY <3>1, UniqueAreFewer, SizesAreNumbers
    <3>3. Len(<<>>) = 0
      BY EmptySeq
    <3> QED
      BY <2>1, <3>1, <3>2, <3>3 DEF IdentifiersCounted
  <2> QED
    BY <1>1, <2>3, <2>4, <2>5, <2>6 DEF FitInv, Counting
<1>4. CASE Run!CreateFails(RunPath(summary.endpoint_run_count)) /\ Go("unwind")
  <2>1. AreFiles(files) /\ stuck = {}
    BY <1>1 DEF IngestInv, Types, NamesKnown
  <2>2. /\ stuck' \subseteq {path} /\ DOMAIN files' = DOMAIN files \union stuck'
        /\ \A p \in DOMAIN files : files'[p] = files[p]
        /\ path \in stuck' => Len(files'[path].payload) = 0
    BY <1>2, <1>4, <2>1, CreationFails
       DEF Run!CreateFails, Run!Created, Run!EmptyFile, Raw!EmptyFile,
           Run!Placeholder, Raw!Placeholder
  <2>3. CASE path \in stuck'
    <3>1. Len(endpoints) \in Nat
      BY <1>1, SomeSeq DEF Counting, EndpointsCounted, IsSeq
    <3>2. IdRecordBytes * Len(endpoints) \in Nat
      BY ONLY <3>1, SizesAreNumbers
    <3>3. Len(files'[path].payload) \in Nat
          /\ Len(files'[path].payload) <= IdRecordBytes * Len(endpoints)
      BY <2>2, <2>3, <3>2
    <3>4. FilesFit'
      <4> HIDE DEF path
      <4>1. path = RunPath(completed_run_files)
        BY DEF path
      <4> QED
        BY <1>1, <1>2, <2>2, <3>3, <4>1, RunFileFits
    <3> QED
      BY <1>1, <1>4, <3>4 DEF FitInv, Go
  <2>4. CASE path \notin stuck'
    <3>1. DOMAIN files' \subseteq DOMAIN files /\ \A p \in DOMAIN files' : files'[p] = files[p]
      BY <2>2, <2>4
    <3>2. FilesFit'
      BY <1>1, <3>1, FewerFilesFit DEF FitInv
    <3> QED
      BY <1>1, <1>4, <3>2 DEF FitInv, Go
  <2> QED
    BY <2>3, <2>4
<1> QED
  BY <1>3, <1>4 DEF CreateRun

\* The writer of a run goes on.
LEMMA RunStep ==
  ASSUME IngestInv, IngestInv', FitInv, Counting, pc = "write_run", pc' = "write_run",
         UNCHANGED <<parser, text, after, endpoints, completed_run_files, raw_writer>>,
         run_writer.state = "active", run_writer'.state = "active",
         DOMAIN files' = DOMAIN files,
         \A p \in DOMAIN files' \ {run_writer.path} : files'[p] = files[p],
         \E m \in 0 .. Len(UniqueEndpoints) : Len(run_writer'.appended) = IdRecordBytes * m,
         \/ run_writer'.step # "headed"
         \/ files'[run_writer.path].payload = files[run_writer.path].payload
  PROVE  FitInv'
<1> DEFINE path == RunPath(completed_run_files)
<1>1. run_writer.path = path /\ run_writer'.path = path /\ completed_run_files \in Nat
  BY DEF IngestInv, RunAt, Types
<1>2. EndpointsCounted' /\ EdgesCounted'
  BY DEF Counting, EndpointsCounted, Stage, Taken, EdgesCounted
<1>3. IsSeq(endpoints) /\ UniqueEndpoints' = UniqueEndpoints
  BY DEF Counting, EndpointsCounted, UniqueEndpoints
<1>4. IdentifiersCounted'
  BY <1>3 DEF IdentifiersCounted
<1>5. FilesFit'
  <2>1. CASE run_writer'.step # "headed"
    <3>1. PICK m \in 0 .. Len(UniqueEndpoints) : Len(run_writer'.appended) = IdRecordBytes * m
      OBVIOUS
    <3>2. IdRecordBytes * m <= IdRecordBytes * Len(endpoints)
          /\ IdRecordBytes * Len(endpoints) \in Nat
      BY <1>3, RecordsAreEndpoints
    <3>3. /\ Len(files'[path].payload) \in Nat /\ Len(run_writer'.appended) \in Nat
          /\ Len(files'[path].payload) <= Len(run_writer'.appended)
      <4> DEFINE w == run_writer'
                 fs == files'
      <4>1. WriterAgrees(w, fs) /\ w.step # "headed" /\ w.path = path
        BY <1>1, <2>1 DEF IngestInv, RunAt
      <4> HIDE DEF w, fs, path
      <4>2. /\ Len(fs[path].payload) \in Nat /\ Len(w.appended) \in Nat
            /\ Len(fs[path].payload) <= Len(w.appended)
        BY ONLY <4>1, PayloadWithin
      <4> QED
        BY <4>2 DEF w, fs
    <3>4. Len(files'[path].payload) <= IdRecordBytes * Len(endpoints)
      <4>1. PICK a, b, c : /\ a = Len(files'[path].payload) /\ b = Len(run_writer'.appended)
                           /\ c = IdRecordBytes * Len(endpoints)
        OBVIOUS
      <4>2. a \in Nat /\ b \in Nat /\ c \in Nat /\ a <= b /\ b <= c
        BY <3>1, <3>2, <3>3, <4>1
      <4> QED
        BY ONLY <4>1, <4>2
    <3> HIDE DEF path
    <3>5. path = RunPath(completed_run_files)
      BY DEF path
    <3> QED
      BY <1>1, <3>3, <3>4, <3>5, RunFileFits
  <2>2. CASE files'[run_writer.path].payload = files[run_writer.path].payload
    <3>1. ASSUME NEW p \in DOMAIN files PROVE files'[p].payload = files[p].payload
      BY <2>2
    <3> QED
      BY <3>1 DEF FitInv, FilesFit, Fits, FitsRun
  <2> QED
    BY <2>1, <2>2
<1> QED
  BY <1>2, <1>4, <1>5 DEF FitInv, Counting

LEMMA WriteRunFit == ASSUME IngestInv, IngestInv', FitInv, WriteRun PROVE FitInv'
<1> DEFINE record == UniqueEndpoints[Len(run_writer.appended) \div IdRecordBytes + 1]
<1> HIDE DEF record
<1>1. /\ pc = "write_run" /\ Counting /\ ~RunWritten
      /\ UNCHANGED <<parser, text, after, endpoints, completed_run_files, raw_writer>>
  BY DEF FitInv, WriteRun, bufferVars
<1>2. CASE Run!AppendRecord(record) /\ UNCHANGED pc
  <2> DEFINE w == run_writer
             encoded == [i \in 1 .. IdRecordBytes |-> <<record, i>>]
  <2>1. /\ w.state = "active" /\ IsWriter(w) /\ WriterAgrees(w, files) /\ w.step = "none"
    BY <1>1, <1>2 DEF Run!AppendRecord, IngestInv, Types, RunAt, WriterAgrees
  <2>2. /\ run_writer'.state = "active" /\ run_writer'.step = "none"
        /\ run_writer'.appended = w.appended \o encoded
    BY <1>2, <2>1 DEF Run!AppendRecord, Run!Encoded, IsWriter
  <2>3. /\ DOMAIN files' = DOMAIN files
        /\ \A p \in DOMAIN files' \ {w.path} : files'[p] = files[p]
    BY <1>2 DEF Run!AppendRecord
  <2>4. IsSeq(w.appended) /\ Len(w.appended) \in Nat
    BY <2>1, PayloadWithin
  <2>5. IsSeq(encoded) /\ Len(encoded) = IdRecordBytes
    BY RecordIsSeq, SizesAreNumbers
  <2> HIDE DEF encoded
  <2>6. Len(run_writer'.appended) = Len(w.appended) + IdRecordBytes
    BY <2>2, <2>4, <2>5, Concat
  <2>7. PICK m \in 0 .. Len(UniqueEndpoints) : Len(w.appended) = IdRecordBytes * m
    BY <1>1, <2>1 DEF Counting, IdentifiersCounted
  <2>8. Len(UniqueEndpoints) \in Nat
    BY <1>1, UniqueAreFewer DEF Counting, EndpointsCounted
  <2>9. m + 1 \in 0 .. Len(UniqueEndpoints) /\ m \in Nat
    BY <1>1, <2>7, <2>8 DEF RunWritten
  <2>10. IdRecordBytes * (m + 1) = IdRecordBytes * m + IdRecordBytes
    BY ONLY <2>9, SizesAreNumbers
  <2>11. Len(run_writer'.appended) = IdRecordBytes * (m + 1)
    BY <2>6, <2>7, <2>10
  <2> QED
    BY <1>1, <1>2, <2>1, <2>2, <2>3, <2>9, <2>11, RunStep
<1>3. CASE Run!AppendFails(record) /\ Go("unwind")
  <2> DEFINE w == run_writer
             path == RunPath(completed_run_files)
             total == w.buffer \o [i \in 1 .. IdRecordBytes |-> <<record, i>>]
             bytes == SubSeq(total, 1, Rounded(total, WriterBufferBytes) - 1)
  <2>1. /\ w.state = "active" /\ Rounded(total, WriterBufferBytes) > 0
        /\ Run!Poison(bytes) /\ pc' = "unwind"
    BY <1>3 DEF Run!AppendFails, Run!Encoded, Run!Flushed, Rounded, Go
  <2>2. WriterAgrees(w, files) /\ w.step = "none" /\ w.path = path
    BY <1>1, <2>1 DEF IngestInv, RunAt, WriterAgrees
  <2>3. IdRecordBytes \in Nat \ {0} /\ WriterBufferBytes \in Nat \ {0}
    BY IngestAssumption
  <2>4. /\ IsSeq(bytes) /\ Len(bytes) < Len(w.buffer) + IdRecordBytes
        /\ Len(bytes) \in Nat /\ Len(w.buffer) \in Nat
    BY ONLY <2>1, <2>2, <2>3, FailedWrite
  <2>5. /\ Len(files[path].payload) \in Nat
        /\ Len(w.appended) = Len(files[path].payload) + Len(w.buffer)
    BY <2>2, PayloadAndBuffer
  <2> HIDE DEF bytes, path
  <2>6. PICK m \in 0 .. Len(UniqueEndpoints) : Len(w.appended) = IdRecordBytes * m
    BY <1>1, <2>1 DEF Counting, IdentifiersCounted
  <2>7. IsSeq(endpoints) /\ Len(UniqueEndpoints) \in Nat
    BY <1>1, UniqueAreFewer DEF Counting, EndpointsCounted
  <2>8. m + 1 \in 0 .. Len(UniqueEndpoints) /\ m \in Nat
    BY <1>1, <2>6, <2>7 DEF RunWritten
  <2>9. IdRecordBytes * (m + 1) <= IdRecordBytes * Len(endpoints)
        /\ IdRecordBytes * Len(endpoints) \in Nat
    BY <2>7, <2>8, RecordsAreEndpoints
  <2>10. IdRecordBytes * (m + 1) = IdRecordBytes * m + IdRecordBytes /\ IdRecordBytes * m \in Nat
    BY ONLY <2>8, SizesAreNumbers
  <2>11. Len(files[path].payload) + Len(bytes) <= IdRecordBytes * Len(endpoints)
    <3>1. PICK a, b, c, d, n : /\ a = Len(files[path].payload) /\ b = Len(w.buffer)
                               /\ c = Len(bytes) /\ d = IdRecordBytes * m
                               /\ n = IdRecordBytes * Len(endpoints)
      OBVIOUS
    <3>2. /\ a \in Nat /\ b \in Nat /\ c \in Nat /\ d \in Nat /\ n \in Nat
          /\ c < b + IdRecordBytes /\ d = a + b /\ d + IdRecordBytes <= n
      BY <2>4, <2>5, <2>6, <2>9, <2>10, <3>1
    <3>3. a + c <= n
      BY ONLY <2>3, <3>2
    <3> QED
      BY <3>1, <3>3
  <2>12. path = RunPath(completed_run_files)
    BY DEF path
  <2> QED
    BY <1>1, <2>1, <2>2, <2>4, <2>11, <2>12, RunTorn
<1> QED
  BY <1>2, <1>3 DEF WriteRun, record

LEMMA FinishRunFit == ASSUME IngestInv, IngestInv', FitInv, FinishRun PROVE FitInv'
<1>1. /\ pc = "write_run" /\ Counting
      /\ UNCHANGED <<parser, text, after, endpoints, completed_run_files, raw_writer>>
  BY DEF FitInv, FinishRun, bufferVars
<1>2. IsWriter(run_writer) /\ AreFiles(files)
  BY DEF IngestInv, Types
<1>3. CASE Run!FinishFlush /\ UNCHANGED pc
  <2>1. /\ run_writer.state = "active" /\ run_writer'.state = "active"
        /\ run_writer'.step = "flushed" /\ run_writer'.appended = run_writer.appended
        /\ DOMAIN files' = DOMAIN files
        /\ \A p \in DOMAIN files' \ {run_writer.path} : files'[p] = files[p]
    BY <1>2, <1>3 DEF Run!FinishFlush, IsWriter
  <2>2. \E m \in 0 .. Len(UniqueEndpoints) : Len(run_writer'.appended) = IdRecordBytes * m
    BY <1>1, <2>1 DEF Counting, IdentifiersCounted
  <2> QED
    BY <1>1, <1>3, <2>1, <2>2, RunStep
<1>4. CASE Run!FinishHeader /\ UNCHANGED pc
  <2>1. /\ run_writer.state = "active" /\ run_writer'.state = "active"
        /\ run_writer'.appended = run_writer.appended
        /\ files' = WithHeader(files, run_writer.path, Run!Header(run_writer.appended))
    BY <1>2, <1>4 DEF Run!FinishHeader, IsWriter, WithHeader
  <2>2. run_writer.path \in DOMAIN files
    BY <2>1 DEF IngestInv, RunAt, WriterAgrees
  <2>3. /\ DOMAIN files' = DOMAIN files
        /\ files'[run_writer.path].payload = files[run_writer.path].payload
        /\ \A p \in DOMAIN files \ {run_writer.path} : files'[p] = files[p]
    BY <1>2, <2>1, <2>2, HeaderWritten
  <2>4. \E m \in 0 .. Len(UniqueEndpoints) : Len(run_writer'.appended) = IdRecordBytes * m
    BY <1>1, <2>1 DEF Counting, IdentifiersCounted
  <2> QED
    BY <1>1, <1>4, <2>1, <2>3, <2>4, RunStep
<1>5. CASE Run!FinishFails /\ Go("unwind")
  <2> DEFINE w == run_writer
             path == RunPath(completed_run_files)
  <2>1. w.state = "active" /\ Run!Poison(w.buffer) /\ pc' = "unwind"
    BY <1>5 DEF Run!FinishFails, Go
  <2>2. /\ WriterAgrees(w, files) /\ w.path = path /\ IsSeq(w.buffer)
        /\ w.step = "none" \/ w.buffer = <<>>
    BY <2>1 DEF IngestInv, RunAt, WriterAgrees
  <2>3. ASSUME w.step = "none"
        PROVE  Len(files[path].payload) + Len(w.buffer) <= IdRecordBytes * Len(endpoints)
    <3>1. Len(w.appended) = Len(files[path].payload) + Len(w.buffer)
      BY <2>2, <2>3, PayloadAndBuffer
    <3>2. PICK m \in 0 .. Len(UniqueEndpoints) : Len(w.appended) = IdRecordBytes * m
      BY <1>1, <2>1 DEF Counting, IdentifiersCounted
    <3>3. IdRecordBytes * m <= IdRecordBytes * Len(endpoints)
      BY <1>1, RecordsAreEndpoints DEF Counting, EndpointsCounted
    <3> QED
      BY <3>1, <3>2, <3>3
  <2> HIDE DEF path
  <2>4. path = RunPath(completed_run_files)
    BY DEF path
  <2> QED
    BY <1>1, <2>1, <2>2, <2>3, <2>4, RunTorn
<1> QED
  BY <1>3, <1>4, <1>5 DEF FinishRun

LEMMA CloseRunFit == ASSUME IngestInv, IngestInv', FitInv, CloseRun PROVE FitInv'
<1>1. /\ pc = "write_run" /\ Counting /\ pc' = after /\ endpoints' = <<>>
      /\ completed_run_files' = completed_run_files + 1 /\ completed_run_files \in Nat
      /\ run_writer'.state # "active"
      /\ UNCHANGED <<parser, text, after, raw_writer, files>>
  BY DEF FitInv, CloseRun, Run!FinishClose, Go, IngestInv, Types
<1>2. Stage' = Stage /\ Stage = after /\ after \in {"destination", "accepted", "check"}
  BY <1>1 DEF Counting, EndpointsCounted, Stage
<1>3. Taken' = Taken
  BY <1>2 DEF Taken
<1>4. IsSeq(<<>>) /\ Len(<<>>) = 0
  BY EmptySeq DEF IsSeq
<1>5. ASSUME after # "check"
      PROVE  completed_run_files' * EndpointIdsPerRun + 0 <= 2 * parser.data_rows + Taken
  <2>1. completed_run_files * EndpointIdsPerRun + EndpointIdsPerRun <= 2 * parser.data_rows + Taken
    BY <1>1, <1>5 DEF Counting, EndpointsCounted
  <2>2. (completed_run_files + 1) * EndpointIdsPerRun + 0
          = completed_run_files * EndpointIdsPerRun + EndpointIdsPerRun
    BY ONLY <1>1, SizesAreNumbers
  <2> QED
    BY <1>1, <2>1, <2>2
<1>6. EndpointsCounted'
  <2> QED
    BY <1>1, <1>2, <1>3, <1>4, <1>5, SizesAreNumbers DEF Counting, EndpointsCounted
<1>7. EdgesCounted'
  BY <1>1, <1>2 DEF Counting, EdgesCounted
<1> QED
  BY <1>1, <1>6, <1>7 DEF FitInv, FilesFit, Counting, IdentifiersCounted

LEMMA FinishRawFit == ASSUME IngestInv, IngestInv', FitInv, FinishRaw PROVE FitInv'
<1>1. /\ pc = "check" /\ Counting
      /\ UNCHANGED <<parser, text, after, endpoints, completed_run_files, run_writer>>
  BY DEF FitInv, FinishRaw, bufferVars
<1>2. IsWriter(raw_writer) /\ AreFiles(files) /\ run_writer.state # "active"
  BY <1>1 DEF IngestInv, Types, RunAt
<1>3. ASSUME pc' = "check", raw_writer'.appended = raw_writer.appended,
             raw_writer'.state = raw_writer.state, FilesFit'
      PROVE  FitInv'
  <2>1. EndpointsCounted' /\ EdgesCounted' /\ IdentifiersCounted'
    BY <1>1, <1>2, <1>3 DEF Counting, EndpointsCounted, EdgesCounted, IdentifiersCounted,
       Stage, Taken
  <2> QED
    BY <1>1, <1>3, <2>1 DEF FitInv, Counting
<1>4. CASE Raw!FinishFlush /\ UNCHANGED pc
  <2>1. /\ raw_writer.state = "active" /\ raw_writer'.state = "active"
        /\ raw_writer'.step = "flushed" /\ raw_writer'.appended = raw_writer.appended
    BY <1>2, <1>4 DEF Raw!FinishFlush, IsWriter
  <2>2. raw_writer.path = RawPath
    BY <1>1, <2>1 DEF IngestInv, RawAt
  <2>3. /\ DOMAIN files' \subseteq DOMAIN files \union {RawPath}
        /\ \A p \in DOMAIN files' \ {RawPath} : files'[p] = files[p]
    BY <1>4, <2>2 DEF Raw!FinishFlush
  <2>4. Len(raw_writer'.appended) <= RawRecordBytes * RowsOf(parser)
    BY <1>1, <2>1 DEF Counting, EdgesCounted
  <2>5. FilesFit'
    BY <1>1, <1>4, <2>1, <2>3, <2>4, RawFileFits
  <2> QED
    BY <1>1, <1>3, <1>4, <2>1, <2>5
<1>5. CASE Raw!FinishHeader /\ UNCHANGED pc
  <2>1. /\ raw_writer.state = "active" /\ raw_writer'.state = "active"
        /\ raw_writer'.appended = raw_writer.appended
        /\ files' = WithHeader(files, raw_writer.path, Raw!Header(raw_writer.appended))
    BY <1>2, <1>5 DEF Raw!FinishHeader, IsWriter, WithHeader
  <2>2. raw_writer.path \in DOMAIN files
    BY <1>1, <2>1 DEF IngestInv, RawAt, WriterAgrees
  <2>3. /\ DOMAIN files' = DOMAIN files
        /\ files'[raw_writer.path].payload = files[raw_writer.path].payload
        /\ \A p \in DOMAIN files \ {raw_writer.path} : files'[p] = files[p]
    BY <1>2, <2>1, <2>2, HeaderWritten
  <2>4. ASSUME NEW p \in DOMAIN files PROVE files'[p].payload = files[p].payload
    BY <2>3
  <2>5. FilesFit'
    BY <1>1, <2>3, <2>4 DEF FitInv, FilesFit, Fits, FitsRun
  <2> QED
    BY <1>1, <1>3, <1>5, <2>1, <2>5
<1>6. CASE Raw!FinishFails /\ Go("unwind")
  <2> DEFINE w == raw_writer
  <2>1. w.state = "active" /\ Raw!Poison(w.buffer) /\ pc' = "unwind"
    BY <1>6 DEF Raw!FinishFails, Go
  <2>2. /\ WriterAgrees(w, files) /\ w.path = RawPath /\ IsSeq(w.buffer)
        /\ w.step = "none" \/ w.buffer = <<>>
    BY <1>1, <2>1 DEF IngestInv, RawAt, WriterAgrees
  <2>3. ASSUME w.step = "none"
        PROVE  Len(files[RawPath].payload) + Len(w.buffer) <= RawRecordBytes * RowsOf(parser)
    <3>1. Len(w.appended) = Len(files[RawPath].payload) + Len(w.buffer)
      BY <2>2, <2>3, PayloadAndBuffer
    <3>2. Len(w.appended) <= RawRecordBytes * RowsOf(parser)
      BY <1>1, <2>1 DEF Counting, EdgesCounted
    <3> QED
      BY <3>1, <3>2
  <2> QED
    BY <1>1, <2>1, <2>2, <2>3, RawTorn
<1>7. CASE Go("unwind") /\ UNCHANGED <<raw_writer, files, stuck>>
  BY <1>1, <1>7 DEF Go, FitInv, FilesFit
<1> QED
  BY <1>4, <1>5, <1>6, <1>7 DEF FinishRaw

\* What abort_noexcept leaves was there before.
LEMMA AbortFit ==
  ASSUME FitInv, NEW how, Abort(how)
  PROVE  FitInv'
<1>1. pc' = "done" /\ UNCHANGED text
  BY DEF Abort, Go
<1>2. DOMAIN files' \subseteq DOMAIN files /\ \A p \in DOMAIN files' : files'[p] = files[p]
  BY DEF Abort
<1> QED
  BY <1>1, <1>2, FewerFilesFit DEF FitInv

LEMMA FitKept ==
  ASSUME IngestInv, IngestInv', FitInv, [IngestNext]_ingestVars
  PROVE  FitInv'
<1>1. CASE CreateRaw
  BY <1>1, CreateRawFit
<1>2. CASE Consume
  BY <1>2, ConsumeFit
<1>3. CASE CallFinish
  BY <1>3, CallFinishFit
<1>4. CASE AppendRaw
  BY <1>4, AppendRawFit
<1>5. CASE AppendEndpoint("source", "destination")
  BY <1>5, AppendEndpointFit
<1>6. CASE AppendEndpoint("destination", "accepted")
  BY <1>6, AppendEndpointFit
<1>7. CASE CreateRun
  BY <1>7, CreateRunFit
<1>8. CASE WriteRun
  BY <1>8, WriteRunFit
<1>9. CASE FinishRun
  BY <1>9, FinishRunFit
<1>10. CASE CloseRun
  BY <1>10, CloseRunFit
<1>11. CASE Accept
  BY <1>11, AcceptFit
<1>12. CASE LastRun
  BY <1>12, LastRunFit
<1>13. CASE FinishRaw
  BY <1>13, FinishRawFit
<1>14. CASE CloseRaw
  BY <1>14 DEF CloseRaw, Raw!FinishClose, Go, FitInv, FilesFit
<1>15. CASE Fail
  BY <1>15, AbortFit DEF Fail
<1>16. CASE Destroy
  BY <1>16, AbortFit DEF Destroy
<1>17. CASE UNCHANGED ingestVars
  <2>1. UNCHANGED <<parser, text, pc, after, endpoints, completed_run_files, raw_writer,
                    run_writer, files>>
    BY <1>17 DEF ingestVars, bufferVars, writerVars
  <2>2. FilesFit'
    BY <2>1 DEF FitInv, FilesFit
  <2>3. Counting => IdentifiersCounted'
    BY <2>1 DEF Counting, IdentifiersCounted, UniqueEndpoints
  <2>4. Counting => Counting'
    BY <2>1, <2>3 DEF Counting, EndpointsCounted, EdgesCounted, Stage, Taken
  <2> QED
    BY <2>1, <2>2, <2>4 DEF FitInv
<1> QED
  BY <1>1, <1>2, <1>3, <1>4, <1>5, <1>6, <1>7, <1>8, <1>9, <1>10, <1>11, <1>12, <1>13,
     <1>14, <1>15, <1>16, <1>17 DEF IngestNext

\* However the text goes on and wherever it ends, and whatever fails, the files
\* and the bytes that the ingest has on disk are within what prepare.cpp asked
\* the filesystem for, with a limit that the text just meets
\* (prepare.cpp:154-214, ingest.cpp:224-378).
THEOREM IngestStaysInPlan == IngestSpec => []IngestFitsItsPlan
<1>1. IngestInit => FitInv
  BY FitStarts
<1>2. IngestInv /\ Returns /\ FitInv /\ [IngestNext]_ingestVars => FitInv'
  BY IngestKept, FitKept
<1>3. IngestInit => IngestInv /\ Returns
  BY IngestStarts DEF IngestInit, Returns
<1>4. FitInv => IngestFitsItsPlan
  BY FilesFitThePlan DEF FitInv
<1> QED
  BY <1>1, <1>2, <1>3, <1>4, IngestKept, PTL DEF IngestSpec

----------------------------------------------------------------------------
(* The merge.                                                              *)

\* Readable and EdgesOf, of any state of the workspace.
ReadableIn(R, rs) ==
  rs \subseteq DOMAIN R /\ \A r \in rs : R[r].complete /\ R[r].edges # {}
EdgesIn(R, rs) == UNION {R[r].edges : r \in rs}

Typed ==
  /\ current.generation \in Nat /\ current.run_count \in Nat
  /\ frontier.generation \in Nat /\ frontier.run_count \in Nat
  /\ known.generation \in Nat /\ known.run_count \in Nat

Whole ==
  /\ frontier.generation \in dirs
  /\ ReadableIn(runs, Generation(frontier))
  /\ EdgesIn(runs, Generation(frontier)) = input

KnownIsWholeOrGone ==
  ReadableIn(runs, Generation(known)) =>
    /\ known.generation \in dirs
    /\ EdgesIn(runs, Generation(known)) = input

Placed ==
  /\ place \in {"pass", "group", "merge", "cleanup"} => current = frontier
  /\ place = "retire" => frontier.generation = current.generation + 1
  /\ place \in {"pass", "group", "merge", "cleanup", "retire"} =>
       known.generation <= current.generation

PassIsExact ==
  place \in {"group", "merge"} =>
    /\ current.generation + 1 \in dirs
    /\ output_index \in Nat
    /\ input_begin \in Nat /\ input_begin <= current.run_count
    /\ RunsOf(current.generation + 1, 0, output_index) \subseteq DOMAIN runs
    /\ EdgesIn(runs, RunsOf(current.generation + 1, 0, output_index))
         = EdgesIn(runs, RunsOf(current.generation, 0, input_begin))

Reported ==
  /\ outcome = "progress" => known = frontier
  /\ place # "idle" => outcome = "none"

IInv ==
  Typed /\ input # {} /\ Whole /\ KnownIsWholeOrGone /\ Placed /\ PassIsExact
  /\ Reported

----------------------------------------------------------------------------
(* Sets of runs, and workspaces that agree on them.                        *)

\* A workspace that agrees with another on some runs of both is as readable
\* there, and holds the same edges.
LEMMA Agree ==
  ASSUME NEW R, NEW Q, NEW rs, rs \subseteq DOMAIN R, rs \subseteq DOMAIN Q,
         \A r \in rs : Q[r] = R[r]
  PROVE  /\ ReadableIn(Q, rs) <=> ReadableIn(R, rs)
         /\ EdgesIn(Q, rs) = EdgesIn(R, rs)
BY DEF ReadableIn, EdgesIn

\* Writing a run leaves the other runs as they are.
LEMMA WriteKeeps ==
  ASSUME NEW r, NEW content, Write(r, content), NEW rs, r \notin rs
  PROVE  /\ DOMAIN runs \subseteq DOMAIN runs'
         /\ ReadableIn(runs', rs) <=> ReadableIn(runs, rs)
         /\ rs \subseteq DOMAIN runs => EdgesIn(runs', rs) = EdgesIn(runs, rs)
<1>1. /\ DOMAIN runs' = DOMAIN runs \union {r}
      /\ \A x \in DOMAIN runs \ {r} : runs'[x] = runs[x]
  BY DEF Write
<1>2. CASE rs \subseteq DOMAIN runs
  BY <1>1, <1>2, Agree
<1>3. CASE ~(rs \subseteq DOMAIN runs)
  BY <1>1, <1>3 DEF ReadableIn
<1> QED BY <1>1, <1>2, <1>3

\* Runs that are still there after others were unlinked are as they were.
LEMMA UnlinkKeeps ==
  ASSUME NEW gone, Unlink(gone), NEW rs
  PROVE  /\ ReadableIn(runs', rs) => ReadableIn(runs, rs)
         /\ ReadableIn(runs', rs) => EdgesIn(runs', rs) = EdgesIn(runs, rs)
         /\ rs \intersect gone = {} /\ rs \subseteq DOMAIN runs =>
              /\ ReadableIn(runs', rs) <=> ReadableIn(runs, rs)
              /\ EdgesIn(runs', rs) = EdgesIn(runs, rs)
<1>1. /\ DOMAIN runs' = DOMAIN runs \ gone
      /\ \A x \in DOMAIN runs \ gone : runs'[x] = runs[x]
  BY DEF Unlink
<1>2. CASE rs \subseteq DOMAIN runs'
  BY <1>1, <1>2, Agree
<1>3. CASE ~(rs \subseteq DOMAIN runs')
  BY <1>1, <1>3 DEF ReadableIn
<1> QED BY <1>2, <1>3

\* An interval of runs, cut in two.
LEMMA RunsCut ==
  ASSUME NEW g, NEW m \in Nat, NEW n \in Nat
  PROVE  RunsOf(g, 0, m + n) = RunsOf(g, 0, m) \union RunsOf(g, m, m + n)
BY DEF RunsOf

LEMMA RunsNext ==
  ASSUME NEW g, NEW m \in Nat
  PROVE  /\ RunsOf(g, 0, m + 1) = RunsOf(g, 0, m) \union {<<g, m>>}
         /\ <<g, m>> \notin RunsOf(g, 0, m)
BY DEF RunsOf

LEMMA EdgesUnion ==
  ASSUME NEW R, NEW rs, NEW qs
  PROVE  EdgesIn(R, rs \union qs) = EdgesIn(R, rs) \union EdgesIn(R, qs)
BY DEF EdgesIn

\* SuccessorRunCount counts runs.
LEMMA SuccessorRunCountIsNat ==
  ASSUME NEW n \in Nat PROVE SuccessorRunCount(n) \in Nat
<1>1. FanIn \in Nat /\ FanIn > 0 BY MergeAssumption
<1>2. n \div FanIn \in Nat BY <1>1
<1> QED BY <1>2 DEF SuccessorRunCount

----------------------------------------------------------------------------
(* The invariant holds at the start, and every action keeps it.            *)

LEMMA InitInv == Init => IInv
<1> SUFFICES ASSUME Init PROVE IInv OBVIOUS
<1> DEFINE Begins(n, content) ==
      /\ dirs = {0}
      /\ runs = [r \in RunsOf(0, 0, n) |->
                   [edges |-> content[r[2]], complete |-> TRUE]]
      /\ known = Frontier(0, n, Records(RunsOf(0, 0, n)))
      /\ input = EdgesOf(RunsOf(0, 0, n))
      /\ current = known /\ frontier = known
      /\ place = "idle" /\ outcome = "none"
<1>0. PICK n \in 1 .. MaxRuns :
        \E content \in [0 .. n - 1 -> (SUBSET Edges) \ {{}}] : Begins(n, content)
  BY DEF Init
<1>1. PICK content \in [0 .. n - 1 -> (SUBSET Edges) \ {{}}] : Begins(n, content)
  BY <1>0
<1>2. n \in Nat /\ n > 0 BY MergeAssumption
<1>3. Generation(known) = RunsOf(0, 0, n) /\ known.generation = 0
      /\ known.run_count = n
  BY <1>1 DEF Frontier, Generation
<1>4. Typed BY <1>1, <1>2, <1>3 DEF Typed
<1>5. \A r \in RunsOf(0, 0, n) : r[2] \in 0 .. n - 1 BY DEF RunsOf
<1>6. ReadableIn(runs, RunsOf(0, 0, n))
  <2>1. DOMAIN runs = RunsOf(0, 0, n) BY <1>1
  <2>2. \A r \in RunsOf(0, 0, n) : runs[r].complete /\ runs[r].edges # {}
    BY <1>1, <1>5
  <2> QED BY <2>1, <2>2 DEF ReadableIn
<1>7. EdgesIn(runs, RunsOf(0, 0, n)) = input BY <1>1 DEF EdgesIn, EdgesOf
<1>8. input # {}
  <2>1. <<0, 0>> \in RunsOf(0, 0, n) BY <1>2 DEF RunsOf
  <2>2. runs[<<0, 0>>].edges # {} BY <1>6, <2>1 DEF ReadableIn
  <2> QED BY <1>7, <2>1, <2>2 DEF EdgesIn
<1>9. Whole /\ KnownIsWholeOrGone
  BY <1>1, <1>3, <1>6, <1>7 DEF Whole, KnownIsWholeOrGone
<1> QED BY <1>1, <1>4, <1>8, <1>9 DEF IInv, Placed, PassIsExact, Reported

\* Steps that touch neither the workspace nor the frontier and its pass: they
\* move within the call, or tell the caller of the frontier.
LEMMA QuietStep ==
  ASSUME IInv, UNCHANGED <<workspace, current, frontier, input>>,
         known' \in {known, frontier}, Placed', PassIsExact', Reported'
  PROVE  IInv'
<1>1. Typed' /\ (input # {})' BY DEF IInv, Typed
<1>2. Whole' BY DEF IInv, Whole, Generation, RunsOf, workspace
<1>3. KnownIsWholeOrGone'
  BY DEF IInv, Whole, KnownIsWholeOrGone, Generation, RunsOf, workspace
<1> QED BY <1>1, <1>2, <1>3 DEF IInv

LEMMA CallInv == ASSUME IInv, Call PROVE IInv'
<1>1. Placed' /\ PassIsExact' BY DEF Call, Placed, PassIsExact
<1>2. Reported' BY DEF Call, Reported
<1> QED BY <1>1, <1>2, QuietStep DEF Call, history

LEMMA StartVerifiedInv == ASSUME IInv, StartVerified PROVE IInv'
<1> USE DEF IInv
<1>1. Typed' BY DEF Typed, StartVerified, caller
<1>2. ReadableIn(runs, Generation(known))
  BY DEF StartVerified, Verified, Readable, ReadableIn
<1>3. known.generation \in dirs /\ EdgesIn(runs, Generation(known)) = input
  BY <1>2 DEF KnownIsWholeOrGone
<1>4. Whole' /\ KnownIsWholeOrGone'
  BY <1>2, <1>3
  DEF StartVerified, Whole, KnownIsWholeOrGone, Generation, RunsOf,
      workspace, caller, history
<1>5. Placed' /\ PassIsExact'
  BY <1>1 DEF StartVerified, Placed, PassIsExact, caller, Typed
<1>6. Reported' BY DEF StartVerified, Reported, caller
<1> QED BY <1>1, <1>4, <1>5, <1>6 DEF StartVerified, history

LEMMA NotStartedInv == ASSUME IInv, NotStarted PROVE IInv'
<1>1. Placed' /\ PassIsExact' BY DEF NotStarted, Placed, PassIsExact
<1>2. Reported' BY DEF NotStarted, Reported, caller, progress, IInv
<1> QED BY <1>1, <1>2, QuietStep DEF NotStarted, caller, progress, history

LEMMA ReturnInv == ASSUME IInv, Return PROVE IInv'
<1>1. Placed' /\ PassIsExact' BY DEF Return, Placed, PassIsExact
<1>2. Reported' BY DEF Return, Reported
<1>3. known' = frontier BY DEF Return, IInv, Placed
<1> QED BY <1>1, <1>2, <1>3, QuietStep DEF Return, progress, history

LEMMA ThrowInv == ASSUME IInv, Throw \/ ThrowBadAlloc PROVE IInv'
<1>1. Placed' /\ PassIsExact' BY DEF Throw, ThrowBadAlloc, Placed, PassIsExact
<1>2. Reported' BY DEF Throw, ThrowBadAlloc, Reported, progress
<1>3. known' \in {known, frontier} BY DEF Throw, ThrowBadAlloc
<1> QED BY <1>1, <1>2, <1>3, QuietStep DEF Throw, ThrowBadAlloc, progress, history

LEMMA RemoveFailsInv == ASSUME IInv, RemoveFails PROVE IInv'
<1>1. Placed' /\ PassIsExact' BY DEF RemoveFails, Placed, PassIsExact
<1>2. Reported' BY DEF RemoveFails, Reported, caller, progress, IInv
<1> QED BY <1>1, <1>2, QuietStep DEF RemoveFails, caller, progress

LEMMA BeginPassInv == ASSUME IInv, BeginPass PROVE IInv'
<1> USE DEF IInv
<1>1. Typed' BY DEF Typed, BeginPass, caller, progress
<1>2. current = frontier /\ current' = current /\ place' = "group"
  BY DEF BeginPass, Placed
<1>3. Whole' /\ KnownIsWholeOrGone'
  BY DEF BeginPass, Whole, KnownIsWholeOrGone, Generation, RunsOf,
         caller, progress, history
<1>4. Placed' BY <1>2 DEF BeginPass, Placed, caller, progress
<1>5. PassIsExact'
  <2>1. current.generation + 1 \in dirs' BY DEF BeginPass, Successor, Frontier
  <2>2. input_begin' = 0 /\ output_index' = 0 /\ current' = current /\ runs' = runs
    BY DEF BeginPass
  <2>3. \A g : RunsOf(g, 0, 0) = {} BY DEF RunsOf
  <2> QED BY <2>1, <2>2, <2>3 DEF PassIsExact, EdgesIn, Typed
<1>6. Reported' BY DEF BeginPass, Reported, caller, progress
<1> QED BY <1>1, <1>3, <1>4, <1>5, <1>6 DEF BeginPass, history

\* Steps that write a run one generation above the frontier.
LEMMA WriteStep ==
  ASSUME IInv, place \in {"group", "merge"},
         NEW i, NEW content, Write(<<current.generation + 1, i>>, content),
         UNCHANGED <<dirs, current, frontier, known, input, outcome>>,
         place' \in {"group", "merge", "cleanup"}, PassIsExact'
  PROVE  IInv'
<1> USE DEF IInv
<1> DEFINE out == <<current.generation + 1, i>>
<1>1. Typed' BY DEF Typed
<1>2. current = frontier /\ known.generation <= current.generation BY DEF Placed
<1>3. out \notin Generation(frontier)
  BY <1>2 DEF Typed, Generation, RunsOf
<1>4. out \notin Generation(known)
  BY <1>2 DEF Typed, Generation, RunsOf
<1>5. Generation(frontier)' = Generation(frontier)
      /\ Generation(known)' = Generation(known)
  BY DEF Generation, RunsOf
<1>6. Whole'
  <2>1. ReadableIn(runs, Generation(frontier)) BY DEF Whole
  <2>2. Generation(frontier) \subseteq DOMAIN runs BY <2>1 DEF ReadableIn
  <2> QED BY <1>3, <1>5, <2>1, <2>2, WriteKeeps DEF Whole
<1>7. KnownIsWholeOrGone'
  <2>1. ReadableIn(runs', Generation(known)) => ReadableIn(runs, Generation(known))
    BY <1>4, WriteKeeps
  <2>2. ReadableIn(runs, Generation(known)) =>
          EdgesIn(runs', Generation(known)) = EdgesIn(runs, Generation(known))
    BY <1>4, WriteKeeps DEF ReadableIn
  <2> QED BY <1>5, <2>1, <2>2 DEF KnownIsWholeOrGone
<1>8. Placed' BY <1>2 DEF Placed
<1>9. Reported' BY DEF Reported
<1> QED BY <1>1, <1>6, <1>7, <1>8, <1>9

LEMMA OpenGroupInv == ASSUME IInv, OpenGroup PROVE IInv'
<1> USE DEF IInv
<1> DEFINE made == RunsOf(current.generation + 1, 0, output_index)
           used == RunsOf(current.generation, 0, input_begin)
<1>1. Write(<<current.generation + 1, output_index>>,
            [edges |-> {}, complete |-> FALSE])
  BY DEF OpenGroup, Output, Successor, Frontier
<1>2. UNCHANGED <<dirs, current, frontier, known, input, outcome,
                  output_index, input_begin>>
      /\ place = "group" /\ place' = "merge"
  BY DEF OpenGroup, pass, progress, caller, history
<1>3. /\ current.generation + 1 \in dirs /\ output_index \in Nat
      /\ input_begin \in Nat /\ input_begin <= current.run_count
      /\ made \subseteq DOMAIN runs /\ EdgesIn(runs, made) = EdgesIn(runs, used)
  BY <1>2 DEF PassIsExact
<1>4. <<current.generation + 1, output_index>> \notin made
  BY <1>3 DEF RunsOf
<1>5. <<current.generation + 1, output_index>> \notin used
  BY <1>3 DEF RunsOf, Typed
<1>6. used \subseteq DOMAIN runs
  <2>1. used \subseteq Generation(current)
    BY <1>3 DEF Generation, RunsOf, Typed
  <2>2. current = frontier BY <1>2 DEF Placed
  <2> QED BY <2>1, <2>2 DEF Whole, ReadableIn
<1>7. /\ DOMAIN runs \subseteq DOMAIN runs'
      /\ EdgesIn(runs', made) = EdgesIn(runs, made)
  BY <1>1, <1>3, <1>4, WriteKeeps
<1>8. EdgesIn(runs', used) = EdgesIn(runs, used)
  BY <1>1, <1>5, <1>6, WriteKeeps
<1>9. PassIsExact' BY <1>2, <1>3, <1>7, <1>8 DEF PassIsExact
<1> QED BY <1>1, <1>2, <1>9, WriteStep

LEMMA MergeGroupInv == ASSUME IInv, MergeGroup PROVE IInv'
<1> USE DEF IInv
<1> DEFINE made == RunsOf(current.generation + 1, 0, output_index)
           used == RunsOf(current.generation, 0, input_begin)
           out == <<current.generation + 1, output_index>>
<1>1. Write(out, [edges |-> EdgesOf(Group), complete |-> TRUE])
  BY DEF MergeGroup, Output, Successor, Frontier
<1>2. /\ UNCHANGED <<dirs, current, frontier, known, input, outcome>>
      /\ place = "merge" /\ place' = "group"
      /\ output_index' = output_index + 1
      /\ input_begin' = input_begin + GroupSize
  BY DEF MergeGroup, progress, caller, history
<1>3. /\ current.generation + 1 \in dirs /\ output_index \in Nat
      /\ input_begin \in Nat /\ input_begin <= current.run_count
      /\ made \subseteq DOMAIN runs /\ EdgesIn(runs, made) = EdgesIn(runs, used)
  BY <1>2 DEF PassIsExact
<1>4. GroupSize \in Nat /\ input_begin + GroupSize <= current.run_count
  BY <1>3, MergeAssumption DEF GroupSize, Typed
<1>5. RunsOf(current.generation, 0, input_begin + GroupSize) = used \union Group
  BY <1>3, <1>4, RunsCut DEF Group
<1>6. RunsOf(current.generation + 1, 0, output_index + 1) = made \union {out}
      /\ out \notin made
  BY <1>3, RunsNext
<1>7. out \notin used \union Group
  <2>1. out \notin RunsOf(current.generation, 0, input_begin + GroupSize)
    BY DEF RunsOf, Typed
  <2> QED BY <1>5, <2>1
<1>8. used \union Group \subseteq DOMAIN runs
  <2>1. used \union Group \subseteq Generation(current)
    BY <1>3, <1>4, <1>5 DEF Generation, RunsOf, Typed
  <2>2. current = frontier BY <1>2 DEF Placed
  <2> QED BY <2>1, <2>2 DEF Whole, ReadableIn
<1>9. EdgesIn(runs', used \union Group) = EdgesIn(runs, used \union Group)
  BY <1>1, <1>7, <1>8, WriteKeeps
<1>10. EdgesIn(runs', made) = EdgesIn(runs, made)
  BY <1>1, <1>3, <1>6, WriteKeeps
<1>11. out \in DOMAIN runs' /\ DOMAIN runs \subseteq DOMAIN runs'
       /\ runs'[out].edges = EdgesOf(Group)
  BY <1>1 DEF Write
<1>12. EdgesIn(runs', {out}) = EdgesIn(runs, Group)
  <2>1. EdgesIn(runs', {out}) = runs'[out].edges BY DEF EdgesIn
  <2>2. EdgesOf(Group) = EdgesIn(runs, Group) BY DEF EdgesIn, EdgesOf
  <2> QED BY <1>11, <2>1, <2>2
<1>13. EdgesIn(runs', made \union {out}) = EdgesIn(runs', used \union Group)
  <2>1. EdgesIn(runs', made \union {out})
          = EdgesIn(runs', made) \union EdgesIn(runs', {out})
    BY EdgesUnion
  <2>2. EdgesIn(runs, used \union Group)
          = EdgesIn(runs, used) \union EdgesIn(runs, Group)
    BY EdgesUnion
  <2> QED BY <1>3, <1>9, <1>10, <1>12, <2>1, <2>2
<1>14. PassIsExact'
  <2>1. made \union {out} \subseteq DOMAIN runs' BY <1>3, <1>11
  <2>2. output_index + 1 \in Nat /\ input_begin + GroupSize \in Nat BY <1>3, <1>4
  <2> QED BY <1>2, <1>3, <1>4, <1>5, <1>6, <1>13, <2>1, <2>2 DEF PassIsExact
<1> QED BY <1>1, <1>2, <1>14, WriteStep

LEMMA GroupFailsInv == ASSUME IInv, GroupFails PROVE IInv'
<1> USE DEF IInv
<1>1. /\ UNCHANGED <<dirs, current, frontier, known, input, outcome>>
      /\ place = "group" /\ place' = "cleanup"
  BY DEF GroupFails, progress, caller
<1>2. PassIsExact' BY <1>1 DEF PassIsExact
<1>3. CASE UNCHANGED runs
  <2>1. Typed' BY <1>1 DEF Typed
  <2>2. Whole' /\ KnownIsWholeOrGone'
    BY <1>1, <1>3 DEF Whole, KnownIsWholeOrGone, Generation, RunsOf
  <2>3. Placed' /\ Reported' BY <1>1 DEF Placed, Reported
  <2> QED BY <1>1, <1>2, <2>1, <2>2, <2>3
<1>4. CASE Write(Output, [edges |-> {}, complete |-> FALSE])
  <2>1. Output = <<current.generation + 1, output_index>>
    BY DEF Output, Successor, Frontier
  <2> QED BY <1>1, <1>2, <1>4, <2>1, WriteStep
<1> QED BY <1>3, <1>4 DEF GroupFails

\* Steps that unlink runs which are not the frontier's.
LEMMA UnlinkStep ==
  ASSUME IInv, NEW gone, Unlink(gone), Generation(frontier) \intersect gone = {},
         frontier.generation \in dirs',
         ReadableIn(runs', Generation(known)) => known.generation \in dirs',
         UNCHANGED <<frontier, known, input>>
  PROVE  Whole' /\ KnownIsWholeOrGone'
<1> USE DEF IInv
<1>1. Generation(frontier)' = Generation(frontier)
      /\ Generation(known)' = Generation(known)
  BY DEF Generation, RunsOf
<1>2. ReadableIn(runs, Generation(frontier)) BY DEF Whole
<1>3. Generation(frontier) \subseteq DOMAIN runs BY <1>2 DEF ReadableIn
<1>4. Whole' BY <1>1, <1>2, <1>3, UnlinkKeeps DEF Whole
<1>5. KnownIsWholeOrGone'
  <2>1. ReadableIn(runs', Generation(known)) =>
          /\ ReadableIn(runs, Generation(known))
          /\ EdgesIn(runs', Generation(known)) = EdgesIn(runs, Generation(known))
    BY UnlinkKeeps
  <2> QED BY <1>1, <2>1 DEF KnownIsWholeOrGone
<1> QED BY <1>4, <1>5

LEMMA MergeFailsInv == ASSUME IInv, MergeFails PROVE IInv'
<1> USE DEF IInv
<1>1. /\ UNCHANGED <<dirs, current, frontier, known, input, outcome>>
      /\ place = "merge" /\ place' = "cleanup"
  BY DEF MergeFails, progress, caller
<1>2. Typed' /\ Placed' /\ PassIsExact' /\ Reported'
  BY <1>1 DEF Typed, Placed, PassIsExact, Reported
<1>3. CASE UNCHANGED runs
  BY <1>1, <1>2, <1>3 DEF Whole, KnownIsWholeOrGone, Generation, RunsOf
<1>4. CASE Unlink({Output})
  <2>1. Output = <<current.generation + 1, output_index>>
    BY DEF Output, Successor, Frontier
  <2>2. Generation(frontier) \intersect {Output} = {}
    BY <1>1, <2>1 DEF Placed, Generation, RunsOf, Typed
  <2>3. ReadableIn(runs', Generation(known)) => known.generation \in dirs'
    BY <1>1, <1>4, UnlinkKeeps DEF KnownIsWholeOrGone
  <2>4. frontier.generation \in dirs' BY <1>1 DEF Whole
  <2> QED BY <1>1, <1>2, <1>4, <2>2, <2>3, <2>4, UnlinkStep
<1> QED BY <1>3, <1>4 DEF MergeFails

LEMMA CleanupInv == ASSUME IInv, Cleanup PROVE IInv'
<1> USE DEF IInv
<1>1. /\ UNCHANGED <<current, frontier, known, input, outcome>>
      /\ place = "cleanup" /\ place' = "throw"
  BY DEF Cleanup, progress, caller
<1>2. PICK removed \in SUBSET RunsOf(current.generation + 1, 0, output_index) :
        Unlink(removed)
  BY DEF Cleanup, Successor, Frontier
<1>3. \A g \in dirs : g # current.generation + 1 => g \in dirs'
  BY DEF Cleanup, Successor, Frontier
<1>4. Typed' /\ Placed' /\ PassIsExact' /\ Reported'
  BY <1>1 DEF Typed, Placed, PassIsExact, Reported
<1>5. Generation(frontier) \intersect removed = {}
  <2>1. \A r \in Generation(frontier) : r[1] = frontier.generation
    BY DEF Generation, RunsOf
  <2>2. \A r \in removed : r[1] = current.generation + 1 BY <1>2 DEF RunsOf
  <2>3. frontier.generation # current.generation + 1 BY <1>1 DEF Placed, Typed
  <2> QED BY <2>1, <2>2, <2>3
<1>6. frontier.generation \in dirs' BY <1>1, <1>3 DEF Whole, Placed, Typed
<1>7. ReadableIn(runs', Generation(known)) => known.generation \in dirs'
  <2>1. known.generation # current.generation + 1 BY <1>1 DEF Placed, Typed
  <2> QED BY <1>2, <1>3, <2>1, UnlinkKeeps DEF KnownIsWholeOrGone
<1>8. Whole' /\ KnownIsWholeOrGone' BY <1>1, <1>2, <1>5, <1>6, <1>7, UnlinkStep
<1> QED BY <1>1, <1>4, <1>8

LEMMA CommitInv == ASSUME IInv, Commit PROVE IInv'
<1> USE DEF IInv
<1>1. /\ UNCHANGED <<dirs, runs, current, known, input, outcome>>
      /\ place = "group" /\ place' = "retire" /\ frontier' = Successor
  BY DEF Commit, workspace, caller, history
<1>2. Successor.generation = current.generation + 1
      /\ Successor.run_count = SuccessorRunCount(current.run_count)
      /\ Successor.run_count = output_index
      /\ input_begin = current.run_count
  BY DEF Commit, Successor, Frontier
<1>3. Typed'
  <2>1. current.generation \in Nat /\ current.run_count \in Nat BY DEF Typed
  <2>2. SuccessorRunCount(current.run_count) \in Nat
    BY <2>1, SuccessorRunCountIsNat
  <2>3. frontier'.generation \in Nat /\ frontier'.run_count \in Nat
    BY <1>1, <1>2, <2>1, <2>2
  <2> QED BY <1>1, <2>3 DEF Typed
<1>4. Whole'
  <2>1. Generation(frontier)' = Generation(Successor)
    BY <1>1 DEF Generation, RunsOf
  <2>2. ReadableIn(runs, Generation(Successor))
    BY DEF Commit, Verified, Readable, ReadableIn
  <2>3. EdgesIn(runs, Generation(Successor)) = EdgesIn(runs, Generation(current))
    BY <1>1, <1>2 DEF PassIsExact, Generation
  <2>4. EdgesIn(runs, Generation(current)) = input BY <1>1 DEF Placed, Whole
  <2>5. Successor.generation \in dirs BY <1>1, <1>2 DEF PassIsExact
  <2> QED BY <1>1, <2>1, <2>2, <2>3, <2>4, <2>5 DEF Whole
<1>5. KnownIsWholeOrGone' BY <1>1 DEF KnownIsWholeOrGone, Generation, RunsOf
<1>6. Placed' /\ PassIsExact' BY <1>1, <1>2 DEF Placed, PassIsExact
<1>7. Reported' BY <1>1 DEF Reported
<1> QED BY <1>1, <1>3, <1>4, <1>5, <1>6, <1>7

LEMMA RemoveRunInv == ASSUME IInv, RemoveRun PROVE IInv'
<1> USE DEF IInv
<1> DEFINE run == <<current.generation, retired>>
<1>1. /\ UNCHANGED <<dirs, place, current, frontier, known, input, outcome>>
      /\ place = "retire" /\ Unlink({run})
  BY DEF RemoveRun, progress, caller, history
<1>2. Typed' /\ Placed' /\ PassIsExact' /\ Reported'
  BY <1>1 DEF Typed, Placed, PassIsExact, Reported
<1>3. Generation(frontier) \intersect {run} = {}
  BY <1>1 DEF Placed, Generation, RunsOf, Typed
<1>4. ReadableIn(runs', Generation(known)) => known.generation \in dirs'
  BY <1>1, UnlinkKeeps DEF KnownIsWholeOrGone
<1>5. frontier.generation \in dirs' BY <1>1 DEF Whole
<1> QED BY <1>1, <1>2, <1>3, <1>4, <1>5, UnlinkStep

LEMMA RemoveDirectoryInv == ASSUME IInv, RemoveDirectory PROVE IInv'
<1> USE DEF IInv
<1>1. /\ UNCHANGED <<runs, frontier, known, input, outcome>>
      /\ place = "retire" /\ place' = "pass" /\ current' = frontier
      /\ dirs' = dirs \ {current.generation}
      /\ \A r \in DOMAIN runs : r[1] # current.generation
  BY DEF RemoveDirectory, progress, caller, history
<1>2. Generation(frontier)' = Generation(frontier)
      /\ Generation(known)' = Generation(known)
  BY <1>1 DEF Generation, RunsOf
<1>3. Typed' BY <1>1 DEF Typed
<1>4. frontier.generation = current.generation + 1
      /\ known.generation <= current.generation
  BY <1>1 DEF Placed
<1>5. Whole' BY <1>1, <1>2, <1>4 DEF Whole, Typed
<1>6. ReadableIn(runs, Generation(known)) => known.generation # current.generation
  <2> SUFFICES ASSUME ReadableIn(runs, Generation(known)),
                      known.generation = current.generation
               PROVE  FALSE
    OBVIOUS
  <2>1. \A r \in Generation(known) : r[1] = current.generation
    BY DEF Generation, RunsOf
  <2>2. Generation(known) = {} BY <1>1, <2>1 DEF ReadableIn
  <2>3. EdgesIn(runs, Generation(known)) = input BY DEF KnownIsWholeOrGone
  <2> QED BY <2>2, <2>3 DEF EdgesIn
<1>7. KnownIsWholeOrGone' BY <1>1, <1>2, <1>6 DEF KnownIsWholeOrGone
<1>8. Placed' /\ PassIsExact' /\ Reported'
  BY <1>1, <1>4 DEF Placed, PassIsExact, Reported, Typed
<1> QED BY <1>1, <1>3, <1>5, <1>7, <1>8

LEMMA NextInv == ASSUME IInv, [Next]_vars PROVE IInv'
<1>1. CASE UNCHANGED vars
  <2>1. UNCHANGED <<dirs, runs, place, current, output_index, input_begin,
                    frontier, known, outcome, input>>
    BY <1>1 DEF vars, workspace, pass, progress, caller, history
  <2> QED BY <2>1 DEF IInv, Typed, Whole, KnownIsWholeOrGone, Placed,
                      PassIsExact, Reported, Generation, RunsOf
<1>2. CASE Call BY <1>2, CallInv
<1>3. CASE StartVerified BY <1>3, StartVerifiedInv
<1>4. CASE NotStarted BY <1>4, NotStartedInv
<1>5. CASE Return BY <1>5, ReturnInv
<1>6. CASE Throw \/ ThrowBadAlloc BY <1>6, ThrowInv
<1>7. CASE BeginPass BY <1>7, BeginPassInv
<1>8. CASE OpenGroup BY <1>8, OpenGroupInv
<1>9. CASE MergeGroup BY <1>9, MergeGroupInv
<1>10. CASE GroupFails BY <1>10, GroupFailsInv
<1>11. CASE MergeFails BY <1>11, MergeFailsInv
<1>12. CASE Cleanup BY <1>12, CleanupInv
<1>13. CASE Commit BY <1>13, CommitInv
<1>14. CASE RemoveRun BY <1>14, RemoveRunInv
<1>15. CASE RemoveDirectory BY <1>15, RemoveDirectoryInv
<1>16. CASE RemoveFails BY <1>16, RemoveFailsInv
<1> QED
  BY <1>1, <1>2, <1>3, <1>4, <1>5, <1>6, <1>7, <1>8, <1>9, <1>10, <1>11,
     <1>12, <1>13, <1>14, <1>15, <1>16 DEF Next, Step

----------------------------------------------------------------------------
(* The number of passes that a frontier takes.                             *)

\* A pass over more than FanIn runs leaves fewer.
LEMMA SuccessorHasFewerRuns ==
  ASSUME NEW n \in Nat, n > FanIn
  PROVE  SuccessorRunCount(n) \in Nat /\ SuccessorRunCount(n) < n
<1>1. FanIn \in Nat /\ FanIn >= 2
  BY MergeAssumption
<1> DEFINE q == n \div FanIn
           m == n % FanIn
<1>2. q \in Nat /\ m \in 0 .. FanIn - 1 /\ n = FanIn * q + m
  BY <1>1
<1>3. q >= 1
  BY <1>1, <1>2
<1>4. \A a, b \in Nat : a >= 2 => a * b >= 2 * b
  OBVIOUS
<1>5. FanIn * q >= 2 * q
  BY <1>1, <1>2, <1>4
<1>6. FanIn * q \in Nat
  BY <1>1, <1>2
<1>7. q < n /\ (m # 0 => q + 1 < n)
  <2> HIDE DEF q, m
  <2> QED
    BY <1>2, <1>3, <1>5, <1>6
<1> QED
  BY <1>2, <1>7 DEF SuccessorRunCount

\* f gives the passes of every number of runs up to n.
CountsPasses(f, n) ==
  /\ f \in [0 .. n -> Nat]
  /\ \A i \in 0 .. n :
       f[i] = IF i <= FanIn THEN 0 ELSE 1 + f[SuccessorRunCount(i)]

LEMMA PassCountsAgree ==
  ASSUME NEW m \in Nat, NEW n \in Nat, NEW f, NEW h,
         CountsPasses(f, m), CountsPasses(h, n),
         NEW i \in Nat, i <= m, i <= n
  PROVE  f[i] = h[i]
<1> DEFINE S == {j \in Nat : j <= m /\ j <= n /\ f[j] # h[j]}
<1> SUFFICES ASSUME S # {} PROVE FALSE
  OBVIOUS
<1>1. PICK k \in S : \A j \in S : k <= j
  BY LeastNumber
<1>2. k \in 0 .. m /\ k \in 0 .. n /\ f[k] # h[k]
  OBVIOUS
<1>3. /\ f[k] = IF k <= FanIn THEN 0 ELSE 1 + f[SuccessorRunCount(k)]
      /\ h[k] = IF k <= FanIn THEN 0 ELSE 1 + h[SuccessorRunCount(k)]
  BY <1>2 DEF CountsPasses
<1>4. FanIn \in Nat
  BY MergeAssumption
<1>5. k > FanIn
  BY <1>2, <1>3, <1>4
<1>6. SuccessorRunCount(k) \in Nat /\ SuccessorRunCount(k) < k
  BY <1>5, SuccessorHasFewerRuns
<1>7. f[SuccessorRunCount(k)] # h[SuccessorRunCount(k)]
  BY <1>2, <1>3, <1>4, <1>5
<1>8. SuccessorRunCount(k) \in S
  BY <1>2, <1>6, <1>7
<1> QED
  BY <1>1, <1>6, <1>8

LEMMA PassCountsExist ==
  ASSUME NEW n \in Nat
  PROVE  \E f : CountsPasses(f, n)
<1> DEFINE S == {j \in Nat : ~\E f : CountsPasses(f, j)}
<1> SUFFICES ASSUME S # {} PROVE FALSE
  OBVIOUS
<1>0. FanIn \in Nat /\ FanIn >= 2
  BY MergeAssumption
<1>1. PICK k \in S : \A j \in S : k <= j
  BY LeastNumber
<1>2. k > FanIn
  <2> SUFFICES ASSUME k <= FanIn PROVE FALSE
    BY <1>0
  <2> DEFINE f == [i \in 0 .. k |-> 0]
  <2>1. CountsPasses(f, k)
    BY <1>0 DEF CountsPasses
  <2> QED
    BY <2>1
<1>3. k - 1 \in Nat /\ k - 1 < k
  BY <1>0, <1>2
<1>4. PICK f : CountsPasses(f, k - 1)
  BY <1>1, <1>3
<1>5. SuccessorRunCount(k) \in 0 .. k - 1
  BY <1>2, SuccessorHasFewerRuns
<1> DEFINE h == [i \in 0 .. k |->
                   IF i = k THEN 1 + f[SuccessorRunCount(k)] ELSE f[i]]
<1>6. /\ f \in [0 .. k - 1 -> Nat]
      /\ \A i \in 0 .. k - 1 :
           f[i] = IF i <= FanIn THEN 0 ELSE 1 + f[SuccessorRunCount(i)]
  BY <1>4 DEF CountsPasses
<1>7. h \in [0 .. k -> Nat]
  BY <1>5, <1>6
<1>8. ASSUME NEW i \in 0 .. k
      PROVE  h[i] = IF i <= FanIn THEN 0 ELSE 1 + h[SuccessorRunCount(i)]
  <2>1. CASE i = k
    <3>1. h[k] = 1 + f[SuccessorRunCount(k)]
      BY <1>3
    <3>2. h[SuccessorRunCount(k)] = f[SuccessorRunCount(k)]
      BY <1>3, <1>5
    <3>3. ~(k <= FanIn)
      BY <1>0, <1>2
    <3> HIDE DEF h
    <3> QED
      BY <2>1, <3>1, <3>2, <3>3
  <2>2. CASE i # k /\ i <= FanIn
    BY <1>6, <2>2
  <2>3. CASE i # k /\ ~(i <= FanIn)
    <3>1. SuccessorRunCount(i) \in Nat /\ SuccessorRunCount(i) < i
      BY <1>0, <2>3, SuccessorHasFewerRuns
    <3>2. i \in 0 .. k - 1 /\ SuccessorRunCount(i) \in 0 .. k - 1
      BY <2>3, <3>1
    <3>3. h[i] = f[i] /\ h[SuccessorRunCount(i)] = f[SuccessorRunCount(i)]
      BY <3>2, <1>3
    <3> QED
      BY <1>6, <2>3, <3>2, <3>3
  <2> QED
    BY <2>1, <2>2, <2>3
<1>9. CountsPasses(h, k)
  BY <1>7, <1>8 DEF CountsPasses
<1> QED
  BY <1>9

\* Passes is what its definition says, which a recursive function is only
\* when a function that satisfies the equation exists.
LEMMA PassesUnfold ==
  /\ Passes \in [Nat -> Nat]
  /\ \A n \in Nat :
       Passes[n] = IF n <= FanIn THEN 0 ELSE 1 + Passes[SuccessorRunCount(n)]
<1> DEFINE F == [n \in Nat |-> (CHOOSE f : CountsPasses(f, n))[n]]
           D(f) == [n \in Nat |->
                      IF n <= FanIn THEN 0 ELSE 1 + f[SuccessorRunCount(n)]]
<1>1. ASSUME NEW n \in Nat, NEW f, CountsPasses(f, n), NEW i \in 0 .. n
      PROVE  F[i] = f[i]
  <2>1. i \in Nat
    OBVIOUS
  <2>2. CountsPasses(CHOOSE g : CountsPasses(g, i), i)
    BY <2>1, PassCountsExist
  <2>3. (CHOOSE g : CountsPasses(g, i))[i] = f[i]
    BY <1>1, <2>1, <2>2, PassCountsAgree
  <2> QED
    BY <2>1, <2>3
<1>2. ASSUME NEW n \in Nat PROVE F[n] = D(F)[n] /\ F[n] \in Nat
  <2>1. PICK f : CountsPasses(f, n)
    BY PassCountsExist
  <2>2. /\ f[n] \in Nat
        /\ f[n] = IF n <= FanIn THEN 0 ELSE 1 + f[SuccessorRunCount(n)]
    BY <2>1 DEF CountsPasses
  <2>3. F[n] = f[n]
    BY <1>1, <2>1
  <2>4. ASSUME n > FanIn
        PROVE  F[SuccessorRunCount(n)] = f[SuccessorRunCount(n)]
    <3>1. SuccessorRunCount(n) \in 0 .. n
      BY <2>4, SuccessorHasFewerRuns
    <3> HIDE DEF F
    <3> QED
      BY <1>1, <2>1, <3>1
  <2>5. FanIn \in Nat
    BY MergeAssumption
  <2> HIDE DEF F
  <2> QED
    BY <2>2, <2>3, <2>4, <2>5
<1>3. F = D(F)
  BY <1>2
<1>4. Passes = CHOOSE f : f = D(f)
  BY DEF Passes
<1> HIDE DEF F
<1>5. Passes = D(Passes)
  BY <1>3, <1>4
<1>6. \A n \in Nat :
        Passes[n] = IF n <= FanIn THEN 0 ELSE 1 + Passes[SuccessorRunCount(n)]
  BY <1>5
<1>7. \A n \in Nat : Passes[n] \in Nat
  <2> DEFINE S == {j \in Nat : Passes[j] \notin Nat}
  <2> SUFFICES ASSUME S # {} PROVE FALSE
    OBVIOUS
  <2>1. PICK k \in S : \A j \in S : k <= j
    BY LeastNumber
  <2>2. FanIn \in Nat
    BY MergeAssumption
  <2>3. k > FanIn
    BY <1>6, <2>1, <2>2
  <2>4. SuccessorRunCount(k) \in Nat /\ SuccessorRunCount(k) < k
    BY <2>3, SuccessorHasFewerRuns
  <2>5. Passes[SuccessorRunCount(k)] \in Nat
    BY <2>1, <2>4
  <2>6. Passes[k] = 1 + Passes[SuccessorRunCount(k)]
    BY <1>6, <2>2, <2>3
  <2> QED
    BY <2>5, <2>6
<1>8. DOMAIN Passes = Nat
  BY <1>5
<1>9. Passes = [n \in Nat |-> Passes[n]]
  BY <1>5
<1> QED
  BY <1>6, <1>7, <1>9

----------------------------------------------------------------------------
(* What a call leaves behind, and what it counts: RInv.                    *)

\* The runs of the successor that the call has created and answers for.
Created ==
  IF place \in {"group", "merge", "cleanup"}
  THEN RunsOf(current.generation + 1, 0,
              IF place = "merge" THEN output_index + 1 ELSE output_index)
  ELSE {}

\* The runs of the predecessor that are still to be removed.
Unretired ==
  IF place = "retire"
  THEN RunsOf(current.generation, retired, current.run_count) ELSE {}

WorkspaceTyped ==
  /\ dirs \subseteq Nat
  /\ \A r \in DOMAIN runs : r[1] \in Nat /\ runs[r].edges \subseteq Edges

\* What the caller knows is the frontier, or one from which the frontier was
\* reached by some of the passes that were planned for it.
Lineage ==
  /\ known.generation <= frontier.generation
  /\ known.generation = frontier.generation => known = frontier
  /\ known.generation + Passes[known.run_count]
       = frontier.generation + Passes[frontier.run_count]

\* Beyond the frontier there is only what the present pass has made.
NothingBeyond ==
  ~cleanupFailed =>
    /\ \A g \in dirs :
         \/ g <= frontier.generation
         \/ /\ place \in {"group", "merge", "cleanup"}
            /\ g = frontier.generation + 1
    /\ \A r \in DOMAIN runs : r[1] > frontier.generation => r \in Created

\* Up to the frontier there is only the frontier, and the predecessor that is
\* being removed.
NothingBelow ==
  ~cleanupFailed /\ ~retireFailed =>
    /\ \A g \in dirs :
         \/ g >= frontier.generation
         \/ place = "retire" /\ g = current.generation
    /\ \A r \in DOMAIN runs :
         r[1] <= frontier.generation => r \in Generation(frontier) \union Unretired

PassCounted ==
  place \in {"group", "merge"} =>
    /\ current.run_count > FanIn
    /\ merged_input_records \in Nat /\ output_records \in Nat
    /\ output_records <= merged_input_records

Counted ==
  Records(Generation(frontier)) = frontier.record_count /\ PassCounted

\* What a call that returned has told its caller.
Returned ==
  outcome = "returned" => known = frontier /\ known.run_count <= FanIn

\* How many runs of the predecessor were removed is a number.
Retiring == place = "retire" => retired \in Nat

RInv ==
  /\ WorkspaceTyped /\ Lineage /\ NothingBeyond /\ NothingBelow /\ Counted
  /\ Returned /\ Retiring

----------------------------------------------------------------------------
(* Records.                                                                *)

RecordsIn(R, rs) == Cardinality({p \in rs \X Edges : p[2] \in R[p[1]].edges})

LEMMA RecordsOfRuns ==
  ASSUME NEW rs PROVE Records(rs) = RecordsIn(runs, rs)
BY DEF Records, RecordsOf, RecordsIn

LEMMA RecordsAgree ==
  ASSUME NEW R, NEW Q, NEW rs, \A r \in rs : Q[r] = R[r]
  PROVE  RecordsIn(Q, rs) = RecordsIn(R, rs)
<1>1. {p \in rs \X Edges : p[2] \in Q[p[1]].edges}
        = {p \in rs \X Edges : p[2] \in R[p[1]].edges}
  OBVIOUS
<1> QED
  BY <1>1 DEF RecordsIn

LEMMA RunsAreFinite ==
  ASSUME NEW g, NEW a \in Int, NEW b \in Int
  PROVE  IsFiniteSet(RunsOf(g, a, b))
<1> DEFINE f == [i \in a .. b - 1 |-> <<g, i>>]
<1>1. f \in Surjection(a .. b - 1, RunsOf(g, a, b))
  BY DEF RunsOf, Surjection
<1>2. IsFiniteSet(a .. b - 1)
  BY FS_Interval
<1> QED
  BY <1>1, <1>2, FS_Surjection

\* A merge never has more edges than its inputs have records.
LEMMA EdgesAreFewerThanRecords ==
  ASSUME NEW rs, IsFiniteSet(rs), \A r \in rs : runs[r].edges \subseteq Edges
  PROVE  /\ Records(rs) \in Nat /\ Cardinality(EdgesOf(rs)) \in Nat
         /\ Cardinality(EdgesOf(rs)) <= Records(rs)
<1>1. IsFiniteSet(rs \X Edges)
  BY FS_Product, MergeAssumption
<1>2. IsFiniteSet(RecordsOf(rs))
  <2>1. RecordsOf(rs) \in SUBSET (rs \X Edges)
    BY DEF RecordsOf
  <2> QED
    BY <1>1, <2>1, FS_Subset
<1> DEFINE f == [p \in RecordsOf(rs) |-> p[2]]
<1>3. f \in Surjection(RecordsOf(rs), EdgesOf(rs))
  <2>1. \A p \in RecordsOf(rs) : f[p] \in EdgesOf(rs)
    BY DEF RecordsOf, EdgesOf
  <2>2. ASSUME NEW e \in EdgesOf(rs)
        PROVE  \E p \in RecordsOf(rs) : f[p] = e
    <3>1. PICK r \in rs : e \in runs[r].edges
      BY DEF EdgesOf
    <3>2. <<r, e>> \in RecordsOf(rs)
      BY <3>1 DEF RecordsOf
    <3> QED
      BY <3>2
  <2> QED
    BY <2>1, <2>2 DEF Surjection
<1>4. IsFiniteSet(EdgesOf(rs)) /\ Cardinality(EdgesOf(rs)) <= Records(rs)
  BY <1>2, <1>3, FS_Surjection DEF Records
<1> QED
  BY <1>2, <1>4, FS_CardinalityType DEF Records

----------------------------------------------------------------------------
(* RInv holds at the start, and every action keeps it.                     *)

LEMMA InitRInv == Init => RInv
<1> SUFFICES ASSUME Init PROVE RInv
  OBVIOUS
<1> DEFINE Begins(n, content) ==
      /\ dirs = {0}
      /\ runs = [r \in RunsOf(0, 0, n) |->
                   [edges |-> content[r[2]], complete |-> TRUE]]
      /\ known = Frontier(0, n, Records(RunsOf(0, 0, n)))
      /\ current = known /\ frontier = known
      /\ place = "idle" /\ outcome = "none"
<1>0. PICK n \in 1 .. MaxRuns :
        \E content \in [0 .. n - 1 -> (SUBSET Edges) \ {{}}] : Begins(n, content)
  BY DEF Init
<1>1. PICK content \in [0 .. n - 1 -> (SUBSET Edges) \ {{}}] : Begins(n, content)
  BY <1>0
<1>2. /\ known.generation = 0 /\ known.record_count = Records(RunsOf(0, 0, n))
      /\ Generation(known) = RunsOf(0, 0, n)
  BY <1>1 DEF Frontier, Generation
<1>3. DOMAIN runs = RunsOf(0, 0, n)
      /\ \A r \in RunsOf(0, 0, n) : r[1] = 0 /\ r[2] \in 0 .. n - 1
  BY <1>1 DEF RunsOf
<1>4. WorkspaceTyped
  <2>1. \A r \in RunsOf(0, 0, n) : runs[r].edges \subseteq Edges
    BY <1>1, <1>3
  <2> QED
    BY <1>1, <1>3, <2>1 DEF WorkspaceTyped
<1>5. Lineage
  <2>1. frontier = known /\ known.generation = 0
    BY <1>1, <1>2
  <2> QED
    BY ONLY <2>1 DEF Lineage
<1>6. NothingBeyond /\ NothingBelow
  BY <1>1, <1>2, <1>3 DEF NothingBeyond, NothingBelow
<1>7. Counted /\ Returned /\ Retiring
  BY <1>1, <1>2 DEF Counted, PassCounted, Returned, Retiring
<1> QED
  BY <1>4, <1>5, <1>6, <1>7 DEF RInv

\* The names that the checks at the start of a call want free begin right
\* after what the caller knows: only the frontier itself passes them.
LEMMA StartsAtFrontier ==
  ASSUME IInv, RInv, StartVerified
  PROVE  known = frontier
<1> SUFFICES ASSUME known # frontier PROVE FALSE
  OBVIOUS
<1>1. /\ known.generation \in Nat /\ known.run_count \in Nat
      /\ frontier.generation \in Nat /\ frontier.run_count \in Nat
      /\ frontier.generation \in dirs
  BY DEF IInv, Typed, Whole
<1>2. Passes[known.run_count] \in Nat /\ Passes[frontier.run_count] \in Nat
  BY <1>1, PassesUnfold
<1>3. /\ known.generation < frontier.generation
      /\ known.generation + Passes[known.run_count]
           = frontier.generation + Passes[frontier.run_count]
  BY <1>1 DEF RInv, Lineage
<1>4. frontier.generation \in SuccessorNames(known)
  BY <1>1, <1>2, <1>3 DEF SuccessorNames
<1> QED
  BY <1>1, <1>4 DEF StartVerified

\* Steps outside a pass that leave the workspace and the frontier alone.
LEMMA QuietRStep ==
  ASSUME IInv, RInv, UNCHANGED <<workspace, frontier, cleanupFailed, retireFailed>>,
         place \notin {"group", "merge", "cleanup", "retire"},
         place' \notin {"group", "merge", "cleanup", "retire"},
         known' \in {known, frontier}, Returned'
  PROVE  RInv'
<1>1. dirs' = dirs /\ runs' = runs
  BY DEF workspace
<1>2. Created = {} /\ Created' = {} /\ Unretired = {} /\ Unretired' = {}
  BY DEF Created, Unretired
<1>3. Generation(frontier)' = Generation(frontier)
  BY DEF Generation, RunsOf
<1>4. WorkspaceTyped'
  BY <1>1 DEF RInv, WorkspaceTyped
<1>5. Lineage'
  BY DEF RInv, Lineage, IInv, Typed
<1>6. NothingBeyond'
  BY <1>1, <1>2 DEF RInv, NothingBeyond
<1>7. NothingBelow'
  BY <1>1, <1>2, <1>3 DEF RInv, NothingBelow
<1>8. Counted'
  BY <1>1, <1>3 DEF RInv, Counted, PassCounted, Records, RecordsOf
<1> QED
  BY <1>4, <1>5, <1>6, <1>7, <1>8 DEF RInv, Retiring

LEMMA CallR ==
  ASSUME IInv, RInv, Call \/ NotStarted \/ Throw \/ ThrowBadAlloc PROVE RInv'
<1>1. /\ UNCHANGED <<workspace, frontier, cleanupFailed, retireFailed>>
      /\ place \notin {"group", "merge", "cleanup", "retire"}
      /\ place' \notin {"group", "merge", "cleanup", "retire"}
      /\ known' \in {known, frontier}
  BY DEF Call, NotStarted, Throw, ThrowBadAlloc, history, caller, progress
<1>2. \/ outcome' # "returned"
      \/ outcome' = outcome /\ known' = known
  BY DEF Call, NotStarted, Throw, ThrowBadAlloc, caller
<1>3. Returned'
  BY <1>1, <1>2 DEF RInv, Returned
<1> QED
  BY <1>1, <1>3, QuietRStep

LEMMA StartVerifiedR == ASSUME IInv, RInv, StartVerified PROVE RInv'
<1>1. known = frontier
  BY StartsAtFrontier
<1>2. /\ UNCHANGED <<workspace, frontier, cleanupFailed, retireFailed>>
      /\ place \notin {"group", "merge", "cleanup", "retire"}
      /\ place' \notin {"group", "merge", "cleanup", "retire"}
      /\ known' = known /\ outcome' = outcome
  BY <1>1 DEF StartVerified, history, caller
<1>3. Returned'
  BY <1>2 DEF RInv, Returned
<1> QED
  BY <1>2, <1>3, QuietRStep

LEMMA ReturnR == ASSUME IInv, RInv, Return PROVE RInv'
<1>1. current = frontier
  BY DEF IInv, Placed, Return
<1>2. /\ UNCHANGED <<workspace, frontier, cleanupFailed, retireFailed>>
      /\ place \notin {"group", "merge", "cleanup", "retire"}
      /\ place' \notin {"group", "merge", "cleanup", "retire"}
      /\ known' = frontier /\ frontier.run_count <= FanIn
  BY <1>1 DEF Return, history, progress
<1>3. Returned'
  BY <1>2 DEF Returned
<1> QED
  BY <1>2, <1>3, QuietRStep

LEMMA RemoveFailsR == ASSUME IInv, RInv, RemoveFails PROVE RInv'
<1>1. /\ UNCHANGED <<dirs, runs, frontier, known, outcome, cleanupFailed>>
      /\ place = "retire" /\ place' = "throw" /\ retireFailed'
  BY DEF RemoveFails, workspace, progress, caller
<1>2. Generation(frontier)' = Generation(frontier)
  BY <1>1 DEF Generation, RunsOf
<1>3. WorkspaceTyped' /\ Lineage' /\ Returned'
  BY <1>1 DEF RInv, WorkspaceTyped, Lineage, Returned
<1>4. Created = {} /\ Created' = {}
  BY <1>1 DEF Created
<1>5. NothingBeyond'
  BY <1>1, <1>4 DEF RInv, NothingBeyond
<1>6. NothingBelow'
  BY <1>1 DEF NothingBelow
<1>7. Counted'
  BY <1>1, <1>2 DEF RInv, Counted, PassCounted, Records, RecordsOf
<1> QED
  BY <1>1, <1>3, <1>5, <1>6, <1>7 DEF RInv, Retiring

LEMMA BeginPassR == ASSUME IInv, RInv, BeginPass PROVE RInv'
<1>1. current = frontier
  BY DEF IInv, Placed, BeginPass
<1>2. /\ UNCHANGED <<runs, current, frontier, known, outcome, cleanupFailed,
                     retireFailed>>
      /\ dirs' = dirs \union {frontier.generation + 1}
      /\ output_index' = 0 /\ merged_input_records' = 0 /\ output_records' = 0
      /\ place = "pass" /\ place' = "group" /\ current.run_count > FanIn
  BY <1>1 DEF BeginPass, Successor, Frontier, history, progress, caller
<1>3. frontier.generation \in Nat
  BY DEF IInv, Typed
<1>4. Generation(frontier)' = Generation(frontier)
  BY <1>2 DEF Generation, RunsOf
<1>5. WorkspaceTyped'
  <2>1. dirs \subseteq Nat /\ frontier.generation + 1 \in Nat
    BY <1>3 DEF RInv, WorkspaceTyped
  <2>2. dirs' \subseteq Nat
    BY <1>2, <2>1
  <2> QED
    BY <1>2, <2>2 DEF RInv, WorkspaceTyped
<1>6. Lineage' /\ Returned' /\ Retiring'
  BY <1>2 DEF RInv, Lineage, Returned, Retiring
<1>7. Created = {} /\ Unretired = {} /\ Unretired' = {}
  BY <1>2 DEF Created, Unretired
<1>8. NothingBeyond'
  BY <1>2, <1>3, <1>7 DEF RInv, NothingBeyond
<1>9. NothingBelow'
  BY <1>2, <1>3, <1>4, <1>7 DEF RInv, NothingBelow
<1>10. Counted'
  BY <1>2, <1>4 DEF RInv, Counted, PassCounted, Records, RecordsOf
<1> QED
  BY <1>5, <1>6, <1>8, <1>9, <1>10 DEF RInv

\* Steps that write a run of the successor.
LEMMA WriteRStep ==
  ASSUME IInv, RInv, place \in {"group", "merge"},
         NEW i, NEW content, content.edges \subseteq Edges,
         Write(<<current.generation + 1, i>>, content),
         UNCHANGED <<dirs, current, frontier, known, outcome, retireFailed>>,
         place' \in {"group", "merge", "cleanup"},
         ~cleanupFailed' =>
           /\ ~cleanupFailed
           /\ Created \union {<<current.generation + 1, i>>} \subseteq Created',
         PassCounted'
  PROVE  RInv'
<1> DEFINE out == <<current.generation + 1, i>>
<1>1. current = frontier /\ frontier.generation \in Nat
  BY DEF IInv, Placed, Typed
<1>2. /\ DOMAIN runs' = DOMAIN runs \union {out}
      /\ \A r \in DOMAIN runs \ {out} : runs'[r] = runs[r]
      /\ runs'[out] = content
  BY DEF Write
<1>3. out[1] = frontier.generation + 1
  BY <1>1
<1> HIDE DEF out
<1>4. Generation(frontier)' = Generation(frontier)
  BY DEF Generation, RunsOf
<1>5. WorkspaceTyped'
  BY <1>1, <1>2, <1>3 DEF RInv, WorkspaceTyped
<1>6. Lineage' /\ Returned' /\ Retiring'
  BY DEF RInv, Lineage, Returned, Retiring
<1>7. NothingBeyond'
  <2> SUFFICES ASSUME ~cleanupFailed' PROVE NothingBeyond'
    BY DEF NothingBeyond
  <2>1. /\ \A g \in dirs : g <= frontier.generation \/ g = frontier.generation + 1
        /\ \A r \in DOMAIN runs : r[1] > frontier.generation => r \in Created
    BY DEF RInv, NothingBeyond
  <2>2. \A r \in DOMAIN runs' : r[1] > frontier.generation => r \in Created'
    BY <1>2, <2>1 DEF out
  <2> QED
    BY <2>1, <2>2 DEF NothingBeyond
<1>8. NothingBelow'
  <2>1. Unretired = {} /\ Unretired' = {}
    BY DEF Unretired
  <2>2. \A r \in DOMAIN runs' : r[1] <= frontier.generation => r \in DOMAIN runs
    BY <1>1, <1>2, <1>3
  <2> QED
    BY <1>4, <2>1, <2>2 DEF RInv, NothingBelow
<1>9. Counted'
  <2>1. Generation(frontier) \subseteq DOMAIN runs
    BY DEF IInv, Whole, ReadableIn
  <2>2. \A r \in Generation(frontier) : r[1] = frontier.generation
    BY DEF Generation, RunsOf
  <2>3. \A r \in Generation(frontier) : runs'[r] = runs[r]
    BY <1>1, <1>2, <1>3, <2>1, <2>2
  <2>4. RecordsIn(runs', Generation(frontier)) = RecordsIn(runs, Generation(frontier))
    BY <2>3, RecordsAgree
  <2>5. Records(Generation(frontier))' = RecordsIn(runs', Generation(frontier))
    BY <1>4 DEF Records, RecordsOf, RecordsIn
  <2>6. Records(Generation(frontier)) = frontier.record_count
    BY DEF RInv, Counted, PassCounted
  <2> QED
    BY <2>4, <2>5, <2>6, RecordsOfRuns DEF Counted, PassCounted
<1> QED
  BY <1>5, <1>6, <1>7, <1>8, <1>9 DEF RInv

LEMMA OpenGroupR == ASSUME IInv, RInv, OpenGroup PROVE RInv'
<1> DEFINE out == <<current.generation + 1, output_index>>
           content == [edges |-> {}, complete |-> FALSE]
<1>1. /\ UNCHANGED <<dirs, current, frontier, known, outcome, cleanupFailed,
                     retireFailed, output_index, merged_input_records,
                     output_records>>
      /\ place = "group" /\ place' = "merge" /\ Write(out, content)
  BY DEF OpenGroup, Output, Successor, Frontier, pass, progress, caller, history
<1>2. output_index \in Nat
  BY <1>1 DEF IInv, PassIsExact
<1>3. Created = RunsOf(current.generation + 1, 0, output_index)
      /\ Created' = RunsOf(current.generation + 1, 0, output_index + 1)
  BY <1>1 DEF Created, RunsOf
<1>4. Created \union {out} \subseteq Created'
  BY <1>2, <1>3, RunsNext
<1>5. PassCounted'
  BY <1>1 DEF RInv, Counted, PassCounted
<1>6. content.edges \subseteq Edges
  OBVIOUS
<1> HIDE DEF content
<1> QED
  BY <1>1, <1>4, <1>5, <1>6, WriteRStep

LEMMA MergeGroupR == ASSUME IInv, RInv, MergeGroup PROVE RInv'
<1> DEFINE out == <<current.generation + 1, output_index>>
           content == [edges |-> EdgesOf(Group), complete |-> TRUE]
<1>1. /\ UNCHANGED <<dirs, current, frontier, known, outcome, cleanupFailed,
                     retireFailed>>
      /\ place = "merge" /\ place' = "group" /\ Write(out, content)
      /\ output_index' = output_index + 1
      /\ merged_input_records' = merged_input_records + Records(Group)
      /\ output_records' = output_records + Cardinality(EdgesOf(Group))
  BY DEF MergeGroup, Output, Successor, Frontier, progress, caller, history
<1>2. output_index \in Nat /\ input_begin \in Nat /\ input_begin <= current.run_count
  BY <1>1 DEF IInv, PassIsExact
<1>3. Created' = Created
  BY <1>1 DEF Created, RunsOf
<1>4. Created \union {out} \subseteq Created'
  <2>1. Created = RunsOf(current.generation + 1, 0, output_index + 1)
    BY <1>1 DEF Created
  <2> QED
    BY <1>2, <1>3, <2>1, RunsNext
<1>5. GroupSize \in Nat /\ input_begin + GroupSize <= current.run_count
  BY <1>2, MergeAssumption DEF GroupSize, IInv, Typed
<1>6. \A r \in Group : runs[r].edges \subseteq Edges
  <2>1. Group \subseteq Generation(current)
    BY <1>2, <1>5 DEF Group, Generation, RunsOf, IInv, Typed
  <2>2. current = frontier
    BY <1>1 DEF IInv, Placed
  <2>3. Generation(current) \subseteq DOMAIN runs
    BY <2>2 DEF IInv, Whole, ReadableIn
  <2> QED
    BY <2>1, <2>3 DEF RInv, WorkspaceTyped
<1>7. IsFiniteSet(Group)
  BY <1>2, <1>5, RunsAreFinite DEF Group
<1>8. /\ Records(Group) \in Nat /\ Cardinality(EdgesOf(Group)) \in Nat
      /\ Cardinality(EdgesOf(Group)) <= Records(Group)
  BY <1>6, <1>7, EdgesAreFewerThanRecords
<1>9. PassCounted'
  BY <1>1, <1>8 DEF RInv, Counted, PassCounted
<1>10. content.edges \subseteq Edges
  BY <1>6 DEF EdgesOf
<1> HIDE DEF content
<1> QED
  BY <1>1, <1>4, <1>9, <1>10, WriteRStep

LEMMA GroupFailsR == ASSUME IInv, RInv, GroupFails PROVE RInv'
<1>1. /\ UNCHANGED <<dirs, current, frontier, known, outcome, retireFailed,
                     output_index>>
      /\ place = "group" /\ place' = "cleanup"
  BY DEF GroupFails, pass, progress, caller
<1>2. CASE UNCHANGED <<runs, cleanupFailed>>
  <2>1. Generation(frontier)' = Generation(frontier) /\ Created' = Created
    BY <1>1 DEF Generation, Created, RunsOf
  <2>2. WorkspaceTyped' /\ Lineage' /\ Returned'
    BY <1>1, <1>2 DEF RInv, WorkspaceTyped, Lineage, Returned
  <2>3. NothingBeyond'
    BY <1>1, <1>2, <2>1 DEF RInv, NothingBeyond
  <2>4. NothingBelow'
    BY <1>1, <1>2, <2>1 DEF RInv, NothingBelow, Unretired
  <2>5. Counted'
    BY <1>1, <1>2, <2>1 DEF RInv, Counted, PassCounted, Records, RecordsOf
  <2> QED
    BY <1>1, <2>2, <2>3, <2>4, <2>5 DEF RInv, Retiring
<1>3. CASE Write(Output, [edges |-> {}, complete |-> FALSE]) /\ cleanupFailed'
  <2> DEFINE content == [edges |-> {}, complete |-> FALSE]
  <2>1. Output = <<current.generation + 1, output_index>>
    BY DEF Output, Successor, Frontier
  <2>2. PassCounted'
    BY <1>1 DEF PassCounted
  <2>3. content.edges \subseteq Edges /\ Write(Output, content)
    BY <1>3
  <2> HIDE DEF content
  <2> QED
    BY <1>1, <1>3, <2>1, <2>2, <2>3, WriteRStep
<1> QED
  BY <1>2, <1>3 DEF GroupFails

\* Unlinking runs that are not the frontier's.
LEMMA UnlinkRStep ==
  ASSUME IInv, RInv, NEW gone, Unlink(gone), Generation(frontier) \intersect gone = {},
         dirs' \subseteq dirs, place' \notin {"group", "merge"},
         UNCHANGED <<frontier, known, outcome>>
  PROVE  /\ DOMAIN runs' = DOMAIN runs \ gone
         /\ Generation(frontier)' = Generation(frontier)
         /\ WorkspaceTyped' /\ Lineage' /\ Counted' /\ Returned'
<1>1. /\ DOMAIN runs' = DOMAIN runs \ gone
      /\ \A r \in DOMAIN runs \ gone : runs'[r] = runs[r]
  BY DEF Unlink
<1>2. Generation(frontier)' = Generation(frontier)
  BY DEF Generation, RunsOf
<1>3. WorkspaceTyped'
  BY <1>1 DEF RInv, WorkspaceTyped
<1>4. Lineage' /\ Returned'
  BY DEF RInv, Lineage, Returned
<1>5. Counted'
  <2>1. Generation(frontier) \subseteq DOMAIN runs
    BY DEF IInv, Whole, ReadableIn
  <2>2. RecordsIn(runs', Generation(frontier)) = RecordsIn(runs, Generation(frontier))
    BY <1>1, <2>1, RecordsAgree
  <2>3. Records(Generation(frontier))' = RecordsIn(runs', Generation(frontier))
    BY <1>2 DEF Records, RecordsOf, RecordsIn
  <2> QED
    BY <2>2, <2>3, RecordsOfRuns DEF RInv, Counted, PassCounted
<1> QED
  BY <1>1, <1>2, <1>3, <1>4, <1>5

LEMMA MergeFailsR == ASSUME IInv, RInv, MergeFails PROVE RInv'
<1>1. /\ UNCHANGED <<dirs, current, frontier, known, outcome, retireFailed,
                     output_index>>
      /\ place = "merge" /\ place' = "cleanup"
  BY DEF MergeFails, pass, progress, caller
<1>2. current = frontier /\ frontier.generation \in Nat /\ output_index \in Nat
  BY <1>1 DEF IInv, Placed, PassIsExact, Typed
<1>3. Unretired = {} /\ Unretired' = {}
  BY <1>1 DEF Unretired
<1>4. CASE Unlink({Output}) /\ UNCHANGED cleanupFailed
  <2>1. Output = <<frontier.generation + 1, output_index>>
    BY <1>2 DEF Output, Successor, Frontier
  <2>2. Generation(frontier) \intersect {Output} = {}
    BY <1>2, <2>1 DEF Generation, RunsOf
  <2>3. /\ DOMAIN runs' = DOMAIN runs \ {Output}
        /\ Generation(frontier)' = Generation(frontier)
        /\ WorkspaceTyped' /\ Lineage' /\ Counted' /\ Returned'
    BY <1>1, <1>4, <2>2, UnlinkRStep
  <2>4. Created = Created' \union {Output}
    <3>1. Created = RunsOf(frontier.generation + 1, 0, output_index + 1)
          /\ Created' = RunsOf(frontier.generation + 1, 0, output_index)
      BY <1>1, <1>2 DEF Created, RunsOf
    <3> QED
      BY <1>2, <2>1, <3>1, RunsNext
  <2>5. NothingBeyond'
    BY <1>1, <1>4, <2>3, <2>4 DEF RInv, NothingBeyond
  <2>6. NothingBelow'
    BY <1>1, <1>3, <1>4, <2>3 DEF RInv, NothingBelow
  <2> QED
    BY <1>1, <2>3, <2>5, <2>6 DEF RInv, Retiring
<1>5. CASE cleanupFailed' /\ UNCHANGED runs
  <2>1. Generation(frontier)' = Generation(frontier)
    BY <1>1 DEF Generation, RunsOf
  <2>2. WorkspaceTyped' /\ Lineage' /\ Returned'
    BY <1>1, <1>5 DEF RInv, WorkspaceTyped, Lineage, Returned
  <2>3. NothingBeyond' /\ NothingBelow'
    BY <1>5 DEF NothingBeyond, NothingBelow
  <2>4. Counted'
    BY <1>1, <1>5, <2>1 DEF RInv, Counted, PassCounted, Records, RecordsOf
  <2> QED
    BY <1>1, <2>2, <2>3, <2>4 DEF RInv, Retiring
<1> QED
  BY <1>4, <1>5 DEF MergeFails

LEMMA CleanupR == ASSUME IInv, RInv, Cleanup PROVE RInv'
<1> DEFINE created == RunsOf(Successor.generation, 0, output_index)
           gone(rs) == \A r \in DOMAIN runs \ rs : r[1] # Successor.generation
<1>1. /\ UNCHANGED <<current, frontier, known, outcome, retireFailed>>
      /\ place = "cleanup" /\ place' = "throw"
  BY DEF Cleanup, progress, caller
<1>2. PICK removed \in SUBSET created :
        /\ Unlink(removed)
        /\ \/ /\ gone(removed)
              /\ dirs' = dirs \ {Successor.generation}
              /\ cleanupFailed' = (cleanupFailed \/ removed # created)
           \/ /\ UNCHANGED dirs
              /\ cleanupFailed' =
                   (cleanupFailed \/ gone(removed) \/ removed # created)
  BY DEF Cleanup
<1>3. /\ current = frontier /\ frontier.generation \in Nat
      /\ Successor.generation = frontier.generation + 1
  BY <1>1 DEF IInv, Placed, Typed, Successor, Frontier
<1>4. /\ \A r \in Generation(frontier) : r[1] = frontier.generation
      /\ \A r \in created : r[1] = frontier.generation + 1
  BY <1>3 DEF Generation, RunsOf
<1>5. Generation(frontier) \intersect removed = {}
  BY <1>2, <1>3, <1>4
<1>6. dirs' \subseteq dirs
  BY <1>2
<1>7. /\ DOMAIN runs' = DOMAIN runs \ removed
      /\ Generation(frontier)' = Generation(frontier)
      /\ WorkspaceTyped' /\ Lineage' /\ Counted' /\ Returned'
  BY <1>1, <1>2, <1>5, <1>6, UnlinkRStep
<1>8. Created = created /\ Created' = {} /\ Unretired = {} /\ Unretired' = {}
  BY <1>1, <1>3 DEF Created, Unretired
<1> HIDE DEF created
<1>9. NothingBeyond'
  <2> SUFFICES ASSUME ~cleanupFailed' PROVE NothingBeyond'
    BY DEF NothingBeyond
  <2>1. ~cleanupFailed /\ removed = created
    BY <1>2
  <2>2. /\ \A g \in dirs : g <= frontier.generation \/ g = frontier.generation + 1
        /\ \A r \in DOMAIN runs : r[1] > frontier.generation => r \in created
    BY <1>8, <2>1 DEF RInv, NothingBeyond
  <2>3. \A r \in DOMAIN runs' : ~(r[1] > frontier.generation)
    BY <1>7, <2>1, <2>2
  <2>4. gone(removed)
    BY <1>3, <2>1, <2>2
  <2>5. dirs' = dirs \ {frontier.generation + 1}
    BY <1>2, <1>3, <2>4
  <2> QED
    BY <1>1, <2>2, <2>3, <2>5 DEF NothingBeyond
<1>10. NothingBelow'
  <2> SUFFICES ASSUME ~cleanupFailed', ~retireFailed' PROVE NothingBelow'
    BY DEF NothingBelow
  <2>1. ~cleanupFailed /\ ~retireFailed
    BY <1>1, <1>2
  <2>2. /\ \A g \in dirs : g >= frontier.generation
        /\ \A r \in DOMAIN runs :
             r[1] <= frontier.generation => r \in Generation(frontier)
    BY <1>1, <1>8, <2>1 DEF RInv, NothingBelow
  <2> QED
    BY <1>1, <1>6, <1>7, <2>2 DEF NothingBelow
<1> QED
  BY <1>1, <1>7, <1>9, <1>10 DEF RInv, Retiring

LEMMA CommitR == ASSUME IInv, RInv, Commit PROVE RInv'
<1>1. /\ UNCHANGED <<dirs, runs, current, known, outcome, cleanupFailed,
                     retireFailed>>
      /\ place = "group" /\ place' = "retire" /\ frontier' = Successor
      /\ retired' = 0
  BY DEF Commit, workspace, caller, history
<1>2. /\ Successor.generation = current.generation + 1
      /\ Successor.run_count = SuccessorRunCount(current.run_count)
      /\ Successor.run_count = output_index
      /\ Records(Generation(Successor)) = Successor.record_count
  BY DEF Commit, Verified, Successor, Frontier
<1>3. /\ current = frontier /\ current.generation \in Nat
      /\ current.run_count \in Nat /\ current.run_count > FanIn
      /\ known.generation \in Nat
  BY <1>1 DEF IInv, Placed, Typed, RInv, Counted, PassCounted
<1>4. Generation(frontier)' = Generation(Successor)
      /\ Generation(Successor) = RunsOf(current.generation + 1, 0, output_index)
  BY <1>1, <1>2 DEF Generation, RunsOf
<1>5. WorkspaceTyped' /\ Returned'
  <2>1. outcome # "returned"
    BY <1>1 DEF IInv, Reported
  <2> QED
    BY <1>1, <2>1 DEF RInv, WorkspaceTyped, Returned
<1>6. Lineage'
  <2>1. FanIn \in Nat
    BY MergeAssumption
  <2>2. /\ Passes[current.run_count] = 1 + Passes[SuccessorRunCount(current.run_count)]
        /\ Passes[SuccessorRunCount(current.run_count)] \in Nat
    BY <1>3, <2>1, PassesUnfold, SuccessorHasFewerRuns
  <2>3. known.generation <= current.generation
        /\ known.generation + Passes[known.run_count]
             = current.generation + Passes[current.run_count]
    BY <1>3 DEF RInv, Lineage
  <2>4. /\ known' = known /\ frontier'.generation = current.generation + 1
        /\ frontier'.run_count = SuccessorRunCount(current.run_count)
    BY <1>1, <1>2
  <2>5. known'.generation + Passes[known'.run_count]
          = frontier'.generation + Passes[frontier'.run_count]
    BY <1>3, <2>2, <2>3, <2>4
  <2>6. known'.generation < frontier'.generation
    BY <1>3, <2>3, <2>4
  <2>7. known'.generation <= frontier'.generation
        /\ known'.generation # frontier'.generation
    BY <1>3, <2>4, <2>6
  <2> QED
    BY <2>5, <2>7 DEF Lineage
<1>7. Created = Generation(Successor) /\ Created' = {} /\ Unretired = {}
      /\ Unretired' = Generation(current)
  BY <1>1, <1>4 DEF Created, Unretired, Generation, RunsOf
<1>8. frontier'.generation = frontier.generation + 1
  BY <1>1, <1>2, <1>3
<1>9. NothingBeyond'
  <2> SUFFICES ASSUME ~cleanupFailed PROVE NothingBeyond'
    BY <1>1 DEF NothingBeyond
  <2>1. /\ \A g \in dirs : g <= frontier.generation \/ g = frontier.generation + 1
        /\ \A r \in DOMAIN runs :
             r[1] > frontier.generation => r \in Generation(Successor)
    BY <1>7 DEF RInv, NothingBeyond
  <2>2. \A r \in Generation(Successor) : r[1] = frontier.generation + 1
    BY <1>3, <1>4 DEF RunsOf
  <2>3. dirs \subseteq Nat /\ \A r \in DOMAIN runs : r[1] \in Nat
    BY DEF RInv, WorkspaceTyped
  <2>4. \A g \in dirs : g <= frontier.generation + 1
    BY <1>3, <2>1, <2>3
  <2>5. \A r \in DOMAIN runs : ~(r[1] > frontier.generation + 1)
    BY <1>3, <2>1, <2>2, <2>3
  <2> QED
    BY <1>1, <1>8, <2>4, <2>5 DEF NothingBeyond
<1>10. NothingBelow'
  <2> SUFFICES ASSUME ~cleanupFailed, ~retireFailed PROVE NothingBelow'
    BY <1>1 DEF NothingBelow
  <2>1. /\ \A g \in dirs : g >= frontier.generation
        /\ \A r \in DOMAIN runs :
             r[1] <= frontier.generation => r \in Generation(frontier)
    BY <1>1, <1>7 DEF RInv, NothingBelow
  <2>2. \A r \in DOMAIN runs :
          r[1] > frontier.generation => r \in Generation(Successor)
    BY <1>7 DEF RInv, NothingBeyond
  <2>3. dirs \subseteq Nat /\ \A r \in DOMAIN runs : r[1] \in Nat
    BY DEF RInv, WorkspaceTyped
  <2>4. \A g \in dirs : g >= frontier.generation + 1 \/ g = current.generation
    BY <1>3, <2>1, <2>3
  <2>5. \A r \in DOMAIN runs : r \in Generation(Successor) \union Generation(current)
    BY <1>3, <2>1, <2>2, <2>3
  <2> QED
    BY <1>1, <1>4, <1>7, <1>8, <2>4, <2>5 DEF NothingBelow
<1>11. Counted'
  BY <1>1, <1>2, <1>4 DEF Counted, PassCounted, Records, RecordsOf
<1> QED
  BY <1>1, <1>5, <1>6, <1>9, <1>10, <1>11 DEF RInv, Retiring

LEMMA RemoveRunR == ASSUME IInv, RInv, RemoveRun PROVE RInv'
<1> DEFINE run == <<current.generation, retired>>
<1>1. /\ UNCHANGED <<dirs, place, current, frontier, known, outcome,
                     cleanupFailed, retireFailed>>
      /\ place = "retire" /\ Unlink({run}) /\ retired' = retired + 1
  BY DEF RemoveRun, progress, caller, history
<1>2. /\ frontier.generation = current.generation + 1
      /\ current.generation \in Nat /\ current.run_count \in Nat
      /\ retired \in Nat
  BY <1>1 DEF IInv, Placed, Typed, RInv, Retiring
<1>3. Generation(frontier) \intersect {run} = {}
  BY <1>2 DEF Generation, RunsOf
<1>4. /\ DOMAIN runs' = DOMAIN runs \ {run}
      /\ Generation(frontier)' = Generation(frontier)
      /\ WorkspaceTyped' /\ Lineage' /\ Counted' /\ Returned'
  BY <1>1, <1>3, UnlinkRStep
<1>5. Created = {} /\ Created' = {}
  BY <1>1 DEF Created
<1>6. Unretired \subseteq Unretired' \union {run}
  <2>1. Unretired = RunsOf(current.generation, retired, current.run_count)
        /\ Unretired' = RunsOf(current.generation, retired + 1, current.run_count)
    BY <1>1 DEF Unretired, RunsOf
  <2>2. \A i \in retired .. current.run_count - 1 :
          i = retired \/ i \in retired + 1 .. current.run_count - 1
    BY <1>2
  <2> QED
    BY <2>1, <2>2 DEF RunsOf
<1> HIDE DEF run
<1>7. NothingBeyond'
  BY <1>1, <1>4, <1>5 DEF RInv, NothingBeyond
<1>8. NothingBelow'
  BY <1>1, <1>4, <1>6 DEF RInv, NothingBelow
<1> QED
  BY <1>1, <1>2, <1>4, <1>7, <1>8 DEF RInv, Retiring

LEMMA RemoveDirectoryR == ASSUME IInv, RInv, RemoveDirectory PROVE RInv'
<1>1. /\ UNCHANGED <<runs, frontier, known, outcome, cleanupFailed, retireFailed>>
      /\ place = "retire" /\ place' = "pass"
      /\ dirs' = dirs \ {current.generation}
      /\ \A r \in DOMAIN runs : r[1] # current.generation
  BY DEF RemoveDirectory, progress, caller, history
<1>2. Generation(frontier)' = Generation(frontier)
  BY <1>1 DEF Generation, RunsOf
<1>3. WorkspaceTyped' /\ Lineage' /\ Returned'
  BY <1>1 DEF RInv, WorkspaceTyped, Lineage, Returned
<1>4. Created = {} /\ Created' = {} /\ Unretired' = {}
      /\ \A r \in Unretired : r[1] = current.generation
  BY <1>1 DEF Created, Unretired, RunsOf
<1>5. NothingBeyond'
  BY <1>1, <1>4 DEF RInv, NothingBeyond
<1>6. NothingBelow'
  BY <1>1, <1>2, <1>4 DEF RInv, NothingBelow
<1>7. Counted'
  BY <1>1, <1>2 DEF RInv, Counted, PassCounted, Records, RecordsOf
<1> QED
  BY <1>1, <1>3, <1>5, <1>6, <1>7 DEF RInv, Retiring

LEMMA NextR == ASSUME IInv, RInv, [Next]_vars PROVE RInv'
<1>1. CASE UNCHANGED vars
  <2>1. UNCHANGED <<dirs, runs, place, current, output_index, retired, frontier,
                    known, outcome, merged_input_records, output_records,
                    cleanupFailed, retireFailed>>
    BY <1>1 DEF vars, workspace, pass, progress, caller, history
  <2> QED
    BY <2>1
    DEF RInv, WorkspaceTyped, Lineage, NothingBeyond, NothingBelow, Counted,
        PassCounted,
        Returned, Retiring, Created, Unretired, Generation, RunsOf, Records, RecordsOf
<1>2. CASE Call \/ NotStarted \/ Throw \/ ThrowBadAlloc BY <1>2, CallR
<1>3. CASE StartVerified BY <1>3, StartVerifiedR
<1>4. CASE Return BY <1>4, ReturnR
<1>5. CASE BeginPass BY <1>5, BeginPassR
<1>6. CASE OpenGroup BY <1>6, OpenGroupR
<1>7. CASE MergeGroup BY <1>7, MergeGroupR
<1>8. CASE GroupFails BY <1>8, GroupFailsR
<1>9. CASE MergeFails BY <1>9, MergeFailsR
<1>10. CASE Cleanup BY <1>10, CleanupR
<1>11. CASE Commit BY <1>11, CommitR
<1>12. CASE RemoveRun BY <1>12, RemoveRunR
<1>13. CASE RemoveDirectory BY <1>13, RemoveDirectoryR
<1>14. CASE RemoveFails BY <1>14, RemoveFailsR
<1> QED
  BY <1>1, <1>2, <1>3, <1>4, <1>5, <1>6, <1>7, <1>8, <1>9, <1>10, <1>11,
     <1>12, <1>13, <1>14 DEF Next, Step

----------------------------------------------------------------------------
(* The theorems.                                                           *)

\* The invariant of reduce_compact_edge_runs holds in every state.
THEOREM MergeInvariance == Spec => []IInv
BY InitInv, NextInv, PTL DEF Spec

\* Whatever fails, the frontier names a whole generation that holds exactly
\* the edges of the first one (recovery_frontier, compact_edge_merge.cpp:957).
THEOREM NoEdgeIsLost == Spec => []FrontierIsWhole
<1>1. IInv => FrontierIsWhole
  BY DEF IInv, Whole, FrontierIsWhole, Readable, ReadableIn, EdgesOf, EdgesIn
<1> QED BY <1>1, MergeInvariance, PTL

\* What a call leaves behind and what it counts is so in every state.
THEOREM ReductionInvariance == Spec => [](IInv /\ RInv)
<1>1. Init => IInv /\ RInv
  BY InitInv, InitRInv
<1>2. IInv /\ RInv /\ [Next]_vars => (IInv /\ RInv)'
  BY NextInv, NextR
<1> QED
  BY <1>1, <1>2, PTL DEF Spec

\* Unless the file system refuses a clean-up, a call that failed leaves nothing
\* where the next one's preflight_successor_names looks, and the count that
\* verify_generation compares is that of the frontier's runs.
THEOREM FailedCallCanBeRetried == Spec => []RetryIsNotBlocked
<1>1. IInv /\ RInv => RetryIsNotBlocked
  <2> SUFFICES ASSUME IInv, RInv, place = "idle", ~cleanupFailed
               PROVE  /\ \A g \in dirs : g <= frontier.generation
                      /\ \A r \in DOMAIN runs : r[1] <= frontier.generation
                      /\ Records(Generation(frontier)) = frontier.record_count
    BY DEF RetryIsNotBlocked
  <2>1. Created = {}
    BY DEF Created
  <2>2. \A r \in DOMAIN runs : r[1] \in Nat /\ ~(r[1] > frontier.generation)
    BY <2>1 DEF RInv, NothingBeyond, WorkspaceTyped
  <2>3. frontier.generation \in Nat
    BY DEF IInv, Typed
  <2> QED
    BY <2>2, <2>3 DEF RInv, NothingBeyond, Counted, PassCounted
<1> QED
  BY <1>1, ReductionInvariance, PTL

\* Whatever has failed, the next call can go on from the frontier that its
\* caller was told by a result or by a CompactEdgeReductionProgressError
\* (compact_edge_merge.cpp:1026-1037).
THEOREM ToldFrontierIsUsable == Spec => []ToldFrontierCanBeResumed
<1>1. IInv /\ RInv => ToldFrontierCanBeResumed
  <2> SUFFICES ASSUME IInv, RInv, outcome \in {"returned", "progress"}
               PROVE  /\ Verified(known) /\ EdgesOf(Generation(known)) = input
                      /\ ~cleanupFailed => SuccessorNames(known) \intersect dirs = {}
    BY DEF ToldFrontierCanBeResumed
  <2>1. known = frontier /\ place = "idle"
    BY DEF IInv, Reported, RInv, Returned
  <2>2. Readable(Generation(known)) /\ EdgesOf(Generation(known)) = input
    BY <2>1 DEF IInv, Whole, Readable, ReadableIn, EdgesOf, EdgesIn
  <2>3. Records(Generation(known)) = known.record_count
    BY <2>1 DEF RInv, Counted
  <2>4. ASSUME ~cleanupFailed PROVE SuccessorNames(known) \intersect dirs = {}
    <3>1. \A g \in dirs : g \in Nat /\ g <= known.generation
      BY <2>1, <2>4 DEF RInv, NothingBeyond, WorkspaceTyped
    <3>2. known.generation \in Nat /\ known.generation + Passes[known.run_count] \in Nat
      BY PassesUnfold DEF IInv, Typed
    <3> QED
      BY <3>1, <3>2 DEF SuccessorNames
  <2> QED
    BY <2>2, <2>3, <2>4 DEF Verified
<1> QED
  BY <1>1, ReductionInvariance, PTL

\* A call that returns leaves the frontier, which at most FanIn runs make up,
\* and nothing else in the workspace.
THEOREM ReturnedCallHasReduced == Spec => []ReductionIsComplete
<1>1. IInv /\ RInv => ReductionIsComplete
  <2> SUFFICES ASSUME IInv, RInv, outcome = "returned"
               PROVE  /\ known = frontier /\ known.run_count \in 1 .. FanIn
                      /\ ~cleanupFailed /\ ~retireFailed =>
                           /\ dirs = {known.generation}
                           /\ DOMAIN runs = Generation(known)
    BY DEF ReductionIsComplete
  <2>1. place = "idle"
    BY DEF IInv, Reported
  <2>2. known = frontier /\ known.run_count <= FanIn
    BY DEF RInv, Returned
  <2>3. known.run_count \in Nat /\ frontier.generation \in Nat
    BY DEF IInv, Typed
  <2>4. known.run_count # 0
    <3> SUFFICES ASSUME known.run_count = 0 PROVE FALSE
      OBVIOUS
    <3>1. Generation(frontier) = {}
      BY <2>2 DEF Generation, RunsOf
    <3> QED
      BY <3>1 DEF IInv, Whole, EdgesIn
  <2>5. FanIn \in Nat
    BY MergeAssumption
  <2>6. ASSUME ~cleanupFailed, ~retireFailed
        PROVE  dirs = {known.generation} /\ DOMAIN runs = Generation(known)
    <3>1. Created = {} /\ Unretired = {}
      BY <2>1 DEF Created, Unretired
    <3>2. dirs \subseteq Nat /\ \A r \in DOMAIN runs : r[1] \in Nat
      BY DEF RInv, WorkspaceTyped
    <3>3. /\ \A g \in dirs : g <= frontier.generation
          /\ \A r \in DOMAIN runs : ~(r[1] > frontier.generation)
      BY <2>1, <2>6, <3>1 DEF RInv, NothingBeyond
    <3>4. /\ \A g \in dirs : g >= frontier.generation
          /\ \A r \in DOMAIN runs :
               r[1] <= frontier.generation => r \in Generation(frontier)
      BY <2>1, <2>6, <3>1 DEF RInv, NothingBelow
    <3>5. frontier.generation \in dirs /\ Generation(frontier) \subseteq DOMAIN runs
      BY DEF IInv, Whole, ReadableIn
    <3>6. dirs = {frontier.generation}
      <4>1. \A g \in dirs : g = frontier.generation
        BY <2>3, <3>2, <3>3, <3>4
      <4> QED
        BY <3>5, <4>1
    <3>7. DOMAIN runs = Generation(frontier)
      BY <2>3, <3>2, <3>3, <3>4, <3>5
    <3> QED
      BY <2>2, <3>6, <3>7
  <2> QED
    BY <2>2, <2>3, <2>4, <2>5, <2>6
<1> QED
  BY <1>1, ReductionInvariance, PTL

\* The frontier moves only when a pass commits: to the next generation, of
\* fewer runs and no more records.
THEOREM FrontierOnlyAdvances == Spec => FrontierAdvances
<1> DEFINE Advances ==
      frontier' # frontier =>
        /\ frontier'.generation > frontier.generation
        /\ frontier'.run_count < frontier.run_count
        /\ frontier'.record_count <= frontier.record_count
<1>1. IInv /\ RInv /\ [Next]_vars => [Advances]_vars
  <2> SUFFICES ASSUME IInv, RInv, Next PROVE Advances
    OBVIOUS
  <2>1. CASE Commit
    <3>1. /\ frontier' = Successor /\ place = "group"
          /\ merged_input_records = current.record_count
      BY <2>1 DEF Commit
    <3>2. /\ Successor.generation = current.generation + 1
          /\ Successor.run_count = SuccessorRunCount(current.run_count)
          /\ Successor.record_count = output_records
      BY DEF Successor, Frontier
    <3>3. /\ current = frontier /\ current.generation \in Nat
          /\ current.run_count \in Nat /\ current.run_count > FanIn
          /\ output_records <= merged_input_records
      BY <3>1 DEF IInv, Placed, Typed, RInv, Counted, PassCounted
    <3>4. SuccessorRunCount(current.run_count) < current.run_count
      BY <3>3, SuccessorHasFewerRuns
    <3> QED
      BY <3>1, <3>2, <3>3, <3>4
  <2>2. CASE StartVerified
    BY <2>2, StartsAtFrontier DEF StartVerified
  <2>3. CASE Next /\ ~Commit /\ ~StartVerified
    <3>1. frontier' = frontier
      BY <2>3
      DEF Next, Step, Call, NotStarted, Return, Throw, ThrowBadAlloc, BeginPass,
          OpenGroup, MergeGroup, GroupFails, MergeFails, Cleanup, RemoveRun,
          RemoveDirectory, RemoveFails, progress
    <3> QED
      BY <3>1
  <2> QED
    BY <2>1, <2>2, <2>3
<1> QED
  BY <1>1, ReductionInvariance, PTL DEF Spec, FrontierAdvances

=================================================================================
