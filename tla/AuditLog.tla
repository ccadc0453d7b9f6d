------------------------------ MODULE AuditLog ------------------------------
(***************************************************************************)
(* audit/: the hash-chained action log, one JSON record per line.  Several *)
(* AuditLog objects may be open on one file, each with the hash of what it *)
(* believes to be the last record; a write can be cut off anywhere; and    *)
(* whoever can edit the file may delete, move or alter records.  An editor *)
(* alters content and does not recompute hashes.                           *)
(***************************************************************************)
EXTENDS Mandates, FiniteSetsExt, SequencesExt

CONSTANTS
  Writers,     \* AuditLog objects on the path
  Forged,      \* a payload nobody logged
  MaxRecords,  \* bound: records that are appended
  MaxEdits,    \* bound: edits of the file
  MaxFailures  \* bound: writes that are cut off

ASSUME AuditAssumption ==
  MaxRecords \in Nat /\ MaxEdits \in Nat /\ MaxFailures \in Nat

VARIABLES
  file,      \* the lines of the log
  ended,     \* whether the last of them has its newline
  prev,      \* _prev_hash of each object, None when it is not open
  \* For the properties only:
  appended,  \* what append was called to write, in that order
  edits,     \* how often the file was edited
  failures,  \* how many writes were cut off
  shared     \* whether two objects have ever been open at once

logVars == <<file, ended, prev, appended, edits, failures, shared>>

-----------------------------------------------------------------------------

Genesis == <<"genesis">>

\* _canonical and SHA-256 of the body; equal digests mean equal bodies.
HashOf(previous, payload) == <<"sha256", previous, payload>>

Record(previous, payload) ==
  [prev_hash |-> previous, payload |-> payload,
   record_hash |-> HashOf(previous, payload), torn |-> FALSE]

\* A line that is no JSON: a part of a record, or two records in one line.
Torn == [prev_hash |-> None, payload |-> None, record_hash |-> None, torn |-> TRUE]

HasTornLine(lines) == \E i \in DOMAIN lines : lines[i].torn

\* What is written goes to a line of its own, unless the last one has no
\* newline: then the two together are one line, which is no JSON.
WithLine(lines, line) ==
  IF ended THEN Append(lines, line) ELSE [lines EXCEPT ![Len(lines)] = Torn]

\* Mistake to detect: a new object starts a new chain.
GenesisHash(lines) == Genesis

\* __post_init__: the hash of the last record, which is not verified.
LastHash(lines) == IF lines = <<>> THEN Genesis ELSE lines[Len(lines)].record_hash

OpenWriters == {w \in Writers : prev[w] # None}

\* AuditLog(path).  It raises on a log with a torn line, and is not opened.
Open(w) ==
  /\ prev[w] = None
  /\ ~HasTornLine(file)
  /\ prev' = [prev EXCEPT ![w] = LastHash(file)]
  /\ shared' = (shared \/ OpenWriters # {})
  /\ UNCHANGED <<file, ended, appended, edits, failures>>

\* append: it trusts the hash the object holds, and never looks at the file.
AppendRecord(w, payload) ==
  /\ prev[w] # None
  /\ Len(appended) < MaxRecords
  /\ LET record == Record(prev[w], payload)
     IN  /\ file' = WithLine(file, record)
         /\ prev' = [prev EXCEPT ![w] = record.record_hash]
         /\ appended' = Append(appended, record)
  /\ ended' = TRUE
  /\ UNCHANGED <<edits, failures, shared>>

\* append does not return: the disk is full and it raises, so that the object
\* keeps its hash, or the process is gone.  Nothing, a part, or all of the
\* record but its newline is in the file; when the process is gone, perhaps
\* the whole line.
AppendFails(w, payload) ==
  /\ prev[w] # None
  /\ failures < MaxFailures
  /\ failures' = failures + 1
  /\ prev' \in {prev, [prev EXCEPT ![w] = None]}
  /\ LET record == Record(prev[w], payload)
     IN  /\ appended' = Append(appended, record)
         /\ \/ UNCHANGED <<file, ended>>
            \/ file' = WithLine(file, Torn) /\ ended' = FALSE
            \/ file' = WithLine(file, record) /\ ended' = FALSE
            \/ file' = WithLine(file, record) /\ ended' = TRUE /\ prev'[w] = None
  /\ UNCHANGED <<edits, shared>>

\* The process ends between two appends.
Close(w) ==
  /\ prev[w] # None
  /\ prev' = [prev EXCEPT ![w] = None]
  /\ UNCHANGED <<file, ended, appended, edits, failures, shared>>

\* Somebody edits the file.
Edit ==
  /\ edits < MaxEdits
  /\ edits' = edits + 1
  /\ \E i \in DOMAIN file :
       \/ file' = RemoveAt(file, i) /\ ended' = (ended \/ i = Len(file))
       \/ /\ \E j \in DOMAIN file :
               i < j /\ file' = [file EXCEPT ![i] = file[j], ![j] = file[i]]
          /\ UNCHANGED ended
       \/ /\ ~file[i].torn /\ file' = [file EXCEPT ![i].payload = Forged]
          /\ UNCHANGED ended
  /\ UNCHANGED <<prev, appended, failures, shared>>

LogInit ==
  /\ file = <<>> /\ ended = TRUE /\ prev = [w \in Writers |-> None] /\ appended = <<>>
  /\ edits = 0 /\ failures = 0 /\ shared = FALSE

-----------------------------------------------------------------------------
(* verify_log. *)

\* Mistake to detect: the content is not hashed again.
LinkedOnly(lines, i) ==
  lines[i].prev_hash = IF i = 1 THEN Genesis ELSE lines[i - 1].record_hash

\* Line i continues the chain, and its content has the hash it records.
Chained(lines, i) ==
  /\ lines[i].prev_hash = IF i = 1 THEN Genesis ELSE lines[i - 1].record_hash
  /\ lines[i].record_hash = HashOf(lines[i].prev_hash, lines[i].payload)

BadLines(lines) == {i \in DOMAIN lines : lines[i].torn \/ ~Chained(lines, i)}

\* The first bad line decides; json.loads raises when it is a torn one.
VerifyLog(lines) ==
  IF BadLines(lines) = {}
  THEN [intact |-> TRUE, record_count |-> Len(lines), raises |-> FALSE]
  ELSE LET i == Min(BadLines(lines))
       IN  [intact |-> FALSE, record_count |-> i - 1, raises |-> lines[i].torn]

-----------------------------------------------------------------------------
(* Properties. *)

\* The place of the first call of append that wrote a record, 0 when none did.
Written(record) ==
  LET places == {k \in DOMAIN appended : appended[k] = record}
  IN  IF places = {} THEN 0 ELSE Min(places)

\* A log that verifies holds nothing but records append was called to write,
\* in the order of the calls, whoever wrote to it, was cut off or edited it.
\* No more: a call that was cut off may have left its record, and a record
\* that append returned may be missing (IntactPrefix in the proofs).
IntactMeansAuthentic ==
  VerifyLog(file).intact =>
    /\ \A i \in DOMAIN file : Written(file[i]) # 0
    /\ \A i, j \in DOMAIN file : i < j => Written(file[i]) < Written(file[j])

\* Nobody is accused of tampering who did not: as long as one object at a
\* time writes, no write is cut off and no one edits, the log verifies and
\* holds every record, across processes that end and begin.
HonestLogIntact ==
  ~shared /\ failures = 0 /\ edits = 0 =>
    VerifyLog(file) = [intact |-> TRUE, record_count |-> Len(appended), raises |-> FALSE]
=============================================================================
