--------------------------- MODULE ForwardTestLog ---------------------------
(***************************************************************************)
(* The forward-test log: scripts/forward_test_recorder.py appends one JSON *)
(* line per evaluation of the signal endpoint, across runs that may be     *)
(* stopped or killed at any point, and load_records of                     *)
(* scripts/forward_test_analyzer.py reads the file back.                   *)
(*                                                                         *)
(* A line is written in pieces, as the file buffer is flushed: a first     *)
(* part of the record, the rest of it, and the newline.  A line decodes    *)
(* exactly when it holds one whole record and nothing else.                *)
(***************************************************************************)
EXTENDS Naturals, Sequences, FiniteSets

CONSTANTS MaxEvaluations,  \* bound on the evaluations of all runs
          Iterations,      \* values of --iterations
          None             \* no --iterations; a missing value

ASSUME EvaluationsAssumption == MaxEvaluations \in Nat
ASSUME IterationsAssumption == Iterations \subseteq Nat /\ None \notin Iterations

VARIABLES
  mode,       \* where the recorder is
  limit,      \* args.iterations of this run
  completed,  \* evaluations this run has counted
  evaluation, \* the number of the evaluation under way, over all runs
  unwritten,  \* pieces of its line not yet in the file
  file,       \* the log file
  whole,      \* history only: the evaluations whose line was written whole
  written,    \* history only: lines this run has written
  torn        \* history only: lines cut short by a kill

vars == <<mode, limit, completed, evaluation, unwritten, file, whole, written, torn>>

Modes == {"off", "calling", "writing", "counting", "sleeping", "done", "stopped", "died"}
Running == {"calling", "writing", "counting", "sleeping"}
Parts == {"head", "rest", "newline"}
Piece(e, part) == [of |-> e, part |-> part]

\* Mutant of Line: without its newline.
LineUnterminated(e) == <<Piece(e, "head"), Piece(e, "rest")>>

Line(e) == <<Piece(e, "head"), Piece(e, "rest"), Piece(e, "newline")>>

-----------------------------------------------------------------------------
(* load_records                                                            *)

Newlines == {i \in DOMAIN file : file[i].part = "newline"}
LineStarts == {i \in DOMAIN file : i = 1 \/ i - 1 \in Newlines}

\* The pieces of the line that starts at i, its newline stripped.
Content(i) ==
  LET ends == {j \in Newlines : j >= i}
      last == IF ends = {} THEN Len(file) ELSE (CHOOSE j \in ends : \A k \in ends : j <= k) - 1
  IN  SubSeq(file, i, last)

\* Mutant of Decodes: a line is accepted for its beginning.
DecodesPrefix(l) ==
  Len(l) >= 2 /\ l[1].part = "head" /\ l[2].part \in {"rest", "head"}

Decodes(l) ==
  Len(l) = 2 /\ l[1].part = "head" /\ l[2] = Piece(l[1].of, "rest")

Loaded == {Content(i)[1].of : i \in {j \in LineStarts : Decodes(Content(j))}}
Malformed == Cardinality({i \in LineStarts : Content(i) # <<>> /\ ~Decodes(Content(i))})

-----------------------------------------------------------------------------
(* The recorder                                                            *)

Enough(n, l) == l # None /\ n >= l

\* main: a new run, with or without --iterations.
Start(l) ==
  /\ mode \notin Running /\ evaluation < MaxEvaluations
  /\ mode' = IF Enough(0, l) THEN "done" ELSE "calling"
  /\ limit' = l
  /\ completed' = 0 /\ written' = 0
  /\ evaluation' = IF Enough(0, l) THEN evaluation ELSE evaluation + 1
  /\ unwritten' = <<>>
  /\ UNCHANGED <<file, whole, torn>>

\* How the call to the endpoint ends, and what call_smc_signal_endpoint returns
\* a value for: a timeout or a broken connection while the answer is read is
\* neither an HTTPError nor a URLError.
Outcomes == {"response", "http_error", "connection_error", "read_error"}
Caught == {"response", "http_error", "connection_error"}

Answered(outcome) ==
  /\ mode = "calling" /\ outcome \in Caught
  /\ mode' = "writing"
  /\ unwritten' = Line(evaluation)
  /\ UNCHANGED <<limit, completed, evaluation, file, whole, written, torn>>

Raised(outcome) ==
  /\ mode = "calling" /\ outcome \notin Caught
  /\ mode' = "died"
  /\ UNCHANGED <<limit, completed, evaluation, unwritten, file, whole, written, torn>>

\* Mutant of Opened: the log is opened for writing, not appending.
OpenedForWriting == IF Len(unwritten) = 3 THEN <<>> ELSE file

Opened == file

\* append_record: the buffer reaches the file in one or several writes.
Flush(n) ==
  LET rest == SubSeq(unwritten, n + 1, Len(unwritten)) IN
  /\ mode = "writing" /\ n <= Len(unwritten)
  /\ file' = Opened \o SubSeq(unwritten, 1, n)
  /\ unwritten' = rest
  /\ mode' = IF rest = <<>> THEN "counting" ELSE "writing"
  /\ whole' = IF rest = <<>> THEN whole \cup {evaluation} ELSE whole
  /\ written' = IF rest = <<>> THEN written + 1 ELSE written
  /\ UNCHANGED <<limit, completed, evaluation, torn>>

Count ==
  /\ mode = "counting"
  /\ completed' = completed + 1
  /\ mode' = IF Enough(completed + 1, limit) THEN "done" ELSE "sleeping"
  /\ UNCHANGED <<limit, evaluation, unwritten, file, whole, written, torn>>

Wake ==
  /\ mode = "sleeping" /\ evaluation < MaxEvaluations
  /\ mode' = "calling"
  /\ evaluation' = evaluation + 1
  /\ UNCHANGED <<limit, completed, unwritten, file, whole, written, torn>>

\* Ctrl+C leaves the loop; during append_record the file is closed first.
Interrupt ==
  /\ mode \in {"calling", "counting", "sleeping"}
  /\ mode' = "stopped"
  /\ UNCHANGED <<limit, completed, evaluation, unwritten, file, whole, written, torn>>

\* The process is killed; what the buffer holds is lost.
Kill ==
  /\ mode \in Running
  /\ mode' = "off"
  /\ unwritten' = <<>>
  /\ torn' = IF mode = "writing" /\ Len(unwritten) \in 1..2 THEN torn + 1 ELSE torn
  /\ UNCHANGED <<limit, completed, evaluation, file, whole, written>>

Init ==
  /\ mode = "off" /\ limit = None /\ completed = 0 /\ evaluation = 0
  /\ unwritten = <<>> /\ file = <<>> /\ whole = {} /\ written = 0 /\ torn = 0

Next ==
  \/ \E l \in Iterations \cup {None} : Start(l)
  \/ \E outcome \in Outcomes : Answered(outcome) \/ Raised(outcome)
  \/ \E n \in 1..3 : Flush(n)
  \/ Count \/ Wake \/ Interrupt \/ Kill

Spec == Init /\ [][Next]_vars

-----------------------------------------------------------------------------
TypeOK ==
  /\ mode \in Modes /\ limit \in Iterations \cup {None}
  /\ completed \in 0..MaxEvaluations /\ evaluation \in 0..MaxEvaluations
  /\ written \in 0..MaxEvaluations /\ torn \in 0..MaxEvaluations
  /\ file \in Seq([of : 1..MaxEvaluations, part : Parts])
  /\ unwritten \in Seq([of : 1..MaxEvaluations, part : Parts])
  /\ whole \subseteq 1..MaxEvaluations

\* A kill costs at most the line it cut and one whole line after it, and every
\* loss shows: the analyzer counts a malformed line when a whole one is gone.
DamageBounded ==
  LET lost == whole \ Loaded IN
  /\ Cardinality(lost) <= torn
  /\ mode # "writing" => Malformed <= torn
  /\ lost # {} => Malformed > 0

\* What the analyzer reads was recorded, and is read once: a line it accepts
\* was written whole, or is the last of the file and lacks only its newline.
LogIsFaithful ==
  LET good == {i \in LineStarts : Decodes(Content(i))} IN
  \A i \in good :
    /\ Content(i)[1].of \in whole \/ i + 1 = Len(file)
    /\ \A j \in good : Content(i)[1].of = Content(j)[1].of => i = j

\* A line that has reached the file whole is never taken back.
RecordsAreDurable ==
  [][\A e \in whole : \E i \in DOMAIN file' :
       i + 2 <= Len(file') /\ SubSeq(file', i, i + 2) = Line(e)]_vars

\* A run that ends by itself has made exactly the evaluations it was asked for,
\* and the number it prints is short of its lines by one at most.
RunIsExact ==
  /\ mode = "done" => completed = limit /\ written = limit
  /\ completed <= written /\ written <= completed + 1

\* forward_test_analyzer.py, load_records: one corrupted line never prevents
\* analysis of every other record.
CorruptionIsLocal == mode # "writing" => whole \subseteq Loaded

\* forward_test_recorder.py: one record per evaluation, until Ctrl+C.
RunsUntilStopped == mode # "died"
=============================================================================
