------------------------ MODULE ForwardTestLogProofs ------------------------
(***************************************************************************)
(* The properties of ForwardTestLog for every number of evaluations and    *)
(* every set of run lengths.                                               *)
(***************************************************************************)
EXTENDS ForwardTestLog, SequenceTheorems, FunctionTheorems, FiniteSetTheorems,
        WellFoundedInduction, TLAPS

-----------------------------------------------------------------------------
(* The invariant *)

\* A run counts a line once it is written, and stops at its limit.
Counting ==
  /\ completed <= written /\ written <= completed + 1 /\ written <= evaluation
  /\ torn <= evaluation
  /\ mode \in {"calling", "writing", "sleeping", "done"} => written = completed
  /\ mode = "counting" => written = completed + 1
  /\ mode \in {"calling", "writing"} => completed < evaluation /\ torn < evaluation
  /\ mode \in Running /\ limit # None => completed < limit
  /\ mode = "done" => limit # None /\ completed = limit

Holds(i, e, part) == file[i].of = e /\ file[i].part = part

\* What of the line under way is in the file, and what is not.
UnderWay ==
  LET k == Len(unwritten)
      n == Len(file)
  IN  IF mode = "writing"
      THEN /\ k \in 1..3 /\ n >= 3 - k
           /\ unwritten[k] = Piece(evaluation, "newline")
           /\ k >= 2 => unwritten[k - 1] = Piece(evaluation, "rest")
           /\ k = 3 => unwritten[1] = Piece(evaluation, "head")
           /\ k = 2 => Holds(n, evaluation, "head")
           /\ k = 1 => Holds(n - 1, evaluation, "head") /\ Holds(n, evaluation, "rest")
      ELSE unwritten = <<>>

Fresh == mode = "calling" \/ (mode = "writing" /\ Len(unwritten) = 3)

\* The pieces of a line are together and in order, whatever is missing of it.
InOrder ==
  /\ \A i \in DOMAIN file :
       /\ file[i].of <= evaluation
       /\ Fresh => file[i].of < evaluation
       /\ file[i].part = "rest" => i > 1 /\ Holds(i - 1, file[i].of, "head")
       /\ file[i].part = "newline" => i > 1 /\ Holds(i - 1, file[i].of, "rest")
       /\ file[i].part = "newline" => file[i].of \in whole
  /\ \A i, j \in DOMAIN file :
       file[i].part = "head" /\ file[j].part = "head" /\ file[i].of = file[j].of => i = j

\* A line that was written whole is in the file.
WholeIsThere ==
  /\ \A e \in whole : \E i \in DOMAIN file : Holds(i, e, "newline")
  /\ \A e \in whole : e <= evaluation
  /\ mode \in {"calling", "writing"} => evaluation \notin whole

\* The evaluations a kill has cut.
Open == IF mode = "writing" THEN {evaluation} ELSE {}
Begun == {e \in 1..MaxEvaluations : \E i \in DOMAIN file : Holds(i, e, "head")}
Cut == (Begun \ whole) \ Open
CutsCounted == Cardinality(Cut) <= torn

IInv == TypeOK /\ Counting /\ UnderWay /\ InOrder /\ WholeIsThere /\ CutsCounted

PieceSet == [of : 1..MaxEvaluations, part : Parts]

-----------------------------------------------------------------------------
(* One write *)

LEMMA LineIs == ASSUME NEW e
                PROVE  /\ Len(Line(e)) = 3 /\ DOMAIN Line(e) = 1..3
                       /\ Line(e)[1] = Piece(e, "head") /\ Line(e)[2] = Piece(e, "rest")
                       /\ Line(e)[3] = Piece(e, "newline")
BY DEF Line

LEMMA PieceIs == ASSUME NEW e, NEW part
                 PROVE  Piece(e, part).of = e /\ Piece(e, part).part = part
BY DEF Piece

LEMMA PieceType == ASSUME NEW e \in 1..MaxEvaluations, NEW part \in Parts
                   PROVE  Piece(e, part) \in PieceSet
BY DEF Piece, PieceSet

LEMMA LineType == ASSUME NEW e \in 1..MaxEvaluations PROVE Line(e) \in Seq(PieceSet)
BY PieceType DEF Line, Parts

LEMMA PieceEq == ASSUME NEW p \in PieceSet, NEW e, NEW part, p.of = e, p.part = part
                 PROVE  p = Piece(e, part)
BY DEF Piece, PieceSet

LEMMA FileIs ==
  ASSUME TypeOK
  PROVE  /\ file \in Seq(PieceSet) /\ Len(file) \in Nat /\ DOMAIN file = 1..Len(file)
         /\ \A i \in DOMAIN file : /\ file[i] \in PieceSet
                                   /\ file[i].of \in 1..MaxEvaluations /\ file[i].of \in Nat
                                   /\ file[i].part \in Parts
<1>1. file \in Seq(PieceSet)
  BY DEF TypeOK, PieceSet
<1>2. Len(file) \in Nat /\ DOMAIN file = 1..Len(file)
  BY <1>1
<1>3. \A i \in DOMAIN file : file[i] \in PieceSet
  BY <1>1, <1>2
<1> QED BY <1>1, <1>2, <1>3, EvaluationsAssumption DEF PieceSet

\* What a write leaves in the file and in the buffer.
LEMMA Written ==
  ASSUME TypeOK, NEW n \in 1..3, Flush(n)
  PROVE  /\ file' \in Seq(PieceSet) /\ unwritten' \in Seq(PieceSet)
         /\ Len(file) \in Nat /\ Len(unwritten) \in Nat /\ n <= Len(unwritten)
         /\ Len(file') = Len(file) + n /\ Len(unwritten') = Len(unwritten) - n
         /\ DOMAIN file = 1..Len(file) /\ DOMAIN file' = 1..(Len(file) + n)
         /\ \A i \in 1..Len(file) : file'[i] = file[i]
         /\ \A j \in 1..n : file'[Len(file) + j] = unwritten[j]
         /\ \A j \in 1..(Len(unwritten) - n) : unwritten'[j] = unwritten[n + j]
         /\ unwritten' = <<>> <=> n = Len(unwritten)
<1> DEFINE k == Len(unwritten)
           first == SubSeq(unwritten, 1, n)
           last == SubSeq(unwritten, n + 1, k)
<1>1. /\ file \in Seq(PieceSet) /\ unwritten \in Seq(PieceSet) /\ k \in Nat /\ n <= k
      /\ file' = file \o first /\ unwritten' = last
  BY DEF TypeOK, Flush, Opened, PieceSet
<1>2. \A i \in 1..n : i \in DOMAIN unwritten
  BY <1>1
<1>3. \A i \in (n + 1)..k : i \in DOMAIN unwritten
  BY <1>1
<1>4. first \in Seq(PieceSet) /\ Len(first) = n /\ \A j \in 1..n : first[j] = unwritten[j]
  <2>1. \A i \in 1..n : unwritten[i] \in PieceSet
    BY <1>1, <1>2
  <2>2. /\ first \in Seq(PieceSet) /\ Len(first) = IF 1 <= n THEN n - 1 + 1 ELSE 0
        /\ \A i \in 1..(n - 1 + 1) : first[i] = unwritten[1 + i - 1]
    BY <2>1, SubSeqProperties
  <2>3. n - 1 + 1 = n /\ \A i \in 1..n : 1 + i - 1 = i
    OBVIOUS
  <2> HIDE DEF first
  <2> QED BY <2>2, <2>3
<1>5. last \in Seq(PieceSet) /\ Len(last) = k - n
      /\ \A j \in 1..(k - n) : last[j] = unwritten[n + j]
  <2>1. \A i \in (n + 1)..k : unwritten[i] \in PieceSet
    BY <1>1, <1>3
  <2>2. n + 1 \in Int /\ k \in Int
    BY <1>1
  <2>3. /\ last \in Seq(PieceSet) /\ Len(last) = IF n + 1 <= k THEN k - (n + 1) + 1 ELSE 0
        /\ \A i \in 1..(k - (n + 1) + 1) : last[i] = unwritten[n + 1 + i - 1]
    BY <2>1, <2>2, SubSeqProperties
  <2>4. /\ k - (n + 1) + 1 = k - n /\ (IF n + 1 <= k THEN k - n ELSE 0) = k - n
        /\ \A i \in 1..(k - n) : n + 1 + i - 1 = n + i
    BY <1>1
  <2> HIDE DEF last, k
  <2> QED BY <2>3, <2>4
<1> HIDE DEF first, last
<1>6. /\ file' \in Seq(PieceSet) /\ Len(file') = Len(file) + n
      /\ \A i \in 1..Len(file) : file'[i] = file[i]
      /\ \A j \in 1..n : file'[Len(file) + j] = unwritten[j]
  <2>1. Len(file) \in Nat /\ file \o first \in Seq(PieceSet) /\ Len(file \o first) = Len(file) + n
    BY <1>1, <1>4, ConcatProperties
  <2>2. \A i \in 1..(Len(file) + n) :
          (file \o first)[i] = IF i <= Len(file) THEN file[i] ELSE first[i - Len(file)]
    BY <1>1, <1>4, ConcatProperties
  <2>3. \A j \in 1..n : /\ Len(file) + j \in 1..(Len(file) + n) /\ ~(Len(file) + j <= Len(file))
                        /\ Len(file) + j - Len(file) = j
    BY <2>1
  <2> QED BY <1>1, <1>4, <2>1, <2>2, <2>3
<1>7. last = <<>> <=> n = k
  BY <1>1, <1>5
<1> QED BY <1>1, <1>5, <1>6, <1>7

-----------------------------------------------------------------------------
(* The invariant is inductive *)

LEMMA TypeNext == ASSUME IInv, [Next]_vars PROVE TypeOK'
<1> USE DEF IInv
<1>1. MaxEvaluations \in Nat /\ evaluation \in Nat /\ completed \in Nat /\ written \in Nat
      /\ torn \in Nat
  BY EvaluationsAssumption DEF TypeOK
<1>2. <<>> \in Seq(PieceSet)
  OBVIOUS
<1>3. ASSUME NEW l \in Iterations \cup {None}, Start(l) PROVE TypeOK'
  BY <1>1, <1>2, <1>3 DEF Start, TypeOK, Modes, PieceSet
<1>4. ASSUME NEW outcome \in Outcomes, Answered(outcome) PROVE TypeOK'
  <2>1. evaluation \in 1..MaxEvaluations
    BY <1>1, <1>4 DEF Answered, Counting, TypeOK
  <2> QED BY <1>4, <2>1, LineType DEF Answered, TypeOK, Modes, PieceSet
<1>5. ASSUME NEW outcome \in Outcomes, Raised(outcome) PROVE TypeOK'
  BY <1>5 DEF Raised, TypeOK, Modes
<1>6. ASSUME NEW n \in 1..3, Flush(n) PROVE TypeOK'
  <2>1. file' \in Seq(PieceSet) /\ unwritten' \in Seq(PieceSet)
    BY <1>6, Written
  <2>2. mode = "writing" /\ mode' \in Modes
    BY <1>6 DEF Flush, Modes
  <2>3. evaluation \in 1..MaxEvaluations /\ written + 1 \in 0..MaxEvaluations
    BY <1>1, <2>2 DEF Counting, TypeOK
  <2> QED BY <1>6, <2>1, <2>2, <2>3 DEF Flush, TypeOK, PieceSet
<1>7. CASE Count
  <2>1. completed + 1 \in 0..MaxEvaluations
    BY <1>1, <1>7 DEF Count, Counting, TypeOK
  <2> QED BY <1>7, <2>1 DEF Count, TypeOK, Modes
<1>8. CASE Wake
  BY <1>1, <1>8 DEF Wake, TypeOK, Modes
<1>9. CASE Interrupt
  BY <1>9 DEF Interrupt, TypeOK, Modes
<1>10. CASE Kill
  <2>1. torn' \in 0..MaxEvaluations
    BY <1>1, <1>10 DEF Kill, Counting, TypeOK
  <2> QED BY <1>2, <1>10, <2>1 DEF Kill, TypeOK, Modes, PieceSet
<1>11. CASE UNCHANGED vars
  BY <1>11 DEF vars, TypeOK
<1> QED BY <1>3, <1>4, <1>5, <1>6, <1>7, <1>8, <1>9, <1>10, <1>11 DEF Next

LEMMA CountingNext == ASSUME IInv, [Next]_vars PROVE Counting'
<1> USE DEF IInv
<1>1. /\ MaxEvaluations \in Nat /\ evaluation \in Nat /\ completed \in Nat /\ written \in Nat
      /\ torn \in Nat /\ limit \in Iterations \cup {None} /\ Iterations \subseteq Nat
      /\ None \notin Iterations
  BY EvaluationsAssumption, IterationsAssumption DEF TypeOK
<1>2. ASSUME NEW l \in Iterations \cup {None}, Start(l) PROVE Counting'
  BY <1>1, <1>2 DEF Start, Counting, Enough, Running
<1>3. ASSUME NEW outcome \in Outcomes, Answered(outcome) PROVE Counting'
  BY <1>3 DEF Answered, Counting, Running
<1>4. ASSUME NEW outcome \in Outcomes, Raised(outcome) PROVE Counting'
  BY <1>4 DEF Raised, Counting, Running
<1>5. ASSUME NEW n \in 1..3, Flush(n) PROVE Counting'
  BY <1>1, <1>5 DEF Flush, Counting, Running
<1>6. CASE Count
  BY <1>1, <1>6 DEF Count, Counting, Enough, Running
<1>7. CASE Wake
  BY <1>1, <1>7 DEF Wake, Counting, Running
<1>8. CASE Interrupt
  BY <1>1, <1>8 DEF Interrupt, Counting, Running
<1>9. CASE Kill
  BY <1>1, <1>9 DEF Kill, Counting, Running
<1>10. CASE UNCHANGED vars
  BY <1>10 DEF vars, Counting
<1> QED BY <1>2, <1>3, <1>4, <1>5, <1>6, <1>7, <1>8, <1>9, <1>10 DEF Next

LEMMA Sizes == ASSUME NEW k \in 1..3, NEW n \in 1..3, n < k
               PROVE  /\ k \in 2..3 /\ k - n \in 1..2
                      /\ <<k, n>> \in {<<2, 1>>, <<3, 1>>, <<3, 2>>}
OBVIOUS

\* A write adds the next pieces of the line under way.
LEMMA FlushUnderWay ==
  ASSUME IInv, NEW n \in 1..3, Flush(n) PROVE UnderWay'
<1>1. /\ Len(file) \in Nat /\ Len(unwritten) \in Nat /\ n <= Len(unwritten)
      /\ Len(file') = Len(file) + n /\ Len(unwritten') = Len(unwritten) - n
      /\ \A i \in 1..Len(file) : file'[i] = file[i]
      /\ \A j \in 1..n : file'[Len(file) + j] = unwritten[j]
      /\ \A j \in 1..(Len(unwritten) - n) : unwritten'[j] = unwritten[n + j]
      /\ unwritten' = <<>> <=> n = Len(unwritten)
  BY Written DEF IInv
<1>2. /\ mode = "writing" /\ evaluation' = evaluation
      /\ mode' = IF unwritten' = <<>> THEN "counting" ELSE "writing"
  BY DEF Flush
<1>3. CASE n = Len(unwritten)
  BY <1>1, <1>2, <1>3 DEF UnderWay
<1>4. CASE n < Len(unwritten)
  <2> DEFINE k == Len(unwritten)
             m == Len(file)
  <2>0. k \in 1..3
    BY <1>2 DEF IInv, UnderWay
  <2>8. <<k, n>> \in {<<2, 1>>, <<3, 1>>, <<3, 2>>}
    <3> HIDE DEF k
    <3> QED BY <1>4, <2>0, Sizes DEF k
  <2>1. k \in 2..3 /\ m \in Nat /\ k - n \in 1..2
    <3> HIDE DEF k
    <3> QED BY <1>1, <1>4, <2>0, Sizes DEF k
  <2>2. unwritten'[k - n] = unwritten[k] /\ (k - n = 2 => unwritten'[1] = unwritten[2])
    <3>1. \A j \in 1..(k - n) : unwritten'[j] = unwritten[n + j]
      BY <1>1
    <3> HIDE DEF k, m
    <3>2. CASE k = 2 /\ n = 1
      BY <3>1, <3>2
    <3>3. CASE k = 3 /\ n = 1
      BY <3>1, <3>3
    <3>4. CASE k = 3 /\ n = 2
      BY <3>1, <3>4
    <3> QED BY <2>8, <3>2, <3>3, <3>4
  <2>3. /\ unwritten[k] = Piece(evaluation, "newline")
        /\ unwritten[k - 1] = Piece(evaluation, "rest")
        /\ k = 3 => unwritten[1] = Piece(evaluation, "head")
        /\ k = 2 => Holds(m, evaluation, "head") /\ m >= 1
    BY <1>2, <2>1 DEF IInv, UnderWay
  <2>4. k = 3 /\ n = 1 => file'[m + 1] = Piece(evaluation, "head")
    BY <1>1, <2>1, <2>3
  <2>5. k = 3 /\ n = 2 => /\ file'[m + 1] = Piece(evaluation, "head")
                          /\ file'[m + 2] = Piece(evaluation, "rest")
    BY <1>1, <2>1, <2>3
  <2>6. k = 2 => file'[m] = file[m] /\ file'[m + 1] = Piece(evaluation, "rest")
    BY <1>1, <1>4, <2>1, <2>3
  <2>7. mode' = "writing" /\ Len(unwritten') = k - n /\ Len(file') = m + n
    BY <1>1, <1>2, <1>4
  <2> HIDE DEF k, m
  <2>9. CASE k = 2 /\ n = 1
    BY <1>2, <2>1, <2>2, <2>3, <2>6, <2>7, <2>9, PieceIs DEF UnderWay, Holds
  <2>10. CASE k = 3 /\ n = 1
    BY <1>2, <2>1, <2>2, <2>3, <2>4, <2>7, <2>10, PieceIs DEF UnderWay, Holds
  <2>11. CASE k = 3 /\ n = 2
    BY <1>2, <2>1, <2>2, <2>3, <2>5, <2>7, <2>11, PieceIs DEF UnderWay, Holds
  <2> QED BY <2>8, <2>9, <2>10, <2>11
<1> QED BY <1>1, <1>3, <1>4

LEMMA UnderWayNext == ASSUME IInv, [Next]_vars PROVE UnderWay'
<1> USE DEF IInv
<1>1. ASSUME NEW l \in Iterations \cup {None}, Start(l) PROVE UnderWay'
  BY <1>1 DEF Start, UnderWay
<1>2. ASSUME NEW outcome \in Outcomes, Answered(outcome) PROVE UnderWay'
  <2>1. unwritten' = Line(evaluation) /\ mode' = "writing" /\ UNCHANGED <<evaluation, file>>
    BY <1>2 DEF Answered
  <2>2. Len(file) \in Nat
    BY DEF TypeOK
  <2>3. /\ Len(unwritten') = 3 /\ unwritten'[1] = Piece(evaluation', "head")
        /\ unwritten'[2] = Piece(evaluation', "rest")
        /\ unwritten'[3] = Piece(evaluation', "newline")
    BY <2>1, LineIs
  <2>4. 3 - 3 = 0 /\ 3 - 1 = 2
    OBVIOUS
  <2> QED BY <2>1, <2>2, <2>3, <2>4 DEF UnderWay
<1>3. ASSUME NEW outcome \in Outcomes, Raised(outcome) PROVE UnderWay'
  BY <1>3 DEF Raised, UnderWay
<1>4. ASSUME NEW n \in 1..3, Flush(n) PROVE UnderWay'
  BY <1>4, FlushUnderWay
<1>5. CASE Count
  BY <1>5 DEF Count, UnderWay
<1>6. CASE Wake
  BY <1>6 DEF Wake, UnderWay
<1>7. CASE Interrupt
  BY <1>7 DEF Interrupt, UnderWay
<1>8. CASE Kill
  BY <1>8 DEF Kill, UnderWay
<1>9. CASE UNCHANGED vars
  BY <1>9 DEF vars, UnderWay, Holds
<1> QED BY <1>1, <1>2, <1>3, <1>4, <1>5, <1>6, <1>7, <1>8, <1>9 DEF Next

\* Whatever happens between writes leaves the log alone.
Quiet ==
  /\ UNCHANGED <<file, whole>> /\ evaluation' \in Nat /\ evaluation <= evaluation'
  /\ mode' = "calling" => evaluation < evaluation' \/ (mode = "calling" /\ evaluation' = evaluation)
  /\ mode' = "writing" => /\ evaluation' = evaluation
                          /\ \/ mode = "calling"
                             \/ mode = "writing" /\ UNCHANGED unwritten
  /\ Cut' \subseteq Cut \cup (IF torn' = torn THEN {} ELSE {evaluation})
  /\ torn' = torn \/ torn' = torn + 1

LEMMA QuietSteps ==
  ASSUME IInv, [Next]_vars, \A n \in 1..3 : ~Flush(n) PROVE Quiet
<1> USE DEF IInv
<1>1. evaluation \in Nat /\ torn \in Nat /\ unwritten \in Seq(PieceSet)
  BY EvaluationsAssumption DEF TypeOK, PieceSet
<1>2. ASSUME NEW l \in Iterations \cup {None}, Start(l) PROVE Quiet
  <2>1. mode # "writing"
    BY <1>2 DEF Start, Running
  <2> QED BY <1>1, <1>2, <2>1 DEF Start, Quiet, Cut, Begun, Open, Holds
<1>3. ASSUME NEW outcome \in Outcomes, Answered(outcome) PROVE Quiet
  BY <1>1, <1>3 DEF Answered, Quiet, Cut, Begun, Open, Holds
<1>4. ASSUME NEW outcome \in Outcomes, Raised(outcome) PROVE Quiet
  BY <1>1, <1>4 DEF Raised, Quiet, Cut, Begun, Open, Holds
<1>5. CASE Count
  BY <1>1, <1>5 DEF Count, Quiet, Cut, Begun, Open, Holds
<1>6. CASE Wake
  BY <1>1, <1>6 DEF Wake, Quiet, Cut, Begun, Open, Holds
<1>7. CASE Interrupt
  BY <1>1, <1>7 DEF Interrupt, Quiet, Cut, Begun, Open, Holds
<1>8. CASE Kill
  <2>1. mode' = "off" /\ UNCHANGED <<file, whole, evaluation>>
    BY <1>8 DEF Kill
  <2>2. torn' = IF mode = "writing" /\ Len(unwritten) \in 1..2 THEN torn + 1 ELSE torn
    BY <1>8 DEF Kill
  <2>3. Cut' \subseteq Cut \cup Open
    BY <2>1 DEF Cut, Begun, Open, Holds
  <2>4. CASE mode = "writing" /\ Len(unwritten) = 3
    <3>1. \A i \in DOMAIN file : file[i].of # evaluation
      BY <1>1, <2>4 DEF InOrder, Fresh, TypeOK
    <3>2. evaluation \notin Begun
      BY <3>1 DEF Begun, Holds
    <3>3. torn' = torn /\ Cut' \subseteq Cut
      BY <2>1, <2>2, <2>3, <2>4, <3>2 DEF Cut, Begun, Open, Holds
    <3> QED BY <1>1, <2>1, <3>3 DEF Quiet
  <2>5. CASE mode = "writing" /\ Len(unwritten) # 3
    <3>1. torn' = torn + 1 /\ Open = {evaluation} /\ torn' # torn
      BY <1>1, <2>2, <2>5 DEF Open, UnderWay
    <3> QED BY <1>1, <2>1, <2>3, <3>1 DEF Quiet
  <2>6. CASE mode # "writing"
    <3>1. torn' = torn /\ Open = {}
      BY <2>2, <2>6 DEF Open
    <3> QED BY <1>1, <2>1, <2>3, <3>1 DEF Quiet
  <2> QED BY <2>4, <2>5, <2>6
<1>9. CASE UNCHANGED vars
  BY <1>1, <1>9 DEF vars, Quiet, Cut, Begun, Open, Holds
<1> QED BY <1>2, <1>3, <1>4, <1>5, <1>6, <1>7, <1>8, <1>9 DEF Next

LEMMA QuietKeeps ==
  ASSUME IInv, TypeOK', UnderWay', Quiet PROVE InOrder' /\ WholeIsThere' /\ CutsCounted'
<1> USE DEF IInv
<1>1. /\ evaluation \in Nat /\ evaluation' \in Nat /\ torn \in Nat /\ torn' \in Nat
      /\ MaxEvaluations \in Nat /\ evaluation <= evaluation' /\ file' = file /\ whole' = whole
  BY EvaluationsAssumption DEF TypeOK, Quiet
<1>2. \A i \in DOMAIN file : file[i].of \in Nat
  BY FileIs DEF IInv
<1>3. \A e \in whole : e \in Nat
  BY <1>1 DEF TypeOK
<1>4. ASSUME Fresh' PROVE evaluation < evaluation' \/ (Fresh /\ evaluation' = evaluation)
  BY <1>4 DEF Fresh, Quiet
<1>5. InOrder'
  BY <1>1, <1>2, <1>4 DEF InOrder, Holds
<1>6. WholeIsThere'
  <2>1. mode' \in {"calling", "writing"} =>
          \/ evaluation < evaluation'
          \/ mode \in {"calling", "writing"} /\ evaluation' = evaluation
    BY DEF Quiet
  <2>2. mode' \in {"calling", "writing"} => evaluation' \notin whole
    BY <1>1, <1>3, <2>1 DEF WholeIsThere
  <2> QED BY <1>1, <1>3, <2>2 DEF WholeIsThere, Holds
<1>7. IsFiniteSet(Cut)
  <2>1. Cut \in SUBSET (1..MaxEvaluations)
    BY DEF Cut, Begun
  <2>2. IsFiniteSet(1..MaxEvaluations)
    BY <1>1, FS_Interval
  <2> QED BY <2>1, <2>2, FS_Subset
<1>8. CutsCounted'
  <2>1. CASE torn' = torn
    <3>1. Cut' \in SUBSET Cut
      BY <2>1 DEF Quiet
    <3>2. Cardinality(Cut') <= Cardinality(Cut)
      BY <1>7, <3>1, FS_Subset
    <3>3. IsFiniteSet(Cut') /\ Cardinality(Cut) \in Nat
      BY <1>7, <3>1, FS_Subset, FS_CardinalityType
    <3>4. Cardinality(Cut') \in Nat
      BY <3>3, FS_CardinalityType
    <3> QED BY <1>1, <2>1, <3>2, <3>3, <3>4 DEF CutsCounted
  <2>2. CASE torn' # torn
    <3>1. Cut' \in SUBSET (Cut \cup {evaluation}) /\ torn' = torn + 1
      BY <2>2 DEF Quiet
    <3>2. /\ IsFiniteSet(Cut \cup {evaluation}) /\ Cardinality(Cut) \in Nat
          /\ Cardinality(Cut \cup {evaluation}) \in {Cardinality(Cut), Cardinality(Cut) + 1}
      BY <1>7, FS_AddElement, FS_CardinalityType
    <3>3. Cardinality(Cut') <= Cardinality(Cut \cup {evaluation}) /\ IsFiniteSet(Cut')
      BY <3>1, <3>2, FS_Subset
    <3>4. Cardinality(Cut') \in Nat
      BY <3>3, FS_CardinalityType
    <3> QED BY <1>1, <3>1, <3>2, <3>3, <3>4 DEF CutsCounted
  <2> QED BY <2>1, <2>2
<1> QED BY <1>5, <1>6, <1>8

\* A write puts the pieces of the line under way where they belong.
LEMMA FlushPieces ==
  ASSUME IInv, UnderWay', NEW n \in 1..3, Flush(n)
  PROVE  LET m == Len(file)
             b == m - (3 - Len(unwritten))
             k == 3 - Len(unwritten) + n
         IN  /\ m \in Nat /\ b \in Nat /\ k \in 1..3 /\ b <= m
             /\ file' \in Seq(PieceSet) /\ Len(file') = b + k
             /\ DOMAIN file = 1..m /\ DOMAIN file' = 1..(b + k)
             /\ \A i \in 1..m : file'[i] = file[i]
             /\ file'[b + 1] = Piece(evaluation, "head")
             /\ k >= 2 => file'[b + 2] = Piece(evaluation, "rest")
             /\ k = 3 => file'[b + 3] = Piece(evaluation, "newline")
             /\ m < b + k
             /\ unwritten' = <<>> <=> k = 3
<1> DEFINE m == Len(file)
           u == Len(unwritten)
<1>1. /\ m \in Nat /\ u \in Nat /\ n <= u /\ file' \in Seq(PieceSet)
      /\ Len(file') = m + n /\ DOMAIN file = 1..m /\ DOMAIN file' = 1..(m + n)
      /\ \A i \in 1..m : file'[i] = file[i]
      /\ \A j \in 1..n : file'[m + j] = unwritten[j]
      /\ unwritten' = <<>> <=> n = u
  BY Written DEF IInv
<1>2. /\ u \in 1..3 /\ m >= 3 - u
      /\ unwritten[u] = Piece(evaluation, "newline")
      /\ u >= 2 => unwritten[u - 1] = Piece(evaluation, "rest")
      /\ u = 3 => unwritten[1] = Piece(evaluation, "head")
      /\ u = 2 => Holds(m, evaluation, "head")
      /\ u = 1 => Holds(m - 1, evaluation, "head") /\ Holds(m, evaluation, "rest")
  BY DEF IInv, UnderWay, Flush
<1>3. ASSUME NEW i \in 1..m, NEW part, Holds(i, evaluation, part)
      PROVE  file'[i] = Piece(evaluation, part)
  <2>1. file \in Seq(PieceSet)
    BY DEF IInv, TypeOK, PieceSet
  <2>2. file[i] \in PieceSet /\ file'[i] = file[i]
    BY <1>1, <2>1
  <2> QED BY <1>3, <2>2, PieceEq DEF Holds
<1> HIDE DEF m, u
<1>4. CASE u = 3
  <2>1. /\ file'[m + 1] = Piece(evaluation, "head")
        /\ n >= 2 => file'[m + 2] = Piece(evaluation, "rest")
        /\ n = 3 => file'[m + 3] = Piece(evaluation, "newline")
    BY <1>1, <1>2, <1>4
  <2>2. m - (3 - u) = m /\ 3 - u + n = n
    BY <1>1, <1>4
  <2> QED BY <1>1, <1>4, <2>1, <2>2 DEF m, u
<1>5. CASE u = 2
  <2>1. /\ m >= 1 /\ file'[m] = Piece(evaluation, "head")
        /\ file'[m + 1] = Piece(evaluation, "rest")
        /\ n = 2 => file'[m + 2] = Piece(evaluation, "newline")
    BY <1>1, <1>2, <1>3, <1>5
  <2>2. n \in 1..2 /\ m - (3 - u) = m - 1 /\ 3 - u + n = n + 1 /\ m - 1 + (n + 1) = m + n
        /\ m - 1 + 1 = m /\ m - 1 + 2 = m + 1 /\ m - 1 + 3 = m + 2
    BY <1>1, <1>5
  <2> QED BY <1>1, <1>5, <2>1, <2>2 DEF m, u
<1>6. CASE u = 1
  <2>1. /\ m >= 2 /\ file'[m - 1] = Piece(evaluation, "head")
        /\ file'[m] = Piece(evaluation, "rest")
        /\ file'[m + 1] = Piece(evaluation, "newline")
    BY <1>1, <1>2, <1>3, <1>6
  <2>2. n = 1 /\ m - (3 - u) = m - 2 /\ 3 - u + n = 3 /\ m - 2 + 3 = m + 1
        /\ m - 2 + 1 = m - 1 /\ m - 2 + 2 = m
    BY <1>1, <1>6
  <2> QED BY <1>1, <1>6, <2>1, <2>2 DEF m, u
<1> QED BY <1>2, <1>4, <1>5, <1>6

\* Before the line under way there is nothing of it.
LEMMA EarlierLines ==
  ASSUME IInv, mode = "writing", NEW i \in DOMAIN file, i <= Len(file) - (3 - Len(unwritten))
  PROVE  file[i].of < evaluation
<1> USE DEF IInv
<1> DEFINE m == Len(file)
           u == Len(unwritten)
           b == m - (3 - u)
<1>1. /\ m \in Nat /\ u \in 1..3 /\ m >= 3 - u /\ DOMAIN file = 1..m /\ evaluation \in Nat
      /\ file[i].of \in Nat /\ file[i].part \in Parts /\ i \in Nat /\ i <= b
  <2>1. TypeOK /\ UnderWay
    OBVIOUS
  <2>2. evaluation \in Nat
    BY <2>1, EvaluationsAssumption DEF TypeOK
  <2>3. u \in 1..3 /\ m >= 3 - u
    BY <2>1 DEF UnderWay
  <2>4. /\ m \in Nat /\ DOMAIN file = 1..m
        /\ file[i].of \in Nat /\ file[i].part \in Parts
    BY <2>1, FileIs
  <2> HIDE DEF m, u
  <2>5. i \in Nat /\ i <= m - (3 - u)
    BY <2>4 DEF m, u
  <2> QED BY <2>2, <2>3, <2>4, <2>5
<1>2. u # 3 => b + 1 \in DOMAIN file /\ Holds(b + 1, evaluation, "head")
  <2>1. u = 2 => b + 1 = m /\ Holds(m, evaluation, "head") /\ m >= 1
    BY <1>1 DEF UnderWay
  <2>2. u = 1 => b + 1 = m - 1 /\ Holds(m - 1, evaluation, "head") /\ m >= 2
    BY <1>1 DEF UnderWay
  <2> HIDE DEF m, u, b
  <2> QED BY <1>1, <2>1, <2>2
<1> HIDE DEF m, u
<1>3. CASE u = 3
  <2>1. Fresh
    BY <1>3 DEF Fresh, u
  <2>2. \A j \in DOMAIN file : Fresh => file[j].of < evaluation
    BY Zenon DEF InOrder
  <2> QED BY <2>1, <2>2
<1>4. CASE u # 3 /\ file[i].of = evaluation
  <2>1. b \in Int /\ i # b + 1 /\ i - 1 # b + 1
    BY <1>1
  <2>2. file[i].part # "head"
    BY <1>2, <1>4, <2>1 DEF InOrder, Holds
  <2>3. file[i].part # "rest"
    <3>1. ASSUME file[i].part = "rest" PROVE i - 1 \in DOMAIN file /\ Holds(i - 1, evaluation, "head")
      <4>1. i > 1 /\ Holds(i - 1, file[i].of, "head")
        BY <3>1 DEF InOrder
      <4>2. i - 1 \in 1..m
        BY <1>1, <4>1
      <4> QED BY <1>1, <1>4, <4>1, <4>2
    <3> QED BY <1>2, <1>4, <2>1, <3>1 DEF InOrder, Holds
  <2>4. file[i].part # "newline"
    BY <1>4 DEF InOrder, WholeIsThere
  <2> QED BY <1>1, <2>2, <2>3, <2>4 DEF Parts
<1>5. CASE u # 3 /\ file[i].of # evaluation
  BY <1>1, <1>5 DEF InOrder
<1> QED BY <1>3, <1>4, <1>5

LEMMA FlushKeeps ==
  ASSUME IInv, TypeOK', UnderWay', NEW n \in 1..3, Flush(n)
  PROVE  InOrder' /\ WholeIsThere' /\ CutsCounted'
<1> USE DEF IInv
<1> DEFINE m == Len(file)
           b == m - (3 - Len(unwritten))
           k == 3 - Len(unwritten) + n
           e == evaluation
<1>1. /\ m \in Nat /\ b \in Nat /\ k \in 1..3 /\ b <= m /\ m < b + k
      /\ DOMAIN file = 1..m /\ DOMAIN file' = 1..(b + k)
      /\ \A i \in 1..m : file'[i] = file[i]
      /\ file'[b + 1] = Piece(e, "head")
      /\ k >= 2 => file'[b + 2] = Piece(e, "rest")
      /\ k = 3 => file'[b + 3] = Piece(e, "newline")
      /\ unwritten' = <<>> <=> k = 3
  BY FlushPieces
<1>2. /\ mode = "writing" /\ evaluation' = e /\ torn' = torn
      /\ mode' = IF unwritten' = <<>> THEN "counting" ELSE "writing"
      /\ whole' = IF unwritten' = <<>> THEN whole \cup {e} ELSE whole
  BY DEF Flush
<1>3. \A i \in 1..b : i \in DOMAIN file /\ file'[i] = file[i] /\ file[i].of < e
  <2>1. \A i \in 1..b : i \in DOMAIN file /\ file'[i] = file[i] /\ i <= b
    <3> HIDE DEF m, b, k
    <3>1. \A i \in 1..b : i \in 1..m /\ i <= b
      BY <1>1
    <3> QED BY <1>1, <3>1
  <2> QED BY <1>2, <2>1, EarlierLines
<1>4. ~Fresh'
  <2> DEFINE u == Len(unwritten)
  <2>1. u \in 1..3 /\ Len(unwritten') = u - n
    BY <1>2, Written DEF UnderWay
  <2> HIDE DEF u
  <2>2. Len(unwritten') # 3
    BY <2>1
  <2> QED BY <1>2, <2>2 DEF Fresh
<1>5. e \in Nat /\ \A i \in DOMAIN file : file[i].of \in Nat
  BY FileIs, EvaluationsAssumption DEF TypeOK
<1> HIDE DEF m, b, k, e
<1>6. /\ \A i \in 1..(b + k) : i \in 1..b \/ i = b + 1 \/ i = b + 2 \/ i = b + 3
      /\ b + 1 \in 1..(b + k)
      /\ k >= 2 <=> b + 2 \in 1..(b + k)
      /\ k = 3 <=> b + 3 \in 1..(b + k)
      /\ b + 1 > 1 => b + 1 - 1 = b
      /\ b + 2 > 1 /\ b + 3 > 1 /\ b + 2 - 1 = b + 1 /\ b + 3 - 1 = b + 2
      /\ k = 3 => k >= 2
  <2>1. b \in Nat /\ k \in 1..3
    BY <1>1
  <2>2. \A i \in 1..(b + k) : i \in 1..b \/ i = b + 1 \/ i = b + 2 \/ i = b + 3
    BY <2>1
  <2> QED BY <2>1, <2>2
<1>7. /\ file'[b + 1].of = e /\ file'[b + 1].part = "head"
      /\ k >= 2 => file'[b + 2].of = e /\ file'[b + 2].part = "rest"
      /\ k = 3 => file'[b + 3].of = e /\ file'[b + 3].part = "newline"
  BY <1>1, PieceIs
<1>8. InOrder'
  <2>1. ASSUME NEW i \in DOMAIN file'
        PROVE  /\ file'[i].of <= e
               /\ file'[i].part = "rest" => i > 1 /\ Holds(i - 1, file[i].of, "head")'
               /\ file'[i].part = "newline" => i > 1 /\ Holds(i - 1, file[i].of, "rest")'
               /\ file'[i].part = "newline" => file'[i].of \in whole'
    <3>1. CASE i \in 1..b
      <4>1. /\ file[i].of < e /\ file'[i] = file[i] /\ i \in DOMAIN file /\ file[i].of \in Nat
        BY <1>3, <1>5, <3>1
      <4>2. i > 1 => i - 1 \in 1..b /\ file'[i - 1] = file[i - 1]
        BY <1>1, <1>3, <3>1
      <4> QED BY <1>2, <1>5, <4>1, <4>2 DEF InOrder, Holds
    <3>2. CASE i = b + 1
      BY <1>5, <1>7, <3>2
    <3>3. CASE i = b + 2
      BY <1>1, <1>5, <1>6, <1>7, <3>3 DEF Holds
    <3>4. CASE i = b + 3
      BY <1>1, <1>2, <1>5, <1>6, <1>7, <3>4 DEF Holds
    <3> QED BY <1>1, <1>6, <3>1, <3>2, <3>3, <3>4
  <2>2. ASSUME NEW i \in DOMAIN file', NEW j \in DOMAIN file', file'[i].part = "head",
               file'[j].part = "head", file'[i].of = file'[j].of
        PROVE  i = j
    <3>1. \A q \in DOMAIN file' : file'[q].part = "head" => q \in 1..b \/ q = b + 1
      BY <1>1, <1>6, <1>7
    <3>2. \A q \in 1..b : file'[q].of # e
      BY <1>3, <1>5
    <3> QED BY <1>3, <1>7, <2>2, <3>1, <3>2 DEF InOrder
  <2> QED BY <1>2, <1>4, <2>1, <2>2 DEF InOrder, e
<1>9. WholeIsThere'
  <2>1. ASSUME NEW x \in whole' PROVE \E i \in DOMAIN file' : Holds(i, x, "newline")'
    <3>1. CASE x \in whole
      <4>1. PICK i \in DOMAIN file : Holds(i, x, "newline")
        BY <3>1 DEF WholeIsThere
      <4>2. i \in DOMAIN file' /\ file'[i] = file[i]
        BY <1>1
      <4> QED BY <4>1, <4>2 DEF Holds
    <3>2. CASE x \notin whole
      <4>1. x = e /\ k = 3
        BY <1>1, <1>2, <3>2
      <4> QED BY <1>1, <1>6, <1>7, <4>1 DEF Holds
    <3> QED BY <3>1, <3>2
  <2>2. \A x \in whole' : x <= e
    BY <1>2, <1>5 DEF WholeIsThere, e
  <2>3. mode' \in {"calling", "writing"} => e \notin whole'
    BY <1>2 DEF WholeIsThere, e
  <2> QED BY <1>2, <2>1, <2>2, <2>3 DEF WholeIsThere, e
<1>10. Cut' \subseteq Cut
  <2>1. ASSUME NEW x \in Cut' PROVE x \in Cut
    <3>1. x \in 1..MaxEvaluations /\ x \notin whole' /\ x \notin Open'
      BY DEF Cut, Begun
    <3>2. PICK i \in DOMAIN file' : file'[i].of = x /\ file'[i].part = "head"
      BY DEF Cut, Begun, Holds
    <3>3. x # e
      BY <1>2, <3>1 DEF Open, e
    <3>4. i \in 1..b
      BY <1>1, <1>6, <1>7, <3>2, <3>3
    <3>5. x \in Begun
      BY <1>3, <3>1, <3>2, <3>4 DEF Begun, Holds
    <3>6. x \notin whole /\ x \notin Open
      BY <1>2, <3>1, <3>3 DEF Open, e
    <3> QED BY <3>5, <3>6 DEF Cut
  <2> QED BY <2>1
<1>11. CutsCounted'
  <2>1. IsFiniteSet(Cut) /\ Cut' \in SUBSET Cut
    <3>1. Cut \in SUBSET (1..MaxEvaluations) /\ IsFiniteSet(1..MaxEvaluations)
      BY FS_Interval, EvaluationsAssumption DEF Cut, Begun
    <3> QED BY <1>10, <3>1, FS_Subset
  <2>2. Cardinality(Cut') <= Cardinality(Cut) /\ IsFiniteSet(Cut')
    BY <2>1, FS_Subset
  <2>3. Cardinality(Cut') \in Nat /\ Cardinality(Cut) \in Nat /\ torn \in Nat
    BY <2>1, <2>2, FS_CardinalityType, EvaluationsAssumption DEF TypeOK
  <2> QED BY <1>2, <2>2, <2>3 DEF CutsCounted
<1> QED BY <1>8, <1>9, <1>11

\* The invariant holds in every reachable state.
THEOREM Invariance == Spec => []IInv
<1>1. Init => IInv
  <2> SUFFICES ASSUME Init PROVE IInv
    OBVIOUS
  <2>1. TypeOK
    BY EvaluationsAssumption DEF Init, TypeOK, Modes
  <2>2. Counting /\ UnderWay
    BY EvaluationsAssumption DEF Init, Counting, UnderWay, Running
  <2>3. InOrder /\ WholeIsThere
    BY DEF Init, InOrder, WholeIsThere
  <2>4. Cut = {}
    BY DEF Init, Cut, Begun
  <2>5. CutsCounted
    BY <2>4, FS_EmptySet DEF Init, CutsCounted
  <2> QED BY <2>1, <2>2, <2>3, <2>5 DEF IInv
<1>2. IInv /\ [Next]_vars => IInv'
  <2> SUFFICES ASSUME IInv, [Next]_vars PROVE IInv'
    OBVIOUS
  <2>1. TypeOK' /\ Counting' /\ UnderWay'
    BY TypeNext, CountingNext, UnderWayNext
  <2>2. InOrder' /\ WholeIsThere' /\ CutsCounted'
    <3>1. CASE \E n \in 1..3 : Flush(n)
      BY <2>1, <3>1, FlushKeeps
    <3>2. CASE \A n \in 1..3 : ~Flush(n)
      BY <2>1, <3>2, QuietSteps, QuietKeeps
    <3> QED BY <3>1, <3>2
  <2> QED BY <2>1, <2>2 DEF IInv
<1> QED BY <1>1, <1>2, PTL DEF Spec

\* TypeOK, for any number of evaluations.
THEOREM TypeCorrect == Spec => []TypeOK
<1>1. IInv => TypeOK
  BY DEF IInv
<1> QED BY <1>1, Invariance, PTL

-----------------------------------------------------------------------------
(* The run *)

\* RunIsExact: a run that ends by itself made the evaluations it was asked for.
THEOREM RunsAreExact == Spec => []RunIsExact
<1>1. IInv => RunIsExact
  BY DEF IInv, Counting, RunIsExact
<1> QED BY <1>1, Invariance, PTL

-----------------------------------------------------------------------------
(* What is in the log *)

LEMMA WholeLine ==
  ASSUME IInv, NEW e \in whole
  PROVE  \E i \in DOMAIN file :
           /\ i + 2 <= Len(file) /\ i + 1 \in DOMAIN file /\ i + 2 \in DOMAIN file /\ i \in Nat
           /\ Holds(i, e, "head") /\ Holds(i + 1, e, "rest") /\ Holds(i + 2, e, "newline")
<1> USE DEF IInv
<1>1. PICK j \in DOMAIN file : Holds(j, e, "newline")
  BY DEF WholeIsThere
<1>2. j > 1 /\ Holds(j - 1, e, "rest")
  BY <1>1 DEF InOrder, Holds
<1>3. Len(file) \in Nat /\ DOMAIN file = 1..Len(file)
  BY FileIs
<1>4. j - 1 \in DOMAIN file
  BY <1>2, <1>3
<1>5. j - 1 > 1 /\ Holds(j - 1 - 1, e, "head")
  BY <1>2, <1>4 DEF InOrder, Holds
<1>6. /\ j - 2 \in DOMAIN file /\ j - 2 + 1 = j - 1 /\ j - 2 + 2 = j /\ j - 1 - 1 = j - 2
      /\ j - 2 + 2 <= Len(file) /\ j - 2 \in Nat
  BY <1>3, <1>5
<1> QED BY <1>1, <1>2, <1>4, <1>5, <1>6

InLog(e) == \E i \in DOMAIN file : i + 2 <= Len(file) /\ SubSeq(file, i, i + 2) = Line(e)
AllInLog == \A e \in whole : InLog(e)

LEMMA LineInLog == ASSUME IInv, NEW e \in whole PROVE InLog(e)
<1>1. PICK i \in DOMAIN file :
        /\ i + 2 <= Len(file) /\ i + 1 \in DOMAIN file /\ i + 2 \in DOMAIN file /\ i \in Nat
        /\ Holds(i, e, "head") /\ Holds(i + 1, e, "rest") /\ Holds(i + 2, e, "newline")
  BY WholeLine
<1>2. \A j \in DOMAIN file : file[j] \in PieceSet
  BY FileIs DEF IInv
<1>3. /\ file[i] = Piece(e, "head") /\ file[i + 1] = Piece(e, "rest")
      /\ file[i + 2] = Piece(e, "newline")
  BY <1>1, <1>2, PieceEq DEF Holds
<1> DEFINE part == SubSeq(file, i, i + 2)
<1>4. \A j \in i..(i + 2) : file[j] \in PieceSet
  <2>1. \A j \in i..(i + 2) : j = i \/ j = i + 1 \/ j = i + 2
    BY <1>1
  <2> QED BY <1>1, <1>2, <2>1
<1>5. /\ part \in Seq(PieceSet)
      /\ Len(part) = IF i <= i + 2 THEN i + 2 - i + 1 ELSE 0
      /\ \A j \in 1..(i + 2 - i + 1) : part[j] = file[i + j - 1]
  BY <1>1, <1>4, SubSeqProperties
<1> HIDE DEF part
<1>6. i <= i + 2 /\ i + 2 - i + 1 = 3 /\ i + 1 - 1 = i /\ i + 2 - 1 = i + 1 /\ i + 3 - 1 = i + 2
  BY <1>1
<1>7. Len(part) = 3 /\ part[1] = Line(e)[1] /\ part[2] = Line(e)[2] /\ part[3] = Line(e)[3]
  BY <1>3, <1>5, <1>6, LineIs
<1>8. e \in 1..MaxEvaluations
  BY DEF IInv, TypeOK
<1>9. part = Line(e)
  <2>1. \A j \in 1..Len(part) : part[j] = Line(e)[j]
    BY <1>7
  <2> QED BY <1>5, <1>7, <1>8, <2>1, LineType, LineIs, SeqEqual
<1> QED BY <1>1, <1>9 DEF part, InLog

\* RecordsAreDurable: a line that has reached the file whole stays there.
THEOREM RecordsStay == Spec => RecordsAreDurable
<1>1. IInv => AllInLog
  BY LineInLog DEF AllInLog
<1>2. AllInLog' /\ [Next]_vars =>
        [\A e \in whole : \E i \in DOMAIN file' :
           i + 2 <= Len(file') /\ SubSeq(file', i, i + 2) = Line(e)]_vars
  <2> SUFFICES ASSUME AllInLog', Next
               PROVE  \A e \in whole : \E i \in DOMAIN file' :
                        i + 2 <= Len(file') /\ SubSeq(file', i, i + 2) = Line(e)
    OBVIOUS
  <2>1. whole \subseteq whole'
    BY DEF Next, Start, Answered, Raised, Flush, Count, Wake, Interrupt, Kill
  <2> QED BY <2>1 DEF AllInLog, InLog
<1> QED BY <1>1, <1>2, Invariance, PTL DEF Spec, RecordsAreDurable

-----------------------------------------------------------------------------
(* What load_records makes of the log *)

LEMMA Least == ASSUME NEW S \in SUBSET Nat, S # {}
               PROVE  \E n \in S : \A m \in S : n <= m
<1> DEFINE Smaller == {ss \in Nat \X Nat : ss[1] < ss[2]}
<1>1. IsWellFoundedOn(Smaller, Nat)
  BY NatLessThanWellFounded, Zenon DEF OpToRel
<1> HIDE DEF Smaller
<1>2. \E n \in S : \A m \in S : <<m, n>> \notin Smaller
  BY <1>1, WFMin
<1>3. \A n, m \in Nat : <<m, n>> \notin Smaller => n <= m
  BY DEF Smaller
<1> QED BY <1>2, <1>3

\* A line of the file reaches from where it starts to the next newline.
LEMMA ContentIs ==
  ASSUME IInv, NEW i \in LineStarts
  PROVE  \E last \in Nat :
           /\ i - 1 <= last /\ last <= Len(file)
           /\ Len(Content(i)) = last - i + 1
           /\ \A q \in 1..(last - i + 1) : Content(i)[q] = file[i + q - 1]
           /\ \A q \in i..last : file[q].part # "newline"
           /\ last = Len(file) \/ last + 1 \in Newlines
<1> DEFINE ends == {j \in Newlines : j >= i}
           m == Len(file)
           last == IF ends = {} THEN m ELSE (CHOOSE j \in ends : \A k \in ends : j <= k) - 1
<1>1. /\ m \in Nat /\ DOMAIN file = 1..m /\ i \in 1..m /\ Newlines \subseteq 1..m
      /\ \A j \in DOMAIN file : file[j] \in PieceSet
  BY FileIs DEF IInv, LineStarts, Newlines
<1>2. Content(i) = SubSeq(file, i, last)
  BY DEF Content
<1>3. /\ last \in Nat /\ i - 1 <= last /\ last <= m
      /\ \A q \in i..last : file[q].part # "newline"
      /\ last = m \/ last + 1 \in Newlines
  <2>1. CASE ends = {}
    <3>1. last = m
      BY <2>1
    <3>2. \A q \in i..m : q \in 1..m /\ q >= i
      BY <1>1
    <3>3. \A q \in i..m : file[q].part # "newline"
      BY <1>1, <2>1, <3>2 DEF Newlines
    <3> HIDE DEF last
    <3> QED BY <1>1, <3>1, <3>3
  <2>2. CASE ends # {}
    <3> DEFINE j == CHOOSE j \in ends : \A k \in ends : j <= k
    <3>1. ends \in SUBSET Nat
      <4>1. ends \subseteq 1..m
        BY <1>1
      <4>2. 1..m \subseteq Nat
        BY <1>1
      <4> QED BY <4>1, <4>2
    <3>2. j \in ends /\ \A k \in ends : j <= k
      <4>1. \E n \in ends : \A k \in ends : n <= k
        BY <2>2, <3>1, Least
      <4> QED BY <4>1
    <3>3. last = j - 1
      BY <2>2
    <3>4. j \in Newlines /\ j >= i /\ j \in 1..m
      BY <1>1, <3>2
    <3> HIDE DEF j, last
    <3>5. \A q \in i..last : q \in 1..m /\ q >= i /\ ~(j <= q)
      BY <1>1, <3>3, <3>4
    <3>6. \A q \in i..last : file[q].part # "newline"
      BY <1>1, <3>2, <3>5 DEF Newlines
    <3>7. last + 1 = j /\ last \in Nat /\ i - 1 <= last /\ last <= m
      BY <1>1, <3>3, <3>4
    <3> QED BY <3>4, <3>6, <3>7
  <2> QED BY <2>1, <2>2
<1> HIDE DEF last, m
<1>4. \A q \in i..last : file[q] \in PieceSet
  <2>1. \A q \in i..last : q \in 1..m
    BY <1>1, <1>3
  <2> QED BY <1>1, <2>1
<1>5. /\ Len(SubSeq(file, i, last)) = IF i <= last THEN last - i + 1 ELSE 0
      /\ \A q \in 1..(last - i + 1) : SubSeq(file, i, last)[q] = file[i + q - 1]
  <2>1. i \in Int /\ last \in Int
    BY <1>1, <1>3
  <2> QED BY <1>4, <2>1, SubSeqProperties
<1>6. ~(i <= last) => last - i + 1 = 0
  BY <1>1, <1>3
<1> QED BY <1>2, <1>3, <1>5, <1>6 DEF m

\* A line starts with the head of a record; it decodes when the rest of that
\* record and a newline, or the end of the file, come next.
LEMMA LineShape ==
  ASSUME IInv, NEW i \in LineStarts
  PROVE  /\ i \in DOMAIN file /\ i \in Nat /\ file[i].part = "head" /\ Content(i) # <<>>
         /\ Content(i)[1] = file[i]
         /\ Decodes(Content(i)) => /\ i + 1 \in DOMAIN file /\ Holds(i + 1, file[i].of, "rest")
                                   /\ \/ i + 1 = Len(file)
                                      \/ i + 2 \in DOMAIN file /\ Holds(i + 2, file[i].of, "newline")
         /\ file[i].of \in whole => Decodes(Content(i))
<1> USE DEF IInv
<1> DEFINE m == Len(file)
           e == file[i].of
           line == Content(i)
<1>1. /\ m \in Nat /\ DOMAIN file = 1..m /\ i \in 1..m /\ i \in Nat
      /\ file[i].part \in Parts /\ \A j \in DOMAIN file : file[j] \in PieceSet
  BY FileIs DEF LineStarts
<1>2. file[i].part = "head"
  <2>1. ASSUME file[i].part # "head" PROVE FALSE
    <3>1. /\ i > 1 /\ file[i - 1].part # "newline"
      BY <1>1, <2>1 DEF InOrder, Holds, Parts
    <3> QED BY <1>1, <3>1 DEF LineStarts, Newlines
  <2> QED BY <2>1
<1>3. PICK last \in Nat :
        /\ i - 1 <= last /\ last <= m
        /\ Len(line) = last - i + 1
        /\ \A q \in 1..(last - i + 1) : line[q] = file[i + q - 1]
        /\ \A q \in i..last : file[q].part # "newline"
        /\ last = m \/ last + 1 \in Newlines
  BY ContentIs
<1> HIDE DEF line, m
<1>4. i <= last
  <2>1. ASSUME last = i - 1 PROVE FALSE
    <3>1. last + 1 = i /\ last # m
      BY <1>1, <2>1
    <3> QED BY <1>2, <1>3, <3>1 DEF Newlines
  <2> QED BY <1>1, <1>3, <2>1
<1>5. line # <<>> /\ line[1] = file[i]
  <2>1. last - i + 1 \in Nat /\ last - i + 1 # 0 /\ 1 \in 1..(last - i + 1) /\ i + 1 - 1 = i
    BY <1>1, <1>4
  <2> QED BY <1>3, <2>1
<1>6. ASSUME Decodes(line)
      PROVE  /\ i + 1 \in DOMAIN file /\ Holds(i + 1, e, "rest")
             /\ \/ i + 1 = m
                \/ i + 2 \in DOMAIN file /\ Holds(i + 2, e, "newline")
  <2>1. Len(line) = 2 /\ line[2] = Piece(e, "rest")
    BY <1>5, <1>6 DEF Decodes
  <2>2. last = i + 1 /\ line[2] = file[i + 1] /\ i + 1 \in 1..m
    <3>1. last = i + 1
      <4>1. last - i + 1 = 2
        BY <1>3, <2>1
      <4>2. last \in Int /\ i \in Int
        BY <1>1
      <4> QED BY <4>1, <4>2
    <3>2. 2 \in 1..(last - i + 1) /\ i + 2 - 1 = i + 1 /\ i + 1 \in 1..m
      BY <1>1, <1>3, <3>1
    <3> QED BY <1>3, <3>1, <3>2
  <2>3. Holds(i + 1, e, "rest")
    BY <2>1, <2>2, PieceIs DEF Holds
  <2>4. ASSUME i + 2 \in Newlines PROVE i + 2 \in DOMAIN file /\ Holds(i + 2, e, "newline")
    <3>1. i + 2 \in DOMAIN file /\ file[i + 2].part = "newline" /\ i + 2 - 1 = i + 1
      BY <1>1, <2>4 DEF Newlines
    <3>2. PICK j \in DOMAIN file : j = i + 2
      BY <3>1
    <3>3. Holds(j - 1, file[j].of, "rest")
      BY <3>1, <3>2 DEF InOrder
    <3>4. j - 1 = i + 1
      BY <1>1, <3>2
    <3> QED BY <2>3, <3>1, <3>2, <3>3, <3>4 DEF Holds
  <2>5. last + 1 = i + 2
    BY <1>1, <2>2
  <2> QED BY <1>1, <1>3, <2>2, <2>3, <2>4, <2>5
<1>7. ASSUME e \in whole PROVE Decodes(line)
  <2>1. PICK j \in DOMAIN file :
          /\ j + 2 <= Len(file) /\ j + 1 \in DOMAIN file /\ j + 2 \in DOMAIN file /\ j \in Nat
          /\ Holds(j, e, "head") /\ Holds(j + 1, e, "rest") /\ Holds(j + 2, e, "newline")
    BY <1>7, WholeLine
  <2>2. j = i
    BY <1>1, <1>2, <2>1 DEF InOrder, Holds
  <2>3. last = i + 1
    <3>1. last < i + 2
      BY <1>1, <1>3, <2>1, <2>2 DEF Holds
    <3>2. last # i
      <4>1. ASSUME last = i PROVE FALSE
        <5>1. i + 2 <= m
          BY <2>1, <2>2 DEF m
        <5>2. last # m
          BY <1>1, <4>1, <5>1
        <5>3. i + 1 \in Newlines
          BY <1>3, <4>1, <5>2
        <5> QED BY <2>1, <2>2, <5>3 DEF Newlines, Holds
      <4> QED BY <4>1
    <3> QED BY <1>1, <1>4, <3>1, <3>2
  <2>4. Len(line) = 2 /\ line[2] = file[i + 1]
    <3>1. last - i + 1 = 2 /\ i + 2 - 1 = i + 1 /\ 2 \in 1..2
      BY <1>1, <2>3
    <3> QED BY <1>3, <3>1
  <2>5. file[i + 1] = Piece(e, "rest")
    BY <1>1, <2>1, <2>2, PieceEq DEF Holds
  <2> QED BY <1>2, <1>5, <2>4, <2>5 DEF Decodes
<1> QED BY <1>1, <1>2, <1>5, <1>6, <1>7 DEF line, m

-----------------------------------------------------------------------------
(* LogIsFaithful *)

LEMMA Faithful == ASSUME IInv PROVE LogIsFaithful
<1> DEFINE good == {i \in LineStarts : Decodes(Content(i))}
<1>1. ASSUME NEW i \in good
      PROVE  /\ i \in DOMAIN file /\ file[i].part = "head" /\ Content(i)[1] = file[i]
             /\ file[i].of \in whole \/ i + 1 = Len(file)
  <2>1. i \in LineStarts /\ Decodes(Content(i))
    OBVIOUS
  <2>2. /\ i \in DOMAIN file /\ file[i].part = "head" /\ Content(i)[1] = file[i]
        /\ \/ i + 1 = Len(file)
           \/ i + 2 \in DOMAIN file /\ Holds(i + 2, file[i].of, "newline")
    BY <2>1, LineShape
  <2>3. ASSUME i + 2 \in DOMAIN file, Holds(i + 2, file[i].of, "newline")
        PROVE  file[i].of \in whole
    BY <2>3 DEF IInv, InOrder, Holds
  <2> QED BY <2>2, <2>3
<1>2. ASSUME NEW i \in good, NEW j \in good, Content(i)[1].of = Content(j)[1].of PROVE i = j
  BY <1>1, <1>2 DEF IInv, InOrder
<1> HIDE DEF good
<1>3. \A i \in good : /\ Content(i)[1].of \in whole \/ i + 1 = Len(file)
                      /\ \A j \in good : Content(i)[1].of = Content(j)[1].of => i = j
  BY <1>1, <1>2
<1> QED BY <1>3 DEF good, LogIsFaithful

\* LogIsFaithful: what the analyzer reads was recorded, and is read once.
THEOREM LogFaithful == Spec => []LogIsFaithful
<1>1. IInv => LogIsFaithful
  BY Faithful
<1> QED BY <1>1, Invariance, PTL

-----------------------------------------------------------------------------
(* DamageBounded *)

HeadOf(e) == CHOOSE i \in DOMAIN file : Holds(i, e, "head")
Lost == whole \ Loaded

\* The head of a line that is lost follows the head or the rest of a line that
\* was cut.
LEMMA LostAfterCut ==
  ASSUME IInv, NEW e \in Lost
  PROVE  LET h == HeadOf(e) IN
         /\ h \in DOMAIN file /\ h \notin LineStarts /\ h - 1 \in DOMAIN file
         /\ Holds(h, e, "head") /\ file[h - 1].part \in {"head", "rest"}
         /\ file[h - 1].of \in Cut
<1> USE DEF IInv
<1> DEFINE h == HeadOf(e)
           f == file[h - 1].of
<1>1. PICK i \in DOMAIN file :
        /\ i + 2 <= Len(file) /\ i + 1 \in DOMAIN file /\ i + 2 \in DOMAIN file /\ i \in Nat
        /\ Holds(i, e, "head") /\ Holds(i + 1, e, "rest") /\ Holds(i + 2, e, "newline")
  BY WholeLine DEF Lost
<1>2. h \in DOMAIN file /\ Holds(h, e, "head")
  BY <1>1 DEF HeadOf
<1>3. h \notin LineStarts
  <2>1. ASSUME h \in LineStarts PROVE e \in Loaded
    <3>1. file[h].of \in whole /\ file[h].of = e
      BY <1>2 DEF Holds, Lost
    <3>2. Decodes(Content(h)) /\ Content(h)[1] = file[h]
      BY <2>1, <3>1, LineShape
    <3> QED BY <2>1, <3>1, <3>2 DEF Loaded
  <2> QED BY <2>1 DEF Lost
<1>4. /\ Len(file) \in Nat /\ DOMAIN file = 1..Len(file)
      /\ \A j \in DOMAIN file : file[j].part \in Parts /\ file[j].of \in 1..MaxEvaluations
  BY FileIs
<1> HIDE DEF h
<1>5. h - 1 \in DOMAIN file /\ h - 1 \notin Newlines /\ h \in Nat
  BY <1>2, <1>3, <1>4 DEF LineStarts
<1>6. file[h - 1].part \in {"head", "rest"}
  BY <1>4, <1>5 DEF Newlines, Parts
<1>7. (h - 2 \in DOMAIN file /\ Holds(h - 2, f, "head")) \/ file[h - 1].part = "head"
  <2>1. CASE file[h - 1].part = "rest"
    <3>1. h - 1 > 1 /\ Holds(h - 1 - 1, f, "head")
      BY <1>5, <2>1 DEF InOrder
    <3>2. h - 1 - 1 = h - 2 /\ h - 2 \in DOMAIN file
      BY <1>4, <1>5, <3>1
    <3> QED BY <3>1, <3>2
  <2> QED BY <1>6, <2>1
<1>8. \A p \in DOMAIN file : Holds(p, f, "head") => p = h - 1 \/ p = h - 2
  BY <1>5, <1>7 DEF InOrder, Holds
<1>9. f \notin whole
  <2>1. ASSUME f \in whole PROVE FALSE
    <3>1. PICK p \in DOMAIN file :
            /\ p + 2 <= Len(file) /\ p + 1 \in DOMAIN file /\ p + 2 \in DOMAIN file /\ p \in Nat
            /\ Holds(p, f, "head") /\ Holds(p + 1, f, "rest") /\ Holds(p + 2, f, "newline")
      BY <2>1, WholeLine
    <3>2. p + 1 = h \/ p + 2 = h
      BY <1>5, <1>8, <3>1
    <3> QED BY <1>2, <3>1, <3>2 DEF Holds
  <2> QED BY <2>1
<1>10. f \notin Open
  <2>1. ASSUME mode = "writing", f = evaluation PROVE FALSE
    <3> DEFINE m == Len(file)
               u == Len(unwritten)
    <3>1. u \in 1..3 /\ m \in Nat /\ m >= 3 - u /\ h \in 1..m
      BY <1>2, <1>4, <2>1 DEF UnderWay
    <3>0. evaluation \in Nat /\ ~(evaluation < evaluation)
      BY EvaluationsAssumption DEF TypeOK
    <3>2. u # 3
      <4>1. ASSUME u = 3 PROVE file[h - 1].of < evaluation
        BY <1>5, <2>1, <4>1 DEF InOrder, Fresh
      <4> QED BY <2>1, <3>0, <4>1
    <3>3. ~(h - 1 <= m - (3 - u))
      <4>1. ASSUME h - 1 <= m - (3 - u) PROVE file[h - 1].of < evaluation
        BY <1>5, <2>1, <4>1, EarlierLines
      <4> QED BY <2>1, <3>0, <4>1
    <3>4. u = 2 => Holds(m, f, "head")
      BY <2>1 DEF UnderWay
    <3>5. u = 1 => Holds(m - 1, f, "head") /\ Holds(m, f, "rest")
      BY <2>1 DEF UnderWay
    <3> HIDE DEF m, u
    <3>6. u = 1 /\ h = m
      BY <1>5, <3>1, <3>2, <3>3
    <3> QED BY <1>2, <3>5, <3>6 DEF Holds
  <2> QED BY <2>1 DEF Open
<1>11. f \in Begun
  BY <1>4, <1>5, <1>7 DEF Begun, Holds
<1> QED BY <1>2, <1>3, <1>5, <1>6, <1>9, <1>10, <1>11 DEF Cut, h

LEMMA CutIsFinite == ASSUME IInv PROVE IsFiniteSet(Cut) /\ Cardinality(Cut) \in Nat /\ torn \in Nat
<1>1. Cut \in SUBSET (1..MaxEvaluations) /\ IsFiniteSet(1..MaxEvaluations)
  BY FS_Interval, EvaluationsAssumption DEF Cut, Begun
<1>2. IsFiniteSet(Cut)
  BY <1>1, FS_Subset
<1> QED BY <1>2, FS_CardinalityType, EvaluationsAssumption DEF IInv, TypeOK

\* Every lost line has a cut line of its own before it.
LEMMA LostBound == ASSUME IInv PROVE Cardinality(Lost) <= torn
<1> USE DEF IInv
<1> DEFINE before == [e \in Lost |-> file[HeadOf(e) - 1].of]
<1>1. \A e \in Lost : before[e] \in Cut
  BY LostAfterCut
<1>2. ASSUME NEW d \in Lost, NEW e \in Lost, before[d] = before[e] PROVE d = e
  <2> DEFINE g == HeadOf(d)
             h == HeadOf(e)
  <2>1. /\ g \in DOMAIN file /\ g - 1 \in DOMAIN file
        /\ Holds(g, d, "head") /\ file[g - 1].part \in {"head", "rest"}
    BY LostAfterCut
  <2>2. /\ h \in DOMAIN file /\ h - 1 \in DOMAIN file
        /\ Holds(h, e, "head") /\ file[h - 1].part \in {"head", "rest"}
    BY LostAfterCut
  <2>3. file[g - 1].of = file[h - 1].of
    BY <1>2
  <2> HIDE DEF g, h
  <2>4. g \in Int /\ h \in Int
    BY <2>1, <2>2, FileIs
  <2>5. \A p, q \in DOMAIN file :
          file[p].part = "head" /\ file[q].part = "head" /\ file[p].of = file[q].of => p = q
    BY DEF InOrder
  <2>6. ASSUME NEW p \in DOMAIN file, NEW q \in DOMAIN file, p - 1 \in DOMAIN file,
               q - 1 \in DOMAIN file, file[p].part = "head", file[q].part = "head",
               file[p - 1].of = file[q - 1].of, file[p - 1].part = "rest"
        PROVE  file[q - 1].part # "head" /\ (file[q - 1].part = "rest" => p = q)
    <3>1. p \in Int /\ q \in Int /\ DOMAIN file = 1..Len(file) /\ Len(file) \in Nat
      BY FileIs
    <3>2. p - 1 > 1 /\ Holds(p - 1 - 1, file[p - 1].of, "head")
      BY <2>6 DEF InOrder
    <3>3. p - 1 - 1 \in DOMAIN file
      BY <3>1, <3>2
    <3>4. ASSUME file[q - 1].part = "head" PROVE FALSE
      <4>1. p - 1 - 1 = q - 1
        BY <2>5, <2>6, <3>2, <3>3, <3>4 DEF Holds
      <4>2. q = p - 1
        BY <3>1, <4>1
      <4> QED BY <2>6, <4>2
    <3>5. ASSUME file[q - 1].part = "rest" PROVE p = q
      <4>1. q - 1 > 1 /\ Holds(q - 1 - 1, file[q - 1].of, "head")
        BY <2>6, <3>5 DEF InOrder
      <4>2. q - 1 - 1 \in DOMAIN file
        BY <3>1, <4>1
      <4>3. p - 1 - 1 = q - 1 - 1
        BY <2>5, <2>6, <3>2, <3>3, <4>1, <4>2 DEF Holds
      <4> QED BY <3>1, <4>3
    <3> QED BY <3>4, <3>5
  <2>7. g = h
    <3>1. CASE file[g - 1].part = "rest"
      BY <2>1, <2>2, <2>3, <2>6, <3>1 DEF Holds
    <3>2. CASE file[h - 1].part = "rest"
      BY <2>1, <2>2, <2>3, <2>6, <3>2 DEF Holds
    <3>3. CASE file[g - 1].part = "head" /\ file[h - 1].part = "head"
      <4>1. g - 1 = h - 1
        BY <2>1, <2>2, <2>3, <2>5, <3>3
      <4> QED BY <2>4, <4>1
    <3> QED BY <2>1, <2>2, <3>1, <3>2, <3>3
  <2> QED BY <2>1, <2>2, <2>7 DEF Holds
<1>3. before \in Injection(Lost, Cut)
  <2>1. before \in [Lost -> Cut]
    BY <1>1
  <2> HIDE DEF before
  <2> QED BY <1>2, <2>1, Fun_IsInj
<1>4. IsFiniteSet(Cut) /\ Cardinality(Cut) \in Nat /\ torn \in Nat
  BY CutIsFinite
<1>5. IsFiniteSet(Lost) /\ Cardinality(Lost) <= Cardinality(Cut)
  BY <1>3, <1>4, FS_Injection
<1>6. Cardinality(Lost) \in Nat
  BY <1>5, FS_CardinalityType
<1> QED BY <1>4, <1>5, <1>6 DEF CutsCounted

\* Every line that does not decode begins with a line that was cut.
Bad == {i \in LineStarts : Content(i) # <<>> /\ ~Decodes(Content(i))}

LEMMA BadBound == ASSUME IInv, mode # "writing" PROVE Cardinality(Bad) <= torn
<1> USE DEF IInv
<1> DEFINE begins == [i \in Bad |-> file[i].of]
<1>1. ASSUME NEW i \in Bad
      PROVE  i \in DOMAIN file /\ file[i].part = "head" /\ begins[i] = file[i].of /\ file[i].of \in Cut
  <2>1. i \in LineStarts /\ ~Decodes(Content(i))
    BY DEF Bad
  <2>2. i \in DOMAIN file /\ file[i].part = "head" /\ file[i].of \notin whole
    BY <2>1, LineShape
  <2>3. file[i].of \in Begun
    BY <2>2, FileIs DEF Begun, Holds
  <2> QED BY <2>2, <2>3 DEF Cut, Open
<1>2. ASSUME NEW i \in Bad, NEW j \in Bad, begins[i] = begins[j] PROVE i = j
  BY <1>1, <1>2 DEF InOrder
<1>3. begins \in Injection(Bad, Cut)
  <2>1. begins \in [Bad -> Cut]
    BY <1>1
  <2> HIDE DEF begins
  <2> QED BY <1>2, <2>1, Fun_IsInj
<1>4. IsFiniteSet(Cut) /\ Cardinality(Cut) \in Nat /\ torn \in Nat
  BY CutIsFinite
<1>5. IsFiniteSet(Bad) /\ Cardinality(Bad) <= Cardinality(Cut)
  BY <1>3, <1>4, FS_Injection
<1>6. Cardinality(Bad) \in Nat
  BY <1>5, FS_CardinalityType
<1> QED BY <1>4, <1>5, <1>6 DEF CutsCounted

LEMMA Greatest == ASSUME NEW n \in Nat, NEW S \in SUBSET (1..n), S # {}
                  PROVE  \E g \in S : \A m \in S : m <= g
<1> DEFINE T == {n - m : m \in S}
<1>1. \A m \in S : m \in Nat /\ n - m \in Nat
  <2>1. \A m \in S : m \in 1..n
    OBVIOUS
  <2> QED BY <2>1
<1>2. T \in SUBSET Nat /\ T # {}
  BY <1>1
<1>3. PICK t \in T : \A x \in T : t <= x
  BY <1>2, Least
<1>4. PICK g \in S : t = n - g
  BY <1>3
<1>5. \A m \in S : n - g <= n - m
  BY <1>3, <1>4
<1>6. \A m \in S : m <= g
  BY <1>1, <1>5
<1> QED BY <1>6

\* A lost line shows: the line of the file that holds its head does not decode.
LEMMA LostShows == ASSUME IInv, Lost # {} PROVE Bad # {}
<1> USE DEF IInv
<1>1. PICK e \in Lost : TRUE
  OBVIOUS
<1> DEFINE h == HeadOf(e)
           starts == {i \in LineStarts : i <= h}
           m == Len(file)
<1>2. /\ h \in DOMAIN file /\ h \notin LineStarts /\ Holds(h, e, "head")
      /\ m \in Nat /\ DOMAIN file = 1..m
  BY <1>1, LostAfterCut, FileIs
<1> HIDE DEF h, m
<1>3. 1 \in starts /\ starts \in SUBSET (1..m)
  <2>1. 1 \in 1..m /\ 1 <= h
    BY <1>2
  <2> QED BY <1>2, <2>1 DEF LineStarts
<1>4. PICK s \in starts : \A i \in starts : i <= s
  BY <1>2, <1>3, Greatest
<1> HIDE DEF starts
<1>5. s \in LineStarts /\ s \in 1..m /\ s < h
  <2>1. s \in LineStarts /\ s <= h /\ s \in 1..m
    BY <1>3, <1>4 DEF starts
  <2> QED BY <1>2, <2>1
<1>6. Content(s) # <<>>
  BY <1>5, LineShape
<1>7. ASSUME Decodes(Content(s)) PROVE FALSE
  <2>1. /\ s + 1 \in DOMAIN file /\ file[s + 1].part = "rest"
        /\ \/ s + 1 = m
           \/ s + 2 \in DOMAIN file /\ file[s + 2].part = "newline"
    BY <1>5, <1>7, LineShape DEF Holds, m
  <2>2. h # s + 1
    BY <1>2, <2>1 DEF Holds
  <2>3. h \in 1..m /\ s \in 1..m /\ s < h
    BY <1>2, <1>5
  <2>4. s + 2 \in Newlines /\ h # s + 2
    <3>1. s + 1 # m
      BY <1>2, <2>2, <2>3
    <3> QED BY <1>2, <2>1, <3>1 DEF Newlines, Holds
  <2>5. s + 3 <= h /\ s + 3 \in 1..m /\ s + 3 - 1 = s + 2 /\ ~(s + 3 <= s)
    BY <1>2, <2>2, <2>3, <2>4
  <2>6. s + 3 \in starts
    BY <1>2, <2>4, <2>5 DEF starts, LineStarts
  <2> QED BY <1>4, <2>5, <2>6
<1> QED BY <1>5, <1>6, <1>7 DEF Bad

LEMMA Bounded == ASSUME IInv PROVE DamageBounded
<1>1. Malformed = Cardinality(Bad)
  BY DEF Malformed, Bad
<1>2. IsFiniteSet(Bad)
  <2>1. Bad \in SUBSET (1..Len(file)) /\ Len(file) \in Int
    BY FileIs DEF IInv, Bad, LineStarts
  <2>2. IsFiniteSet(1..Len(file))
    BY <2>1, FS_Interval
  <2> QED BY <2>1, <2>2, FS_Subset
<1>3. Lost # {} => Cardinality(Bad) > 0
  <2>1. ASSUME Lost # {} PROVE Cardinality(Bad) \in Nat /\ Cardinality(Bad) # 0
    BY <1>2, <2>1, LostShows, FS_EmptySet, FS_CardinalityType
  <2> QED BY <2>1
<1>4. Cardinality(Lost) <= torn /\ (mode # "writing" => Cardinality(Bad) <= torn)
  BY LostBound, BadBound
<1> QED BY <1>1, <1>3, <1>4 DEF DamageBounded, Lost

\* DamageBounded: a kill costs at most its own line and one more, and a loss shows.
THEOREM DamageIsBounded == Spec => []DamageBounded
<1>1. IInv => DamageBounded
  BY Bounded
<1> QED BY <1>1, Invariance, PTL

=============================================================================
