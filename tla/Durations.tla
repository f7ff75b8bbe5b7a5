-------------------------------- MODULE Durations --------------------------------
(***************************************************************************)
(* Durations as a workflow writes them: texts such as '1m30s', numbers of  *)
(* seconds, or fields.  The text is read by one scan from its left; the    *)
(* reference says of each character what it adds, wherever it stands.      *)
(***************************************************************************)
EXTENDS Integers, Sequences, FiniteSetsExt

\* A character is a digit, a unit, a space or any other that is no white space.
Blank == " "
Digits == {"0", "1", "2", "3", "4", "5", "6", "7", "8", "9"}
DigitValue ==
  [d \in Digits |->
    CASE d = "0" -> 0 [] d = "1" -> 1 [] d = "2" -> 2 [] d = "3" -> 3 [] d = "4" -> 4
      [] d = "5" -> 5 [] d = "6" -> 6 [] d = "7" -> 7 [] d = "8" -> 8 [] OTHER -> 9]

\* durationUnits
UnitSeconds == [s |-> 1, m |-> 60, h |-> 3600, d |-> 86400]
Units == DOMAIN UnitSeconds

Invalid == -1
MaxWaitSeconds == 31622400

-----------------------------------------------------------------------------

\* scanDigits: where the digits that begin at i end.
ScanDigits(text, i) ==
  CHOOSE j \in i..(Len(text) + 1) :
    /\ \A k \in i..(j - 1) : text[k] \in Digits
    /\ j <= Len(text) => text[j] \notin Digits

Number(digits) ==
  LET n[k \in 0..Len(digits)] == IF k = 0 THEN 0 ELSE 10 * n[k - 1] + DigitValue[digits[k]]
  IN n[Len(digits)]

\* parseSegment: a number with its unit; without one it is no number at all.
Segment(text, i, end) ==
  IF end = i \/ end > Len(text) THEN Invalid
  ELSE IF text[end] \notin Units THEN Invalid
  ELSE Number(SubSeq(text, i, end - 1)) * UnitSeconds[text[end]]

\* trim
Trimmed(text) ==
  LET inner == {i \in 1..Len(text) : text[i] # Blank}
  IN IF inner = {} THEN <<>> ELSE SubSeq(text, Min(inner), Max(inner))

\* parseDurationText
ParseDurationText(text) ==
  LET from[i \in 1..(Len(text) + 1)] ==
        IF i > Len(text) THEN 0
        ELSE IF text[i] = Blank THEN from[i + 1]
        ELSE LET end == ScanDigits(text, i)
                 seconds == Segment(text, i, end)
             IN IF seconds = Invalid THEN Invalid
                ELSE LET rest == from[IF end > Len(text) THEN end ELSE end + 1]
                     IN IF rest = Invalid THEN Invalid ELSE seconds + rest
  IN IF text = <<>> THEN Invalid ELSE from[1]

\* secondsToDuration, with the fields it leaves out as 0.
SecondsToDuration(whole) ==
  [days |-> whole \div 86400, hours |-> (whole % 86400) \div 3600,
   minutes |-> (whole % 3600) \div 60, seconds |-> whole % 60]

DurationSeconds(d) == d.days * 86400 + d.hours * 3600 + d.minutes * 60 + d.seconds

\* waitDuration takes what is in its bounds.
Waitable(seconds) == seconds \in 1..MaxWaitSeconds

-----------------------------------------------------------------------------
\* The reference: each digit counts by its distance to its unit, and every
\* character but a space belongs to a number that has one.

UnitAfter(text, i) == Min({j \in i..Len(text) : text[j] \notin Digits})

WellFormed(text) ==
  /\ \E i \in 1..Len(text) : text[i] # Blank
  /\ \A i \in 1..Len(text) :
       /\ text[i] \in Digits \cup Units \cup {Blank}
       /\ text[i] \in Digits => i < Len(text) /\ text[i + 1] \in Digits \cup Units
       /\ text[i] \in Units => i > 1 /\ text[i - 1] \in Digits

PowerOfTen[n \in Nat] == IF n = 0 THEN 1 ELSE 10 * PowerOfTen[n - 1]

Worth(text, i) ==
  DigitValue[text[i]] * PowerOfTen[UnitAfter(text, i) - i - 1]
    * UnitSeconds[text[UnitAfter(text, i)]]

Reference(text) ==
  LET worth(i) == Worth(text, i)
  IN MapThenSumSet(worth, {i \in 1..Len(text) : text[i] \in Digits})
=============================================================================
