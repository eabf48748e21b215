------------------------------ MODULE EdgeText -------------------------------
(***************************************************************************)
(* What an edge CSV is, as a definition rather than an automaton, for the  *)
(* parser of EdgeCsv to be checked against: an exact header, then one row  *)
(* of two canonical integers per line, the last of which may lack its end. *)
(***************************************************************************)
EXTENDS Integers, Sequences, FiniteSets, SequencesExt

CONSTANTS Digit, PositiveLimit

HeaderRow == <<"f", ",", "t">>

\* A field without the spaces around it.
Trimmed(field) ==
  LET solid == {i \in DOMAIN field : field[i] # "space"} IN
  IF solid = {} THEN <<>>
  ELSE SubSeq(field, CHOOSE i \in solid : \A j \in solid : i <= j,
                     CHOOSE i \in solid : \A j \in solid : i >= j)

Negative(word) == word # <<>> /\ word[1] = "-"
Digits(word)   == IF Negative(word) THEN Tail(word) ELSE word

Value(word) ==
  LET digits == Digits(word)
      upto[i \in 0 .. Len(digits)] ==
        IF i = 0 THEN 0 ELSE 10 * upto[i - 1] + Digit[digits[i]]
      magnitude == upto[Len(digits)]
  IN  IF Negative(word) THEN -magnitude ELSE magnitude

IsInteger(word) ==
  LET digits == Digits(word) IN
  /\ digits # <<>>
  /\ \A i \in DOMAIN digits : digits[i] \in DOMAIN Digit
  /\ Digit[digits[1]] = 0 => word = digits /\ Len(digits) = 1
  /\ Value(word) \in -(PositiveLimit + 1) .. PositiveLimit

Commas(line)    == {i \in DOMAIN line : line[i] = ","}
Comma(line)     == CHOOSE i \in Commas(line) : TRUE
Source(line)    == Trimmed(SubSeq(line, 1, Comma(line) - 1))
Target(line)    == Trimmed(SubSeq(line, Comma(line) + 1, Len(line)))

IsRow(line) ==
  /\ Cardinality(Commas(line)) = 1
  /\ IsInteger(Source(line)) /\ IsInteger(Target(line))

Edge(line) == <<Value(Source(line)), Value(Target(line))>>

\* The positions after which a line begins.
Breaks(text) == {0} \union {i \in DOMAIN text : text[i] = "lf"}

\* The line that begins after position i, and whether its end is there.
EndOf(text, i) ==
  IF \E j \in Breaks(text) : j > i
  THEN CHOOSE j \in Breaks(text) : j > i /\ \A k \in Breaks(text) : k > i => j <= k
  ELSE 0
Line(text, i) ==
  LET end  == EndOf(text, i)
      line == SubSeq(text, i + 1, IF end = 0 THEN Len(text) ELSE end - 1) IN
  IF end # 0 /\ line # <<>> /\ line[Len(line)] = "cr"
  THEN SubSeq(line, 1, Len(line) - 1)
  ELSE line

\* The rows begin after the header; an empty last line is none.
RowBreaks(text) == Breaks(text) \ {0, Len(text)}

IsText(text) ==
  /\ EndOf(text, 0) # 0 /\ Line(text, 0) = HeaderRow
  /\ RowBreaks(text) # {}
  /\ \A i \in RowBreaks(text) : IsRow(Line(text, i))

Edges(text) ==
  LET begins == SetToSortSeq(RowBreaks(text), <)
  IN  [n \in DOMAIN begins |-> Edge(Line(text, begins[n]))]

\* A text that can still become an edge CSV becomes one with one of these.
Completions ==
  LET example == HeaderRow \o <<"lf", "1", ",", "1">>
  IN  {SubSeq(example, i, Len(example)) : i \in 1 .. Len(example) + 1}
        \union {<<"lf">>}

IsHopeless(text) == \A more \in Completions : ~IsText(text \o more)

\* The physical line of the n-th byte.
LineOf(text, n) == 1 + Cardinality({i \in 1 .. n - 1 : text[i] = "lf"})
=============================================================================
