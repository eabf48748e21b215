------------------------------- MODULE EdgeCsv -------------------------------
(***************************************************************************)
(* EdgeCsvParser of src/src/io/edge_csv.cpp: the text comes in one byte at *)
(* a time, whatever the chunks it is cut into, and every complete row is   *)
(* handed to a consumer, which may throw.  The parser knows nothing but    *)
(* `parser`, so a row, a number or a line end may be cut anywhere.         *)
(*                                                                         *)
(* A byte is a member of Bytes.  The words of the header are abbreviated   *)
(* to a letter each, which stands for every other byte no rule mentions    *)
(* as well; of an error the line that it reports is kept.                  *)
(***************************************************************************)
EXTENDS Integers, Sequences

CONSTANTS
  Digit,           \* the decimal digits in use: byte -> value
  PositiveLimit    \* kPositiveInt32Limit

ASSUME ParserAssumption ==
  /\ \A b \in DOMAIN Digit : Digit[b] \in 0 .. 9
  /\ PositiveLimit \in Nat /\ PositiveLimit >= 9

VARIABLE parser

NegativeLimit == PositiveLimit + 1   \* kNegativeInt32Limit
Header        == <<"f", ",", "t">>   \* kHeader
Bytes         == DOMAIN Digit \union {"f", "t", ",", "-", "space", "cr", "lf"}

NoNumber == [negative |-> FALSE, has_digit |-> FALSE, leading_zero |-> FALSE,
             magnitude |-> 0]

\* State is cut in two: "header", "header_cr", "leading", "need_digit",
\* "digits", "trailing", "row_cr", "finished" or "failed", and the column
\* that the middle ones are about, "source" or "destination".
ParserInit ==
  parser = [state |-> "header", column |-> "source", header_index |-> 0,
            line |-> 1, data_rows |-> 0, row_touched |-> FALSE,
            number |-> NoNumber, source |-> 0, destination |-> 0,
            in_consumer |-> "no",   \* the caller of deliver_edge, if it runs
            error |-> 0]            \* the line that an EdgeCsvError reports

FailAt(line) == parser' = [parser EXCEPT !.state = "failed", !.error = line]
FailInput    == FailAt(parser.line)
Enter(p, s)  == parser' = [p EXCEPT !.state = s]

completed_number ==
  IF parser.number.negative THEN -parser.number.magnitude ELSE parser.number.magnitude

\* The number of the column is complete.
Completed == [parser EXCEPT ![parser.column] = completed_number]

\* Mutant: the range check forgets that the digit is still to be added.
Appendable_OffByOne(n, digit) ==
  /\ IF n.has_digit THEN ~n.leading_zero ELSE ~(n.negative /\ digit = 0)
  /\ n.magnitude <= (IF n.negative THEN NegativeLimit ELSE PositiveLimit) \div 10

\* append_digit: canonical form, then the range, before anything is added.
Appendable(n, digit) ==
  /\ IF n.has_digit THEN ~n.leading_zero ELSE ~(n.negative /\ digit = 0)
  /\ n.magnitude <=
       ((IF n.negative THEN NegativeLimit ELSE PositiveLimit) - digit) \div 10

AppendDigit(p, n, digit) ==
  IF Appendable(n, digit)
  THEN Enter([p EXCEPT !.number =
                [n EXCEPT !.has_digit = TRUE,
                          !.leading_zero = IF n.has_digit THEN @ ELSE digit = 0,
                          !.magnitude = 10 * @ + digit]],
             "digits")
  ELSE FailInput

\* complete_line and finish call deliver_edge; the rest of them comes after
\* the consumer has returned.
Deliver(p, caller) == parser' = [p EXCEPT !.in_consumer = caller]

----------------------------------------------------------------------------
(* consume_byte.                                                           *)

BeginDataLines == Enter([parser EXCEPT !.line = 2, !.row_touched = FALSE], "leading")

ConsumeHeader(b) ==
  /\ parser.state = "header"
  /\ \/ /\ parser.header_index < Len(Header)
        /\ IF b = Header[parser.header_index + 1]
           THEN parser' = [parser EXCEPT !.header_index = @ + 1]
           ELSE FailInput
     \/ /\ parser.header_index = Len(Header)
        /\ CASE b = "lf" -> BeginDataLines
             [] b = "cr" -> Enter(parser, "header_cr")
             [] OTHER    -> FailInput

ConsumeHeaderCr(b) ==
  /\ parser.state = "header_cr"
  /\ IF b = "lf" THEN BeginDataLines ELSE FailInput

ConsumeLeading(b) ==
  LET touched == [parser EXCEPT !.row_touched = TRUE] IN
  /\ parser.state = "leading"
  /\ \/ b = "space" /\ parser' = touched
     \/ b = "-" /\ Enter([touched EXCEPT !.number = [NoNumber EXCEPT !.negative = TRUE]],
                         "need_digit")
     \/ b \in DOMAIN Digit /\ AppendDigit(touched, NoNumber, Digit[b])
     \/ b \notin DOMAIN Digit \union {"space", "-"} /\ FailInput

ConsumeNeedDigit(b) ==
  /\ parser.state = "need_digit"
  /\ IF b \in DOMAIN Digit THEN AppendDigit(parser, parser.number, Digit[b])
     ELSE FailInput

\* What may follow the number of a column, at once or after spaces.
AfterNumber(p, b) ==
  \/ b = "space" /\ Enter(p, "trailing")
  \/ /\ p.column = "source"
     /\ IF b = "," THEN Enter([p EXCEPT !.column = "destination"], "leading")
        ELSE b # "space" /\ FailInput
  \/ /\ p.column = "destination"
     /\ CASE b = "lf"    -> Deliver(p, "line")
          [] b = "cr"    -> Enter(p, "row_cr")
          [] b = "space" -> FALSE
          [] OTHER       -> FailInput

ConsumeDigits(b) ==
  /\ parser.state = "digits"
  /\ IF b \in DOMAIN Digit THEN AppendDigit(parser, parser.number, Digit[b])
     ELSE AfterNumber(Completed, b)

ConsumeTrailing(b) ==
  parser.state = "trailing" /\ AfterNumber(parser, b)

ConsumeRowCr(b) ==
  /\ parser.state = "row_cr"
  /\ IF b = "lf" THEN Deliver(parser, "line") ELSE FailInput

ConsumeByte(b) ==
  /\ parser.in_consumer = "no"
  /\ \/ ConsumeHeader(b) \/ ConsumeHeaderCr(b)
     \/ ConsumeLeading(b) \/ ConsumeNeedDigit(b) \/ ConsumeDigits(b)
     \/ ConsumeTrailing(b) \/ ConsumeRowCr(b)

\* finish finds itself between two rows.
EmptyRow(p) == p.state = "leading" /\ p.column = "source" /\ ~p.row_touched

\* finish_active_state, and finish after it.
FinishText ==
  /\ parser.in_consumer = "no"
  /\ parser.state \notin {"finished", "failed"}
  /\ IF parser.column = "destination" /\ parser.state \in {"digits", "trailing"}
     THEN Deliver([parser EXCEPT !.destination = completed_number], "finish")
     ELSE IF EmptyRow(parser) /\ parser.data_rows > 0
     THEN Enter(parser, "finished")
     ELSE IF parser.state = "header" /\ parser.header_index = Len(Header)
     THEN FailAt(2)
     ELSE FailInput

\* The rest of complete_line.
RowEnded(p) ==
  [p EXCEPT !.in_consumer = "no", !.data_rows = @ + 1,
            !.line = @ + 1, !.row_touched = FALSE,
            !.state = "leading", !.column = "source"]

ConsumerReturns ==
  \/ /\ parser.in_consumer = "line"
     /\ parser' = RowEnded(parser)
  \/ /\ parser.in_consumer = "finish"
     /\ parser' = [parser EXCEPT !.in_consumer = "no", !.data_rows = @ + 1,
                                 !.state = "finished"]

ConsumerThrows ==
  /\ parser.in_consumer # "no"
  /\ parser' = [parser EXCEPT !.in_consumer = "no", !.state = "failed"]
=============================================================================
