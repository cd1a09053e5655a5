----------------------------- MODULE RangeRequest -----------------------------
(***************************************************************************)
(* The Range field of a request (RangeRequest.cpp): its text, the range it *)
(* asks for, and where that range lies in a file.                          *)
(***************************************************************************)
EXTENDS HttpText

CONSTANT Word      \* 2^64, the size of uint64_t

ASSUME WordAssumption == Word \in Nat /\ Word > 9

\* Mutant: no test before the multiplication, which may wrap.
NextDigit_Wraps(value, c) ==
    IF value = None \/ c \notin Digit THEN None
    ELSE (value * 10 + (c - 48)) % Word

\* The body of the loop of parse_digits.
NextDigit(value, c) ==
    IF value = None \/ c \notin Digit THEN None
    ELSE IF value > (Word - 1 - (c - 48)) \div 10 THEN None
    ELSE (value * 10 + (c - 48)) % Word

\* The number that a run of digits denotes, None if it is none or does not fit.
parse_digits(s) == IF s = << >> THEN None ELSE FoldLeft(NextDigit, 0, s)

\* The single range of the field, None if there is none that the server honours.
parse_range(field_value) ==
    LET value == trim_ows(field_value)
        eq == find(Equals, value)
        range_set == trim_ows(SubSeq(value, eq + 1, Len(value)))
        dash == find(Dash, range_set)
        first == parse_digits(SubSeq(range_set, 1, dash - 1))
        last_pos == SubSeq(range_set, dash + 1, Len(range_set))
        last == parse_digits(last_pos)
    IN  IF \/ eq = 0
           \/ trim_ows(SubSeq(value, 1, eq - 1)) # <<BytesWord>>
           \/ find(Comma, range_set) # 0
           \/ dash = 0
        THEN None
        ELSE IF dash = 1
        THEN IF last = None THEN None
             ELSE [suffix |-> TRUE, first |-> last, last |-> None]
        ELSE IF first = None THEN None
        ELSE IF last_pos = << >> THEN [suffix |-> FALSE, first |-> first, last |-> None]
        ELSE IF last = None THEN None
        ELSE IF last < first THEN None
        ELSE [suffix |-> FALSE, first |-> first, last |-> last]

\* ByteRangeSpec::resolve: where the range lies in a file of this size, or None.
resolve(spec, size) ==
    IF spec.suffix
    THEN IF spec.first = 0 \/ size = 0 THEN None
         ELSE LET offset == IF spec.first >= size THEN 0 ELSE size - spec.first
              IN  [offset |-> offset, length |-> size - offset]
    ELSE IF spec.first >= size THEN None
         ELSE LET last == IF spec.last = None THEN size - 1 ELSE Min({spec.last, size - 1})
              IN  [offset |-> spec.first, length |-> last - spec.first + 1]

=============================================================================
