------------------------------- MODULE UrlDecode ------------------------------
(* Percent-decoding of a path before it is matched with the routes
   (UrlDecode.cpp). *)
EXTENDS HttpText

\* Value of a hex digit, -1 for any other code.
hexValue(c) ==
    IF c \in Digit THEN c - 48
    ELSE IF c \in 97 .. 102 THEN c - 87
    ELSE IF c \in 65 .. 70 THEN c - 55
    ELSE -1

\* Mutant: an escaped slash is decoded.
refusedByte_NoSlash(byte) == byte < 32 \/ byte = 127

\* What an escape may not stand for: a control character, or a segment boundary.
refusedByte(byte) == byte < 32 \/ byte = 127 \/ byte = Slash

\* The inner loop of decodePath: one segment, None if an escape in it is refused.
\* The two codes after an escape are hex digits, so none of them starts another.
decodeSegment(segment) ==
    LET escapes == {i \in DOMAIN segment : segment[i] = Percent}
        byte(i) == hexValue(segment[i + 1]) * 16 + hexValue(segment[i + 2])
        refused(i) == \/ i + 2 > Len(segment)
                      \/ hexValue(segment[i + 1]) < 0 \/ hexValue(segment[i + 2]) < 0
                      \/ refusedByte(byte(i))
        kept == SelectSeq([i \in DOMAIN segment |-> i],
                          LAMBDA i : i - 1 \notin escapes /\ i - 2 \notin escapes)
        decoded == [k \in DOMAIN kept |->
                      IF kept[k] \in escapes THEN byte(kept[k]) ELSE segment[kept[k]]]
    IN  IF \E i \in escapes : refused(i) THEN None
        ELSE IF escapes # {} /\ decoded = <<Dot, Dot>> THEN None
        ELSE decoded

decodePath(raw_path) ==
    LET segments == Split(raw_path, Slash)
        decoded == [k \in DOMAIN segments |-> decodeSegment(segments[k])]
    IN  IF \E k \in DOMAIN decoded : decoded[k] = None THEN None
        ELSE FoldLeft(LAMBDA out, s : out \o <<Slash>> \o s, decoded[1], Tail(decoded))

=============================================================================
