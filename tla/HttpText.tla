------------------------------- MODULE HttpText -------------------------------
(***************************************************************************)
(* Text as the HTTP code reads it: sequences of ASCII codes.  A word that  *)
(* the code only compares with a fixed one is a single code.               *)
(***************************************************************************)
EXTENDS Integers, Sequences, SequencesExt

CONSTANT None      \* no value: std::nullopt, npos, a return of false

Tab == 9
Space == 32
Percent == 37
Comma == 44
Dash == 45
Dot == 46
Slash == 47
Equals == 61
Question == 63
Digit == 48 .. 57

\* The words "bytes", "close" and "keep-alive", and any other.
BytesWord == 98
CloseWord == 99
KeepAliveWord == 107
OtherWord == 120

\* Position of the first c in s, 0 if there is none.
find(c, s) == SelectInSeq(s, LAMBDA x : x = c)

\* The text without the spaces and tabs at its ends.
trim_ows(s) ==
    LET kept == {i \in DOMAIN s : s[i] \notin {Space, Tab}}
    IN  IF kept = {} THEN << >> ELSE SubSeq(s, Min(kept), Max(kept))

\* The pieces of s between the separators.
Split(s, sep) ==
    LET Take(pieces, c) == IF c = sep THEN Append(pieces, << >>)
                           ELSE [pieces EXCEPT ![Len(pieces)] = Append(@, c)]
    IN  FoldLeft(Take, << << >> >>, s)

=============================================================================
