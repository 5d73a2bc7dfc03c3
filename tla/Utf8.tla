-------------------------------- MODULE Utf8 --------------------------------
(***************************************************************************)
(* What the server does about characters that are cut in the middle.  A    *)
(* byte is represented by what it says about the character it belongs to.  *)
(***************************************************************************)
EXTENDS Naturals, Sequences

Continuation == 0       \* 10xxxxxx
Invalid      == 5       \* starts nothing and continues nothing
Bytes        == 0..5    \* n in 1..4: the first byte of a character of n bytes

\* How many bytes at the end of s are a character that lacks some: at most one
\* number, and none when s ends with a whole character or with anything else.
CutOff(s) ==
    { i \in 1..4 : /\ i <= Len(s)
                   /\ \A j \in 1..(i - 1) : s[Len(s) + 1 - j] = Continuation
                   /\ s[Len(s) + 1 - i] \in 2..4
                   /\ i < s[Len(s) + 1 - i] }

is_utf8_string_incomplete(s) == CutOff(s) # {}

remove_incomplete_utf8_char(s) ==
    IF CutOff(s) = {} THEN s
    ELSE SubSeq(s, 1, Len(s) - (CHOOSE i \in CutOff(s) : TRUE))

\* Text that json::dump accepts; it throws on any other.
IsText(s) ==
    \A p \in 1..Len(s) :
        \/ /\ s[p] \in 1..4
           /\ p + s[p] - 1 <= Len(s)
           /\ \A q \in (p + 1)..(p + s[p] - 1) : s[q] = Continuation
        \/ /\ s[p] = Continuation
           /\ \E n \in 1..3 : n < p /\ s[p - n] \in 2..4 /\ n < s[p - n]

=============================================================================
