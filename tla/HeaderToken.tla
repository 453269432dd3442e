---------------------------- MODULE HeaderToken ----------------------------
(***************************************************************************)
(* has_token of benchmarks/echo_server.c: is token one of the members of a *)
(* comma-separated header value?  One turn of its loop per step.  The      *)
(* value is a sequence of characters; value, value_len and the local       *)
(* pointers are offsets into it.                                           *)
(***************************************************************************)
EXTENDS Integers, Sequences

CONSTANTS Char,      \* the characters of a value
          Token,     \* the token looked for
          MaxValue   \* the longest value

VARIABLES text, value, value_len, result

vars == <<text, value, value_len, result>>

Init ==
    /\ text \in UNION {[1..n -> Char] : n \in 0..MaxValue}
    /\ value = 0 /\ value_len = Len(text) /\ result = "running"

Blank == {" ", "tab"}

\* The characters of the value still to be searched, as offsets.
Rest == value..(value + value_len - 1)
At(k) == text[k + 1]

Commas == {k \in Rest : At(k) = ","}
comma == CHOOSE k \in Commas : \A j \in Commas : k <= j

\* The part up to the comma without the blanks around it.
PartEnd == IF Commas = {} THEN value + value_len ELSE comma
Solid == {k \in value..(PartEnd - 1) : At(k) \notin Blank}

SolidStart == CHOOSE k \in Solid : \A j \in Solid : k <= j
SolidEnd == CHOOSE k \in Solid : \A j \in Solid : j <= k

Part == IF Solid = {} THEN <<>> ELSE SubSeq(text, SolidStart + 1, SolidEnd + 1)

\* value_len -= (comma - part_start) + 1
LenAfterTrim == value_len - (comma - (IF Solid = {} THEN comma ELSE SolidStart)) - 1
LenAfterComma == value_len - (comma - value) - 1

Found ==
    /\ result = "running" /\ value_len > 0
    /\ Part = Token
    /\ result' = "yes"
    /\ UNCHANGED <<text, value, value_len>>

NextPart ==
    /\ result = "running" /\ value_len > 0
    /\ Part # Token /\ Commas # {}
    /\ value' = comma + 1
    /\ value_len' = LenAfterComma
    /\ UNCHANGED <<text, result>>

NotFound ==
    /\ result = "running"
    /\ value_len > 0 => Part # Token /\ Commas = {}
    /\ result' = "no"
    /\ UNCHANGED <<text, value, value_len>>

Next == Found \/ NextPart \/ NotFound

Spec == Init /\ [][Next]_vars

----------------------------------------------------------------------------

\* The token stands in the value between two separators, with nothing but
\* blanks between it and them.
IsMember ==
    \E i \in 1..Len(text) :
        LET j == i + Len(Token) - 1
            Separated(gap) == \A k \in gap : text[k] \in Blank
        IN  /\ j <= Len(text) /\ SubSeq(text, i, j) = Token
            /\ \E a \in 0..(i - 1) : (a = 0 \/ text[a] = ",") /\ Separated((a + 1)..(i - 1))
            /\ \E b \in (j + 1)..(Len(text) + 1) :
                 (b = Len(text) + 1 \/ text[b] = ",") /\ Separated((j + 1)..(b - 1))

\* has_token answers yes exactly for the values that list the token, whatever
\* blanks, empty members and longer or shorter members surround it.
TokenFound == result # "running" => (result = "yes") = IsMember

\* The part of the value still to be searched never reaches past the value.
InsideValue == value_len >= 0 /\ value + value_len <= Len(text)

\* has_token answers right and never looks past the header value.
SearchIsRight == TokenFound /\ InsideValue
=============================================================================
