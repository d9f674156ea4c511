----------------------------- MODULE SignedMime -----------------------------
(***************************************************************************)
(* Taking a multipart/signed message apart again, byte for byte.  The      *)
(* signature covers the first part exactly as it was transmitted, so       *)
(* splitRawMIMEParts may neither lose nor gain anything at the boundaries. *)
(* A body is a sequence of tokens: the marker "--boundary", "--", a line   *)
(* end, a blank and any other text.                                        *)
(***************************************************************************)
EXTENDS Naturals, Sequences, FiniteSets, FiniteSetsExt

Token == {"marker", "--", "crlf", "blank", "text"}

NoBoundary == [ok |-> FALSE]

\* The first index from p on that is not a blank.
AfterBlanks(body, p) == Min({i \in p..(Len(body) + 1) :
                                i = Len(body) + 1 \/ body[i] # "blank"})

\* The delimiter line at or after from.  final is a named result that the
\* loop does not reset, hence a parameter.
nextRawBoundary(body) ==
    LET find[from \in 1..(Len(body) + 2), final \in BOOLEAN] ==
            LET markers == {i \in from..Len(body) : body[i] = "marker"}
                start == Min(markers)
                closes == start < Len(body) /\ body[start + 1] = "--"
                last == final \/ closes
                pos == AfterBlanks(body, IF closes THEN start + 2 ELSE start + 1)
            IN IF markers = {} THEN NoBoundary
               ELSE IF start # 1 /\ body[start - 1] # "crlf" THEN find[start + 1, final]
               ELSE IF pos > Len(body)
                    THEN IF last THEN [ok |-> TRUE, start |-> start, after |-> pos, final |-> TRUE]
                         ELSE NoBoundary
               ELSE IF body[pos] = "crlf"
                    THEN [ok |-> TRUE, start |-> start, after |-> pos + 1, final |-> last]
               ELSE find[start + 1, last]
    IN find

\* The part ends before the line end that belongs to the delimiter; NoParts
\* stands for the errors.
NoParts == <<>>

PartEndsAtDelimiter(body, from, start) == SubSeq(body, from, start - 1)

PartBefore(body, from, start) == SubSeq(body, from, start - 2)

splitRawMIMEParts(body) ==
    LET next == nextRawBoundary(body)
        collect[from \in 1..(Len(body) + 1)] ==
            LET b == next[from, FALSE]
            IN IF ~b.ok \/ b.start - 1 < from \/ body[b.start - 1] # "crlf" THEN <<"error">>
               ELSE IF b.final THEN <<PartBefore(body, from, b.start)>>
               ELSE LET rest == collect[b.after]
                    IN IF rest = <<"error">> THEN rest
                       ELSE <<PartBefore(body, from, b.start)>> \o rest
        first == next[1, FALSE]
    IN IF ~first.ok \/ first.final THEN NoParts
       ELSE IF collect[first.after] = <<"error">> THEN NoParts ELSE collect[first.after]

\* What SignMIME writes around the signed part and the signature part.
Assembled(signed, signature) ==
    <<"marker", "crlf">> \o signed \o <<"crlf", "marker", "crlf">>
        \o signature \o <<"crlf", "marker", "--", "crlf">>

\* A line that is a delimiter, or begins like the closing one.
LooksLikeBoundary(part) ==
    \E i \in 1..Len(part) :
        /\ part[i] = "marker"
        /\ i = 1 \/ part[i - 1] = "crlf"
        /\ \/ i < Len(part) /\ part[i + 1] = "--"
           \/ AfterBlanks(part, i + 1) = Len(part) + 1
           \/ part[AfterBlanks(part, i + 1)] = "crlf"
=============================================================================
