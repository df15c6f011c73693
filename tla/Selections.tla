----------------------------- MODULE Selections -----------------------------
(* Some elements of a sequence. *)
EXTENDS Naturals, Sequences

\* The elements of s at the positions in I, in their order.
Kept(s, I) ==
    LET upTo[n \in 0 .. Len(s)] ==
            IF n = 0 THEN <<>>
            ELSE IF n \in I THEN Append(upTo[n - 1], s[n]) ELSE upTo[n - 1]
    IN  upTo[Len(s)]

\* The elements that pass a test.
Filtered(s, Test(_)) == Kept(s, {i \in DOMAIN s : Test(s[i])})

=============================================================================
