----------------------------- MODULE MCSiteApp -----------------------------
(* Instances of SiteApp for TLC. *)
EXTENDS SiteApp

MCNum       == [d \in DocIds |-> IF d = "d1" THEN 7 ELSE 37]
MCSection   == [q \in Questions |-> IF q = "q1" THEN "s1" ELSE "s2"]
\* Open behind emphasis, a decision.
MCTexts     == {<<"*", "open">>, <<"yes">>}
MCDocHeads  == [d \in DocIds |-> IF d = "d1" THEN <<"a", "b">> ELSE <<"a">>]
MCPackHeads == <<"b">>
MCRegHeads  == <<"b">>
MCSec       == [h \in HeadIds |-> IF h = "a" THEN "h=a" ELSE "h=b"]
MCEncode    == [p \in Payloads |-> "p%201"]
MCDecode    == [x \in {"p%201", "%", "h=a", "h=b"} |-> IF x = "p%201" THEN "p 1" ELSE IF x = "%" THEN Malformed ELSE x]
\* A document that is removed, a deep link, an unknown document, a malformed
\* escape, the question register.
MCTyped     == {<<"doc", "d2">>, <<"doc", "d1", "h=a">>, <<"contracts", "payloads", "%">>, <<"registers", "prd">>}
MCMatches   == [q \in Queries |-> {"q1"}]

\* The author edits before the first build and builds before the last fetch: what
\* happens after it reaches no tab.
MCNext == \/ Edit /\ disk.data = None
          \/ (main \/ Vendor) /\ tab \in {"closed", "loading"}
          \/ Browser \/ Visitor
MCInit == Init /\ \A q \in Questions : src.answers[q] = <<"*", "open">>
MCSpec == MCInit /\ [][MCNext]_vars /\ Fairness

=============================================================================
