----------------------------- MODULE MCResolver -----------------------------
(* Resolver for TLC: two nodes, and every kind of token and of outcome.      *)
EXTENDS Resolver

TwoNodes    == {"n1", "n2"}
Environment == [v \in {"SET", "UNSET"} |-> IF v = "SET" THEN "value" ELSE ""]

Token(kind, spec) == [kind |-> kind, spec |-> spec, default |-> "none",
                      base64 |-> FALSE, coded |-> 0]
Refs   == {Token("ref", s) : s \in Slots \cup {<<"no_such", "">>}}
            \cup {[Token("ref", Timezone) EXCEPT !.base64 = TRUE]}
Others == {Token("env", <<"SET", "">>),
           [Token("env", <<"UNSET", "">>) EXCEPT !.default = "fallback"],
           [Token("file", <<"absent", "">>) EXCEPT !.base64 = TRUE],
           Token("vault", <<"path", "">>), Token("gen", <<"bad", "">>)}
AllTokens == Refs \cup Others
=============================================================================
