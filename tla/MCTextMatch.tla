---------------------------- MODULE MCTextMatch ----------------------------
(* The lines of TextMatch for TLC. *)
EXTENDS TextMatch

Plain(hits) == [opens |-> "none", ends |-> "later", holds |-> {}, meta |-> "no", hits |-> hits]

Docstring(q, ends) ==
  [opens |-> q, ends |-> ends, holds |-> {q}, meta |-> "no", hits |-> {"exact"}]

MCLines ==
  {Plain({}), Plain({"exact", "partial"}), [Plain({"exact"}) EXCEPT !.meta = "yes"],
   [Plain({"partial"}) EXCEPT !.holds = {"double"}]}
  \cup {Docstring("double", ends) : ends \in {"with line", "early", "later"}}
  \cup {Docstring("single", "later")}
=============================================================================
