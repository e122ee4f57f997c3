---------------------------- MODULE MCErrorBody ----------------------------
(***************************************************************************)
(* Scripts for checking ErrorBody with TLC: every sequence of at most two  *)
(* items, and of three that bring bytes, whose first two go on.            *)
(***************************************************************************)
EXTENDS ErrorBody

Sizes == {0, 1, 2, 4}

More == [n : Sizes, says : {"more"}]

Items == [n : Sizes, says : {"more"} \cup Endings]

MCScripts ==
  { << >> }
  \cup { <<x>> : x \in Items }
  \cup { <<x, y>> : x \in {a \in Items : a.says # "done"}, y \in Items }
  \cup { <<x, y, z>> : x \in More, y \in More, z \in {a \in Items : a.n # 0} }
=============================================================================
