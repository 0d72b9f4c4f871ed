----------------------------- MODULE MCRegistry -----------------------------
(* Two built-ins; rules r1 and r2, each in two versions, one of r2's      *)
(* malformed; a file whose second rule is malformed, a file reusing r1,    *)
(* a good file; parse_rule_str on a clashing, a malformed and a good rule. *)
EXTENDS Registry

Rule(n, v, id) == [name |-> n, valid |-> v, id |-> id]

MCBuiltIns == {Rule("inline_var", TRUE, 0), Rule("delete_let", TRUE, 0)}
MCStrs == {Rule("inline_var", TRUE, 1), Rule("r2", FALSE, 2), Rule("r2", TRUE, 3)}
MCFiles == { << Rule("r1", TRUE, 4), Rule("r2", FALSE, 2) >>,
             << Rule("r1", TRUE, 5) >>,
             << Rule("r3", TRUE, 6), Rule("r2", TRUE, 7) >> }
=============================================================================
