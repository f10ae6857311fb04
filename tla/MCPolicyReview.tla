---------------------------- MODULE MCPolicyReview ----------------------------
(***************************************************************************)
(* Small instances of PolicyReview: a program (cs) whose seeded rule       *)
(* demands something in both columns and is open, one (ds) that has no     *)
(* rule yet, a page that belongs to no program, and pages that show one    *)
(* column and lack the other.                                              *)
(***************************************************************************)
EXTENDS PolicyReview

CONSTANTS cs, ds, matric, inter, pct60, pct65

Seed ==
  << [ program |-> cs, demands |-> [f \in Fields |-> pct60],
       effective_from |-> 0, effective_to |-> Null, origin |-> 0 ] >>

\* A draft for a page that shows value in one column.
Page(program, column, value) ==
  [ program |-> program,
    scraped |-> [f \in Fields |-> IF f = column THEN value ELSE NotFound],
    summary |-> "changed", status |-> "pending", created_rule |-> 0 ]

Pages == { Page(cs, matric, pct65), Page(cs, inter, pct65) }
AllPages == Pages \cup { Page(ds, matric, pct65), Page(Null, matric, pct65) }
===============================================================================
