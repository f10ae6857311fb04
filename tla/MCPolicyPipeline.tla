--------------------------- MODULE MCPolicyPipeline ---------------------------
(***************************************************************************)
(* A small instance of PolicyPipeline: a program with a seeded rule and a  *)
(* page of its own, and a general page that belongs to no program, as both *)
(* default sources do.  The page of the program may show either column, or *)
(* a value so near the rule's that the differ calls it noise.              *)
(***************************************************************************)
EXTENDS PolicyPipeline

CONSTANTS cs, matric, inter, pct60, pct60half, pct65

Seed ==
  << [ program |-> cs, demands |-> [f \in Fields |-> pct60],
       effective_from |-> 0, effective_to |-> Null, origin |-> 0 ] >>

Shows(column, value) == [f \in Fields |-> IF f = column THEN value ELSE NotFound]
PageContents == { Shows(matric, pct65), Shows(inter, pct65), Shows(matric, pct60half) }
Noise == { <<v, v>> : v \in Values } \cup { <<pct60, pct60half>>, <<pct60half, pct60>> }

OnePage == << [name |-> "cs page", program |-> cs] >>
TwoPages == Append(OnePage, [name |-> "general", program |-> Null])

Texts == SUBSET ((Fields \X Values \X Values) \cup { <<"cs page", Null, Null>>, <<"general", Null, Null>> })

\* Every draft a check can come up with: the program always has a rule here.
Found ==
  LET Row(p, page, text) ==
        [ program |-> p, scraped |-> page, summary |-> text,
          status |-> "pending", created_rule |-> 0 ] IN
  { d \in { Row(cs, page, FieldDiffs(page, demands)) :
              page \in Contents, demands \in [Fields -> Values \ {Blank}] } : d.summary # {} }
  \cup { Row(Null, page, {<<"general", Null, Null>>}) : page \in Contents }
===============================================================================
