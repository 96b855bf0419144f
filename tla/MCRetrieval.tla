----------------------------- MODULE MCRetrieval -----------------------------
(* Model-checking instance of Retrieval. *)
EXTENDS Retrieval

List(items) == [items |-> items, weight |-> 1]

\* What a dense and a lexical retriever answer: agreement, disagreement, one
\* retriever alone, a single hit, nothing.
Queries == {<<List(q[1]), List(q[2])>> :
              q \in {<<<<1, 2>>, <<2, 3>>>>, <<<<4, 2, 1>>, <<1>>>>, <<<<3, 5>>, << >>>>,
                     <<<<2, 4>>, <<4, 2>>>>, <<<<5>>, <<5>>>>, <<<< >>, << >>>>}}

\* Every corpus of up to MaxCalls calls.
MaxCalls == 4
Graphs == UNION {kSubset(c, {p \in Nodes \X Nodes : p[1] # p[2]}) : c \in 0..MaxCalls}
=============================================================================
