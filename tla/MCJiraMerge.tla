---------------------------- MODULE MCJiraMerge ----------------------------
(***************************************************************************)
(* Three fields: a text, which Jira trims and never refuses; a required    *)
(* choice, which Jira does not let go empty and one of whose values the    *)
(* schema does not know; and a set, of which one item says what every item *)
(* does.                                                                   *)
(***************************************************************************)
EXTENDS JiraMergeInv

CONSTANTS item1, item2

MCItem == {item1, item2}
Same == [v \in Value |-> v]
Text == [values |-> {Empty, {item1}, {item1, item2}}, multi |-> FALSE,
         norm |-> [Same EXCEPT ![{item1, item2}] = {item1}], writable |-> Value, shape |-> Value]
Choice == [values |-> {Empty, {item1}, {item2}}, multi |-> FALSE,
           norm |-> Same, writable |-> Value \ {Empty}, shape |-> Value \ {{item2}}]
Labels == [values |-> {Empty, {item1}}, multi |-> TRUE,
           norm |-> Same, writable |-> Value, shape |-> Value]
MCFields == {Text, Choice, Labels}
=============================================================================
