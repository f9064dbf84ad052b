------------------------------ MODULE TextValues ------------------------------
(***************************************************************************)
(* The texts the filter and the rules look at.  A text is the sequence of  *)
(* its words; a word is a string nobody takes apart, so what Python's      *)
(* string methods say of two words is given as a relation.                 *)
(***************************************************************************)
EXTENDS Integers, Sequences, SequencesExt

CONSTANTS
    Related,   \* "contains", "startswith", "endswith", "re" |-> {<<token, word>>}
    Basename   \* path |-> its last component

\* Path(path).name, of the empty text too.
BasenameOf(path) == IF path \in DOMAIN Basename THEN Basename[path] ELSE path

\* What op says of a word; every string contains, starts and ends with itself.
Holds(op, token, word) == <<token, word>> \in Related[op] \/ (op # "re" /\ token = word)
=============================================================================
