--------------------------- MODULE MCGenomeImport ---------------------------
(***************************************************************************)
(* Values for the constants of GenomeImport.                               *)
(***************************************************************************)
EXTENDS GenomeImport

CONSTANTS c1, c2, c3

Scored(c) == [code |-> c, scored |-> TRUE]
Plain(c) == [code |-> c, scored |-> FALSE]

\* Opposite orders of the same codes, with and without scores, a genome that
\* shares one code with them, and one that repeats a code.
MixedGenomes == {<<Plain(c1), Plain(c2)>>, <<Plain(c2), Plain(c1)>>,
                 <<Scored(c1), Plain(c2), Plain(c3)>>, <<Plain(c3), Plain(c3)>>}

\* The first unit of one genome is scored, its second is the other's only one.
SharedCode == {<<Scored(c1), Plain(c2)>>, <<Plain(c2)>>}
=============================================================================
