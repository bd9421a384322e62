--------------------------- MODULE MCMediaDecoder ---------------------------
(* Constants for model checking MediaDecoder.                              *)
EXTENDS MediaDecoder

File(n, d, c) == [packets |-> n, delayed |-> d, corrupt |-> c]
Long == File(6, FALSE, 0)

\* One file is shorter than the others, or corrupt, so that no two threads set their bits
\* of eof at the same time: one may undo the other, and a thread whose bit is lost waits for
\* a command that never comes.
MCFileSets ==
    {[m \in Media |-> IF m = short THEN f ELSE Long] :
        short \in Media, f \in {File(3, FALSE, 0), File(3, TRUE, 0), File(4, FALSE, 3),
                                File(4, TRUE, 4)}}

\* The first packet of the second file is corrupt.
MCCorrupt == {[m \in Media |-> IF m = 2 THEN File(3, FALSE, 1) ELSE Long]}
=============================================================================
