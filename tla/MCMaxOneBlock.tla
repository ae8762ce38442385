--------------------------- MODULE MCMaxOneBlock ---------------------------
\* A warp of two in a group of eight; one greatest value, or two, anywhere.
EXTENDS MaxOneBlock

OneOrTwo == {[i \in Locals |-> IF i \in {p, q} THEN 2 ELSE 1] : p, q \in Locals}
==============================================================================
