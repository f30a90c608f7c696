------------------------------ MODULE MCSmtLib ------------------------------
(***************************************************************************)
(* SmtLib under TLC, with a hash function that never collides and with one *)
(* that does.                                                              *)
(***************************************************************************)
EXTENDS SmtLib

\* A hash that keeps everything it is given.
PerfectHash(node) == node

\* A hash with a few values only, so that nodes of either type collide with nodes
\* of either type.
NumberOf(hash) == IF hash = EmptyHash THEN 0 ELSE hash[1]

WeakHash(node) ==
    IF node.nodeType = "LEAF"
    THEN 1 + node.value + (IF node.index[0] THEN 2 ELSE 0)
                        + (IF node.index[1] THEN 3 ELSE 0)
    ELSE 1 + ((2 * NumberOf(node.childLeft) + 3 * NumberOf(node.childRight)) % 13)

=============================================================================
