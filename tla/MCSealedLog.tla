---------------------------- MODULE MCSealedLog ----------------------------
(* Instances of the sealed log for model checking. *)
EXTENDS SealedLog

CONSTANTS p1, p2, x, y

WriteBesideSeal == [p \in Procs |-> IF p = p1 THEN {"append", "purge", "unseal", "construct"}
                                            ELSE {"seal"}]
EitherSeals     == [p \in Procs |-> {"append", "seal"} \cup
                                    IF p = p1 THEN {} ELSE {"purge", "unseal", "construct"}]

\* No guard and no other variable depends on what the anchor files hold, and the
\* properties checked here do not either: states that differ in it alone are one.
AnchorAside ==
    <<dir, path, content, inodes, shard, holder, sealed.there, sealed.lines,
      [p \in Procs |-> [call[p] EXCEPT !.heads = NoHeads]],
      cache, used, acked, erased, crashes>>
=============================================================================
