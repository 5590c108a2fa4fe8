-------------------------- MODULE MCCompactionPlan --------------------------
(* The instance of CompactionPlan for TLC: two services, two partitions and *)
(* two hours; partition 0 has a gap, a batch that spans hours, one with an  *)
(* event twice, another that spans services, and an event that is too large *)
(* for a file by itself.                                                    *)
EXTENDS CompactionPlan

E(svc, part, off, ts, size) ==
    [svc |-> svc, part |-> part, off |-> off, ts |-> ts, size |-> size]

a0 == E("a", 0, 0, 1, 1)
a1 == E("a", 0, 1, 2, 1)
b2 == E("b", 0, 2, 0, 1)
a4 == E("a", 0, 4, 1, 5)
a9 == E("a", 1, 9, 0, 1)

MCEvent == {a0, a1, b2, a4, a9}
MCBatches == {<<a0, a1>>, <<a1, a0, a1>>, <<a0, b2>>, <<a4>>, <<a9>>}

=============================================================================
