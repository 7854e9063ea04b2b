-------------------------- MODULE MCRollingRestart --------------------------
(* Instances of RollingRestart for TLC: two racks, of two pods and of one. *)
EXTENDS RollingRestart

CONSTANTS p1, p2, p3

MCPodsOf == << <<p2, p1>>, <<p3>> >>

Base == [batch |-> 1, ignorable |-> 0, dynamic |-> FALSE, override |-> FALSE, checkpoint |-> FALSE,
         edits |-> <<>>, fails |-> 0, losses |-> 0, evictions |-> 0, interrupts |-> 0]

Warm(id, ps) == [id |-> id, kind |-> "WarmRestart", pods |-> ps]
Cold(id, ps) == [id |-> id, kind |-> "PodRestart", pods |-> ps]
S == FirstSpec

MCScenarios == {
    \* a new pod spec and a volume removed, and put back
    [Base EXCEPT !.edits = <<[S EXCEPT !.w = 1, !.s = 1], [S EXCEPT !.w = 1]>>,
                 !.interrupts = 1],
    \* a volume removed while pods fail and two may be passed over
    [Base EXCEPT !.edits = <<[S EXCEPT !.s = 1]>>, !.ignorable = 1, !.fails = 2],
    \* an upgrade overtaken by a change of the configuration and an eviction
    [Base EXCEPT !.edits = <<[S EXCEPT !.image = 1], [S EXCEPT !.image = 1, !.s = 1]>>, !.evictions = 1,
                 !.override = TRUE, !.interrupts = 1],
    \* index checkpoints and an operation on every pod
    [Base EXCEPT !.edits = <<[S EXCEPT !.op = Cold(1, {})]>>, !.checkpoint = TRUE, !.override = TRUE,
                 !.interrupts = 1, !.losses = 1],
    \* a warm restart of one rack in one batch, with a new pod spec and evictions
    [Base EXCEPT !.edits = <<[S EXCEPT !.op = Warm(1, {p1, p2})], [S EXCEPT !.w = 1, !.op = Warm(1, {p1, p2})]>>,
                 !.batch = 2, !.evictions = 1, !.interrupts = 1],
    \* one operation after another, the second for the other rack and with a new configuration
    [Base EXCEPT !.edits = <<[S EXCEPT !.op = Warm(1, {p1})], [S EXCEPT !.s = 1, !.op = Cold(2, {p3})]>>,
                 !.interrupts = 1, !.fails = 1],
    \* a parameter set at run time, and back
    [Base EXCEPT !.edits = <<[S EXCEPT !.d = 1], [S EXCEPT !.s = 1]>>, !.dynamic = TRUE,
                 !.fails = 1, !.interrupts = 1]
    }
=============================================================================
