---------------------------- MODULE MCCoPipeline ----------------------------
(* Model values for CoPipeline: the README's example scaled down, take and  *)
(* group right behind the source and further away, a group that does not    *)
(* come out even, and a fork alone.                                         *)
EXTENDS CoPipeline

St(k, n) == [kind |-> k, n |-> n]

MCPipes == {
    <<St("take", 3), St("skip", 1), St("fork", 2), St("filter", 0), St("reduce", 0)>>,
    <<St("take", 1), St("func", 0)>>,
    <<St("filter", 0), St("take", 2)>>,
    <<St("group", 2), St("take", 1)>>,
    <<St("func", 0), St("group", 3)>>,
    <<St("skip", 2), St("group", 1), St("take", 1)>>,
    <<St("fork", 2), St("filter", 0)>>,
    <<St("reduce", 0)>>,
    <<>> }

MCSizes == {-1, 0, 1}
=============================================================================
