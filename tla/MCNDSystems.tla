---------------------------- MODULE MCNDSystems ----------------------------
EXTENDS NDSystems

Sys(id, version, namespace, axes) ==
    [id |-> id, version |-> version, namespace |-> namespace, axes |-> axes]

\* Another version, another definition, a system that collides with its last axis, one
\* that only shares its first with that, and one in a namespace of its own.
MCCore == Sys("core", 1, "n", <<"time", "place">>)
MCSystems == {MCCore, Sys("core", 2, "n", <<"time">>), Sys("core", 1, "n", <<"time", "topic">>),
              Sys("b", 1, "n", <<"topic", "place">>), Sys("c", 1, "n", <<"topic">>),
              Sys("d", 1, "m", <<"time", "topic">>)}
MCPrimitives == [time |-> {"equal", "contains", "overlaps", "disjoint", "precedes"},
                 place |-> {"equal", "contains", "overlaps", "disjoint"}]
MCInterval == [time |-> TRUE, place |-> FALSE]
MCOntology == {[axis |-> "place", left |-> "eu", right |-> "de", relation |-> "contains"],
               [axis |-> "place", left |-> "de", right |-> "us", relation |-> "disjoint"]}
Ends == 1 .. 3 \union {None}
MCValues == [time |-> [from : Ends, to : Ends], place |-> {"eu", "de", "us"}]
=============================================================================
