----------------------------- MODULE MCTimeSync -----------------------------
EXTENDS TimeSync

CONSTANTS a, b, c

MCTopics == {a, b, c}

(* One topic, two, the same one twice and none; limits from zero to two.   *)
MCSpecs ==
    [topics : {<<>>, <<a>>, <<a, a>>, <<a, b>>, <<a, b, c>>},
     max_slop : {0, 1},
     max_queue_size : 0 .. 2]

=============================================================================
