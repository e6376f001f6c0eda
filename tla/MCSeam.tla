--------------------------------- MODULE MCSeam ---------------------------------
EXTENDS Seam
CONSTANTS a, b
AllSetups == {<<"pipe", "record">>, <<"pipe", "enforce">>, <<"http", "none">>,
              <<"http", "enforce">>, <<"call", "record">>, <<"call", "enforce">>}
\* A read, a purchase of which the mandate allows one, and a forbidden call of no valid id.
AllKinds == {[id |-> a, act |-> "free", cost |-> 0], [id |-> b, act |-> "spend", cost |-> 2],
             [id |-> BadId, act |-> "forbidden", cost |-> 0]}
PipesRestart == [pipe |-> 2, http |-> 1, call |-> 1]
=================================================================================
