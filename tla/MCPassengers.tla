---------------------------- MODULE MCPassengers ----------------------------
EXTENDS Passengers

Wordings == [tagged : BOOLEAN, stamped : BOOLEAN] \ {[tagged |-> TRUE, stamped |-> TRUE]}
Parties  == {{"a", "b"}, {"a", "c"}}
=============================================================================
