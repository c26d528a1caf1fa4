------------------------------ MODULE MCBalancer ------------------------------
EXTENDS Balancer

\* One address, the same and another, and an answer with none.
MCAddressLists == {<<"a">>, <<"a", "b">>, <<>>}
==============================================================================
