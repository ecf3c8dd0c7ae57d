------------------------------- MODULE MCConn -------------------------------
(* One connection whose every reply leaves no room for another. *)
EXTENDS Conn

Get(n) == [kind |-> "get", req |-> 1, reply |-> n]
GetScript == {<<Get(2), Get(2), Get(2)>>}
=============================================================================
