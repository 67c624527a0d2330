--------------------------- MODULE MCKeyRequests ---------------------------
(***************************************************************************)
(* One client, one session, two types of attributes of which the user's   *)
(* app has one value each; a session asks for one or both of them, with or *)
(* without a value, or with a value the app does not have.                 *)
(***************************************************************************)
EXTENDS KeyRequests

MCWallet == [t \in AttrTypes |-> "mine"]

Asks(t, v) == [t |-> t, v |-> v]

MCCons == {{Asks("name", NoValue)},
           {Asks("name", "mine"), Asks("number", "mine")},
           {Asks("name", "other")}}

MCSignIds == {{Asks("name", NoValue)}, {Asks("number", "mine")}}

MCValidities == {NoValue, 0, 2, 3}
=============================================================================
