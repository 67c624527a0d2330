---------------------------- MODULE MCKeyPolling ----------------------------
(***************************************************************************)
(* One or two clients with a session each, that want a decryption key for  *)
(* one attribute or two, one of them with a value; or a public signing     *)
(* key, with or without a private one.                                     *)
(***************************************************************************)
EXTENDS KeyPolling

MCWallet == [t \in AttrTypes |-> "mine"]

Asks(t, v) == [t |-> t, v |-> v]

MCCons == {{Asks("name", NoValue), Asks("number", "mine")}}

MCSignIds == {{Asks("name", NoValue)}, {Asks("number", NoValue)}}
=============================================================================
