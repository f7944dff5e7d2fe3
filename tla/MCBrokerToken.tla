--------------------------- MODULE MCBrokerToken ----------------------------
(* TLC instance of BrokerToken. *)
EXTENDS BrokerToken
=============================================================================
