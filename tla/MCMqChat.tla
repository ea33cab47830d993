------------------------------ MODULE MCMqChat ------------------------------
(* MqChat with two users who may each start the client twice.              *)
EXTENDS MqChat

CONSTANTS u1, u2

MCUsers == {u1, u2}
=============================================================================
