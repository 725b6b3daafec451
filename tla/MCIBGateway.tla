------------------------------ MODULE MCIBGateway ------------------------------
(* Instances of IBGateway: the sides entered on are integers. *)
EXTENDS IBGateway

BothSides == {1, -1}
BuyOnly == {1}
=============================================================================
