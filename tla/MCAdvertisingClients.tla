----------------------- MODULE MCAdvertisingClients -----------------------
(* The two services of the application; DFU is the more urgent one. *)
EXTENDS AdvertisingClients

MCPriority == [r \in Requests |-> IF r = DfuSmp THEN 0 ELSE 1]
=============================================================================
