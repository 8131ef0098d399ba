---------------------- MODULE MCBleAdvertisingArbiter ----------------------
(* Small instances of BleAdvertisingArbiter for TLC: three requests, two of *)
(* them equally urgent.                                                     *)
EXTENDS BleAdvertisingArbiter

CONSTANTS r1, r2, r3

MCPriority == [r \in Requests |-> IF r = r1 THEN 0 ELSE 1]
=============================================================================
