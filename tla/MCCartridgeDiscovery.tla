------------------------- MODULE MCCartridgeDiscovery -------------------------
EXTENDS CartridgeDiscovery

MCSerial == [p \in Printers |-> IF p = "p1" THEN {"black"} ELSE {}]
=============================================================================
