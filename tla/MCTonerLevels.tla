----------------------------- MODULE MCTonerLevels -----------------------------
EXTENDS TonerLevels

Once(faults) == [f \in Faults |-> IF f \in faults THEN 1 ELSE 0]

MCLimits == Once(Faults \ {"down"})
MCOnlyZero == Once({"zero"})
MCOnlyReset == Once({"resets"})
MCReasons == {"empty", "dirty", "auto"}
=============================================================================
