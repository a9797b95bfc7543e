--------------------------- MODULE MCLimbMachine ---------------------------
(* Scaled moduli: 2^77 - 545, 2^54 - 9, and orders of the shape of n.      *)
EXTENDS LimbMachine

Fe10Factors == {27, 19, 59, 337, 577, 877, 1093, 1193, 22453}
Fe5Factors == {25, 173, 4057, 31033, 33083}
Order4 == <<3437, 1031>>
Order4Factors == {43, 14867, 19121, 23027}
Order8 == <<151, 81, 55, 54>>
Order8Factors == {13, 23833, 30389, 42611, 45979}
============================================================================
