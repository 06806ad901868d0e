------------------------------- MODULE MCDumps -------------------------------
(* One card of every kind that the code tells apart, alone or before       *)
(* another, with and without addresses from the BIOS.  A megabyte is one   *)
(* dword, a block of a dump four.                                          *)
EXTENDS Dumps

ACard(vendor, id, boot, ram, programmed) ==
  [vendor |-> vendor, id |-> id, boot |-> boot, ram |-> ram, programmed |-> programmed]

NV1(p)  == ACard("SGS", 9, 65796, 2, p)
NV2     == ACard("NV", 16, 268567552, 3, TRUE)
NV3     == ACard("SGS-NV", 24, 196880, 2, TRUE)
NV3T    == ACard("SGS-NV", 25, 537067808, 32, TRUE)
NV4(p)  == ACard("NV", 32, 536887296, 3, p)
NV5     == ACard("NV", 44, 538984448, 3, TRUE)
NV6     == ACard("NV", 45, 538984448, 2, TRUE)
NV10(r) == ACard("NV", 256, 16777377, r, TRUE)
NV1F    == ACard("NV", 496, 16777377, 32, TRUE)
ViRGE   == ACard("S3", 22065, 0, 0, TRUE)
Alpine  == ACard("Cirrus", 184, 0, 0, TRUE)

SomeMachines == {{NV1(TRUE)}, {NV1(FALSE), ViRGE}, {NV2}, {NV3, NV3T}, {NV3T},
                 {Alpine, NV4(TRUE)}, {NV4(FALSE)}, {NV6, NV5}, {NV6}, {NV10(2)},
                 {NV1F}, {ViRGE}, {Alpine},
                 {ACard("Other", 16, 0, 0, TRUE)}}

SomeBoots == {0, 65796, 268567552, 196880, 537067808, 536887296, 538984448, 16777377}
SomeRams  == {0, 2, 3, 32}
SomeAreas == {<<16, 23>>, <<36, 47>>, <<52, 59>>}

=============================================================================
