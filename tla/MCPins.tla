------------------------------- MODULE MCPins -------------------------------
(***************************************************************************)
(* The chips the pins of the library are looked at on: one of each family, *)
(* and the smallest and the largest of family 8.                           *)
(***************************************************************************)
EXTENDS AdcComp

MCChip(family, series, pins, pca, adc, noChannel3, lacks, master) ==
    [family |-> family, series |-> series, pins |-> pins, pca |-> pca, adc |-> adc, noChannel3 |-> noChannel3,
     lacks |-> lacks, master |-> master]

MCPinChips ==
    {MCChip(8, "A", 64, 4, 15, FALSE, {}, TRUE), MCChip(8, "G", 8, 3, 6, FALSE, {}, FALSE),
     MCChip(8, "H", 20, 0, 12, TRUE, {12}, TRUE), MCChip(15, "W", 44, 3, 8, FALSE, {}, TRUE),
     MCChip(12, "C", 44, 2, 8, FALSE, {}, TRUE)}

\* From well below the highest sample rate to far above it
MCAdcClocks == {[freq |-> f, cycles |-> 29, max |-> 5] : f \in {240, 350, 480, 700, 6000}}

PinsSpec == PinsInit /\ AdcInit /\ [][PinsNext /\ UNCHANGED adcVars]_<<pinVars, adcVars>>
=============================================================================
