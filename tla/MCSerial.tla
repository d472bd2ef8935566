------------------------------ MODULE MCSerial ------------------------------
(***************************************************************************)
(* Instances of Serial.                                                    *)
(***************************************************************************)
EXTENDS Serial

Load(puts, arrivals) == [puts |-> puts, arrivals |-> arrivals]

FewLoads == {Load(5, 3), Load(1, 5)}
Sending == {Load(4, 0)}
=============================================================================
