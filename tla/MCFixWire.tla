------------------------------ MODULE MCFixWire ------------------------------
(* FixWire for TLC: a message of one field, and one whose fields hold the  *)
(* texts the framer looks for ("8=" in tag 38, "9=" in tag 39) and whose   *)
(* BodyLength has two digits.                                              *)
EXTENDS FixWire

MCMessages == {<< <<35, <<65>>>> >>,
               << <<35, <<56>>>>, <<38, <<49>>>>, <<39, <<50>>>> >>}
=============================================================================
