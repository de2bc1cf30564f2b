------------------------------ MODULE MCStore -------------------------------
(* A house that hosts a small visit: kh hosts, kg is a guest.              *)
EXTENDS HouseStore

CONSTANTS kh, kg

HostAndGuest == {kh, kg}
=============================================================================
