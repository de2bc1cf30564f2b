------------------------------ MODULE MCVisit -------------------------------
(* Small visits for TLC.  kh hosts, kg is a guest's identity key and kd a   *)
(* second device of that guest.                                            *)
EXTENDS SharedVisit

CONSTANTS kh, kg, kd

Keys == {kh, kg, kd}

\* The host lists a guest with or without the second device.
GuestDevices == { {kg}, {kg, kd} }
GuestOnly == { {kg} }

\* A well-formed event of this visit or of another one.
Shapes == [form : {"valid"}, visit : Visit]
NoShapes == {}
HostAndGuest == {kh, kg}

NoWindows == {}

\* A grant that is over at time 1.
ShortWindow == { [notBefore |-> 0, notAfter |-> 1] }
=============================================================================
