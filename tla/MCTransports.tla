---------------------------- MODULE MCTransports ----------------------------
(* Instances of AdbTransports: device addresses for the transports.          *)
EXTENDS AdbTransports

CONSTANTS t1, t2, addr1

\* Two transports for one address: a second connect to the same device.
OneSerial == [t \in Transports |-> addr1]

\* Every transport has an address of its own.
OwnSerials == [t \in Transports |-> t]

=============================================================================
