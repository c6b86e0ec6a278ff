---------------------------- MODULE MCConnection ----------------------------
(***************************************************************************)
(* Model-checking module of Connection: bounds per endpoint, and the       *)
(* refinement mappings to BytePipe, one per direction.                     *)
(***************************************************************************)
EXTENDS Connection

CONSTANTS
    HostWrites, DeviceWrites,   \* bounds on the messages written
    HostTicks                   \* bound on the timer ticks of the host

MCMaxWrites == [e \in Node |-> IF e = "Host" THEN HostWrites ELSE DeviceWrites]
MCMaxTicks  == [e \in Node |-> IF e = "Host" THEN HostTicks ELSE 0]

ToDevice == INSTANCE BytePipe WITH accepted <- written["Host"], delivered <- got["Device"]
ToHost   == INSTANCE BytePipe WITH accepted <- written["Device"], delivered <- got["Host"]

\* Either direction is a pipe of messages: what one user receives, from read,
\* with an error or from close, is what the other one wrote, in order and each
\* message once ("this message will be sent as a single Packet", lib.rs).
ImplementsPipes == ToDevice!Spec /\ ToHost!Spec
=============================================================================
