----------------------------- MODULE MCNetwork -----------------------------
(***************************************************************************)
(* What hosts tell each other, and what they remember of it: the endpoints *)
(* they advertise, the datagrams of their node tables, the frames and the  *)
(* capabilities of a session, and the reputation of nodes.  They share no  *)
(* state: each behaviour is of one of them, the subject.                   *)
(***************************************************************************)
EXTENDS Datagrams, FrameCoder, Endpoints, Capabilities, Reputation, TLC

VARIABLE subject

all == <<subject, endpointVars, tableVars, coderVars, capVars, reputationVars>>

\* One host with a public address beside a private one, and one with a private
\* address, behind a router; ports are few, so that both ask for the same.
Hosts == {"x", "y"}
Interfaces == [x |-> {<<8, 8, 8, 8>>, <<10, 0, 0, 1>>}, y |-> {<<172, 31, 0, 2>>}]
RouterAddress == <<9, 9, 9, 9>>

\* a is told of b and b of c; a was started with a private address; o has version
\* 3.  Two neighbours need two datagrams.
Address == [a |-> "public a", b |-> "public b", c |-> "public c", o |-> "public o"]
SeenAt == [n \in DOMAIN Address |-> [address |-> Address[n], udp |-> IF n = "a" THEN 7 ELSE 3]]
StartedAt == [n \in DOMAIN Address |-> [address |-> IF n = "a" THEN "private" ELSE Address[n],
                                        udp |-> IF n = "a" THEN 1 ELSE 3, tcp |-> 4]]

Tables == DOMAIN Address
Versions == [n \in Tables |-> IF n = "o" THEN 3 ELSE 4]
PublicAddresses == {Address[n] : n \in Tables}
ToldOf == {<<"a", "b">>, <<"b", "c">>, <<"o", "b">>}

\* Headers of one number and of three.
Headers == {<<1>>, <<1, 2, 40>>}

\* Two versions of one capability; the types of three fill more than half of a
\* byte's values.
AllCaps == <<[name |-> "a", version |-> 1, count |-> 60], [name |-> "a", version |-> 2, count |-> 72],
             [name |-> "b", version |-> 1, count |-> 52], [name |-> "c", version |-> 1, count |-> 2]>>
Offers == {{AllCaps[i] : i \in s} : s \in SUBSET DOMAIN AllCaps}

ASSUME TableConstants == DatagramConstants
ASSUME CoderConstants == FrameCoderConstants
ASSUME CapConstants == CapabilityConstants
ASSUME RouterConstants == EndpointConstants

-----------------------------------------------------------------------------
Is(part) == subject = part

\* Those that are not the subject start in one way.
MCInit == /\ subject \in {"endpoints", "datagrams", "frames", "capabilities", "reputation"}
          /\ EndpointsInit /\ TableInit /\ CoderInit /\ CapInit /\ ReputationInit
          /\ Is("capabilities") \/ caps = [h \in Hosts |-> {}]

MCNext == \/ /\ Is("endpoints") /\ EndpointsNext
             /\ UNCHANGED <<subject, tableVars, coderVars, capVars, reputationVars>>
          \/ /\ Is("datagrams") /\ TableNext
             /\ UNCHANGED <<subject, endpointVars, coderVars, capVars, reputationVars>>
          \/ /\ Is("frames") /\ CoderNext
             /\ UNCHANGED <<subject, endpointVars, tableVars, capVars, reputationVars>>
          \/ /\ Is("capabilities") /\ CapNext
             /\ UNCHANGED <<subject, endpointVars, tableVars, coderVars, reputationVars>>
          \/ /\ Is("reputation") /\ ReputationNext
             /\ UNCHANGED <<subject, endpointVars, tableVars, coderVars, capVars>>

MCSpec == MCInit /\ [][MCNext]_all
=============================================================================
