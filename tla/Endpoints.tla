------------------------------ MODULE Endpoints ------------------------------
(***************************************************************************)
(* The TCP endpoint that a host listens on and the one it tells others:    *)
(* Network::tcp4Listen, Host::determinePublic, Network::traverseNAT and    *)
(* UPnP, for hosts behind one router, whose table of redirections outlives *)
(* the hosts' runs.                                                        *)
(*                                                                         *)
(* An address is the tuple of its 4 or 16 bytes.  The operating system may *)
(* refuse a port and the router a request at any time.                     *)
(***************************************************************************)
EXTENDS Naturals, Sequences

CONSTANTS Machine,    \* the hosts
          Interface,  \* the addresses of each
          External,   \* the router's address outside
          ListenPort, \* ports that preferences name, 0 for any
          RandomPort, \* other ports
          DefaultPort,\* c_defaultListenPort
          Picks       \* whether the router chooses external ports itself

AnyAddress == <<0, 0, 0, 0>>

isPrivateAddress(a) ==
    IF Len(a) = 4 THEN \/ a[1] \in {10, 127}
                       \/ a[1] = 172 /\ a[2] \in 16 .. 31
                       \/ a[1] = 192 /\ a[2] = 168
                  ELSE \/ a[1] = 253 /\ a[2] = 0
                       \/ (\A i \in 1 .. 15 : a[i] = 0) /\ a[16] \in {0, 1}

isLocalHostAddress(a) ==
    \/ a \in {<<127, 0, 0, 1>>, AnyAddress}
    \/ Len(a) = 16 /\ (\A i \in 1 .. 15 : a[i] = 0) /\ a[16] \in {0, 1}

isPublicAddress(a) == ~(isPrivateAddress(a) \/ isLocalHostAddress(a))

\* getInterfaceAddresses
Addresses(n) == {a \in Interface[n] : ~isLocalHostAddress(a)}

\* Machines have only addresses like 127.0.0.1 in common.
EndpointConstants ==
    \A m, n \in Machine : m # n => \A a \in Interface[m] \cap Interface[n] : isLocalHostAddress(a)

\* NetworkPreferences; its constructor refuses a public address that is not.
\* A listenPort of 0 leaves the choice to tcp4Listen.
Preferences(n) == [listen : Addresses(n) \cup {AnyAddress},
                   public : {a \in Interface[n] \cup {External} : isPublicAddress(a)} \cup {AnyAddress},
                   port : ListenPort, traverseNAT : BOOLEAN]

VARIABLES router,   \* redirections: from external ports to addresses and ports
          prefs,    \* m_netPrefs
          acceptor, \* the endpoint of m_tcp4Acceptor, <<>> while it is closed
          public    \* m_tcpPublic

endpointVars == <<router, prefs, acceptor, public>>

Endpoint(address, port) == [address |-> address, port |-> port]
Nowhere == Endpoint(AnyAddress, 0)

EndpointsInit == /\ router = <<>>
                 /\ prefs \in [Machine -> {[listen |-> AnyAddress, public |-> AnyAddress, port |-> 0, traverseNAT |-> TRUE]}]
                 /\ acceptor = [n \in Machine |-> <<>>]
                 /\ public = [n \in Machine |-> Nowhere]

\* Network::tcp4Listen: a port that is asked for is the only one tried;
\* otherwise the default and then any.
Listened(pref) ==
    {Endpoint(pref.listen, p) : p \in IF pref.port = 0 THEN {DefaultPort} \cup RandomPort ELSE {pref.port}}

\* AddPortMapping: the router redirects no port of another client.
Mapped(table, ext, to) ==
    IF ext \notin DOMAIN table \/ (ext \in DOMAIN table /\ table[ext].address = to.address)
    THEN {[e \in DOMAIN table \cup {ext} |-> IF e = ext THEN to ELSE table[e]]} ELSE {}

Unmapped(table, ext) == [e \in DOMAIN table \ {ext} |-> table[e]]

\* UPnP::addRedirect, with what ~UPnP does when traverseNAT returns: what the
\* router then has, and the result.  Only a port that the router has chosen,
\* or what the table has first with this program's name, is in m_reg.
addRedirect(to) ==
    LET mapped(ext) == Mapped(router, ext, to)
        same == {[table |-> t, port |-> to.port] : t \in mapped(to.port)}
        other == UNION {{[table |-> t, port |-> ext] : t \in mapped(ext)} : ext \in RandomPort}
        tables == UNION {mapped(ext) : ext \in IF Picks THEN RandomPort ELSE {}}
        picked == UNION {{[table |-> Unmapped(t, found), port |-> found] : found \in DOMAIN t} : t \in tables}
    IN  same \cup other \cup picked \cup {[table |-> router, port |-> 0]}

\* Network::traverseNAT over the addresses: a redirection for the first that
\* gets one, which may be any.  Without a UPnP device there is none.
traverseNAT(addresses, port) ==
    LET private == {a \in addresses : Len(a) = 4 /\ isPrivateAddress(a)}
        tries == UNION {addRedirect(Endpoint(a, port)) : a \in private}
    IN  {[table |-> r.table,
          ep |-> IF r.port # 0 /\ External # AnyAddress /\ ~isPrivateAddress(External)
                 THEN Endpoint(External, r.port) ELSE Nowhere] : r \in tries}
        \cup {[table |-> router, ep |-> Nowhere]}

\* Mutant: with the port that the preferences name and not the acceptor's.
DeterminedAsAsked(n, pref, port) ==
    LET lset == pref.listen # AnyAddress
        pset == pref.public # AnyAddress
    IN  IF pref.traverseNAT /\ lset /\ isPublicAddress(pref.listen)
        THEN {[table |-> router, ep |-> Endpoint(pref.listen, pref.port)]}
        ELSE IF pref.traverseNAT /\ ~(~lset /\ pset /\ pref.public \in Addresses(n))
        THEN {[table |-> r.table, ep |-> IF pset THEN Endpoint(pref.public, r.ep.port) ELSE r.ep] :
                r \in traverseNAT(IF lset THEN {pref.listen} ELSE Addresses(n), pref.port)}
        ELSE {[table |-> router, ep |-> Endpoint(pref.public, pref.port)]}

\* Host::determinePublic: the router's table after it, and m_tcpPublic.
Determined(n, pref, port) ==
    LET ifAddresses == Addresses(n)
        lset == pref.listen # AnyAddress
        pset == pref.public # AnyAddress
        listenIsPublic == lset /\ isPublicAddress(pref.listen)
        publicIsHost == ~lset /\ pset /\ pref.public \in ifAddresses
        behind == traverseNAT(IF lset THEN {pref.listen} ELSE ifAddresses, port)
    IN  CASE ~pref.traverseNAT -> {[table |-> router, ep |-> Endpoint(pref.public, port)]}
          [] pref.traverseNAT /\ listenIsPublic -> {[table |-> router, ep |-> Endpoint(pref.listen, port)]}
          [] pref.traverseNAT /\ publicIsHost -> {[table |-> router, ep |-> Endpoint(pref.public, port)]}
          [] OTHER -> {[r EXCEPT !.ep = IF pset THEN Endpoint(pref.public, @.port) ELSE @] : r \in behind}

\* Host::startedWorking, when the acceptor could be opened.
StartedWorking(n, pref) ==
    /\ acceptor[n] = <<>>
    /\ \E ep \in Listened(pref) :
          /\ acceptor' = [acceptor EXCEPT ![n] = <<ep>>]
          /\ \E d \in Determined(n, pref, ep.port) :
                router' = d.table /\ public' = [public EXCEPT ![n] = d.ep]
    /\ prefs' = [prefs EXCEPT ![n] = pref]

\* Host::doneWorking; no redirection is taken back.
DoneWorking(n) == /\ acceptor[n] # <<>>
                  /\ acceptor' = [acceptor EXCEPT ![n] = <<>>]
                  /\ UNCHANGED <<router, prefs, public>>

EndpointsNext == \E n \in Machine : DoneWorking(n) \/ \E pref \in Preferences(n) : StartedWorking(n, pref)

EndpointsSpec == EndpointsInit /\ [][EndpointsNext]_endpointVars

---------------------------------------------------------------------------
\* Where a connection to ep arrives, on the way through the router or not.
Arrives(ep, n, at) ==
    /\ at.address \in Interface[n]
    /\ \/ ep = at /\ isPublicAddress(at.address)
       \/ ep.address = External /\ ep.port \in DOMAIN router /\ router[ep.port] = at

\* A host is reached at the endpoint that it tells others, for every order in
\* which the hosts behind a router start, stop and start with other ports,
\* and whatever redirections they left there, except where the user names an
\* address which is not the host's, and where the router chooses the port
\* (~UPnP takes such a redirection back).
PublicReaches ==
    \A n \in Machine :
       /\ acceptor[n] # <<>> /\ public[n].address # AnyAddress /\ ~Picks
       /\ prefs[n].public # AnyAddress => /\ prefs[n].listen = AnyAddress
                                           /\ prefs[n].public \in Interface[n]
       => \E a \in Interface[n] :
             /\ Arrives(public[n], n, Endpoint(a, acceptor[n][1].port))
             /\ acceptor[n][1].address \in {AnyAddress, a}

\* Host.cpp:349: "set m_tcpPublic := listenIP (if public) > public > upnp >
\* unspecified address."
ListenAddressFirst ==
    \A n \in Machine : acceptor[n] # <<>> /\ isPublicAddress(prefs[n].listen) => public[n].address = prefs[n].listen

\* An address is told with the port that the acceptor, or a redirection, has.
ToldWithPort == \A n \in Machine : public[n].address # AnyAddress => public[n].port # 0
=============================================================================
