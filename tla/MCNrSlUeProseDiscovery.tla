------------------------ MODULE MCNrSlUeProseDiscovery ------------------------
(* Small instances of NrSlUeProseDiscovery for TLC. *)
EXTENDS NrSlUeProseDiscovery, TLC

CONSTANTS u1, u2, g

App == <<"app", 1>>
\* With CodeModulus = 4 the relay code 5 arrives as 1.
Relay == <<"relay", 1>>
LongRelay == <<"relay", 5>>
Services == {App, Relay, LongRelay}

Starts(services, roles) == {<<s, r, g>> : s \in services, r \in roles}

\* u1 changes its role once, its partner u2 stays what it is or stops.
Partners ==
     u1 :> (Starts({App}, AppRoles)
              \cup Starts({Relay, LongRelay}, {"RelayModelA", "RelayModelB"}))
  @@ u2 :> (Starts({App}, {"Monitoring", "Discoverer", "Discoveree"})
              \cup Starts({Relay}, {"RemoteModelA", "RemoteModelB"}))
TwoThenOne == u1 :> 2 @@ u2 :> 1
=============================================================================
