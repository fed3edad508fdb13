-------------------------------- MODULE Services --------------------------------
(***************************************************************************)
(* The small services of one process that neither call each other nor      *)
(* share state: each is a struct behind its own lock, owned by the         *)
(* application that embeds it.  A behaviour is one of one of them, chosen  *)
(* at the start, while the others rest: as they have no variable but the   *)
(* clock in common, what one does depends on its own steps alone, and      *)
(* interleaving them with the steps of the others would show nothing more. *)
(***************************************************************************)
EXTENDS CircuitBreaker, StateBackend, Credentials, RiskScore, Namespaces,
        WebSocket, RemoteStore

VARIABLE active  \* the service that acts

Service == {"breaker", "backend", "credentials", "risk", "namespaces", "socket",
            "remote"}

servicesVars == <<active, now, vars, backendVars, credentialVars, riskVars, namespaceVars,
                  socketVars, remoteVars>>

ServicesInit ==
  /\ active \in Service
  /\ ClockInit /\ Init /\ BackendInit /\ CredentialInit /\ RiskInit
  /\ NamespaceInit /\ SocketInit /\ RemoteInit

\* The variables of the services other than s keep their values.
RestBut(s) ==
  /\ UNCHANGED active
  /\ s # "breaker" => UNCHANGED vars
  /\ s # "backend" => UNCHANGED backendVars
  /\ s # "credentials" => UNCHANGED credentialVars
  /\ s # "risk" => UNCHANGED riskVars
  /\ s # "namespaces" => UNCHANGED namespaceVars
  /\ s # "socket" => UNCHANGED socketVars
  /\ s # "remote" => UNCHANGED remoteVars
  /\ s \notin {"backend", "credentials", "risk"} => UNCHANGED now

Step(s) == active = s /\ RestBut(s)

ServicesNext ==
  \/ Next           /\ Step("breaker")
  \/ BackendNext    /\ Step("backend")
  \/ CredentialNext /\ Step("credentials")
  \/ RiskNext       /\ Step("risk")
  \/ NamespaceNext  /\ Step("namespaces")
  \/ SocketNext     /\ Step("socket")
  \/ RemoteNext     /\ Step("remote")

\* Time passes for the breaker, as in FairSpec.
ServicesSpec == /\ ServicesInit /\ [][ServicesNext]_servicesVars
                /\ WF_servicesVars(Tick /\ Step("breaker"))
=================================================================================
