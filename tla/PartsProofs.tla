---------------------------- MODULE PartsProofs -----------------------------
(***************************************************************************)
(* One run checks five modules at once (MCParts): what is proved of each   *)
(* of them holds of that run, because all it does is a behaviour of each.  *)
(***************************************************************************)
EXTENDS MCParts, EnvironmentProofs, PollProofs, RegistryPeersProofs, PasswordsProofs

\* A step of the run is a step of one module, or of none.
LEMMA OnePartMoves ==
  ASSUME [PartsNext]_partsVars
  PROVE  /\ [EnvironmentNext]_envVars
         /\ [StagingNext]_stagingVars
         /\ [WatchNext]_watchVars
         /\ [PeersNext]_peersVars
         /\ [PasswordsNext]_passwordVars
BY Zenon DEF PartsNext, partsVars

\* The run shows each module a behaviour of its own: requests that store settings
\* (update_app_environment.go:14, update_registry_environment.go:16), the polls of
\* a package and a build (poll_package.go:14, poll_build.go:15), the watch over a
\* start (monitor_application.go:11), the peers of a registry
\* (create_registry_server_instance.go:218-314), and the passwords of Binds
\* (utilities.go:22).
THEOREM PartsAreBehaviours ==
  PartsSpec => EnvironmentSpec /\ StagingSpec /\ WatchSpec /\ PeersSpec /\ PasswordsSpec
<1>1. PartsInit => /\ EnvironmentInit /\ StagingInit /\ WatchInit
                   /\ PeersInit /\ PasswordsInit
  BY DEF PartsInit
<1>2. QED
  BY <1>1, OnePartMoves, PTL
    DEF PartsSpec, EnvironmentSpec, StagingSpec, WatchSpec, PeersSpec, PasswordsSpec

\* So every module keeps to its type in the run.
THEOREM PartsTypeCorrect == PartsSpec => []PartsTypeOK
<1>1. EnvironmentInv /\ StagingInv /\ WatchInv /\ PeersInv /\ PasswordsInv => PartsTypeOK
  BY DEF EnvironmentInv, StagingInv, WatchInv, PeersInv, PasswordsInv, PartsTypeOK
<1>2. QED
  BY <1>1, PartsAreBehaviours, EnvironmentInvariance, StagingInvariance, WatchInvariance,
    PeersInvariance, PasswordsInvariance, PTL
=============================================================================
