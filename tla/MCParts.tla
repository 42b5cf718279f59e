------------------------------ MODULE MCParts -------------------------------
(***************************************************************************)
(* Instances for TLC of the modules that look closer at what Service has   *)
(* as one step or leaves out.  They share no variable, so one run checks   *)
(* them all: in a behaviour one of them moves, and the others stay as they *)
(* were at the start.                                                      *)
(***************************************************************************)
EXTENDS Environment, Staging, StartupWatch, RegistryPeers, Passwords

CONSTANTS w1, w2, w3, GitUri, VaultHost

Params == [w \in Writers |->
  CASE w = w1 -> {GitUri, HostKey}
    [] w = w2 -> {VaultHost, HostKey}
    [] OTHER  -> {GitUri}]

Switches == [k \in Parameters |->
  CASE k = GitUri    -> "git"
    [] k = VaultHost -> "vault"
    [] OTHER         -> "none"]

VARIABLE part     \* the module that moves

PartsInit ==
  /\ EnvironmentInit /\ StagingInit /\ WatchInit /\ PeersInit /\ PasswordsInit
  /\ part \in {"environment", "staging", "watch", "peers", "passwords"}
  /\ part # "staging" => subject.state = "pending"
  /\ part # "watch" => \A i \in Instances : ~Down(i)

PartsNext ==
  /\ \/ /\ part = "environment" /\ EnvironmentNext
        /\ UNCHANGED <<stagingVars, watchVars, peersVars, passwordVars>>
     \/ /\ part = "staging" /\ StagingNext
        /\ UNCHANGED <<envVars, watchVars, peersVars, passwordVars>>
     \/ /\ part = "watch" /\ WatchNext
        /\ UNCHANGED <<envVars, stagingVars, peersVars, passwordVars>>
     \/ /\ part = "peers" /\ PeersNext
        /\ UNCHANGED <<envVars, stagingVars, watchVars, passwordVars>>
     \/ /\ part = "passwords" /\ PasswordsNext
        /\ UNCHANGED <<envVars, stagingVars, watchVars, peersVars>>
  /\ UNCHANGED part

partsVars == <<envVars, stagingVars, watchVars, peersVars, passwordVars, part>>

PartsSpec == PartsInit /\ [][PartsNext]_partsVars

\* The type invariant of each module.
PartsTypeOK ==
  /\ EnvironmentTypeOK
  /\ StagingTypeOK
  /\ WatchTypeOK
  /\ PeersTypeOK
  /\ PasswordsTypeOK
=============================================================================
