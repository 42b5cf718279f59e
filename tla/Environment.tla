----------------------------- MODULE Environment ----------------------------
(***************************************************************************)
(* The variables of one application while several requests store theirs:   *)
(* UpdateAppEnvironment (update_app_environment.go) stores everything in   *)
(* one PATCH, UpdateRegistryEnvironment (update_registry_environment.go)   *)
(* the parameters one PATCH at a time, in the order of a Go map, which is  *)
(* any order, and the rest in a last one.  A PATCH removes nothing.        *)
(* Service has the same calls with whole groups of variables; here is what *)
(* happens inside the groups.                                              *)
(***************************************************************************)
CONSTANTS
  Writers,     \* the requests that store an environment
  NoWriter,    \* the variable is not set
  Parameters,  \* variables made of the parameters of requests
  ParamsOf,    \* ParamsOf[w]: those of request w
  Registries,  \* the requests that go on to UpdateRegistryEnvironment
  ProfileOf    \* ProfileOf[k]: the profile variable k switches on, or "none"

HostKey == "GIT_HOSTKEY"
Profiles == {"git", "vault", "composite", "credhub"}

ASSUME EnvironmentAssumption ==
  /\ NoWriter \notin Writers
  /\ ParamsOf \in [Writers -> SUBSET Parameters]
  /\ Registries \subseteq Writers
  /\ ProfileOf \in [Parameters -> Profiles \cup {"none"}]

VARIABLES
  stored,      \* stored[k]: the request whose value variable k has
  profiles,    \* SPRING_PROFILES_ACTIVE, as a set
  strict,      \* SPRING_CLOUD_CONFIG_SERVER_GIT_STRICTHOSTKEYCHECKING
  json,        \* the request whose text SPRING_APPLICATION_JSON is
  writer,      \* writer[w]: the place of request w, and the parameters the
               \* loop has still to store
  raced        \* requests that had company, for the properties only

envVars == <<stored, profiles, strict, json, writer, raced>>

WriterRecord ==
  [pc : {"idle", "app", "loop", "ok", "failed"}, left : SUBSET Parameters]

EnvironmentTypeOK ==
  /\ stored \in [Parameters -> Writers \cup {NoWriter}]
  /\ profiles \subseteq Profiles
  /\ strict \in BOOLEAN
  /\ json \in Writers \cup {NoWriter}
  /\ writer \in [Writers -> WriterRecord]
  /\ raced \subseteq Writers

EnvironmentInit ==
  /\ stored = [k \in Parameters |-> NoWriter]
  /\ profiles = {}
  /\ strict = FALSE
  /\ json = NoWriter
  /\ writer = [w \in Writers |-> [pc |-> "idle", left |-> {}]]
  /\ raced = {}

Writing(w) == writer[w].pc \in {"app", "loop"}

\* Mutant: the key of the host is a git setting too.
ProfilesWithHostKey(w) ==
  ({ProfileOf[k] : k \in ParamsOf[w]} \ {"none"})
    \cup (IF HostKey \in ParamsOf[w] THEN {"git"} ELSE {})

ProfilesFor(w) == {ProfileOf[k] : k \in ParamsOf[w]} \ {"none"}

Patched(keys, w) == [k \in Parameters |-> IF k \in keys THEN w ELSE stored[k]]

WriterGoto(w, step) == writer' = [writer EXCEPT ![w].pc = step]

BeginStoring(w) ==
  /\ writer[w].pc = "idle"
  /\ WriterGoto(w, "app")
  /\ raced' = LET company == {v \in Writers : Writing(v)}
              IN  IF company = {} THEN raced ELSE raced \cup company \cup {w}
  /\ UNCHANGED <<stored, profiles, strict, json>>

\* A refused PATCH stores nothing; when the reply is lost it has stored all
\* the same.  Either way the request has failed.
Refused(w) ==
  /\ Writing(w)
  /\ WriterGoto(w, "failed")
  /\ UNCHANGED <<stored, profiles, strict, json, raced>>

AppPatch(w, next) ==
  /\ stored' = Patched(ParamsOf[w], w)
  /\ profiles' = ProfilesFor(w)
  /\ strict' = (HostKey \in ParamsOf[w])
  /\ json' = w
  /\ writer' = [writer EXCEPT ![w] = [pc |-> next, left |-> ParamsOf[w]]]

UpdateAppEnvironment(w) ==
  /\ writer[w].pc = "app"
  /\ AppPatch(w, IF w \in Registries THEN "loop" ELSE "ok") \/ AppPatch(w, "failed")
  /\ UNCHANGED raced

StoreParameter(w) ==
  /\ writer[w].pc = "loop"
  /\ \E k \in writer[w].left :
       /\ stored' = Patched({k}, w)
       /\ \/ writer' = [writer EXCEPT ![w].left = @ \ {k}]
          \/ WriterGoto(w, "failed")
  /\ UNCHANGED <<profiles, strict, json, raced>>

\* Mutant: the list of profiles is left empty.
StoreRestWithoutProfiles(w) ==
  /\ writer[w].pc = "loop" /\ writer[w].left = {}
  /\ profiles' = {}
  /\ WriterGoto(w, "ok") \/ WriterGoto(w, "failed")
  /\ UNCHANGED <<stored, strict, json, raced>>

StoreRest(w) ==
  /\ writer[w].pc = "loop" /\ writer[w].left = {}
  /\ profiles' = ProfilesFor(w)
  /\ WriterGoto(w, "ok") \/ WriterGoto(w, "failed")
  /\ UNCHANGED <<stored, strict, json, raced>>

EnvironmentNext ==
  \E w \in Writers :
    \/ BeginStoring(w) \/ Refused(w) \/ UpdateAppEnvironment(w)
    \/ StoreParameter(w) \/ StoreRest(w)

EnvironmentSpec == EnvironmentInit /\ [][EnvironmentNext]_envVars

-----------------------------------------------------------------------------
(* What instances find, whenever they start.                               *)

\* Every active profile has the setting that switches it on
\* (update_app_environment.go:23-41, update_registry_environment.go:24-38),
\* and strict checking of the host key has a key (lines 27-29 and 55-59),
\* however requests overlap and wherever they fail.
SettingsBacked ==
  /\ \A f \in profiles :
       \E k \in Parameters : ProfileOf[k] = f /\ stored[k] # NoWriter
  /\ strict => HostKey \in Parameters /\ stored[HostKey] # NoWriter

\* The settings are those of one request: all that the request whose text is
\* stored asked for, its profiles and its answer about the host key, although
\* a registry's are stored in several PATCHes of which any may be the last to
\* succeed (update_registry_environment.go:19-44 and 61-71).  Only a request
\* that had company may be stored in part.
Coherent ==
  \A w \in Writers \ raced :
    json = w =>
      /\ \A k \in ParamsOf[w] : stored[k] = w
      /\ profiles = {ProfileOf[k] : k \in ParamsOf[w]} \ {"none"}
      /\ strict = (HostKey \in ParamsOf[w])
=============================================================================
