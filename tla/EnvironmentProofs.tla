------------------------- MODULE EnvironmentProofs --------------------------
(***************************************************************************)
(* Proofs about Environment, for any requests and variables.               *)
(***************************************************************************)
EXTENDS Environment, TLAPS

-----------------------------------------------------------------------------
(* The invariants. *)

\* A request comes to its loop with all its parameters stored.
LoopHasStored ==
  \A w \in Writers : writer[w].pc = "loop" =>
    /\ writer[w].left \subseteq ParamsOf[w]
    /\ \A k \in ParamsOf[w] : stored[k] # NoWriter

\* A request that has not raced is the only one at work.
NoCompany ==
  \A w \in Writers \ raced, v \in Writers :
    Writing(w) /\ Writing(v) => v = w

\* While a request is in its loop, the text is its own or one that raced it.
LoopOwnsText ==
  \A w \in Writers \ raced, v \in Writers :
    writer[v].pc = "loop" /\ json = w => v = w

EnvironmentInv ==
  /\ EnvironmentTypeOK
  /\ SettingsBacked
  /\ LoopHasStored
  /\ NoCompany
  /\ LoopOwnsText
  /\ Coherent

-----------------------------------------------------------------------------
(* The proofs. *)

\* Nothing is stored at the start.
LEMMA EnvironmentInitInv == EnvironmentInit => EnvironmentInv
<1> SUFFICES ASSUME EnvironmentInit PROVE EnvironmentInv
  OBVIOUS
<1> USE EnvironmentAssumption DEF EnvironmentInit
<1>1. EnvironmentTypeOK
  BY DEF EnvironmentTypeOK, WriterRecord
<1>2. \A w \in Writers : writer[w].pc = "idle"
  OBVIOUS
<1>3. SettingsBacked /\ Coherent
  BY DEF SettingsBacked, Coherent
<1>4. LoopHasStored /\ NoCompany /\ LoopOwnsText
  BY <1>2 DEF LoopHasStored, NoCompany, LoopOwnsText, Writing
<1>5. QED
  BY <1>1, <1>3, <1>4 DEF EnvironmentInv

\* The profiles and the parameters of a request are some there are.
LEMMA OfParameters ==
  ASSUME NEW w \in Writers
  PROVE  /\ ParamsOf[w] \subseteq Parameters
         /\ ProfilesFor(w) \subseteq Profiles
         /\ \A f \in ProfilesFor(w) : \E k \in ParamsOf[w] : ProfileOf[k] = f
BY EnvironmentAssumption DEF ProfilesFor

\* A request arrives.
LEMMA BeginStoringKeeps ==
  ASSUME EnvironmentInv, NEW w \in Writers, BeginStoring(w)
  PROVE  EnvironmentInv'
<1> DEFINE company == {v \in Writers : Writing(v)}
<1> USE DEF EnvironmentInv
<1>1. /\ UNCHANGED <<stored, profiles, strict, json>>
      /\ writer' = [writer EXCEPT ![w].pc = "app"]
      /\ raced' = IF company = {} THEN raced ELSE raced \cup company \cup {w}
  BY DEF BeginStoring, WriterGoto
<1>2. EnvironmentTypeOK'
  BY <1>1 DEF EnvironmentTypeOK, WriterRecord
<1>3. \A v \in Writers \ {w} : writer'[v] = writer[v]
  BY <1>1 DEF EnvironmentTypeOK
<1>4. writer'[w].pc = "app" /\ raced \subseteq raced'
  BY <1>1 DEF EnvironmentTypeOK, WriterRecord
<1>5. SettingsBacked' /\ Coherent'
  BY <1>1, <1>4 DEF SettingsBacked, Coherent
<1>6. LoopHasStored' /\ LoopOwnsText'
  BY <1>1, <1>3, <1>4 DEF LoopHasStored, LoopOwnsText
<1>7. NoCompany'
  BY <1>1, <1>3, <1>4 DEF NoCompany, Writing
<1>8. QED
  BY <1>2, <1>5, <1>6, <1>7

\* The first PATCH of a request, whether its reply comes or is lost.
LEMMA AppPatchKeeps ==
  ASSUME EnvironmentInv, NEW w \in Writers, UpdateAppEnvironment(w)
  PROVE  EnvironmentInv'
<1> USE EnvironmentAssumption DEF EnvironmentInv
<1>1. PICK next \in {"loop", "ok", "failed"} : AppPatch(w, next)
  BY DEF UpdateAppEnvironment
<1>2. /\ stored' = Patched(ParamsOf[w], w)
      /\ profiles' = ProfilesFor(w)
      /\ strict' = (HostKey \in ParamsOf[w])
      /\ json' = w
      /\ writer' = [writer EXCEPT ![w] = [pc |-> next, left |-> ParamsOf[w]]]
      /\ writer[w].pc = "app" /\ raced' = raced
  BY <1>1 DEF AppPatch, UpdateAppEnvironment
<1>3. /\ \A k \in ParamsOf[w] : stored'[k] = w
      /\ \A k \in Parameters : stored[k] # NoWriter => stored'[k] # NoWriter
      /\ stored' \in [Parameters -> Writers \cup {NoWriter}]
  BY <1>2, OfParameters DEF Patched, EnvironmentTypeOK
<1>4. /\ writer' \in [Writers -> WriterRecord]
      /\ writer'[w] = [pc |-> next, left |-> ParamsOf[w]]
      /\ \A v \in Writers \ {w} : writer'[v] = writer[v]
  BY <1>2, OfParameters DEF EnvironmentTypeOK, WriterRecord
<1>5. EnvironmentTypeOK'
  BY <1>2, <1>3, <1>4, OfParameters DEF EnvironmentTypeOK
<1>6. SettingsBacked'
  <2>1. \A k \in ParamsOf[w] : k \in Parameters /\ stored'[k] # NoWriter
    BY <1>3, OfParameters
  <2>2. \A f \in profiles' : \E k \in ParamsOf[w] : ProfileOf[k] = f
    BY <1>2, OfParameters
  <2>3. strict' => HostKey \in ParamsOf[w]
    BY <1>2
  <2>4. QED
    BY <2>1, <2>2, <2>3 DEF SettingsBacked
<1>7. LoopHasStored'
  BY <1>3, <1>4, OfParameters DEF LoopHasStored
<1>8. NoCompany' /\ LoopOwnsText'
  BY <1>2, <1>4 DEF NoCompany, LoopOwnsText, Writing
<1>9. Coherent'
  BY <1>2, <1>3 DEF Coherent, ProfilesFor
<1>10. QED
  BY <1>5, <1>6, <1>7, <1>8, <1>9

\* A PATCH of the loop, which stores one parameter.
LEMMA StoreParameterKeeps ==
  ASSUME EnvironmentInv, NEW w \in Writers, StoreParameter(w)
  PROVE  EnvironmentInv'
<1> USE EnvironmentAssumption DEF EnvironmentInv
<1>1. PICK k \in writer[w].left :
        /\ stored' = Patched({k}, w)
        /\ \/ writer' = [writer EXCEPT ![w].left = @ \ {k}]
           \/ WriterGoto(w, "failed")
  BY DEF StoreParameter
<1>2. UNCHANGED <<profiles, strict, json, raced>> /\ writer[w].pc = "loop"
  BY DEF StoreParameter
<1>3. k \in ParamsOf[w]
  BY <1>2 DEF LoopHasStored
<1>4. /\ \A x \in Parameters : stored'[x] = IF x = k THEN w ELSE stored[x]
      /\ stored' \in [Parameters -> Writers \cup {NoWriter}]
  BY <1>1 DEF Patched, EnvironmentTypeOK
<1>5. /\ writer' \in [Writers -> WriterRecord]
      /\ writer'[w].left \subseteq writer[w].left
      /\ writer'[w].pc \in {"loop", "failed"}
      /\ \A v \in Writers \ {w} : writer'[v] = writer[v]
  <2>1. CASE writer' = [writer EXCEPT ![w].left = @ \ {k}]
    BY <1>2, <2>1 DEF EnvironmentTypeOK, WriterRecord
  <2>2. CASE WriterGoto(w, "failed")
    BY <1>2, <2>2 DEF WriterGoto, EnvironmentTypeOK, WriterRecord
  <2>3. QED
    BY <1>1, <2>1, <2>2
<1>6. EnvironmentTypeOK'
  BY <1>2, <1>4, <1>5 DEF EnvironmentTypeOK
<1>7. SettingsBacked' /\ LoopHasStored'
  BY <1>2, <1>4, <1>5, OfParameters DEF SettingsBacked, LoopHasStored
<1>8. NoCompany' /\ LoopOwnsText'
  BY <1>2, <1>5 DEF NoCompany, LoopOwnsText, Writing
<1>9. Coherent'
  BY <1>2, <1>4, OfParameters DEF Coherent, LoopOwnsText
<1>10. QED
  BY <1>6, <1>7, <1>8, <1>9

\* The last PATCH of a registry.
LEMMA StoreRestKeeps ==
  ASSUME EnvironmentInv, NEW w \in Writers, StoreRest(w)
  PROVE  EnvironmentInv'
<1> USE EnvironmentAssumption DEF EnvironmentInv
<1>1. PICK next \in {"ok", "failed"} : WriterGoto(w, next)
  BY DEF StoreRest
<1>2. /\ writer[w].pc = "loop" /\ profiles' = ProfilesFor(w)
      /\ UNCHANGED <<stored, strict, json, raced>>
  BY DEF StoreRest
<1>3. /\ writer' \in [Writers -> WriterRecord]
      /\ writer'[w].pc = next
      /\ \A v \in Writers \ {w} : writer'[v] = writer[v]
  BY <1>1 DEF WriterGoto, EnvironmentTypeOK, WriterRecord
<1>4. EnvironmentTypeOK'
  BY <1>2, <1>3, OfParameters DEF EnvironmentTypeOK
<1>5. SettingsBacked' /\ LoopHasStored'
  BY <1>2, <1>3, OfParameters DEF SettingsBacked, LoopHasStored
<1>6. NoCompany' /\ LoopOwnsText'
  BY <1>2, <1>3 DEF NoCompany, LoopOwnsText, Writing
<1>7. Coherent'
  BY <1>2 DEF Coherent, LoopOwnsText, ProfilesFor
<1>8. QED
  BY <1>4, <1>5, <1>6, <1>7

\* A request is refused.
LEMMA RefusedKeeps ==
  ASSUME EnvironmentInv, NEW w \in Writers, Refused(w)
  PROVE  EnvironmentInv'
<1> USE DEF EnvironmentInv
<1>1. /\ UNCHANGED <<stored, profiles, strict, json, raced>>
      /\ writer' \in [Writers -> WriterRecord]
      /\ writer'[w].pc = "failed"
      /\ \A v \in Writers \ {w} : writer'[v] = writer[v]
  BY DEF Refused, WriterGoto, EnvironmentTypeOK, WriterRecord
<1>2. EnvironmentTypeOK' /\ SettingsBacked' /\ Coherent'
  BY <1>1 DEF EnvironmentTypeOK, SettingsBacked, Coherent
<1>3. LoopHasStored' /\ NoCompany' /\ LoopOwnsText'
  BY <1>1 DEF LoopHasStored, NoCompany, LoopOwnsText, Writing
<1>4. QED
  BY <1>2, <1>3

\* What EnvironmentInv says holds whatever requests there are and however they
\* overlap.
THEOREM EnvironmentInvariance == EnvironmentSpec => []EnvironmentInv
<1>1. EnvironmentInv /\ [EnvironmentNext]_envVars => EnvironmentInv'
  <2> SUFFICES ASSUME EnvironmentInv, [EnvironmentNext]_envVars
               PROVE  EnvironmentInv'
    OBVIOUS
  <2>1. CASE EnvironmentNext
    BY <2>1, BeginStoringKeeps, AppPatchKeeps, StoreParameterKeeps, StoreRestKeeps, RefusedKeeps
      DEF EnvironmentNext
  <2>2. CASE UNCHANGED envVars
    BY <2>2 DEF envVars, EnvironmentInv, EnvironmentTypeOK, SettingsBacked, LoopHasStored,
      NoCompany, LoopOwnsText, Coherent, Writing
  <2>3. QED
    BY <2>1, <2>2
<1>2. QED
  BY <1>1, EnvironmentInitInv, PTL DEF EnvironmentSpec

\* Every active profile has its setting, and strict checking its key
\* (update_app_environment.go:23-41, update_registry_environment.go:24-38).
THEOREM SettingsBackedHolds == EnvironmentSpec => []SettingsBacked
<1>1. EnvironmentInv => SettingsBacked
  BY DEF EnvironmentInv
<1>2. QED
  BY <1>1, EnvironmentInvariance, PTL

\* The settings are those of one request, all of them
\* (update_registry_environment.go:19-44 and 61-71), unless it had company.
THEOREM CoherentHolds == EnvironmentSpec => []Coherent
<1>1. EnvironmentInv => Coherent
  BY DEF EnvironmentInv
<1>2. QED
  BY <1>1, EnvironmentInvariance, PTL
=============================================================================
