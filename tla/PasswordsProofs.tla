-------------------------- MODULE PasswordsProofs ---------------------------
(***************************************************************************)
(* Proofs about Passwords, for any number of handlers, any ring and any    *)
(* length.                                                                 *)
(***************************************************************************)
EXTENDS Passwords, TLAPS

-----------------------------------------------------------------------------
(* The invariants. *)

\* A call ends with its last word.
WordsToDraw ==
  \A a \in Binds : call[a].pc # "done" => call[a].length < Length

\* A call that was not disturbed draws alone.
DrawsAlone ==
  \A a \in Binds \ disturbed : Drawing(a) => \A b \in Binds \ {a} : ~Drawing(b)

\* The words that such a call has drawn are gone: the ring is past them, and so
\* is every store still to come.
WordsGone ==
  \A a \in Binds \ disturbed : \A w \in call[a].drawn :
    /\ age[w[1]] > w[2]
    /\ \A b \in Binds : call[b].pc = "storeWord" /\ call[b].place = w[1] =>
         call[b].old > w[2]

PasswordsInv ==
  /\ PasswordsTypeOK
  /\ WordsToDraw
  /\ DrawsAlone
  /\ WordsGone
  /\ CommonWordsExplained

-----------------------------------------------------------------------------
(* The proofs. *)

\* The step back from a place is a place.
LEMMA BeforeIsPlace ==
  ASSUME NEW t \in Places
  PROVE  Before(t) \in Places
<1>1. t + Ring - 1 \in Nat /\ Ring \in Nat \ {0}
  BY PasswordsAssumption DEF Places
<1>2. \A m \in Nat, n \in Nat \ {0} : m % n \in 0 .. n - 1
  OBVIOUS
<1>3. QED
  BY <1>1, <1>2 DEF Before, Places

\* Nobody has drawn at the start.
LEMMA PasswordsInitInv == PasswordsInit => PasswordsInv
BY PasswordsAssumption DEF PasswordsInit, PasswordsInv, PasswordsTypeOK, CallRecord, WordsToDraw,
  DrawsAlone, WordsGone, CommonWordsExplained, Places, Drawing, Steps

\* A Bind arrives at GenClientPassword.
LEMMA GenClientPasswordKeeps ==
  ASSUME PasswordsInv, NEW b \in Binds, GenClientPassword(b)
  PROVE  PasswordsInv'
<1> DEFINE company == {c \in Binds : Drawing(c)}
<1> USE PasswordsAssumption DEF PasswordsInv
<1>1. /\ call[b].pc = "idle" /\ UNCHANGED <<tap, age>>
      /\ call' = [call EXCEPT ![b].pc = "loadTap"]
      /\ disturbed' = IF company = {} THEN disturbed ELSE disturbed \cup company \cup {b}
  BY DEF GenClientPassword, Seeded
<1>2. PasswordsTypeOK'
  BY <1>1 DEF PasswordsTypeOK, CallRecord, Steps
<1>3. /\ \A a \in Binds : /\ call'[a].drawn = call[a].drawn
                          /\ call'[a].place = call[a].place
                          /\ call'[a].old = call[a].old
                          /\ call'[a].length = call[a].length
      /\ \A a \in Binds \ {b} : call'[a] = call[a]
      /\ call'[b].pc = "loadTap"
      /\ disturbed \subseteq disturbed'
  BY <1>1 DEF PasswordsTypeOK, CallRecord
<1>4. WordsGone' /\ CommonWordsExplained'
  BY <1>1, <1>3 DEF WordsGone, CommonWordsExplained
<1>5. WordsToDraw'
  BY <1>1, <1>3 DEF WordsToDraw
<1>6. DrawsAlone'
  BY <1>1, <1>3 DEF DrawsAlone, Drawing, Steps
<1>7. QED
  BY <1>2, <1>4, <1>5, <1>6

\* The place of the last draw is loaded, or stored, or the word is loaded.
LEMMA LoadsKeep ==
  ASSUME PasswordsInv, NEW b \in Binds, LoadTap(b) \/ StoreTap(b) \/ LoadWord(b)
  PROVE  PasswordsInv'
<1> USE PasswordsAssumption DEF PasswordsInv
<1>1. /\ UNCHANGED <<age, disturbed>>
      /\ tap' \in Places
      /\ call[b].pc \in {"loadTap", "storeTap", "loadWord"}
      /\ \A a \in Binds \ {b} : call'[a] = call[a]
      /\ call' \in [Binds -> CallRecord]
      /\ call'[b].drawn = call[b].drawn /\ call'[b].length = call[b].length
      /\ \/ call'[b].pc \in {"storeTap", "loadWord"}
         \/ call'[b].pc = "storeWord" /\ call'[b].old = age[call'[b].place]
  <2>1. CASE LoadTap(b)
    <3>1. Before(tap) \in Places
      BY BeforeIsPlace DEF PasswordsTypeOK
    <3>2. QED
      BY <2>1, <3>1 DEF LoadTap, PasswordsTypeOK, CallRecord, Steps
  <2>2. CASE StoreTap(b)
    BY <2>2 DEF StoreTap, PasswordsTypeOK, CallRecord, Steps
  <2>3. CASE LoadWord(b)
    BY ZenonT(40), <2>3 DEF LoadWord, PasswordsTypeOK, CallRecord, Steps
  <2>4. QED
    BY <2>1, <2>2, <2>3
<1>2. PasswordsTypeOK'
  BY <1>1 DEF PasswordsTypeOK
<1>3. WordsToDraw' /\ DrawsAlone'
  BY <1>1 DEF WordsToDraw, DrawsAlone, Drawing, Steps
<1>4. \A a \in Binds : call'[a].drawn = call[a].drawn
  BY <1>1
<1>5. WordsGone'
  BY <1>1, <1>4 DEF WordsGone
<1>6. CommonWordsExplained'
  BY <1>1, <1>4 DEF CommonWordsExplained
<1>7. QED
  BY <1>2, <1>3, <1>5, <1>6

\* The word is stored, and drawn.
LEMMA StoreWordKeeps ==
  ASSUME PasswordsInv, NEW b \in Binds, StoreWord(b)
  PROVE  PasswordsInv'
<1> DEFINE place == call[b].place
           old   == call[b].old
<1> USE PasswordsAssumption DEF PasswordsInv
<1>1. /\ call[b].pc = "storeWord" /\ UNCHANGED <<tap, disturbed>>
      /\ age' = [age EXCEPT ![place] = old + 1]
      /\ call[b].length < Length
  BY DEF StoreWord, WordsToDraw
<1>2. /\ call[b] \in CallRecord
      /\ call'[b] = [ pc     |-> IF call[b].length + 1 < Length THEN "loadTap" ELSE "done",
                      place  |-> place,
                      old    |-> old,
                      drawn  |-> call[b].drawn \cup {<<place, old>>},
                      length |-> call[b].length + 1 ]
      /\ \A a \in Binds \ {b} : call'[a] = call[a]
      /\ call' = [call EXCEPT ![b] = call'[b]]
  BY DEF StoreWord, PasswordsTypeOK, CallRecord
<1>3. place \in Places /\ old \in Nat
  BY <1>2 DEF CallRecord
<1>4. call'[b] \in CallRecord
  BY <1>1, <1>2, <1>3 DEF CallRecord, Steps
<1>5. PasswordsTypeOK'
  <2>1. call' \in [Binds -> CallRecord]
    BY <1>2, <1>4 DEF PasswordsTypeOK
  <2>2. age' \in [Places -> Nat]
    BY <1>1, <1>3 DEF PasswordsTypeOK
  <2>3. QED
    BY <1>1, <2>1, <2>2 DEF PasswordsTypeOK
<1>6. WordsToDraw'
  BY <1>1, <1>2 DEF WordsToDraw, CallRecord
<1>7. DrawsAlone'
  BY <1>1, <1>2 DEF DrawsAlone, Drawing, Steps
<1>8. WordsGone'
  <2> SUFFICES ASSUME NEW a \in Binds \ disturbed, NEW w \in call'[a].drawn
               PROVE  /\ age'[w[1]] > w[2]
                      /\ \A c \in Binds : call'[c].pc = "storeWord" /\ call'[c].place = w[1] =>
                           call'[c].old > w[2]
    BY <1>1 DEF WordsGone
  <2>1. \A c \in Binds : call'[c].pc = "storeWord" => c # b /\ call'[c] = call[c]
    BY <1>2
  <2>2. CASE w \in call[a].drawn
    <3>1. /\ age[w[1]] > w[2] /\ w \in Places \X Nat
          /\ place = w[1] => old > w[2]
      BY <1>1, <2>2 DEF WordsGone, PasswordsTypeOK, CallRecord
    <3>2. age'[w[1]] > w[2]
      BY <1>1, <1>3, <3>1 DEF PasswordsTypeOK
    <3>3. QED
      BY <2>1, <2>2, <3>2 DEF WordsGone
  <2>3. CASE w \notin call[a].drawn
    <3>1. a = b /\ w = <<place, old>>
      BY <1>2, <2>3
    <3>2. age'[w[1]] > w[2]
      BY <1>1, <1>3, <3>1 DEF PasswordsTypeOK
    <3>3. \A c \in Binds \ {b} : ~Drawing(c)
      BY <1>1, <3>1 DEF DrawsAlone, Drawing, Steps
    <3>4. QED
      BY <2>1, <3>2, <3>3 DEF Drawing, Steps
  <2>4. QED
    BY <2>2, <2>3
<1>9. CommonWordsExplained'
  <2>1. \A a \in Binds \ disturbed : <<place, old>> \notin call[a].drawn
    <3> SUFFICES ASSUME NEW a \in Binds \ disturbed, <<place, old>> \in call[a].drawn
                 PROVE  FALSE
      OBVIOUS
    <3>1. old > old
      BY <1>1 DEF WordsGone
    <3>2. QED
      BY <1>3, <3>1
  <2>2. QED
    BY <1>1, <1>2, <2>1 DEF CommonWordsExplained
<1>10. QED
  BY <1>5, <1>6, <1>7, <1>8, <1>9

\* Calls that were not disturbed leave words behind that nobody draws again.
THEOREM PasswordsInvariance == PasswordsSpec => []PasswordsInv
<1>1. PasswordsInv /\ [PasswordsNext]_passwordVars => PasswordsInv'
  <2> SUFFICES ASSUME PasswordsInv, [PasswordsNext]_passwordVars
               PROVE  PasswordsInv'
    OBVIOUS
  <2>1. CASE PasswordsNext
    BY <2>1, GenClientPasswordKeeps, LoadsKeep, StoreWordKeeps DEF PasswordsNext
  <2>2. CASE UNCHANGED passwordVars
    BY <2>2 DEF passwordVars, PasswordsInv, PasswordsTypeOK, WordsToDraw, DrawsAlone, WordsGone,
      CommonWordsExplained, Drawing
  <2>3. QED
    BY <2>1, <2>2
<1>2. QED
  BY <1>1, PasswordsInitInv, PTL DEF PasswordsSpec

\* Passwords have drawn words in common only if one of the calls had company
\* (utilities.go:22-28), for a ring and passwords of any length.
THEOREM CommonWordsExplainedHolds == PasswordsSpec => []CommonWordsExplained
<1>1. PasswordsInv => CommonWordsExplained
  BY DEF PasswordsInv
<1>2. QED
  BY <1>1, PasswordsInvariance, PTL
=============================================================================
