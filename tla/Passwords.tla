------------------------------ MODULE Passwords -----------------------------
(***************************************************************************)
(* GenClientPassword (utilities.go:12-28), called by every Bind handler:   *)
(* the characters of a password come from one generator that all handlers  *)
(* share without a lock.  math/rand keeps a ring of words and the place of *)
(* the last draw; a draw steps back one place, makes its word from what is *)
(* there, and leaves the word there.  Each of these is a load and a store, *)
(* and two handlers may be between them at the same time.                  *)
(*                                                                         *)
(* A drawn word is identified with its place in the ring and the age of    *)
(* the word that was there: without interference no two draws are alike.   *)
(***************************************************************************)
EXTENDS Naturals

CONSTANTS
  Binds,     \* the handlers
  Ring,      \* the number of words of the generator
  Length     \* passwordLength

ASSUME PasswordsAssumption ==
  /\ Ring \in Nat \ {0}
  /\ Length \in Nat \ {0}

VARIABLES
  tap,       \* the place of the last draw
  age,       \* age[t]: how often the word at place t was replaced
  call,      \* the calls of GenClientPassword
  disturbed      \* calls that had company, for the properties only

passwordVars == <<tap, age, call, disturbed>>

Places == 0 .. Ring - 1
Steps  == {"loadTap", "storeTap", "loadWord", "storeWord"}

CallRecord ==
  [ pc     : {"idle", "done"} \cup Steps,
    place  : Places,
    old    : Nat,                      \* what it has loaded
    drawn  : SUBSET (Places \X Nat),   \* the words of the password
    length : 0..Length ]

PasswordsTypeOK ==
  /\ tap \in Places
  /\ age \in [Places -> Nat]
  /\ call \in [Binds -> CallRecord]
  /\ disturbed \subseteq Binds

PasswordsInit ==
  /\ tap = 0
  /\ age = [t \in Places |-> 0]
  /\ call = [b \in Binds |-> [pc |-> "idle", place |-> 0, old |-> 0,
                              drawn |-> {}, length |-> 0]]
  /\ disturbed = {}

Drawing(b) == call[b].pc \in Steps

Before(t) == (t + Ring - 1) % Ring

\* Mutant: every call makes a generator of its own, all from one seed.
SeedPerCall(b) ==
  /\ call[b].pc = "idle"
  /\ call' = [call EXCEPT ![b].pc = "loadTap"]
  /\ tap' = 0
  /\ age' = [t \in Places |-> 0]

Seeded(b) ==
  /\ call[b].pc = "idle"
  /\ call' = [call EXCEPT ![b].pc = "loadTap"]
  /\ UNCHANGED <<tap, age>>

GenClientPassword(b) ==
  /\ Seeded(b)
  /\ disturbed' = LET company == {c \in Binds : Drawing(c)}
              IN  IF company = {} THEN disturbed ELSE disturbed \cup company \cup {b}

LoadTap(b) ==
  /\ call[b].pc = "loadTap"
  /\ call' = [call EXCEPT ![b].pc = "storeTap",
                          ![b].place = Before(tap)]
  /\ UNCHANGED <<tap, age, disturbed>>

StoreTap(b) ==
  /\ call[b].pc = "storeTap"
  /\ tap' = call[b].place
  /\ call' = [call EXCEPT ![b].pc = "loadWord"]
  /\ UNCHANGED <<age, disturbed>>

LoadWord(b) ==
  /\ call[b].pc = "loadWord"
  /\ call' = [call EXCEPT ![b].pc = "storeWord", ![b].old = age[call[b].place]]
  /\ UNCHANGED <<tap, age, disturbed>>

StoreWord(b) ==
  /\ call[b].pc = "storeWord"
  /\ age' = [age EXCEPT ![call[b].place] = call[b].old + 1]
  /\ call' = [call EXCEPT
       ![b].drawn  = @ \cup {<<call[b].place, call[b].old>>},
       ![b].length = @ + 1,
       ![b].pc     = IF call[b].length + 1 < Length THEN "loadTap" ELSE "done"]
  /\ UNCHANGED <<tap, disturbed>>

PasswordsNext ==
  \E b \in Binds :
    \/ GenClientPassword(b) \/ LoadTap(b) \/ StoreTap(b)
    \/ LoadWord(b) \/ StoreWord(b)

PasswordsSpec == PasswordsInit /\ [][PasswordsNext]_passwordVars

-----------------------------------------------------------------------------
\* Passwords have drawn words in common only if one of the calls was made while
\* another was being served: a store that comes late sets the generator back
\* for the calls after it, but the call that makes it was company to one of the
\* two (utilities.go:22-28).
CommonWordsExplained ==
  \A a, b \in Binds :
    a # b /\ call[a].drawn \cap call[b].drawn # {} => {a, b} \cap disturbed # {}
=============================================================================
