-------------------------- MODULE SettingsRegister --------------------------
(***************************************************************************)
(* What a program may rely on when it reads a settings file that another   *)
(* program may be writing: a register of keys and values with one writer.  *)
(* A read that no write overlaps returns what was stored.  One that is     *)
(* overlapped may miss keys and may find a value cut short, but if the     *)
(* reader takes the lock the rest belongs to one stored version: never do  *)
(* the address of one version and the netmask of another come together.    *)
(***************************************************************************)
EXTENDS Integers

CONSTANTS
  Keys, Values,
  Versions,   \* what is ever stored
  Cut,        \* a value of which only the beginning was read
  Readers,
  Locking     \* the readers that take the lock

Contents == UNION {[S -> Values \cup {Cut}] : S \in SUBSET Keys}

\* What a file with the content c may have been shortened to.
Shortened(c) ==
  {d \in Contents :
     DOMAIN d \subseteq DOMAIN c /\ \A k \in DOMAIN d : d[k] \in {c[k], Cut}}

\* A value cut short may be taken for an error.
Whole(c) == [k \in {k \in DOMAIN c : c[k] # Cut} |-> c[k]]

\* What two versions and more may have been mixed to.
Mixed(C) ==
  {d \in Contents :
     \A k \in DOMAIN d : \E c \in C : k \in DOMAIN c /\ d[k] \in {c[k], Cut}}

VARIABLES
  value,      \* what is stored
  writing,    \* a write is under way
  seen,       \* the versions stored since a reader began, {} if it is not reading
  torn,       \* whether a write overlaps the read
  result      \* what each reader has read, until it reads again

regVars == <<value, writing, seen, torn, result>>

Init ==
  /\ value \in Versions
  /\ writing = FALSE
  /\ seen = [r \in Readers |-> {}]
  /\ torn = [r \in Readers |-> FALSE]
  /\ result = [r \in Readers |-> <<>>]

Reading == {r \in Readers : seen[r] # {}}

BeginWrite ==
  /\ ~writing
  /\ value' \in Versions
  /\ writing' = TRUE
  /\ seen' = [r \in Readers |-> IF r \in Reading THEN seen[r] \cup {value'} ELSE {}]
  /\ torn' = [r \in Readers |-> torn[r] \/ r \in Reading]
  /\ UNCHANGED result

EndWrite ==
  /\ writing
  /\ writing' = FALSE
  /\ UNCHANGED <<value, seen, torn, result>>

\* The writer dies: a part of what it meant to write is stored.
BreakWrite ==
  /\ writing
  /\ writing' = FALSE
  /\ value' \in Shortened(value)
  /\ UNCHANGED <<seen, torn, result>>

BeginRead(r) ==
  /\ seen[r] = {}
  /\ seen' = [seen EXCEPT ![r] = {value}]
  /\ torn' = [torn EXCEPT ![r] = writing]
  /\ result' = [result EXCEPT ![r] = <<>>]
  /\ UNCHANGED <<value, writing>>

Answers(r) ==
  IF ~torn[r] THEN {value, Whole(value)}
  ELSE IF r \in Locking THEN UNION {Shortened(c) : c \in seen[r]}
  ELSE Mixed(seen[r])

EndRead(r) ==
  /\ seen[r] # {}
  /\ result' \in {[result EXCEPT ![r] = d] : d \in Answers(r)}
  /\ seen' = [seen EXCEPT ![r] = {}]
  /\ torn' = [torn EXCEPT ![r] = FALSE]
  /\ UNCHANGED <<value, writing>>

Next ==
  \/ BeginWrite \/ EndWrite \/ BreakWrite
  \/ \E r \in Readers : BeginRead(r) \/ EndRead(r)

Spec == Init /\ [][Next]_regVars
=============================================================================
