------------------------------ MODULE Secrets ------------------------------
(***************************************************************************)
(* secrets.ts and credentials.ts: the logins of all machines are entries   *)
(* of one file; a process that saves or deletes one reads the file, changes*)
(* its copy and writes the whole back in place, under no lock.  A file     *)
(* that cannot be read counts as empty.                                    *)
(***************************************************************************)
EXTENDS Naturals, FiniteSets

CONSTANTS
  Proc, Machine,
  Absent,
  MaxLogins,   \* bound: logins given to a machine
  Together     \* the number of processes that change the file at a time

SecretsAssumption == IsFiniteSet(Proc) /\ MaxLogins \in Nat /\ Together \in Nat

VARIABLES
  store,     \* the file: of each machine its login
  torn,      \* the file was emptied to be written
  at,        \* of each process: what it is doing
  copy,      \* of each process: the file as it read it
  issued,    \* of each machine: how many logins it was given
  owes       \* ghost: of each machine the login it has, once saved, until deleted

vars == <<store, torn, at, copy, issued, owes>>

Empty == [m \in Machine |-> Absent]
Idle == [do |-> "idle", machine |-> Absent, login |-> Absent]

Init ==
  /\ store = Empty /\ torn = FALSE
  /\ at = [p \in Proc |-> Idle] /\ copy = [p \in Proc |-> Empty]
  /\ issued = [m \in Machine |-> 0] /\ owes = Empty

readConfigStore == IF torn THEN Empty ELSE store

Busy == {p \in Proc : at[p] # Idle}
Free(m) == \A p \in Busy : at[p].machine # m

\* A machine's login is saved and deleted under the machine's own lock.
Begin(p) ==
  /\ at[p] = Idle /\ Cardinality(Busy) < Together
  /\ \E m \in {x \in Machine : Free(x)} :
       \/ /\ issued[m] < MaxLogins
          /\ issued' = [issued EXCEPT ![m] = @ + 1]
          /\ at' = [at EXCEPT ![p] = [do |-> "save", machine |-> m, login |-> issued[m] + 1]]
       \/ /\ readConfigStore[m] # Absent
          /\ at' = [at EXCEPT ![p] = [do |-> "delete", machine |-> m, login |-> Absent]]
          /\ UNCHANGED issued
  /\ copy' = [copy EXCEPT ![p] = readConfigStore]
  /\ UNCHANGED <<store, torn, owes>>

\* Seeded fault: the file is written with this entry alone.
OnlyEntry(p) == [Empty EXCEPT ![at[p].machine] = at[p].login]

Changed(p) == [copy[p] EXCEPT ![at[p].machine] = at[p].login]

\* Opening the file to write it empties it.
Truncate(p) ==
  /\ at[p].do \in {"save", "delete"}
  /\ torn' = TRUE
  /\ at' = [at EXCEPT ![p].do = "writing"]
  /\ UNCHANGED <<store, copy, issued, owes>>

Write(p) ==
  /\ at[p].do = "writing"
  /\ store' = Changed(p) /\ torn' = FALSE
  /\ owes' = [owes EXCEPT ![at[p].machine] = at[p].login]
  /\ at' = [at EXCEPT ![p] = Idle]
  /\ copy' = [copy EXCEPT ![p] = Empty]
  /\ UNCHANGED <<issued>>

Next ==
  \E p \in Proc : Begin(p) \/ Truncate(p) \/ Write(p)

Spec == Init /\ [][Next]_vars

----------------------------------------------------------------------------
Login == Nat \cup {Absent}
Logins == [Machine -> Login]

TypeOK ==
  /\ store \in Logins /\ owes \in Logins /\ torn \in BOOLEAN
  /\ at \in [Proc -> [do : {"save", "delete", "writing"}, machine : Machine, login : Login] \cup {Idle}]
  /\ copy \in [Proc -> Logins] /\ issued \in [Machine -> Nat]

\* Why it is so while processes take turns: the one that changes the file has read what the
\* machines have, and until it empties the file that is what the file says.
TurnTaken ==
  /\ \A p, q \in Busy : p = q
  /\ Busy = {} => ~torn /\ store = owes
  /\ \A p \in Busy : copy[p] = owes /\ (at[p].do # "writing" => ~torn /\ store = owes)

IInv == TypeOK /\ TurnTaken

----------------------------------------------------------------------------
(* Properties                                                              *)

\* A saved login is found until it is deleted, whoever else saves and deletes:
\* the guest may have no other way in, its admin disabled (credentials.ts:10-12,
\* 75-77).  The file gives this only to processes that take turns.
SavedIsFound ==
  \A m \in Machine : (Free(m) /\ \A p \in Proc : at[p].do # "writing")
      => readConfigStore[m] = owes[m]
=============================================================================
