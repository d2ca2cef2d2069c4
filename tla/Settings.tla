------------------------------ MODULE Settings ------------------------------
(***************************************************************************)
(* settings.ts and settings-file.ts: one file of KEY=value lines, edited   *)
(* by hand and by several processes.  A change reads the file, builds the  *)
(* new lines, writes them beside it and renames; a reader takes the        *)
(* environment, then the last line of the key, then the default.           *)
(***************************************************************************)
EXTENDS Integers, Sequences, FiniteSets

CONSTANTS
  Proc,
  Managed, Foreign,   \* keys of lines; the foreign ones stand for comments too
  Value,
  Bad,                \* a value the setting's parser refuses
  Absent,
  MaxLines, MaxEdits, MaxChanges  \* bounds

SettingsAssumption ==
  /\ Managed \cap Foreign = {} /\ Bad \notin Value /\ Absent \notin Value \cup {Bad}
  /\ MaxLines \in Nat /\ MaxEdits \in Nat /\ MaxChanges \in Nat

VARIABLES
  file,     \* its lines
  temp,     \* of each process: the new lines beside it, or Absent
  op,       \* of each process: what it is at, or Idle
  read,     \* of each process: the lines it read
  edits, changes,   \* by hand; by the program
  last      \* the change that made the file what it is

vars == <<file, temp, op, read, edits, changes, last>>

Line(k, v) == [key |-> k, val |-> v]
Idle == [do |-> "idle", key |-> Absent, val |-> Absent]
Hand == [do |-> "hand", key |-> Absent, val |-> Absent]
Set(k, v) == [do |-> "set", key |-> k, val |-> v]
Reset(k) == [do |-> "reset", key |-> k, val |-> Absent]
ResetAll == [do |-> "reset-all", key |-> Absent, val |-> Absent]

Init ==
  /\ file = <<>> /\ temp = [p \in Proc |-> Absent]
  /\ op = [p \in Proc |-> Idle] /\ read = [p \in Proc |-> <<>>]
  /\ edits = 0 /\ changes = 0 /\ last = [by |-> Absent, op |-> Hand]

IndicesOf(lines, k) == {i \in DOMAIN lines : lines[i].key = k}
LastOf(S) == CHOOSE i \in S : \A j \in S : j <= i

\* The lines without those at some places.
Without(lines, S) ==
  LET kept[i \in 0..Len(lines)] ==
        IF i = 0 THEN <<>> ELSE IF i \in S THEN kept[i - 1] ELSE Append(kept[i - 1], lines[i])
  IN  kept[Len(lines)]

FileValue(lines, k) ==
  LET S == IndicesOf(lines, k) IN IF S = {} THEN Absent ELSE lines[LastOf(S)].val

\* Environment, file, default: the first that is there is taken or refused.
Resolved(lines, env, k) ==
  LET raw == IF env[k] # Absent THEN env[k] ELSE FileValue(lines, k)
  IN CASE raw = Absent -> "default" [] raw = Bad -> "refused" [] OTHER -> raw

\* Seeded fault: the first line of the key is replaced and its repetitions stay.
WithFirstSet(lines, k, v) ==
  LET S == IndicesOf(lines, k)
  IN IF S = {} THEN Append(lines, Line(k, v))
     ELSE [lines EXCEPT ![CHOOSE i \in S : \A j \in S : i <= j] = Line(k, v)]

\* The last line of the key is replaced, the ones before it are dropped.
WithSet(lines, k, v) ==
  LET S == IndicesOf(lines, k)
  IN IF S = {} THEN Append(lines, Line(k, v))
     ELSE Without([lines EXCEPT ![LastOf(S)] = Line(k, v)], S \ {LastOf(S)})

\* Seeded fault: a reset of everything takes the person's own lines too.
Emptied(lines) == <<>>

WithoutManaged(lines) == Without(lines, UNION {IndicesOf(lines, k) : k \in Managed})

\* Nothing is written when nothing is to be cleared.
Outcome(lines, o) ==
  CASE o.do = "set" -> WithSet(lines, o.key, o.val)
    [] o.do = "reset" -> Without(lines, IndicesOf(lines, o.key))
    [] OTHER -> WithoutManaged(lines)

\* A value the parser refuses never reaches the file.
Ops == {Set(k, v) : k \in Managed, v \in Value} \cup {Reset(k) : k \in Managed} \cup {ResetAll}

Begin(p) ==
  /\ op[p] = Idle /\ changes < MaxChanges /\ changes' = changes + 1
  /\ \E o \in Ops :
       /\ o.do = "set" \/ Outcome(file, o) # file
       /\ op' = [op EXCEPT ![p] = o]
  /\ read' = [read EXCEPT ![p] = file]
  /\ UNCHANGED <<file, temp, edits, last>>

WriteTemp(p) ==
  /\ op[p] # Idle /\ temp[p] = Absent
  /\ temp' = [temp EXCEPT ![p] = Outcome(read[p], op[p])]
  /\ UNCHANGED <<file, op, read, edits, changes, last>>

Rename(p) ==
  /\ temp[p] # Absent
  /\ file' = temp[p]
  /\ last' = [by |-> p, op |-> op[p]]
  /\ temp' = [temp EXCEPT ![p] = Absent] /\ op' = [op EXCEPT ![p] = Idle]
  /\ read' = [read EXCEPT ![p] = <<>>]
  /\ UNCHANGED <<edits, changes>>

\* A rename that fails takes the new lines away; a process that dies leaves them.
GiveUp(p) ==
  /\ op[p] # Idle
  /\ temp' = [temp EXCEPT ![p] = Absent] /\ op' = [op EXCEPT ![p] = Idle]
  /\ read' = [read EXCEPT ![p] = <<>>]
  /\ UNCHANGED <<file, edits, changes, last>>

\* The file is the user's too: any line may be added or changed.
Edit ==
  /\ edits < MaxEdits /\ edits' = edits + 1
  /\ \E k \in Managed \cup Foreign, v \in Value \cup {Bad} :
       \/ Len(file) < MaxLines /\ file' = Append(file, Line(k, v))
       \/ \E i \in DOMAIN file : file' = [file EXCEPT ![i] = Line(k, v)]
  /\ last' = [by |-> Absent, op |-> Hand]
  /\ UNCHANGED <<temp, op, read, changes>>

Next == Edit \/ \E p \in Proc : Begin(p) \/ WriteTemp(p) \/ Rename(p) \/ GiveUp(p)

Spec == Init /\ [][Next]_vars

----------------------------------------------------------------------------
\* Why it is so: what a process is about to rename, and what one renamed, is what its change
\* makes of some lines.
Lines == Seq([key : Managed \cup Foreign, val : Value \cup {Bad}])

TypeOK ==
  /\ file \in Lines /\ read \in [Proc -> Lines]
  /\ op \in [Proc -> Ops \cup {Idle}] /\ temp \in [Proc -> Lines \cup {Absent}]
  /\ last.op \in Ops \cup {Hand}

IInv ==
  /\ TypeOK
  /\ \A p \in Proc : temp[p] # Absent => op[p] # Idle /\ temp[p] = Outcome(read[p], op[p])
  /\ last.op # Hand => \E lines \in Lines : file = Outcome(lines, last.op)

----------------------------------------------------------------------------
(* Properties                                                              *)

Key(o) == IF o.do = "reset-all" THEN Managed ELSE {o.key}
Others(lines, o) == {i \in DOMAIN lines : lines[i].key \notin Key(o)}

Place(lines, o, i) == Cardinality({j \in Others(lines, o) : j <= i})

\* The lines of other keys, each with its place among them.
OtherLines(lines, o) == {<<Place(lines, o, i), lines[i]>> : i \in Others(lines, o)}

\* What was set is what a reader takes next, whatever lines the key had before,
\* unless the environment says otherwise; what was reset is unset
\* (settings.ts:282-318, 324-362; settings-file.ts:33-47).
ChangeIsResolved ==
  \A env \in [Managed -> {Absent, Bad} \cup Value], k \in Managed :
    (last.op.do # "hand" /\ k \in Key(last.op)) =>
      Resolved(file, env, k) =
        CASE env[k] = Bad -> "refused"
          [] env[k] \in Value -> env[k]
          [] OTHER -> IF last.op.do = "set" THEN last.op.val ELSE "default"

\* A change keeps every other line, in its order, as this process read it, also
\* those of another's unfinished change (settings.ts:280-281, 324-325).
KeepsOtherLines ==
  \A p \in Proc : (file' # file /\ op[p] # Idle /\ op'[p] = Idle /\ last'.by = p) =>
    OtherLines(file', op[p]) = OtherLines(read[p], op[p])
=============================================================================
