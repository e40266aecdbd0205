------------------------------ MODULE FolderLoan ------------------------------
(***************************************************************************)
(* What a person who lends a Bot folders of their machine is promised, with *)
(* the queue, the polls, the workers, the faults and the deaths of the      *)
(* desktop left out: a folder they took back stays taken back, a call is    *)
(* made under a folder that is lent, its command is run once at most, and   *)
(* not after its cancel is over, and the Bot hears of success only what     *)
(* was done. Nothing is said of a command that runs after its caller was    *)
(* refused: the refusal is given at once and the cancel takes its time.     *)
(***************************************************************************)
EXTENDS Naturals

CONSTANTS Asks, Calls

Ops == Asks \union Calls

VARIABLES
  told,     \* per operation, what its caller was told: unasked, pending, ok, refused
  lent,     \* per ask, the folder: "none" yet, "live", or "revoked"
  ran,      \* per call, how often its command was run
  over      \* the operations whose cancel is over

vars == <<told, lent, ran, over>>

Init ==
  /\ told = [o \in Ops |-> "unasked"] /\ lent = [a \in Asks |-> "none"]
  /\ ran = [c \in Calls |-> 0] /\ over = {}

Ask(a) ==
  /\ told[a] = "unasked" /\ told' = [told EXCEPT ![a] = "pending"]
  /\ UNCHANGED <<lent, ran, over>>

\* A call under a folder that was taken back is refused and never made.
Call(c, a) ==
  /\ told[c] = "unasked" /\ lent[a] # "none"
  /\ told' = [told EXCEPT ![c] = IF lent[a] = "live" THEN "pending" ELSE "refused"]
  /\ UNCHANGED <<lent, ran, over>>

\* Folders are taken back, and some of those who wait are refused; or only that.
TakeBack(A, S) ==
  /\ \A o \in S : told[o] = "pending"
  /\ told' = [o \in Ops |-> IF o \in S THEN "refused" ELSE told[o]]
  /\ lent' = [a \in Asks |-> IF a \in A /\ lent[a] # "none" THEN "revoked" ELSE lent[a]]
  /\ UNCHANGED <<ran, over>>

Lend(a) ==
  /\ told[a] = "pending" /\ lent[a] = "none"
  /\ told' = [told EXCEPT ![a] = "ok"] /\ lent' = [lent EXCEPT ![a] = "live"]
  /\ UNCHANGED <<ran, over>>

Run(c) ==
  /\ told[c] # "unasked" /\ ran[c] = 0 /\ c \notin over
  /\ ran' = [ran EXCEPT ![c] = 1]
  /\ UNCHANGED <<told, lent, over>>

Report(c) ==
  /\ told[c] = "pending" /\ ran[c] = 1
  /\ told' = [told EXCEPT ![c] = "ok"]
  /\ UNCHANGED <<lent, ran, over>>

End(S) ==
  /\ \A o \in S : told[o] # "unasked"
  /\ over' = over \union S
  /\ UNCHANGED <<told, lent, ran>>

Next ==
  \/ \E a \in Asks : Ask(a) \/ Lend(a) \/ \E c \in Calls : Call(c, a)
  \/ \E c \in Calls : Run(c) \/ Report(c)
  \/ \E S \in SUBSET Ops : End(S) \/ \E A \in SUBSET Asks : TakeBack(A, S)

Spec == Init /\ [][Next]_vars
=============================================================================
