------------------------------ MODULE Handlers ------------------------------
(***************************************************************************)
(* How requests run in the Node process. A handler runs alone from one     *)
(* await to the next; at an await it is suspended with what it has read,   *)
(* and any other handler may run. The modules of the users, of Redis, of   *)
(* the files and of the sockets are written over this one: `pc` is the     *)
(* await a request stands at and `local` what it holds there.              *)
(***************************************************************************)
EXTENDS Naturals, FiniteSets

CONSTANTS
  Requests,  \* requests in flight at once
  Scenarios  \* the sets of operations to be exercised together

ASSUME HandlersAssumption == IsFiniteSet(Requests)

VARIABLES
  ops,    \* the scenario of this behaviour
  pc,     \* the await at which each request stands
  local,  \* what it holds there
  calm    \* history: never yet two requests in flight together

control == <<ops, pc, local, calm>>

Nothing == [op |-> "none"]

HandlersInit ==
  /\ ops \in Scenarios
  /\ pc = [p \in Requests |-> "idle"]
  /\ local = [p \in Requests |-> Nothing]
  /\ calm = TRUE

\* A call of an operation comes in.
Arrive(p, op) ==
  /\ op \in ops /\ pc[p] = "idle"
  /\ calm' = (calm /\ \A q \in Requests : pc[q] = "idle")
  /\ UNCHANGED ops

\* Wait for the answer to the query `label`, or wait for the next one.
Suspend(p, label, held) ==
  /\ pc' = [pc EXCEPT ![p] = label]
  /\ local' = [local EXCEPT ![p] = held]

At(p, label) == pc[p] = label /\ UNCHANGED <<ops, calm>>

\* Answer the request, with a result or an error.
Return(p) == Suspend(p, "idle", Nothing)

\* A call that never waits between reading and writing.
AtOnce == UNCHANGED <<pc, local>>

\* The answer to a query is an error: the handler throws.
Broken(p) == pc[p] # "idle" /\ "fail" \in ops /\ Return(p) /\ UNCHANGED <<ops, calm>>

\* Calls of an operation in flight: a bound on what it creates counts them.
Underway(op) == Cardinality({q \in Requests : local[q].op = op})

\* How often something happens that one call at a time lets happen once.
AtMostOnce == IF calm THEN 1 ELSE Cardinality(Requests)
=============================================================================
