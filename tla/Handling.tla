------------------------------- MODULE Handling -------------------------------
(***************************************************************************)
(* The handlers that serve the requests of a center next to one another    *)
(* (net/http runs each request in a goroutine of its own), and how much    *)
(* happens in a behaviour: shared by Roster and Coursework.                *)
(***************************************************************************)
EXTENDS Naturals, FiniteSets

CONSTANTS
  Handlers,    \* requests served at the same time
  MaxRequests, \* bound: requests of two and more transactions
  MaxEdits,    \* bound: edits of one transaction
  MaxFaults    \* bound: failed statements and crashes

ASSUME HandlingAssumption ==
  /\ MaxRequests \in Nat /\ MaxEdits \in Nat /\ MaxFaults \in Nat

VARIABLES
  request,     \* what each handler has read and still has to do
  bounds       \* requests, edits and faults so far

Idle == [op |-> "idle"]

BoundsTypeOK ==
  bounds \in [requests : 0..MaxRequests, edits : 0..MaxEdits, faults : 0..MaxFaults]

HandlingInit ==
  /\ request = [h \in Handlers |-> Idle]
  /\ bounds = [requests |-> 0, edits |-> 0, faults |-> 0]

Ask   == /\ bounds.requests < MaxRequests
         /\ bounds' = [bounds EXCEPT !.requests = @ + 1]
Edit  == /\ bounds.edits < MaxEdits
         /\ bounds' = [bounds EXCEPT !.edits = @ + 1]
Fault == /\ bounds.faults < MaxFaults
         /\ bounds' = [bounds EXCEPT !.faults = @ + 1]
=============================================================================
