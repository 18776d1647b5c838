---------------------------- MODULE ReplayMemory ----------------------------
(***************************************************************************)
(* What the replay window promises, without saying how it is kept: the     *)
(* last pairs issued, each remembered for exactly Window seconds, the      *)
(* oldest given up when there are more than Capacity, and a lookup         *)
(* answered for the client they were issued to with the end of the chain   *)
(* of rotations and the seconds that pair really has left.                 *)
(***************************************************************************)
EXTENDS Integers, FiniteSets

CONSTANTS Window, Capacity, MaxTime, None

VARIABLES clock, memory, answer

vars == <<clock, memory, answer>>

Fresh(entries, now) == {e \in entries : now <= e.at + Window}

Successors(e) ==
  {f \in memory : f.key = e.next /\ f.client = e.client}

\* The entries reached from e by following rotations.
Reached(e) ==
  {f \in memory : \A S \in SUBSET memory :
     e \in S /\ (\A g \in S : Successors(g) \subseteq S) => f \in S}

Newest(key, client) ==
  {f \in UNION {Reached(e) : e \in {m \in memory : m.key = key /\ m.client = client}} :
     Successors(f) = {}}

SecondsLeft(f) == IF f.until > clock + 1 THEN f.until - clock ELSE 1

\* The Capacity youngest of a set of entries that always includes the new one.
Youngest(entries, kept, new) ==
  /\ kept \subseteq entries
  /\ new \in kept
  /\ Cardinality(kept) = IF Cardinality(entries) > Capacity THEN Capacity
                         ELSE Cardinality(entries)
  /\ \A e \in kept, f \in entries \ kept : f.at <= e.at

Init == clock = 0 /\ memory = {} /\ answer = None

Remember ==
  \E new \in memory' :
    /\ new.at = clock
    /\ Youngest({e \in memory : e.key # new.key} \cup {new}, memory', new)
    /\ UNCHANGED <<clock, answer>>

Ask(key, client) ==
  /\ answer' \in IF Newest(key, client) = {} THEN {None}
                 ELSE {[next |-> f.next, left |-> SecondsLeft(f)] : f \in Newest(key, client)}
  /\ UNCHANGED <<clock, memory>>

Tick ==
  /\ clock < MaxTime
  /\ clock' = clock + 1
  /\ memory' = Fresh(memory, clock')
  /\ UNCHANGED answer

CONSTANTS Token, Client

Next == Remember \/ Tick \/ \E k \in Token, c \in Client : Ask(k, c)

Spec == Init /\ [][Next]_vars
=============================================================================
