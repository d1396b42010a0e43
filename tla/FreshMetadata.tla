--------------------------- MODULE FreshMetadata ---------------------------
(***************************************************************************)
(* What the metadata path of the cluster promises a reader of one remote  *)
(* file F: the metadata it is answered is a version F really had, at some *)
(* time no more than Bound seconds before the answer.  Nothing stronger is *)
(* promised: three caches (the gateway's, the metadata proxy's and the    *)
(* smbproxy's direct reads of the shared Redis) each add their age.       *)
(*                                                                         *)
(* lastSeen[v] is how many seconds ago F last had version v (0: during   *)
(* the current second), counted up to Bound + 1.  Version 0 stands for "F *)
(* does not exist"; before the first state F had version 1 only.           *)
(* MetadataCache implements this specification.                           *)
(***************************************************************************)
EXTENDS Integers

CONSTANTS Readers, MaxVersion, Bound

VARIABLES fs, lastSeen, answer

vars == <<fs, lastSeen, answer>>

Versions == 0..MaxVersion
NoAnswer == -1

TypeOK ==
    /\ fs \in Versions
    /\ lastSeen \in [Versions -> 0..(Bound + 1)]
    /\ answer \in [Readers -> Versions \cup {NoAnswer}]

\* The versions F had at some time in the last Bound seconds.
Recent == {v \in Versions : lastSeen[v] <= Bound}

Init ==
    /\ fs = 1
    /\ lastSeen = [v \in Versions |-> IF v = 1 THEN 0 ELSE Bound + 1]
    /\ answer = [r \in Readers |-> NoAnswer]

\* A second passes.
Tick ==
    /\ lastSeen' = [v \in Versions |->
                      IF v = fs THEN 0
                      ELSE IF lastSeen[v] <= Bound THEN lastSeen[v] + 1 ELSE Bound + 1]
    /\ UNCHANGED <<fs, answer>>

Change ==
    /\ \E v \in Versions :
         /\ fs' = v
         /\ lastSeen' = [lastSeen EXCEPT ![v] = 0]
    /\ UNCHANGED answer

Answer(r) ==
    /\ \E v \in Recent : answer' = [answer EXCEPT ![r] = v]
    /\ UNCHANGED <<fs, lastSeen>>

Forget(r) ==
    /\ answer' = [answer EXCEPT ![r] = NoAnswer]
    /\ UNCHANGED <<fs, lastSeen>>

Next == Tick \/ Change \/ \E r \in Readers : Answer(r) \/ Forget(r)

Spec == Init /\ [][Next]_vars

=============================================================================
