------------------------------- MODULE MCSuse -------------------------------
(* Small servers for SuseProperties: program A with up to three threads, so *)
(* that two of them can be woken at once, and program B with its main.      *)
EXTENDS SuseProperties, TLC

CONSTANTS progA, progB, mainA, workerA1, workerA2, mainB, semX, semY

MCOwner == [t \in Thread |-> IF t = mainB THEN progB ELSE progA]
MCMain == progA :> mainA @@ progB :> mainB

\* As in suse.ini: one semaphore starts at 0, one at 1.
MCSemInit == [s \in Sem |-> IF s = semX THEN 0 ELSE 1]
MCSemMax == [s \in Sem |-> 1]

\* Nothing tells A's two workers apart.
WorkersAlike == Permutations({workerA1, workerA2})

Nobody == {}
OnlyB == {progB}
=============================================================================
