------------------------------ MODULE NocLock ------------------------------
(* The lock of libmp between two cores: a bakery lock whose shared variables are
   copied to the other core by the network.  Each core waits until the network
   interface has finished (noc_dma_done) where the code says "Enforce memory
   barrier"; only the end of "entering" is announced without waiting.  lpc is the place
   of a core in acquire_lock and release_lock; it is "cs" between the two. *)
EXTENDS Channel

VARIABLES lpc,
          local_entering, local_number,     \* a core's own variables
          remote_entering, remote_number    \* its copy of the other core's

lockVars == <<lpc, local_entering, local_number, remote_entering, remote_number>>

Entering == [kind |-> "entering"]
TheNumber == [kind |-> "number"]

LockInit ==
  /\ lpc = [e \in Ends |-> "out"]
  /\ local_entering = [e \in Ends |-> FALSE] /\ remote_entering = [e \in Ends |-> FALSE]
  /\ local_number = [e \in Ends |-> 0] /\ remote_number = [e \in Ends |-> 0]

initialize_lock(e) ==
  /\ local_entering' = [local_entering EXCEPT ![e] = FALSE]
  /\ remote_entering' = [remote_entering EXCEPT ![e] = FALSE]
  /\ local_number' = [local_number EXCEPT ![e] = 0]
  /\ remote_number' = [remote_number EXCEPT ![e] = 0]
  /\ UNCHANGED lpc

LockAt(e, from, to) == lpc[e] = from /\ lpc' = [lpc EXCEPT ![e] = to]

-----------------------------------------------------------------------------
(* acquire_lock *)

ShowEntering(e) ==
  /\ LockAt(e, "enter", "take")
  /\ local_entering' = [local_entering EXCEPT ![e] = TRUE]
  /\ k_noc_dma_write(e, Entering)
  /\ UNCHANGED <<local_number, remote_entering, remote_number>>

(* Mutant: the number is taken before the other core knows of it. *)
TakeTooSoon(e) ==
  /\ LockAt(e, "take", "show")
  /\ local_number' = [local_number EXCEPT ![e] = remote_number[e] + 1]
  /\ dma' = [dma EXCEPT ![e] = TheNumber]
  /\ UNCHANGED <<local_entering, remote_entering, remote_number>>

TakeNumber(e) ==
  /\ LockAt(e, "take", "show") /\ k_noc_dma_done(e)
  /\ local_number' = [local_number EXCEPT ![e] = remote_number[e] + 1]
  /\ k_noc_dma_write(e, TheNumber)
  /\ UNCHANGED <<local_entering, remote_entering, remote_number>>

ShowEntered(e) ==
  /\ LockAt(e, "show", "await") /\ k_noc_dma_done(e)
  /\ local_entering' = [local_entering EXCEPT ![e] = FALSE]
  /\ k_noc_dma_write(e, Entering)
  /\ UNCHANGED <<local_number, remote_entering, remote_number>>

AwaitEntered(e) ==
  /\ LockAt(e, "await", "queue") /\ ~remote_entering[e]
  /\ UNCHANGED <<local_entering, local_number, remote_entering, remote_number, dma>>

(* The core of the source has the smaller id. *)
IsBehind(e) ==
  /\ remote_number[e] # 0
  /\ \/ remote_number[e] < local_number[e]
     \/ remote_number[e] = local_number[e] /\ e = "sink"

AwaitTurn(e) ==
  /\ LockAt(e, "queue", "cs") /\ ~IsBehind(e)
  /\ UNCHANGED <<local_entering, local_number, remote_entering, remote_number, dma>>

(* release_lock *)

DropNumber(e) ==
  /\ LockAt(e, "leave", "gone")
  /\ local_number' = [local_number EXCEPT ![e] = 0]
  /\ k_noc_dma_write(e, TheNumber)
  /\ UNCHANGED <<local_entering, remote_entering, remote_number>>

AwaitDropped(e) ==
  /\ LockAt(e, "gone", "out") /\ k_noc_dma_done(e)
  /\ UNCHANGED <<local_entering, local_number, remote_entering, remote_number, dma>>

LockStep(e) ==
  \/ ShowEntering(e) \/ TakeNumber(e) \/ ShowEntered(e) \/ AwaitEntered(e) \/ AwaitTurn(e)
  \/ DropNumber(e) \/ AwaitDropped(e)

(* The network interface delivers a variable of the lock. *)
MoveLock(e) ==
  /\ \/ /\ dma[e] = Entering
        /\ remote_entering' = [remote_entering EXCEPT ![Remote(e)] = local_entering[e]]
        /\ UNCHANGED remote_number
     \/ /\ dma[e] = TheNumber
        /\ remote_number' = [remote_number EXCEPT ![Remote(e)] = local_number[e]]
        /\ UNCHANGED remote_entering
  /\ dma' = [dma EXCEPT ![e] = Idle]
  /\ UNCHANGED <<lpc, local_entering, local_number>>

(* The cores are never both between the return of acquire_lock and the call of
   release_lock, although each judges by copies that are on their way. *)
MutualExclusion == ~(lpc["src"] = "cs" /\ lpc["sink"] = "cs")
=============================================================================
