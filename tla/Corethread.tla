----------------------------- MODULE Corethread -----------------------------
(* libcorethread: core 0 starts threads on other cores and joins them, through the
   fields of boot_info->slave.  The loop a slave runs (corethread_worker) belongs to
   the start-up library, outside this repository; corethread.c keeps a copy of it in a
   comment, and the slave is modelled from that copy.  Thread k is a start_routine k
   called with the argument k, which it passes to corethread_exit. *)
EXTENDS NocSync

CONSTANT MaxThreads       \* bound: threads created by an application

ASSUME ThreadAssumption == MaxThreads \in Nat /\ Minus1 > MaxThreads

VARIABLES target,               \* core 0: the core it deals with
          thread, arg,          \* a slave: its local funcpoint, its argument
          threads,              \* history: number of threads created
          left,                 \* history: what the thread of a core ended with
          joined                \* history: <<what the thread ended with, *retval>>

core0 == <<app, target, threads, joined>>
threadVars == <<core0, at, thread, arg, left>>

None == [s \in Slaves |-> NULL]

ThreadInit ==
  /\ app = "configure" /\ target = NULL /\ threads = 0 /\ joined = <<NULL, NULL>>
  /\ at = [s \in Slaves |-> "out"] /\ thread = None /\ arg = None /\ left = None

(* A program that was just downloaded has no threads. *)
NewThreads ==
  /\ app' = "configure" /\ target' = NULL /\ threads' = 0 /\ joined' = <<NULL, NULL>>
  /\ thread' = None /\ arg' = None /\ left' = None
  /\ UNCHANGED at

-----------------------------------------------------------------------------
(* Core 0 *)

(* Timing: a core is asked again only once it has seen the join. *)
SeenJoin(s) == funcpoint[s] = NULL => at[s] \in {"out", "enter", "poll"}

MayCreate(s) == app = "main" /\ threads < MaxThreads /\ SeenJoin(s)

(* Mutant: the core need not be free. *)
CreateUnchecked(s) ==
  /\ MayCreate(s)
  /\ param' = [param EXCEPT ![s] = threads + 1]
  /\ threads' = threads + 1 /\ target' = s /\ app' = "publish"
  /\ UNCHANGED <<joined, status, funcpoint, return_val, at, thread, arg, left>>

(* The test and the argument; otherwise EAGAIN, and nothing changes. *)
corethread_create(s) ==
  /\ MayCreate(s) /\ status[s] # "INITDONE" /\ funcpoint[s] = NULL
  /\ param' = [param EXCEPT ![s] = threads + 1]
  /\ threads' = threads + 1 /\ target' = s /\ app' = "publish"
  /\ UNCHANGED <<joined, status, funcpoint, return_val, at, thread, arg, left>>

Publish ==
  /\ app = "publish" /\ app' = "created"
  /\ funcpoint' = [funcpoint EXCEPT ![target] = threads]
  /\ left' = [left EXCEPT ![target] = NULL]
  /\ UNCHANGED <<target, threads, joined, status, param, return_val, at, thread, arg>>

CreateReturns ==
  /\ app = "created" /\ status[target] = "INITDONE" /\ app' = "main"
  /\ UNCHANGED <<target, threads, joined, slave, at, thread, arg, left>>

(* Applications join the threads they created, once each. *)
BeginJoin(s) ==
  /\ app = "main" /\ funcpoint[s] # NULL
  /\ app' = "join" /\ target' = s
  /\ UNCHANGED <<threads, joined, slave, at, thread, arg, left>>

JoinReads ==
  /\ app = "join" /\ status[target] = "RETURN" /\ app' = "joined"
  /\ joined' = <<left[target], return_val[target]>>
  /\ UNCHANGED <<target, threads, slave, at, thread, arg, left>>

JoinFrees ==
  /\ app = "joined" /\ app' = "main"
  /\ funcpoint' = [funcpoint EXCEPT ![target] = NULL]
  /\ UNCHANGED <<target, threads, joined, status, param, return_val, at, thread, arg, left>>

AllJoined == app = "main" /\ \A s \in Slaves : funcpoint[s] = NULL

InCall == Publish \/ CreateReturns \/ JoinReads \/ JoinFrees

-----------------------------------------------------------------------------
(* A slave *)

SetReturn(s, v) == return_val' = [return_val EXCEPT ![s] = v] /\ UNCHANGED <<param, funcpoint, status>>

Enter(s) ==
  /\ SlaveAt(s, "enter", "poll") /\ SetStatus(s, "RETURN")
  /\ UNCHANGED <<core0, thread, arg, left>>

Poll(s) ==
  /\ SlaveAt(s, "poll", "show") /\ master # "RETURN" /\ funcpoint[s] # NULL
  /\ thread' = [thread EXCEPT ![s] = funcpoint[s]] /\ SetReturn(s, Minus1)
  /\ UNCHANGED <<core0, arg, left>>

Show(s) ==
  /\ SlaveAt(s, "show", "call") /\ SetStatus(s, "INITDONE")
  /\ UNCHANGED <<core0, thread, arg, left>>

(* The argument is read after INITDONE is shown. *)
CallThread(s) ==
  /\ SlaveAt(s, "call", "body") /\ arg' = [arg EXCEPT ![s] = param[s]]
  /\ UNCHANGED <<core0, slave, thread, left>>

(* Timing: a thread ends only after its creator has seen INITDONE. *)
MayEnd(s) == ~(app = "created" /\ target = s)

(* A thread may also return without corethread_exit. *)
ReturnPlainly(s) ==
  /\ SlaveAt(s, "body", "end") /\ MayEnd(s) /\ left' = [left EXCEPT ![s] = Minus1]
  /\ UNCHANGED <<core0, slave, thread, arg>>

(* Mutant: the status before the result. *)
ExitSignalsFirst(s) ==
  \/ /\ SlaveAt(s, "body", "exit") /\ MayEnd(s)
     /\ SetStatus(s, "RETURN") /\ left' = [left EXCEPT ![s] = arg[s]]
     /\ UNCHANGED <<core0, thread, arg>>
  \/ /\ SlaveAt(s, "exit", "end") /\ SetReturn(s, arg[s])
     /\ UNCHANGED <<core0, thread, arg, left>>

corethread_exit(s) ==
  \/ /\ SlaveAt(s, "body", "exit") /\ MayEnd(s)
     /\ SetReturn(s, arg[s]) /\ left' = [left EXCEPT ![s] = arg[s]]
     /\ UNCHANGED <<core0, thread, arg>>
  \/ /\ SlaveAt(s, "exit", "end") /\ SetStatus(s, "RETURN")
     /\ UNCHANGED <<core0, thread, arg, left>>

End(s) ==
  /\ SlaveAt(s, "end", "await_join") /\ SetStatus(s, "RETURN")
  /\ UNCHANGED <<core0, thread, arg, left>>

AwaitJoin(s) ==
  /\ SlaveAt(s, "await_join", "poll") /\ funcpoint[s] = NULL
  /\ UNCHANGED <<core0, slave, thread, arg, left>>

(* Core 0 has returned, and so does the worker. *)
LeaveLoop(s) ==
  /\ SlaveAt(s, "poll", "out") /\ master = "RETURN" /\ SetStatus(s, "RETURN")
  /\ UNCHANGED <<core0, thread, arg, left>>

InWorker(s) == Poll(s) \/ Show(s) \/ CallThread(s) \/ End(s) \/ AwaitJoin(s) \/ LeaveLoop(s)

(* corethread_join delivers what the joined thread ended with: the value it passed
   to corethread_exit or, without that call, -1; never one of an earlier thread, and
   not what the boot loader writes to the same fields. *)
JoinGetsItsResult == joined[1] = joined[2]

(* A thread runs with its own argument, although the slave reads param only after
   it has shown INITDONE and so released corethread_create. *)
ArgumentIsItsOwn == \A s \in Slaves : at[s] \in {"body", "exit"} => arg[s] = thread[s]
=============================================================================
