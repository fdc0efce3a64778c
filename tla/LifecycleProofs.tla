-------------------------- MODULE LifecycleProofs --------------------------
(***************************************************************************)
(* Theorems about Lifecycle, for any number of queues and workers: what    *)
(* main() opened is closed once and never under a worker, and the life     *)
(* cycle implements Lifetime.  The inductive invariant says, for every     *)
(* place main() can be in, which queues are open and which workers run:    *)
(* the loop counter i is the border between what a loop has done and what  *)
(* it has still to do.                                                     *)
(***************************************************************************)
EXTENDS Lifecycle, TLAPS

Idle(k) == worker[k] \in {"none", "joined"}

AllOpen == \A k \in Queues : fd[k] = "open"

FdInv ==
  /\ \A k \in Queues : fd[k] # "bad"
  /\ pc = "alloc" => /\ i \in Queues
                     /\ \A k \in Queues : /\ k < i => fd[k] = "open"
                                          /\ k >= i => fd[k] = "none"
  /\ pc = "unwind" => /\ i < NThread
                      /\ \A k \in Queues : fd[k] = "open" <=> k <= i
  /\ pc \in {"ifup", "daemon", "signal", "spawn", "serve", "abort"} => AllOpen
  /\ pc \in {"ifup", "daemon", "signal"} => i = 0
  /\ pc \in {"join", "fail_tun"} => /\ i >= 0
                                    /\ \A k \in Queues : fd[k] = "open" <=> k >= i
  /\ pc = "join" => i \in Queues
  /\ pc \in {"free", "exit"} => \A k \in Queues : fd[k] # "open"

WorkerInv ==
  /\ pc \in {"alloc", "unwind", "ifup", "daemon", "signal", "killed"} => ~handler
  /\ pc \in {"spawn", "serve", "join", "abort"} => handler
  /\ ~handler => \A k \in Queues : worker[k] = "none"
  /\ pc = "spawn" => i \in Queues /\ \A k \in Queues : k >= i => worker[k] = "none"
  /\ pc = "abort" => i < NThread /\ \A k \in Queues : k > i => Idle(k)
  /\ pc = "join" => \A k \in Queues : k < i => Idle(k)
  /\ pc = "fail_tun" => \A k \in Queues : Idle(k)
  /\ pc \in {"free", "exit"} => \A k \in Queues : worker[k] \notin Running
  /\ pc = "serve" => NThread = 1

ChainsInv == chains = IF pc = "exit" THEN "freed" ELSE "live"

DevInv == \A k \in Queues : fd[k] = "open" => dev[k] = ifname /\ ifname # Template

ShutdownInv ==
  /\ \A k \in Queues : worker[k] \in {"exited", "joined"} => shutdown
  /\ ret = "success" => shutdown

ReadInv ==
  \A k \in Queues :
    worker[k] = "read" \/ (worker[k] = "check" /\ pollres[k] > 0) => queue[k] > 0 \/ k \in gone

IInv == /\ TypeOK
        /\ FdInv
        /\ WorkerInv
        /\ ChainsInv
        /\ DevInv
        /\ ShutdownInv
        /\ ReadInv
-----------------------------------------------------------------------------
\* Closing an open queue changes that queue only.
LEMMA CloseOpen ==
  ASSUME TypeOK, NEW q \in Queues, fd[q] = "open", fd' = Closed(q)
  PROVE  /\ fd'[q] = "closed"
         /\ \A k \in Queues : k # q => fd'[k] = fd[k]
         /\ fd' \in [Queues -> {"none", "open", "closed", "bad"}]
  BY DEF TypeOK, Closed

LEMMA InitIInv == Init => IInv
<1> SUFFICES ASSUME Init PROVE IInv
  OBVIOUS
<1>1. TypeOK
  <2>1. i \in -1 .. NThread /\ ifname \in 0 .. NThread
    BY NThreadAssumption DEF Init, Template
  <2>2. 0 \in 0 .. NThread /\ 0 \in 0 .. MaxQueue /\ 0 \in {-1, 0, 1}
    BY NThreadAssumption, MaxQueueAssumption
  <2>3. /\ dev \in [Queues -> 0 .. NThread]
        /\ queue \in [Queues -> 0 .. MaxQueue]
        /\ pollres \in [Queues -> {-1, 0, 1}]
    BY <2>2, Zenon DEF Init
  <2>4. QED
    BY <2>1, <2>3 DEF Init, TypeOK, MainPC, Running
<1>2. FdInv
  <2>1. i = 0 /\ 0 \in Queues /\ pc = "alloc"
    BY NThreadAssumption DEF Init, Queues
  <2>2. \A k \in Queues : fd[k] = "none" /\ k >= 0
    BY DEF Init, Queues
  <2>3. QED
    BY <2>1, <2>2 DEF FdInv, Queues
<1>3. WorkerInv
  BY DEF Init, WorkerInv
<1>4. ChainsInv /\ DevInv /\ ShutdownInv /\ ReadInv
  BY DEF Init, ChainsInv, DevInv, ShutdownInv, ReadInv
<1>5. QED
  BY <1>1, <1>2, <1>3, <1>4 DEF IInv

\* The steps of main() preserve the inductive invariant.
LEMMA MainIInv == IInv /\ MainStep => IInv'
<1> SUFFICES ASSUME IInv, MainStep PROVE IInv'
  OBVIOUS
<1> USE NThreadAssumption, FlagsAssumption, MaxQueueAssumption
    DEF IInv, TypeOK, FdInv, WorkerInv, ChainsInv, DevInv, ShutdownInv, ReadInv,
        AllOpen, Idle, Queues, MainPC, Running, Template, Attached,
        workerVars, kernelVars
<1>1. CASE TunAlloc
  <2>1. /\ i \in Queues
        /\ \A k \in Queues : /\ fd'[k] = IF k = i THEN "open" ELSE fd[k]
                             /\ dev'[k] = IF k = i THEN ifname' ELSE dev[k]
        /\ ifname' \in 1 .. NThread
    BY <1>1 DEF TunAlloc
  <2>2. TypeOK'
    <3>1. /\ fd' \in [Queues -> {"none", "open", "closed", "bad"}]
          /\ dev' \in [Queues -> 0 .. NThread]
      BY <1>1, <2>1 DEF TunAlloc
    <3>2. pc' \in MainPC /\ i' \in -1 .. NThread /\ ifname' \in 0 .. NThread
      BY <1>1, <2>1 DEF TunAlloc
    <3>3. UNCHANGED <<chains, handler, ret, shutdown, worker, pollres, queue, gone>>
      BY <1>1 DEF TunAlloc
    <3>4. QED
      BY <3>1, <3>2, <3>3
  <2>3. FdInv'
    <3>1. \A k \in Queues : k < i => fd'[k] = "open"
      BY <1>1, <2>1 DEF TunAlloc
    <3>2. CASE i + 1 < NThread
      BY <1>1, <2>1, <3>1, <3>2 DEF TunAlloc
    <3>3. CASE ~(i + 1 < NThread)
      <4>1. AllOpen'
        BY <2>1, <3>1, <3>3
      <4>2. i' = 0 /\ pc' = "ifup"
        BY <1>1, <3>3 DEF TunAlloc
      <4>3. QED
        BY <4>1, <4>2
    <3>4. QED
      BY <3>2, <3>3
  <2>4. DevInv'
    BY <1>1, <2>1 DEF TunAlloc
  <2>5. WorkerInv' /\ ChainsInv' /\ ShutdownInv' /\ ReadInv'
    BY <1>1 DEF TunAlloc
  <2>6. QED
    BY <2>2, <2>3, <2>4, <2>5
<1>2. CASE TunAllocFail
  <2>1. TypeOK' /\ DevInv' /\ ShutdownInv' /\ ReadInv'
    BY <1>2 DEF TunAllocFail
  <2>2. FdInv' /\ WorkerInv' /\ ChainsInv'
    BY <1>2 DEF TunAllocFail
  <2>3. QED
    BY <2>1, <2>2
<1>3. CASE TunsAllocUnwind
  <2>1. CASE i >= 0
    <3>1. i \in Queues /\ fd[i] = "open" /\ fd' = Closed(i)
      BY <1>3, <2>1 DEF TunsAllocUnwind
    <3>2. /\ fd'[i] = "closed"
          /\ \A k \in Queues : k # i => fd'[k] = fd[k]
          /\ fd' \in [Queues -> {"none", "open", "closed", "bad"}]
      BY <3>1, CloseOpen
    <3>3. TypeOK'
      <4>1. /\ pc' = "unwind" /\ i' = i - 1
            /\ UNCHANGED <<ifname, dev, chains, handler, shutdown, worker, pollres, queue,
                          gone, ret>>
        BY <1>3, <2>1 DEF TunsAllocUnwind
      <4>2. QED
        BY <2>1, <3>2, <4>1
    <3>4. FdInv'
      BY <1>3, <2>1, <3>1, <3>2 DEF TunsAllocUnwind
    <3>5. DevInv'
      BY <1>3, <2>1, <3>2 DEF TunsAllocUnwind
    <3>6. WorkerInv' /\ ChainsInv' /\ ShutdownInv' /\ ReadInv'
      BY <1>3, <2>1 DEF TunsAllocUnwind
    <3>7. QED
      BY <3>3, <3>4, <3>5, <3>6
  <2>2. CASE ~(i >= 0)
    <3>1. TypeOK' /\ FdInv' /\ DevInv'
      BY <1>3, <2>2 DEF TunsAllocUnwind
    <3>2. WorkerInv' /\ ChainsInv' /\ ShutdownInv' /\ ReadInv'
      BY <1>3, <2>2 DEF TunsAllocUnwind
    <3>3. QED
      BY <3>1, <3>2
  <2>3. QED
    BY <2>1, <2>2
<1>4. CASE Ifup \/ Daemon
  <2>1. /\ UNCHANGED <<i, ifname, fd, dev, chains, handler, ret, shutdown, workerVars, kernelVars>>
        /\ pc \in {"ifup", "daemon"} /\ pc' \in {"daemon", "signal", "fail_tun"}
    BY <1>4 DEF Ifup, Daemon
  <2>2. TypeOK' /\ DevInv' /\ ShutdownInv' /\ ReadInv'
    BY <2>1
  <2>3. FdInv' /\ WorkerInv' /\ ChainsInv'
    BY <1>4, <2>1 DEF Ifup, Daemon
  <2>4. QED
    BY <2>2, <2>3
<1>5. CASE InstallHandler
  BY <1>5 DEF InstallHandler
<1>6. CASE ThrdCreate
  <2>1. /\ i \in Queues
        /\ \A k \in Queues : worker'[k] = IF k = i THEN "poll" ELSE worker[k]
    BY <1>6 DEF ThrdCreate
  <2>2. TypeOK'
    BY <1>6, <2>1 DEF ThrdCreate
  <2>3. FdInv'
    BY <1>6, <2>1 DEF ThrdCreate
  <2>4. WorkerInv'
    <3>1. CASE i + 1 < NThread
      BY <1>6, <2>1, <3>1 DEF ThrdCreate
    <3>2. CASE ~(i + 1 < NThread)
      BY <1>6, <2>1, <3>2 DEF ThrdCreate
    <3>3. QED
      BY <3>1, <3>2
  <2>5. ChainsInv' /\ DevInv' /\ ShutdownInv' /\ ReadInv'
    BY <1>6, <2>1 DEF ThrdCreate
  <2>6. QED
    BY <2>2, <2>3, <2>4, <2>5
<1>7. CASE ThrdCreateFail
  BY <1>7 DEF ThrdCreateFail
<1>8. CASE AbortJoin
  BY <1>8 DEF AbortJoin
<1>9. CASE AbortJoined
  BY <1>9 DEF AbortJoined
<1>10. CASE FailTun
  <2>1. CASE i < NThread
    <3>1. i \in Queues /\ fd[i] = "open" /\ fd' = Closed(i)
      BY <1>10, <2>1 DEF FailTun
    <3>2. /\ fd'[i] = "closed"
          /\ \A k \in Queues : k # i => fd'[k] = fd[k]
          /\ fd' \in [Queues -> {"none", "open", "closed", "bad"}]
      BY <3>1, CloseOpen
    <3>3. QED
      <4>1. /\ pc' = "fail_tun" /\ i' = i + 1 /\ i' \in 0 .. NThread
            /\ \A k \in Queues : fd'[k] # "bad" /\ (fd'[k] = "open" <=> k >= i')
        <5>1. pc' = "fail_tun" /\ i' = i + 1 /\ i \in 0 .. NThread - 1
          BY <1>10, <2>1, <3>1 DEF FailTun
        <5>2. \A k \in Queues : fd[k] # "bad" /\ (fd[k] = "open" <=> k >= i)
          BY <1>10, <2>1 DEF FailTun
        <5>3. \A k \in Queues : k >= i' <=> k >= i /\ k # i
          BY <5>1
        <5>4. i' \in 0 .. NThread
          BY <5>1
        <5>5. QED
          BY <3>2, <5>1, <5>2, <5>3, <5>4
      <4>2. TypeOK'
        <5>1. UNCHANGED <<ifname, dev, chains, handler, shutdown, worker, pollres, queue,
                          gone, ret>>
          BY <1>10, <2>1 DEF FailTun
        <5>2. QED
          BY <3>2, <4>1, <5>1
      <4>3. FdInv'
        BY <1>10, <3>2, <4>1 DEF FailTun
      <4>4. DevInv'
        BY <1>10, <3>2 DEF FailTun
      <4>5. WorkerInv' /\ ChainsInv' /\ ShutdownInv' /\ ReadInv'
        BY <1>10, <4>1 DEF FailTun
      <4>6. QED
        BY <4>2, <4>3, <4>4, <4>5
  <2>2. CASE ~(i < NThread)
    BY <1>10, <2>2 DEF FailTun
  <2>3. QED
    BY <2>1, <2>2
<1>11. CASE ThrdJoin
  <2>1. i \in Queues /\ fd[i] = "open" /\ fd' = Closed(i)
    BY <1>11 DEF ThrdJoin
  <2>2. /\ fd'[i] = "closed"
        /\ \A k \in Queues : k # i => fd'[k] = fd[k]
        /\ fd' \in [Queues -> {"none", "open", "closed", "bad"}]
    BY <2>1, CloseOpen
  <2>3. /\ worker'[i] = "joined"
        /\ \A k \in Queues : k # i => worker'[k] = worker[k]
        /\ worker' \in [Queues -> Running \cup {"none", "exited", "joined"}]
    BY <1>11, <2>1 DEF ThrdJoin
  <2>4. CASE i + 1 < NThread
    <3>1. pc' = "join" /\ i' = i + 1 /\ UNCHANGED <<ret, shutdown>>
      BY <1>11, <2>4 DEF ThrdJoin
    <3>2. TypeOK'
      BY <1>11, <2>1, <2>2, <2>3, <2>4, <3>1 DEF ThrdJoin
    <3>3. FdInv' /\ DevInv' /\ ChainsInv'
      BY <1>11, <2>1, <2>2, <2>4, <3>1 DEF ThrdJoin
    <3>4. WorkerInv'
      BY <1>11, <2>1, <2>3, <2>4, <3>1 DEF ThrdJoin
    <3>5. ShutdownInv' /\ ReadInv'
      BY <1>11, <2>1, <2>3, <3>1 DEF ThrdJoin
    <3>6. QED
      BY <3>2, <3>3, <3>4, <3>5
  <2>5. CASE ~(i + 1 < NThread)
    <3>1. i = NThread - 1 /\ pc' = "free" /\ i' = i /\ shutdown
      BY <1>11, <2>1, <2>5 DEF ThrdJoin
    <3>2. \A k \in Queues : fd'[k] = "closed" \/ (fd'[k] # "open" /\ fd'[k] # "bad")
      <4> SUFFICES ASSUME NEW k \in Queues PROVE fd'[k] # "open" /\ fd'[k] # "bad"
        OBVIOUS
      <4>1. CASE k = i
        BY <2>2, <4>1
      <4>2. CASE k < i
        <5>1. fd[k] # "open" /\ fd[k] # "bad"
          BY <1>11, <4>2 DEF ThrdJoin
        <5>2. QED
          BY <2>2, <4>2, <5>1
      <4>3. QED
        BY <3>1, <4>1, <4>2
    <3>3. \A k \in Queues : worker'[k] \notin Running
      <4> SUFFICES ASSUME NEW k \in Queues PROVE worker'[k] \notin Running
        OBVIOUS
      <4>1. CASE k = i
        BY <4>1, <2>3
      <4>2. CASE k < i
        BY <4>2, <2>3, <1>11 DEF ThrdJoin
      <4>3. QED
        BY <4>1, <4>2, <3>1
    <3>4. QED
      BY <1>11, <2>1, <2>2, <2>3, <3>1, <3>2, <3>3 DEF ThrdJoin
  <2>6. QED
    BY <2>4, <2>5
<1>12. CASE Served
  <2>1. 0 \in Queues /\ fd[0] = "open" /\ fd' = Closed(0)
    BY <1>12 DEF Served
  <2>2. /\ fd'[0] = "closed"
        /\ \A k \in Queues : k # 0 => fd'[k] = fd[k]
        /\ fd' \in [Queues -> {"none", "open", "closed", "bad"}]
    BY <2>1, CloseOpen
  <2>3. QED
    BY <1>12, <2>1, <2>2 DEF Served
<1>13. CASE FreeChains
  BY <1>13 DEF FreeChains
<1>14. QED
  BY <1>1, <1>2, <1>3, <1>4, <1>5, <1>6, <1>7, <1>8, <1>9, <1>10, <1>11, <1>12, <1>13 DEF MainStep
\* A worker that moves from one place in its loop to another, or leaves it after
\* a request to stop, disturbs nothing but what is said of readers.
LEMMA WorkerMoves ==
  ASSUME IInv, NEW q \in Queues, NEW to \in Running \cup {"exited"},
         worker[q] \in Running, worker' = [worker EXCEPT ![q] = to],
         to = "exited" => shutdown,
         shutdown' \in BOOLEAN, shutdown => shutdown',
         pollres' \in [Queues -> {-1, 0, 1}], queue' \in [Queues -> 0 .. MaxQueue],
         gone' \in SUBSET Queues, UNCHANGED mainVars, ReadInv'
  PROVE  IInv'
<1>1. \A k \in Queues : worker'[k] = IF k = q THEN to ELSE worker[k]
  BY DEF IInv, TypeOK
<1>2. TypeOK'
  BY DEF IInv, TypeOK, mainVars
<1>3. FdInv' /\ ChainsInv' /\ DevInv'
  BY DEF IInv, FdInv, ChainsInv, DevInv, AllOpen, mainVars
<1>4. WorkerInv'
  <2>1. \A k \in Queues : /\ Idle(k)' <=> Idle(k)
                          /\ worker[k] = "none" <=> worker'[k] = "none"
    BY <1>1 DEF Idle, Running
  <2>2. pc \notin {"free", "exit"} /\ handler
    BY DEF IInv, WorkerInv, Running
  <2>3. QED
    BY <2>1, <2>2 DEF IInv, WorkerInv, mainVars
<1>5. ShutdownInv'
  BY <1>1 DEF IInv, ShutdownInv, Running, mainVars
<1>6. QED
  BY <1>2, <1>3, <1>4, <1>5 DEF IInv

\* So do the steps of a worker.
LEMMA WorkerIInv == ASSUME NEW q \in Queues, IInv, WorkerStep(q) \/ PollFail(q) \/ Interrupt(q)
                    PROVE  IInv'
<1> USE DEF Goto, PollReturns
<1>0. /\ worker \in [Queues -> Running \cup {"none", "exited", "joined"}]
      /\ pollres \in [Queues -> {-1, 0, 1}]
      /\ queue \in [Queues -> 0 .. MaxQueue]
      /\ gone \in SUBSET Queues /\ shutdown \in BOOLEAN
      /\ ReadInv
  BY DEF IInv, TypeOK
<1>1. CASE PollReady(q) \/ PollTimeout(q) \/ PollFail(q) \/ Interrupt(q)
  <2>1. \E n \in {-1, 0, 1} : /\ worker[q] = "poll" /\ worker' = [worker EXCEPT ![q] = "check"]
                              /\ pollres' = [pollres EXCEPT ![q] = n]
                              /\ n > 0 => queue[q] > 0 \/ q \in gone
    BY <1>1 DEF PollReady, PollTimeout, PollFail, Interrupt
  <2>2. /\ UNCHANGED <<mainVars, queue, gone>>
        /\ shutdown' \in BOOLEAN /\ (shutdown => shutdown')
    BY <1>0, <1>1 DEF PollReady, PollTimeout, PollFail, Interrupt, kernelVars
  <2>3. ReadInv'
    BY <1>0, <2>1, <2>2 DEF ReadInv
  <2>4. /\ pollres' \in [Queues -> {-1, 0, 1}]
        /\ queue' \in [Queues -> 0 .. MaxQueue] /\ gone' \in SUBSET Queues
    BY <1>0, <2>1, <2>2
  <2>5. PICK to \in {"check"} : worker' = [worker EXCEPT ![q] = to]
    BY <2>1
  <2>6. QED
    BY <2>1, <2>2, <2>3, <2>4, <2>5, WorkerMoves DEF Running
<1>2. CASE CheckShutdown(q)
  <2>1. UNCHANGED <<mainVars, pollres, queue, gone, shutdown>>
    BY <1>2 DEF CheckShutdown, kernelVars
  <2>2. PICK to \in {"exited", "read", "poll"} :
          /\ worker[q] = "check" /\ worker' = [worker EXCEPT ![q] = to]
          /\ to = "exited" => shutdown
          /\ to = "read" => pollres[q] > 0
    BY <1>2, Zenon DEF CheckShutdown
  <2>3. ReadInv'
    BY <1>0, <2>1, <2>2 DEF ReadInv
  <2>4. QED
    BY <1>0, <2>1, <2>2, <2>3, WorkerMoves DEF Running
<1>3. CASE Read(q)
  <2>1. UNCHANGED <<mainVars, pollres, gone, shutdown>>
    BY <1>3 DEF Read
  <2>2. /\ worker[q] = "read" /\ worker' = [worker EXCEPT ![q] = "reply"]
        /\ queue[q] > 0 /\ queue' = [queue EXCEPT ![q] = @ - 1]
    BY <1>3 DEF Read
  <2>3. queue' \in [Queues -> 0 .. MaxQueue]
    BY <1>0, <2>2, MaxQueueAssumption
  <2>4. ReadInv'
    BY <1>0, <2>1, <2>2 DEF ReadInv
  <2>5. /\ pollres' \in [Queues -> {-1, 0, 1}] /\ gone' \in SUBSET Queues
        /\ shutdown' \in BOOLEAN /\ (shutdown => shutdown')
    BY <1>0, <2>1
  <2>6. UNCHANGED mainVars
    BY <2>1
  <2>7. PICK to \in {"reply"} : worker' = [worker EXCEPT ![q] = to]
    BY <2>2
  <2>8. QED
    BY <2>2, <2>3, <2>4, <2>5, <2>6, <2>7, WorkerMoves DEF Running
<1>4. CASE ReadFail(q) \/ Reply(q) \/ Write(q)
  <2>1. UNCHANGED <<mainVars, pollres, queue, gone, shutdown>>
    BY <1>4 DEF ReadFail, Reply, Write, kernelVars
  <2>2. PICK to \in {"write", "poll"} : /\ worker[q] \in {"read", "reply", "write"}
                                        /\ worker' = [worker EXCEPT ![q] = to]
    BY <1>4, Zenon DEF ReadFail, Reply, Write
  <2>3. ReadInv'
    BY <1>0, <2>1, <2>2 DEF ReadInv
  <2>4. QED
    BY <1>0, <2>1, <2>2, <2>3, WorkerMoves DEF Running
<1>5. QED
  BY <1>1, <1>2, <1>3, <1>4 DEF WorkerStep

\* And those of the kernel and the user.
LEMMA EnvironmentIInv == IInv /\ Environment => IInv'
<1> SUFFICES ASSUME IInv, Environment PROVE IInv'
  OBVIOUS
<1> USE NThreadAssumption, MaxQueueAssumption
    DEF IInv, TypeOK, FdInv, WorkerInv, ChainsInv, DevInv, ShutdownInv, ReadInv,
        AllOpen, Idle, Queues, MainPC, Running, mainVars, workerVars, kernelVars
<1>1. ASSUME NEW q \in Queues, Arrive(q) PROVE IInv'
  <2>1. UNCHANGED <<mainVars, worker, pollres, gone, shutdown>>
    BY <1>1 DEF Arrive
  <2>2. queue' \in [Queues -> 0 .. MaxQueue] /\ \A k \in Queues : queue'[k] >= queue[k]
    <3>1. queue' = [queue EXCEPT ![q] = @ + 1] /\ queue[q] < MaxQueue
      BY <1>1 DEF Arrive
    <3>2. q \in Queues /\ queue \in [Queues -> 0 .. MaxQueue] /\ MaxQueue \in Nat
      OBVIOUS
    <3>3. QED
      BY ONLY <3>1, <3>2
  <2>3. TypeOK'
    BY <2>1, <2>2
  <2>4. ReadInv'
    <3>1. \A k \in Queues : queue[k] \in Nat /\ queue'[k] \in Nat
      BY <2>2
    <3>2. QED
      BY <2>1, <2>2, <3>1
  <2>5. FdInv' /\ WorkerInv' /\ ChainsInv' /\ DevInv' /\ ShutdownInv'
    BY <2>1
  <2>6. QED
    BY <2>3, <2>4, <2>5
<1>2. ASSUME NEW q \in Queues, Interrupt(q) \/ PollFail(q) PROVE IInv'
  BY <1>2, WorkerIInv
<1>3. CASE DeleteDevice
  <2>1. PICK attached \in SUBSET Queues :
          /\ gone' = gone \cup attached
          /\ queue' = [k \in Queues |-> IF k \in attached THEN 0 ELSE queue[k]]
    BY <1>3 DEF DeleteDevice
  <2>2. UNCHANGED <<mainVars, worker, pollres, shutdown>>
    BY <1>3 DEF DeleteDevice
  <2>3. TypeOK' /\ ReadInv'
    BY <2>1, <2>2
  <2>4. FdInv' /\ WorkerInv' /\ ChainsInv' /\ DevInv' /\ ShutdownInv'
    BY <2>2
  <2>5. QED
    BY <2>3, <2>4
<1>4. CASE Kill
  BY <1>4 DEF Kill
<1>5. CASE InterruptOther
  BY <1>5 DEF InterruptOther
<1>6. QED
  BY <1>1, <1>2, <1>3, <1>4, <1>5 DEF Environment

\* The inductive invariant holds in every reachable state.
THEOREM Invariance == Spec => []IInv
<1>1. Init => IInv
  BY InitIInv
<1>2. IInv /\ [Next]_vars => IInv'
  <2> SUFFICES ASSUME IInv, [Next]_vars PROVE IInv'
    OBVIOUS
  <2>1. CASE Next
    BY <2>1, MainIInv, WorkerIInv, EnvironmentIInv DEF Next
  <2>2. CASE UNCHANGED vars
    BY <2>2 DEF IInv, TypeOK, FdInv, WorkerInv, ChainsInv, DevInv, ShutdownInv,
                ReadInv, AllOpen, Idle, vars, mainVars, workerVars, kernelVars
  <2>3. QED
    BY <2>1, <2>2
<1>3. QED
  BY <1>1, <1>2, PTL DEF Spec
-----------------------------------------------------------------------------
(* The safety properties of Lifecycle *)

\* Every variable keeps to its type: the loop counter, in particular, never
\* leaves the queues by more than one.
THEOREM TypeCorrect == Spec => []TypeOK
<1>1. IInv => TypeOK
  BY DEF IInv
<1>2. QED
  BY <1>1, Invariance, PTL

\* No worker is at work on a closed queue or on freed chains.
THEOREM UseBeforeRelease == Spec => []NoUseAfterRelease
<1>1. IInv => NoUseAfterRelease
  BY DEF IInv, FdInv, WorkerInv, ChainsInv, TypeOK, AllOpen, Idle, MainPC, AtWork, Running, Queues, NoUseAfterRelease
<1>2. QED
  BY <1>1, Invariance, PTL

\* What was opened is closed exactly once by the time main() returns.
THEOREM ReleaseOnce == Spec => []ReleasedOnce
<1>1. IInv => ReleasedOnce
  BY DEF IInv, FdInv, WorkerInv, ChainsInv, ReleasedOnce
<1>2. QED
  BY <1>1, Invariance, PTL

\* All queues are attached to one device.
THEOREM OneDevice == Spec => []SameDevice
<1>1. IInv => SameDevice
  BY DEF IInv, DevInv, SameDevice
<1>2. QED
  BY <1>1, Invariance, PTL

\* A worker only reads when there is something to read.
THEOREM ReadReady == Spec => []ReadNeverBlocks
<1>1. IInv => ReadNeverBlocks
  BY DEF IInv, ReadInv, ReadNeverBlocks
<1>2. QED
  BY <1>1, Invariance, PTL

\* main() returns EXIT_SUCCESS only after a SIGINT.
THEOREM SuccessOnlyStopped == Spec => []SuccessMeansShutdown
<1>1. IInv => SuccessMeansShutdown
  BY DEF IInv, ShutdownInv, SuccessMeansShutdown
<1>2. QED
  BY <1>1, Invariance, PTL
-----------------------------------------------------------------------------
(* Refinement *)

\* A step that neither touches a descriptor nor the chains, and after which the
\* same workers are at work, is a stuttering step of the abstract life cycle.
LEMMA Stutters ==
  ASSUME UNCHANGED <<fd, chains>>,
         \A k \in Queues : worker'[k] \in Running <=> worker[k] \in Running
  PROVE  [LT!Next]_(LT!vars)
  BY DEF LT!vars, AtWork

\* A worker that starts has its own open queue and the chains in place.
LEMMA Starts ==
  ASSUME NEW q \in Queues, TypeOK, worker[q] \notin Running, fd[q] = "open", chains = "live",
         worker' = [worker EXCEPT ![q] = "poll"], UNCHANGED <<fd, chains>>
  PROVE  LT!Next
<1>1. AtWork' = AtWork \cup {q}
  BY DEF AtWork, TypeOK, Running
<1>2. LT!Start(q)
  BY <1>1 DEF LT!Start, AtWork
<1>3. QED
  BY <1>2 DEF LT!Next

\* A queue that is closed is open and its worker, if it had one, is not at work.
LEMMA Closes ==
  ASSUME NEW q \in Queues, TypeOK, fd[q] = "open", worker[q] \notin Running, fd' = Closed(q),
         chains' = chains, \A k \in Queues : worker'[k] \in Running <=> worker[k] \in Running
  PROVE  LT!Next
<1>1. LT!Close(q)
  BY DEF LT!Close, AtWork, Closed, TypeOK
<1>2. QED
  BY <1>1 DEF LT!Next

LEMMA InitRefines == Init => LT!Init
  BY DEF Init, LT!Init, AtWork, Running

LEMMA MainRefines == IInv /\ MainStep => [LT!Next]_(LT!vars)
<1> SUFFICES ASSUME IInv, MainStep PROVE [LT!Next]_(LT!vars)
  OBVIOUS
<1>0. TypeOK /\ FdInv /\ WorkerInv /\ ChainsInv
  BY DEF IInv
<1>1. CASE TunAlloc
  <2>1. /\ i \in Queues /\ fd[i] = "none" /\ chains = "live"
        /\ fd' = [fd EXCEPT ![i] = "open"] /\ UNCHANGED <<chains, worker>>
    BY <1>0, <1>1 DEF TunAlloc, FdInv, ChainsInv, Queues, workerVars
  <2>2. LT!Open(i)
    BY <2>1 DEF LT!Open, AtWork
  <2>3. QED
    BY <2>1, <2>2 DEF LT!Next
<1>2. CASE TunAllocFail \/ Ifup \/ Daemon \/ ThrdCreateFail \/ AbortJoined
  BY <1>2, Stutters
  DEF TunAllocFail, Ifup, Daemon, ThrdCreateFail, AbortJoined, workerVars
<1>3. CASE TunsAllocUnwind \/ FailTun
  <2>1. chains' = chains /\ worker' = worker
    BY <1>3 DEF TunsAllocUnwind, FailTun, workerVars
  <2>2. fd' = fd \/ (i \in Queues /\ fd[i] = "open" /\ fd' = Closed(i) /\ worker[i] \notin Running)
    <3>1. CASE fd' # fd
      <4>1. i \in Queues /\ fd' = Closed(i)
        BY <1>0, <1>3, <3>1, NThreadAssumption
        DEF TunsAllocUnwind, FailTun, TypeOK, FdInv, Queues
      <4>2. fd[i] = "open"
        BY <1>0, <1>3, <4>1 DEF TunsAllocUnwind, FailTun, FdInv, Queues
      <4>3. worker[i] \notin Running
        BY <1>0, <1>3, <4>1 DEF TunsAllocUnwind, FailTun, WorkerInv, Idle, Running
      <4>4. QED
        BY <4>1, <4>2, <4>3
    <3>2. QED
      BY <3>1
  <2>3. QED
    BY <1>0, <2>1, <2>2, Stutters, Closes
<1>4. CASE InstallHandler
  <2>1. CASE NThread = 1
    <3>1. /\ 0 \in Queues /\ worker[0] = "none" /\ fd[0] = "open" /\ chains = "live"
          /\ worker' = [worker EXCEPT ![0] = "poll"] /\ UNCHANGED <<fd, chains>>
      BY <1>0, <1>4, <2>1 DEF InstallHandler, FdInv, WorkerInv, ChainsInv, AllOpen, Queues
    <3>2. QED
      BY <1>0, <3>1, Starts DEF Running
  <2>2. CASE NThread # 1
    BY <1>4, <2>2, Stutters DEF InstallHandler
  <2>3. QED
    BY <2>1, <2>2
<1>5. CASE ThrdCreate
  <2>1. /\ i \in Queues /\ worker[i] = "none" /\ fd[i] = "open" /\ chains = "live"
        /\ worker' = [worker EXCEPT ![i] = "poll"] /\ UNCHANGED <<fd, chains>>
    BY <1>0, <1>5 DEF ThrdCreate, FdInv, WorkerInv, ChainsInv, AllOpen, Queues
  <2>2. QED
    BY <1>0, <2>1, Starts DEF Running
<1>6. CASE AbortJoin
  <2>1. UNCHANGED <<fd, chains>> /\ worker[i] = "exited" /\ worker' = [worker EXCEPT ![i] = "joined"]
    BY <1>6 DEF AbortJoin
  <2>2. QED
    BY <1>0, <2>1, Stutters DEF TypeOK, Running
<1>7. CASE ThrdJoin
  <2>1. /\ i \in Queues /\ fd[i] = "open" /\ fd' = Closed(i) /\ chains' = chains
        /\ worker[i] = "exited" /\ worker' = [worker EXCEPT ![i] = "joined"]
    BY <1>0, <1>7 DEF ThrdJoin, FdInv, Queues
  <2>2. \A k \in Queues : worker'[k] \in Running <=> worker[k] \in Running
    BY <1>0, <2>1 DEF TypeOK, Running
  <2>3. QED
    BY <1>0, <2>1, <2>2, Closes DEF Running
<1>8. CASE Served
  <2>1. /\ 0 \in Queues /\ fd[0] = "open" /\ fd' = Closed(0) /\ chains' = chains
        /\ worker[0] = "exited" /\ worker' = worker
    BY <1>0, <1>8 DEF Served, FdInv, WorkerInv, AllOpen, Queues, workerVars
  <2>2. QED
    BY <1>0, <2>1, Closes DEF Running
<1>9. CASE FreeChains
  <2>1. /\ chains = "live" /\ chains' = "freed" /\ UNCHANGED <<fd, worker>>
        /\ \A k \in Queues : fd[k] # "open" /\ worker[k] \notin Running
    BY <1>0, <1>9 DEF FreeChains, FdInv, WorkerInv, ChainsInv, workerVars
  <2>2. AtWork = {} /\ AtWork' = AtWork
    BY <2>1 DEF AtWork
  <2>3. LT!Release
    BY <2>1, <2>2 DEF LT!Release
  <2>4. QED
    BY <2>3 DEF LT!Next
<1>10. QED
  BY <1>1, <1>2, <1>3, <1>4, <1>5, <1>6, <1>7, <1>8, <1>9 DEF MainStep

\* A turn of the loop is at work from its poll() to its write(); only the test
\* of the flag can end it.
LEMMA WorkerRefines ==
  ASSUME NEW q \in Queues, IInv, WorkerStep(q) \/ PollFail(q) \/ Interrupt(q)
  PROVE  [LT!Next]_(LT!vars)
<1>0. TypeOK
  BY DEF IInv
<1>1. UNCHANGED <<fd, chains>>
  BY DEF WorkerStep, PollReady, PollTimeout, PollFail, CheckShutdown, Read, ReadFail, Reply,
         Write, Interrupt, mainVars
<1>2. \E to \in Running \cup {"exited"} :
        worker[q] \in Running /\ worker' = [worker EXCEPT ![q] = to]
  BY DEF WorkerStep, PollReady, PollTimeout, PollFail, CheckShutdown, Read, ReadFail, Reply,
         Write, Interrupt, PollReturns, Goto, Running
<1>3. PICK to \in Running \cup {"exited"} :
        worker[q] \in Running /\ worker' = [worker EXCEPT ![q] = to]
  BY <1>2
<1>4. CASE to \in Running
  BY <1>0, <1>1, <1>3, <1>4, Stutters DEF TypeOK
<1>5. CASE to = "exited"
  <2>1. AtWork' = AtWork \ {q} /\ q \in AtWork
    BY <1>0, <1>3, <1>5 DEF AtWork, TypeOK, Running
  <2>2. LT!Stop(q)
    BY <1>1, <2>1 DEF LT!Stop
  <2>3. QED
    BY <2>2 DEF LT!Next
<1>6. QED
  BY <1>3, <1>4, <1>5

LEMMA EnvironmentRefines == IInv /\ Environment => [LT!Next]_(LT!vars)
<1> SUFFICES ASSUME IInv, Environment PROVE [LT!Next]_(LT!vars)
  OBVIOUS
<1>1. ASSUME NEW q \in Queues, Interrupt(q) \/ PollFail(q) PROVE [LT!Next]_(LT!vars)
  BY <1>1, WorkerRefines
<1>2. CASE (\E q \in Queues : Arrive(q)) \/ DeleteDevice \/ Kill \/ InterruptOther
  BY <1>2, Stutters DEF Arrive, DeleteDevice, Kill, InterruptOther, mainVars, workerVars
<1>3. QED
  BY <1>1, <1>2 DEF Environment

\* The life cycle implements Lifetime: for every number of threads, with -D or
\* without, whatever fails, queues are opened, used, closed and the chains freed
\* in the order the abstract life cycle allows, each of them once.
THEOREM Refinement == Spec => ImplementsLifetime
<1>1. IInv /\ [Next]_vars => [LT!Next]_(LT!vars)
  <2> SUFFICES ASSUME IInv, [Next]_vars PROVE [LT!Next]_(LT!vars)
    OBVIOUS
  <2>1. CASE Next
    BY <2>1, MainRefines, WorkerRefines, EnvironmentRefines DEF Next
  <2>2. CASE UNCHANGED vars
    BY <2>2, Stutters DEF vars, mainVars, workerVars
  <2>3. QED
    BY <2>1, <2>2
<1>2. QED
  BY InitRefines, Invariance, <1>1, PTL DEF Spec, ImplementsLifetime, LT!Spec
=============================================================================
