----------------------------- MODULE Lifecycle -----------------------------
(***************************************************************************)
(* The life of an rdnstun process once its options are parsed: main() from *)
(* the opening of the tun queues to exit (rdnstun.c:353-454), tun_alloc    *)
(* and tuns_alloc (iface.c), the loop rdnstun() that each worker runs, and *)
(* SIGINT.  What a worker does with a packet is the Responder module's     *)
(* business: here a packet is a token of its queue, and its handling is    *)
(* only the outcomes the loop tells apart.                                 *)
(***************************************************************************)
EXTENDS Integers

CONSTANTS NThread,      \* number of tun queues and of workers
          MultiThread,  \* -T was given: the device is opened multi-queue
          Background,   \* -D was given
          MaxQueue      \* bound on the packets waiting in one queue

ASSUME NThreadAssumption == NThread \in Nat \ {0}
ASSUME FlagsAssumption == /\ MultiThread \in BOOLEAN
                          /\ Background \in BOOLEAN
                          /\ ~MultiThread => NThread = 1
ASSUME MaxQueueAssumption == MaxQueue \in Nat \ {0}

Queues == 0 .. NThread - 1

\* An interface name that holds "%d" (or is empty): the kernel picks a free
\* device.  Any other name is a device's number.
Template == 0

VARIABLES
  pc,        \* what main() is about to do
  i,         \* main()'s (and tuns_alloc's) loop counter
  ifname,    \* if_name
  fd,        \* tunfds[]: "bad" once a descriptor that is not open is closed
  dev,       \* the device each queue was attached to by the kernel
  chains,    \* v4_chains and v6_chains
  handler,   \* shutdown_rdnstun is installed for SIGINT
  shutdown,  \* rdnstun_shutdown
  worker,    \* where each worker is in rdnstun()
  pollres,   \* the worker's pollres
  queue,     \* packets waiting in the kernel for each fd
  gone,      \* the queues whose device was deleted under the process
  ret        \* main()'s exit status

mainVars   == <<pc, i, ifname, fd, dev, chains, handler, ret>>
workerVars == <<worker, pollres>>
kernelVars == <<queue, gone>>
vars == <<mainVars, workerVars, kernelVars, shutdown>>

Running  == {"poll", "check", "read", "reply", "write"}
MainPC   == {"alloc", "unwind", "ifup", "daemon", "signal", "spawn", "serve", "join",
             "abort", "fail_tun", "free", "exit", "killed"}

TypeOK ==
  /\ pc \in MainPC
  /\ i \in -1 .. NThread
  /\ ifname \in 0 .. NThread
  /\ fd \in [Queues -> {"none", "open", "closed", "bad"}]
  /\ dev \in [Queues -> 0 .. NThread]
  /\ chains \in {"live", "freed", "bad"}
  /\ handler \in BOOLEAN
  /\ shutdown \in BOOLEAN
  /\ worker \in [Queues -> Running \cup {"none", "exited", "joined"}]
  /\ pollres \in [Queues -> {-1, 0, 1}]
  /\ queue \in [Queues -> 0 .. MaxQueue]
  /\ gone \subseteq Queues
  /\ ret \in {"none", "success", "failure"}

Init ==
  /\ pc = "alloc"
  /\ i = 0
  /\ ifname \in {Template, 1}
  /\ fd = [k \in Queues |-> "none"]
  /\ dev = [k \in Queues |-> 0]
  /\ chains = "live"
  /\ handler = FALSE
  /\ shutdown = FALSE
  /\ worker = [k \in Queues |-> "none"]
  /\ pollres = [k \in Queues |-> 0]
  /\ queue = [k \in Queues |-> 0]
  /\ gone = {}
  /\ ret = "none"

-----------------------------------------------------------------------------
(* Descriptors *)

\* close(2): closing what is not open is an error the program never checks.
Closed(k) == [fd EXCEPT ![k] = IF @ = "open" THEN "closed" ELSE "bad"]

\* Mutant of Attached: the kernel's choice of a name is not copied back.
AttachedAfresh(k) == k + 1

\* The kernel's answer to TUNSETIFF: the device the queue is attached to.
\* Device k + 1 is a name no earlier queue uses.
Attached(k) == IF ifname = Template THEN k + 1 ELSE ifname

-----------------------------------------------------------------------------
(* main(): opening the queues *)

\* tun_alloc succeeds: a new fd, and the name the kernel chose is copied back
\* into if_name, so that the next queue names the same device.
TunAlloc ==
  /\ pc = "alloc"
  /\ fd' = [fd EXCEPT ![i] = "open"]
  /\ dev' = [dev EXCEPT ![i] = Attached(i)]
  /\ ifname' = Attached(i)
  /\ IF i + 1 < NThread
     THEN /\ i' = i + 1
          /\ UNCHANGED pc
     ELSE /\ i' = 0
          /\ pc' = "ifup"
  /\ UNCHANGED <<chains, handler, ret, shutdown, workerVars, kernelVars>>

\* Mutant of TunAllocFail: the failed queue is unwound too, and without -T the
\* failure ends at fail_tun.
TunAllocFailUnwindsAll ==
  /\ pc = "alloc"
  /\ pc' = IF MultiThread THEN "unwind" ELSE "fail_tun"
  /\ UNCHANGED <<i, ifname, fd, dev, chains, handler, ret, shutdown,
                 workerVars, kernelVars>>

\* tun_alloc fails, in open() or in ioctl(): it closes what it had opened.
\* tuns_alloc then closes the queues it already has, from the last one down.
TunAllocFail ==
  /\ pc = "alloc"
  /\ IF MultiThread
     THEN /\ pc' = "unwind"
          /\ i' = i - 1
          /\ UNCHANGED ret
     ELSE /\ pc' = "free"
          /\ ret' = "failure"
          /\ UNCHANGED i
  /\ UNCHANGED <<ifname, fd, dev, chains, handler, shutdown, workerVars, kernelVars>>

TunsAllocUnwind ==
  /\ pc = "unwind"
  /\ IF i >= 0
     THEN /\ fd' = Closed(i)
          /\ i' = i - 1
          /\ UNCHANGED <<pc, ret>>
     ELSE /\ pc' = "free"
          /\ ret' = "failure"
          /\ UNCHANGED <<fd, i>>
  /\ UNCHANGED <<ifname, dev, chains, handler, shutdown, workerVars, kernelVars>>

\* ifup() succeeds, or fails and main() goes on: the user may bring the device up,
\* or it was up.  Whether packets arrive is the kernel's choice, in Arrive.
Ifup ==
  /\ pc = "ifup"
  /\ pc' = IF Background THEN "daemon" ELSE "signal"
  /\ UNCHANGED <<i, ifname, fd, dev, chains, handler, ret, shutdown,
                 workerVars, kernelVars>>

\* Mutant of Daemon: its failure skips fail_tun.
DaemonFailsOpen ==
  /\ pc = "daemon"
  /\ pc' \in {"signal", "free"}
  /\ UNCHANGED <<i, ifname, fd, dev, chains, handler, ret, shutdown,
                 workerVars, kernelVars>>

Daemon ==
  /\ pc = "daemon"
  /\ \/ pc' = "signal"
     \/ pc' = "fail_tun"
  /\ UNCHANGED <<i, ifname, fd, dev, chains, handler, ret, shutdown,
                 workerVars, kernelVars>>

\* signal(SIGINT, shutdown_rdnstun), then either the loop on this thread or
\* the creation of the workers.
InstallHandler ==
  /\ pc = "signal"
  /\ handler' = TRUE
  /\ IF NThread = 1
     THEN /\ pc' = "serve"
          /\ worker' = [worker EXCEPT ![0] = "poll"]
     ELSE /\ pc' = "spawn"
          /\ UNCHANGED worker
  /\ UNCHANGED <<i, ifname, fd, dev, chains, ret, shutdown, pollres, kernelVars>>

-----------------------------------------------------------------------------
(* main(): workers *)

ThrdCreate ==
  /\ pc = "spawn"
  /\ worker' = [worker EXCEPT ![i] = "poll"]
  /\ IF i + 1 < NThread
     THEN /\ i' = i + 1
          /\ UNCHANGED pc
     ELSE /\ i' = 0
          /\ pc' = "join"
  /\ UNCHANGED <<ifname, fd, dev, chains, handler, ret, shutdown, pollres, kernelVars>>

\* Mutant of ThrdCreateFail: the workers already created are not joined.
ThrdCreateFailAtOnce ==
  /\ pc = "spawn"
  /\ shutdown' = TRUE
  /\ pc' = "fail_tun"
  /\ i' = 0
  /\ UNCHANGED <<ifname, fd, dev, chains, handler, ret, workerVars, kernelVars>>

\* The workers already created are told to stop and joined from the last down.
ThrdCreateFail ==
  /\ pc = "spawn"
  /\ shutdown' = TRUE
  /\ pc' = "abort"
  /\ i' = i - 1
  /\ UNCHANGED <<ifname, fd, dev, chains, handler, ret, workerVars, kernelVars>>

AbortJoin ==
  /\ pc = "abort"
  /\ i >= 0
  /\ worker[i] = "exited"
  /\ worker' = [worker EXCEPT ![i] = "joined"]
  /\ i' = i - 1
  /\ UNCHANGED <<pc, ifname, fd, dev, chains, handler, ret, shutdown,
                 pollres, kernelVars>>

AbortJoined ==
  /\ pc = "abort"
  /\ i < 0
  /\ pc' = "fail_tun"
  /\ i' = 0
  /\ UNCHANGED <<ifname, fd, dev, chains, handler, ret, shutdown,
                 workerVars, kernelVars>>

\* Mutant of FailTun: one queue too many is closed.
FailTunPastEnd ==
  /\ pc = "fail_tun"
  /\ IF i <= NThread
     THEN /\ fd' = [k \in Queues |-> IF k = i THEN Closed(k)[k] ELSE fd[k]]
          /\ i' = i + 1
          /\ UNCHANGED <<pc, ret>>
     ELSE /\ pc' = "free"
          /\ ret' = "failure"
          /\ UNCHANGED <<fd, i>>
  /\ UNCHANGED <<ifname, dev, chains, handler, shutdown, workerVars, kernelVars>>

\* The label fail_tun: close every queue.
FailTun ==
  /\ pc = "fail_tun"
  /\ IF i < NThread
     THEN /\ fd' = Closed(i)
          /\ i' = i + 1
          /\ UNCHANGED <<pc, ret>>
     ELSE /\ pc' = "free"
          /\ ret' = "failure"
          /\ UNCHANGED <<fd, i>>
  /\ UNCHANGED <<ifname, dev, chains, handler, shutdown, workerVars, kernelVars>>

\* nthread > 1: join worker i, then close its queue.
ThrdJoin ==
  /\ pc = "join"
  /\ worker[i] = "exited"
  /\ worker' = [worker EXCEPT ![i] = "joined"]
  /\ fd' = Closed(i)
  /\ IF i + 1 < NThread
     THEN /\ i' = i + 1
          /\ UNCHANGED <<pc, ret>>
     ELSE /\ pc' = "free"
          /\ ret' = "success"
          /\ UNCHANGED i
  /\ UNCHANGED <<ifname, dev, chains, handler, shutdown, pollres, kernelVars>>

\* nthread = 1: the loop on the main thread has returned.
Served ==
  /\ pc = "serve"
  /\ worker[0] = "exited"
  /\ fd' = Closed(0)
  /\ pc' = "free"
  /\ ret' = "success"
  /\ UNCHANGED <<i, ifname, dev, chains, handler, shutdown, workerVars, kernelVars>>

\* HostChainArray_destroy_size and free of both arrays, then return.
FreeChains ==
  /\ pc = "free"
  /\ chains' = IF chains = "live" THEN "freed" ELSE "bad"
  /\ pc' = "exit"
  /\ UNCHANGED <<i, ifname, fd, dev, handler, ret, shutdown, workerVars, kernelVars>>

MainStep ==
  \/ TunAlloc \/ TunAllocFail \/ TunsAllocUnwind \/ Ifup \/ Daemon \/ InstallHandler
  \/ ThrdCreate \/ ThrdCreateFail \/ AbortJoin \/ AbortJoined \/ FailTun
  \/ ThrdJoin \/ Served \/ FreeChains

-----------------------------------------------------------------------------
(* rdnstun(): one turn of worker k's loop *)

Goto(k, from, to) == /\ worker[k] = from
                     /\ worker' = [worker EXCEPT ![k] = to]

PollReturns(k, n) == /\ Goto(k, "poll", "check")
                     /\ pollres' = [pollres EXCEPT ![k] = n]

\* A packet waits, or the device is gone and poll reports the error.
PollReady(k) ==
  /\ queue[k] > 0 \/ k \in gone
  /\ PollReturns(k, 1)
  /\ UNCHANGED <<mainVars, kernelVars, shutdown>>

\* RDNSTUN_SLEEP_TIME passes without a packet.
PollTimeout(k) ==
  /\ queue[k] = 0 /\ k \notin gone
  /\ PollReturns(k, 0)
  /\ UNCHANGED <<mainVars, kernelVars, shutdown>>

\* poll() itself fails.
PollFail(k) ==
  /\ PollReturns(k, -1)
  /\ UNCHANGED <<mainVars, kernelVars, shutdown>>

\* Mutants of CheckShutdown: a timeout is taken for a packet; the flag is only
\* tested when a packet came; a failing poll() ends the loop.
CheckShutdownReads(k) ==
  /\ Goto(k, "check", IF shutdown THEN "exited" ELSE "read")
  /\ UNCHANGED <<mainVars, pollres, kernelVars, shutdown>>
CheckShutdownLate(k) ==
  /\ Goto(k, "check", IF pollres[k] <= 0 THEN "poll"
                      ELSE IF shutdown THEN "exited" ELSE "read")
  /\ UNCHANGED <<mainVars, pollres, kernelVars, shutdown>>
CheckShutdownBreaks(k) ==
  /\ Goto(k, "check", IF shutdown \/ pollres[k] < 0 THEN "exited"
                      ELSE IF pollres[k] > 0 THEN "read" ELSE "poll")
  /\ UNCHANGED <<mainVars, pollres, kernelVars, shutdown>>

\* The flag is tested after every poll, whatever poll returned.
CheckShutdown(k) ==
  /\ Goto(k, "check", IF shutdown THEN "exited"
                      ELSE IF pollres[k] > 0 THEN "read" ELSE "poll")
  /\ UNCHANGED <<mainVars, pollres, kernelVars, shutdown>>

Read(k) ==
  /\ queue[k] > 0 /\ k \notin gone
  /\ Goto(k, "read", "reply")
  /\ queue' = [queue EXCEPT ![k] = @ - 1]
  /\ UNCHANGED <<mainVars, pollres, gone, shutdown>>

\* Mutant of ReadFail: a failing read() ends the loop.
ReadFailBreaks(k) ==
  /\ k \in gone
  /\ Goto(k, "read", "exited")
  /\ UNCHANGED <<mainVars, pollres, kernelVars, shutdown>>

\* read() fails on a deleted device: a warning, and the next turn.
ReadFail(k) ==
  /\ k \in gone
  /\ Goto(k, "read", "poll")
  /\ UNCHANGED <<mainVars, pollres, kernelVars, shutdown>>

\* HostChain4Array_reply or HostChain6Array_reply on the shared arrays: an
\* answer to write, or nothing to send (an error, an unknown IP version, no
\* chain of that version, a packet to ignore).
Reply(k) ==
  /\ \/ Goto(k, "reply", "write")
     \/ Goto(k, "reply", "poll")
  /\ UNCHANGED <<mainVars, pollres, kernelVars, shutdown>>

\* write(): a failure is only logged.
Write(k) ==
  /\ Goto(k, "write", "poll")
  /\ UNCHANGED <<mainVars, pollres, kernelVars, shutdown>>

WorkerStep(k) ==
  \/ PollReady(k) \/ PollTimeout(k) \/ CheckShutdown(k)
  \/ Read(k) \/ ReadFail(k) \/ Reply(k) \/ Write(k)

-----------------------------------------------------------------------------
(* The kernel and the user *)

Arrive(k) ==
  /\ fd[k] = "open" /\ k \notin gone
  /\ queue[k] < MaxQueue
  /\ queue' = [queue EXCEPT ![k] = @ + 1]
  /\ UNCHANGED <<mainVars, workerVars, gone, shutdown>>

\* The device is deleted, and what waited in the queues attached to it is lost.  A
\* queue that is opened afterwards makes a new device of that name.
DeleteDevice ==
  LET attached == {k \in Queues : fd[k] = "open"} \ gone
  IN  /\ attached # {}
      /\ gone' = gone \cup attached
      /\ queue' = [k \in Queues |-> IF k \in attached THEN 0 ELSE queue[k]]
  /\ UNCHANGED <<mainVars, workerVars, shutdown>>

\* SIGINT before the handler is installed: the default action.
Kill ==
  /\ ~handler
  /\ pc \notin {"exit", "killed"}
  /\ pc' = "killed"
  /\ UNCHANGED <<i, ifname, fd, dev, chains, handler, ret, shutdown,
                 workerVars, kernelVars>>

\* SIGINT afterwards: shutdown_rdnstun runs on a thread of the kernel's choice.
\* Without -d it logs nothing and is one step; Log has the handler with -d.
\* A poll it interrupts returns -1; every other call is restarted.
Interrupt(k) ==
  /\ handler /\ pc # "exit"
  /\ shutdown' = TRUE
  /\ PollReturns(k, -1)
  /\ UNCHANGED <<mainVars, kernelVars>>

InterruptOther ==
  /\ handler /\ pc # "exit"
  /\ shutdown' = TRUE
  /\ UNCHANGED <<mainVars, workerVars, kernelVars>>

Environment ==
  \/ \E k \in Queues : Arrive(k) \/ Interrupt(k) \/ PollFail(k)
  \/ DeleteDevice \/ Kill \/ InterruptOther

Next == MainStep \/ (\E k \in Queues : WorkerStep(k)) \/ Environment

\* Every thread is scheduled.  poll() may fail, but not for ever while a packet
\* waits: SF, since a failed poll takes the worker out of "poll" and back.
Fairness == /\ WF_vars(MainStep)
            /\ \A k \in Queues : /\ WF_vars(WorkerStep(k))
                                 /\ SF_vars(PollReady(k))

Spec == Init /\ [][Next]_vars
FairSpec == Spec /\ Fairness

-----------------------------------------------------------------------------
(* Properties *)

AtWork == {k \in Queues : worker[k] \in Running}

\* No worker polls, reads, answers or writes once its queue is closed or the
\* chain arrays it looks hosts up in are freed: main() joins before it closes
\* and closes before it frees, on the normal and on the failing paths alike.
NoUseAfterRelease ==
  \A k \in AtWork : fd[k] = "open" /\ chains = "live"

\* No descriptor is closed twice (it might by then be another file), the chains
\* are not freed twice, and main() returns with everything given back, however
\* many queues opened or threads started before something failed.
ReleasedOnce ==
  /\ chains # "bad"
  /\ \A k \in Queues : fd[k] # "bad"
  /\ pc = "exit" => /\ chains = "freed"
                    /\ \A k \in Queues : /\ fd[k] # "open"
                                          /\ worker[k] \notin Running

\* All queues belong to one device, so that the kernel may hand a packet to any
\* of them.  The name the first TUNSETIFF returns is what the next ones ask for, be
\* the device of that name the same or one made again after a deletion.
SameDevice ==
  \A j, k \in Queues : fd[j] = "open" /\ fd[k] = "open" => dev[j] = dev[k]

\* A worker that goes on to read() after poll() finds a packet or an error: it
\* is the only reader of its queue, so read() never blocks past a shutdown.
ReadNeverBlocks ==
  \A k \in Queues : worker[k] = "read" => queue[k] > 0 \/ k \in gone

\* The process only reports success when it was told to stop: no worker ends
\* for any other reason, be it a failing poll(), read() or write().
SuccessMeansShutdown == ret = "success" => shutdown

\* Once SIGINT has come or a thread could not be created, main() returns, even
\* when the signal falls between a worker's test of the flag and its poll().
ShutdownStops == shutdown ~> pc = "exit"

\* A packet that waits for a worker is read, unless the process is stopped or
\* loses its device: a failing poll() or write() does not end the service.
PacketsServed ==
  \A k \in Queues :
    queue[k] > 0 /\ k \in AtWork ~> worker[k] = "reply" \/ shutdown \/ k \in gone

\* The life cycle implements the abstract one: handles are the tun queues, the
\* table is the two chain arrays, the workers are the users.
LT == INSTANCE Lifetime WITH Users <- Queues, working <- AtWork,
                             handle <- fd, table <- chains
ImplementsLifetime == LT!Spec
=============================================================================
