-------------------------------- MODULE Log --------------------------------
(***************************************************************************)
(* The logger (log.c, log.h) as the threads of a running rdnstun use it:   *)
(* an event is begun, which formats the local time under a lock of the C   *)
(* library, written, and ended.  Two signal handlers log as well.          *)
(* shutdown_rdnstun does on SIGINT, on top of whatever its thread is       *)
(* doing; sigsegv_handler does on a fault, and the end of its event is the *)
(* crash handler: exit_debug and wait_debugger, which puts the terminal    *)
(* and the action of SIGINT aside while it waits for a key.                *)
(***************************************************************************)
EXTENDS Integers, FiniteSets

CONSTANTS Threads,     \* the threads of the process,
          Main,        \* the one that runs main() among them
          ExitStatus,  \* what diagnose_sigsegv may be given as exit_status
          Slices       \* one-second polls of wait_debugger, 5 in the code

ASSUME ThreadsAssumption == IsFiniteSet(Threads) /\ Main \in Threads
ASSUME StatusAssumption == ExitStatus \subseteq Nat
ASSUME SlicesAssumption == Slices \in Nat \ {0}

\* With -T, main() waits for the others in thrd_join; without, it is the worker.
Workers == IF Threads = {Main} THEN Threads ELSE Threads \ {Main}

LOG_LEVEL_CRITICAL == 2
LOG_LEVEL_WARNING == 4
LOG_LEVEL_NOTICE == 5
LOG_LEVEL_INFO == 6
LOG_LEVEL_DEBUG == 7

EXIT_SUCCESS == 0
EXIT_FAILURE == 1

VARIABLES
  level,                \* app_logger.level
  sigsegv_exit_status,
  thread,     \* each thread: where it is, its event's level and wait_debugger's locals
  frame,      \* where shutdown_rdnstun is on each thread it interrupted
  tzlock,     \* the C library's time zone lock is held
  shutdown,   \* rdnstun_shutdown
  sigint,     \* the action of SIGINT
  termios,    \* the mode of the terminal
  input,      \* what was typed and not yet read
  crashed,    \* the threads that have faulted
  proc,       \* the process: running, stopped by SIGSTOP, ended or killed
  status      \* its exit status

settings == <<level, sigsegv_exit_status>>
terminal == <<termios, input>>
process  == <<proc, status>>
vars == <<settings, thread, frame, tzlock, shutdown, sigint, terminal, crashed, process>>

\* Where the crash handler is: in its event, then in wait_debugger.
Waiting == {"save", "raw", "sigint", "prompt", "restore", "answer", "attach"}
Place == {"join", "poll", "work", "begin", "time", "exited"} \cup Waiting

Thread == [at : Place, event : {LOG_LEVEL_CRITICAL, LOG_LEVEL_WARNING, LOG_LEVEL_DEBUG},
           i : 0 .. Slices, sigint_sa : {"handler", "default"},
           stdin_termios : {"canonical", "raw"}, attached : BOOLEAN]

\* A thread where wait_debugger's locals start afresh or are not in use, and one
\* outside of events and handlers.
Fresh(place, event, mode) == [at |-> place, event |-> event, i |-> 0, sigint_sa |-> "default",
                              stdin_termios |-> mode, attached |-> FALSE]
Plain(place) == Fresh(place, LOG_LEVEL_DEBUG, "canonical")

TypeOK ==
  /\ level \in {LOG_LEVEL_NOTICE, LOG_LEVEL_DEBUG}
  /\ sigsegv_exit_status \in Nat \ {0}
  /\ thread \in [Threads -> Thread]
  /\ frame \in [Threads -> {"none", "begin", "time"}]
  /\ tzlock \in BOOLEAN
  /\ shutdown \in BOOLEAN
  /\ sigint \in {"handler", "default"}
  /\ termios \in {"canonical", "raw"}
  /\ input \in {"none", "y", "other"}
  /\ crashed \subseteq Threads
  /\ proc \in {"running", "stopped", "ended", "killed"}
  /\ status \in 0 .. 255

\* main() has set the logger up, with -d or without, and called diagnose_sigsegv
\* and signal(); its workers are about to poll.
Init ==
  /\ level \in {LOG_LEVEL_NOTICE, LOG_LEVEL_DEBUG}
  /\ \E exit_status \in ExitStatus :
       sigsegv_exit_status = IF exit_status = 0 THEN EXIT_FAILURE ELSE exit_status
  /\ thread = [t \in Threads |-> Plain(IF t \in Workers THEN "poll" ELSE "join")]
  /\ frame = [t \in Threads |-> "none"]
  /\ tzlock = FALSE
  /\ shutdown = FALSE
  /\ sigint = "handler"
  /\ termios = "canonical"
  /\ input = "none"
  /\ crashed = {}
  /\ proc = "running"
  /\ status = EXIT_SUCCESS

Logger_would_log(l) == l <= level

\* Thread t goes on from one place to another; not under a signal handler.
At(t, from) == proc = "running" /\ frame[t] = "none" /\ thread[t].at = from
Step(t, from, to) == /\ At(t, from)
                     /\ thread' = [thread EXCEPT ![t].at = to]

-----------------------------------------------------------------------------
(* A worker's turn, which logs at most one event in the model *)

\* poll() returns, for whatever reason, and the flag is tested.
CheckShutdown(t) ==
  /\ Step(t, "poll", IF shutdown THEN "exited" ELSE "work")
  /\ UNCHANGED <<settings, frame, tzlock, shutdown, sigint, terminal, crashed, process>>

\* The turn logs what it did to debug, or warns of a failure, or logs nothing.
Work(t) ==
  /\ At(t, "work")
  /\ \E l \in {LOG_LEVEL_WARNING, LOG_LEVEL_DEBUG} :
       thread' = [thread EXCEPT ![t] = IF Logger_would_log(l)
                                       THEN Fresh("begin", l, "canonical")
                                       ELSE Plain("poll")]
  /\ UNCHANGED <<settings, frame, tzlock, shutdown, sigint, terminal, crashed, process>>

\* A fault in the turn's own code: sigsegv_handler begins a critical event.
Fault(t) ==
  /\ At(t, "work")
  /\ thread' = [thread EXCEPT ![t] = Fresh("begin", LOG_LEVEL_CRITICAL, "canonical")]
  /\ crashed' = crashed \cup {t}
  /\ UNCHANGED <<settings, frame, tzlock, shutdown, sigint, terminal, process>>

\* LoggerEvent_init writes the time: localtime_r takes the lock and gives it back.
Begin(t) ==
  /\ Step(t, "begin", "time")
  /\ ~tzlock
  /\ tzlock' = TRUE
  /\ UNCHANGED <<settings, frame, shutdown, sigint, terminal, crashed, process>>

\* Then the line is written and the event ended, on which only the crash handler's
\* goes on.
Time(t) ==
  /\ At(t, "time")
  /\ tzlock' = FALSE
  /\ thread' = [thread EXCEPT ![t] = IF @.event = LOG_LEVEL_CRITICAL
                                     THEN [@ EXCEPT !.at = "save"] ELSE Plain("poll")]
  /\ UNCHANGED <<settings, frame, shutdown, sigint, terminal, crashed, process>>

-----------------------------------------------------------------------------
(* exit_debug and wait_debugger *)

\* Mutant of exit_status: what is 0 once it is cut to a byte stays 0.
exit_status_cut == sigsegv_exit_status % 256

\* The event keeps it in an unsigned char, and 0 stands for EXIT_FAILURE.
exit_status == LET byte == sigsegv_exit_status % 256
               IN  IF byte = 0 THEN EXIT_FAILURE ELSE byte

\* wait_debugger returned false: _exit.
Exit ==
  /\ proc' = "ended"
  /\ status' = exit_status

\* tcgetattr, with fresh locals.
SaveTerminal(t) ==
  /\ At(t, "save")
  /\ thread' = [thread EXCEPT ![t] = Fresh("raw", LOG_LEVEL_CRITICAL, termios)]
  /\ UNCHANGED <<settings, frame, tzlock, shutdown, sigint, terminal, crashed, process>>

SetRaw(t) ==
  /\ Step(t, "raw", "sigint")
  /\ termios' = "raw"
  /\ UNCHANGED <<settings, frame, tzlock, shutdown, sigint, input, crashed, process>>

\* "allow Ctrl-C to work"
AllowCtrlC(t) ==
  /\ At(t, "sigint")
  /\ thread' = [thread EXCEPT ![t].at = "prompt", ![t].sigint_sa = sigint]
  /\ sigint' = "default"
  /\ UNCHANGED <<settings, frame, tzlock, shutdown, terminal, crashed, process>>

\* Mutants of PromptTimeout: the count starts again; one second too many.
PromptForever(t) ==
  /\ At(t, "prompt") /\ input = "none"
  /\ thread' = [thread EXCEPT ![t].i = IF @ + 1 < Slices THEN @ + 1 ELSE 0]
  /\ UNCHANGED <<settings, frame, tzlock, shutdown, sigint, terminal, crashed, process>>
PromptOnce(t) ==
  /\ At(t, "prompt") /\ input = "none"
  /\ thread' = [thread EXCEPT ![t].i = @ + 1,
                              ![t].at = IF thread[t].i > Slices THEN "restore" ELSE @]
  /\ UNCHANGED <<settings, frame, tzlock, shutdown, sigint, terminal, crashed, process>>

\* A second passes without a key.
PromptTimeout(t) ==
  /\ At(t, "prompt") /\ input = "none"
  /\ thread' = [thread EXCEPT ![t].i = @ + 1,
                              ![t].at = IF thread[t].i + 1 = Slices THEN "restore" ELSE @]
  /\ UNCHANGED <<settings, frame, tzlock, shutdown, sigint, terminal, crashed, process>>

PromptKey(t) ==
  /\ Step(t, "prompt", "answer")
  /\ input # "none"
  /\ termios' = thread[t].stdin_termios
  /\ UNCHANGED <<settings, frame, tzlock, shutdown, sigint, input, crashed, process>>

\* Mutants of NoKey: the terminal is not given back; the fault is tried again.
NoKeyRaw(t) ==
  /\ At(t, "restore")
  /\ Exit
  /\ UNCHANGED <<settings, thread, frame, tzlock, shutdown, sigint, terminal, crashed>>
NoKeyReturns(t) ==
  /\ Step(t, "restore", "work")
  /\ termios' = thread[t].stdin_termios
  /\ sigint' = thread[t].sigint_sa
  /\ UNCHANGED <<settings, frame, tzlock, shutdown, input, crashed, process>>

NoKey(t) ==
  /\ At(t, "restore")
  /\ termios' = thread[t].stdin_termios
  /\ Exit
  /\ UNCHANGED <<settings, thread, frame, tzlock, shutdown, sigint, input, crashed>>

\* getchar(), which waits if another thread was faster: a "y" stops the process.
Answer(t) ==
  /\ At(t, "answer") /\ input # "none"
  /\ input' = "none"
  /\ IF input = "y"
     THEN /\ proc' = "stopped"
          /\ thread' = [thread EXCEPT ![t].at = "attach"]
          /\ UNCHANGED status
     ELSE /\ Exit
          /\ UNCHANGED thread
  /\ UNCHANGED <<settings, frame, tzlock, shutdown, sigint, termios, crashed>>

\* On "fg": without a debugger, the end; with one, the handler returns and the
\* thread repeats what it faulted at.
Attached(t) ==
  /\ At(t, "attach")
  /\ IF thread[t].attached
     THEN /\ sigint' = thread[t].sigint_sa
          /\ thread' = [thread EXCEPT ![t] = Plain("work")]
          /\ UNCHANGED process
     ELSE /\ Exit
          /\ UNCHANGED <<thread, sigint>>
  /\ UNCHANGED <<settings, frame, tzlock, shutdown, terminal, crashed>>

\* main() joins its workers, or leaves rdnstun(), and returns.
MainReturns ==
  /\ proc = "running" /\ frame[Main] = "none"
  /\ \A t \in Workers : thread[t].at = "exited"
  /\ proc' = "ended"
  /\ status' = EXIT_SUCCESS
  /\ UNCHANGED <<settings, thread, frame, tzlock, shutdown, sigint, terminal, crashed>>

ThreadStep(t) ==
  \/ CheckShutdown(t) \/ Work(t) \/ Begin(t) \/ Time(t)
  \/ SaveTerminal(t) \/ SetRaw(t) \/ AllowCtrlC(t)
  \/ PromptTimeout(t) \/ PromptKey(t) \/ NoKey(t) \/ Answer(t) \/ Attached(t)

-----------------------------------------------------------------------------
(* shutdown_rdnstun *)

\* Mutant of Interrupt: the handler's message is a notice.
InterruptNotice(t) ==
  /\ proc = "running" /\ frame[t] = "none"
  /\ t = Main \/ thread[t].at # "exited"
  /\ sigint = "handler"
  /\ frame' = [frame EXCEPT ![t] = "begin"]
  /\ UNCHANGED <<settings, thread, tzlock, shutdown, sigint, terminal, crashed, process>>

\* SIGINT is delivered to a thread, wherever it is, but not to one already in
\* the handler, and the message comes before the flag.
Interrupt(t) ==
  /\ proc = "running" /\ frame[t] = "none"
  /\ t = Main \/ thread[t].at # "exited"
  /\ sigint = "handler"
  /\ IF Logger_would_log(LOG_LEVEL_INFO)
     THEN /\ frame' = [frame EXCEPT ![t] = "begin"]
          /\ UNCHANGED shutdown
     ELSE /\ shutdown' = TRUE
          /\ UNCHANGED frame
  /\ UNCHANGED <<settings, thread, tzlock, sigint, terminal, crashed, process>>

\* The default action, while a crashed thread waits for a key.
Kill ==
  /\ proc = "running" /\ sigint = "default"
  /\ proc' = "killed"
  /\ UNCHANGED <<settings, thread, frame, tzlock, shutdown, sigint, terminal, crashed, status>>

HandlerBegin(t) ==
  /\ proc = "running" /\ frame[t] = "begin"
  /\ ~tzlock
  /\ tzlock' = TRUE
  /\ frame' = [frame EXCEPT ![t] = "time"]
  /\ UNCHANGED <<settings, thread, shutdown, sigint, terminal, crashed, process>>

\* The message is written, and only then the flag is set.
HandlerTime(t) ==
  /\ proc = "running" /\ frame[t] = "time"
  /\ tzlock' = FALSE
  /\ shutdown' = TRUE
  /\ frame' = [frame EXCEPT ![t] = "none"]
  /\ UNCHANGED <<settings, thread, sigint, terminal, crashed, process>>

HandlerStep(t) == HandlerBegin(t) \/ HandlerTime(t)

-----------------------------------------------------------------------------
(* The user *)

Type ==
  /\ proc = "running" /\ input = "none"
  /\ \E t \in Threads : thread[t].at \in {"prompt", "answer"}
  /\ input' \in {"y", "other"}
  /\ UNCHANGED <<settings, thread, frame, tzlock, shutdown, sigint, termios, crashed, process>>

\* "Enter 'fg' to restore program", with a debugger that set attached or without.
Resume ==
  /\ proc = "stopped"
  /\ \E set \in BOOLEAN :
       thread' = [t \in Threads |-> IF thread[t].at = "attach"
                                    THEN [thread[t] EXCEPT !.attached = set]
                                    ELSE thread[t]]
  /\ proc' = "running"
  /\ UNCHANGED <<settings, frame, tzlock, shutdown, sigint, terminal, crashed, status>>

Next ==
  \/ \E t \in Threads : ThreadStep(t) \/ Fault(t) \/ HandlerStep(t) \/ Interrupt(t)
  \/ MainReturns \/ Kill \/ Type \/ Resume

\* Every thread is scheduled, and neither the lock nor the terminal's input is
\* kept from one for ever: SF, since others take them in turn.
Fairness == /\ WF_vars(MainReturns)
            /\ \A t \in Threads : SF_vars(ThreadStep(t)) /\ SF_vars(HandlerStep(t))

Spec == Init /\ [][Next]_vars
FairSpec == Spec /\ Fairness

-----------------------------------------------------------------------------
(* Properties *)

\* The threads in the crash handler.
Crashing == {t \in Threads :
               \/ thread[t].at \in Waiting
               \/ /\ thread[t].at \in {"begin", "time"}
                  /\ thread[t].event = LOG_LEVEL_CRITICAL}

\* Waiting for a debugger leaves no trace (log.c:122-146): a process that ends by
\* itself has given the terminal back, and one that goes on has its SIGINT handler
\* back too.  Two threads that crash at once save each other's settings.
NoTrace ==
  Cardinality(crashed) <= 1 =>
    /\ proc = "ended" => termios = "canonical"
    /\ Crashing = {} => termios = "canonical" /\ sigint = "handler"

\* Unless a debugger was attached, a fatal event does not return (log.h:606), and
\* then only to what faulted: no crashed worker goes on to another packet.
FatalStays ==
  [][\A t \in Crashing :
       t \notin Crashing' => thread[t].attached /\ thread'[t].at = "work"]_vars

\* The exit status tells a crash from a shutdown, also where the status asked for
\* is 0 or does not fit the byte it is kept in (log.h:41).
StatusTells ==
  proc = "ended" =>
    IF status = EXIT_SUCCESS THEN shutdown /\ Crashing = {} ELSE Crashing # {}

\* Without -d, a process told to stop stops, or has crashed and is handled below.
ShutdownStops ==
  level = LOG_LEVEL_NOTICE /\ crashed = {} /\ (shutdown \/ \E t \in Threads : frame[t] # "none")
    ~> proc # "running"

\* Without -d, the first crash ends the process or stops it for the debugger,
\* whatever the other threads log, type or fault at in the meantime.
CrashEnds ==
  level = LOG_LEVEL_NOTICE /\ Cardinality(crashed) = 1
    /\ (\E t \in Crashing : ~thread[t].attached)
    ~> proc # "running"

\* "-d  enables debugging messages" (rdnstun.c:158) and nothing else: a SIGINT
\* stops the process all the same.
DebugOnlyAddsMessages ==
  crashed = {} /\ (shutdown \/ \E t \in Threads : frame[t] # "none") ~> proc # "running"
=============================================================================
