----------------------------- MODULE LogProofs -----------------------------
(***************************************************************************)
(* Theorems about Log, for any threads and any exit status: the crash      *)
(* handler leaves no trace of its wait, a fatal event stays, and the exit  *)
(* status tells a crash from a shutdown.  The inductive invariant follows  *)
(* the terminal's mode and the action of SIGINT, and the copies of them a  *)
(* crashed thread keeps, through wait_debugger, as long as no other thread *)
(* has crashed.                                                            *)
(***************************************************************************)
EXTENDS Log, FiniteSetTheorems, TLAPS

\* Where a thread may be, and how far it has counted.
PlaceInv ==
  \A t \in Threads :
    /\ t \notin Workers => thread[t].at = "join"
    /\ thread[t].at = "exited" => shutdown
    /\ thread[t].at \in {"raw", "sigint", "prompt"} => thread[t].i < Slices

CrashInv == Crashing \subseteq crashed

Lone == \A t, u \in crashed : t = u

\* What a crashed thread has saved, and what it has not yet changed or has
\* already given back.
Kept(t) ==
  /\ thread[t].at \notin {"begin", "time", "save"} => thread[t].stdin_termios = "canonical"
  /\ thread[t].at \in {"prompt", "restore", "answer", "attach"} =>
       thread[t].sigint_sa = "handler"
  /\ thread[t].at \in {"begin", "time", "save", "raw", "answer", "attach"} =>
       termios = "canonical"
  /\ thread[t].at \in {"begin", "time", "save", "raw", "sigint"} => sigint = "handler"

TerminalInv ==
  Lone => /\ \A t \in Crashing : Kept(t)
          /\ Crashing = {} => termios = "canonical" /\ sigint = "handler"
          /\ proc = "ended" => termios = "canonical"

IInv == TypeOK /\ PlaceInv /\ CrashInv /\ TerminalInv /\ StatusTells
-----------------------------------------------------------------------------
\* A set of at most one element has only one.
LEMMA AtMostOne ==
  ASSUME NEW S, IsFiniteSet(S), Cardinality(S) <= 1
  PROVE  \A t, u \in S : t = u
<1>1. Cardinality(S) \in Nat
  BY FS_CardinalityType
<1>2. CASE Cardinality(S) = 0
  BY <1>2, FS_EmptySet
<1>3. CASE Cardinality(S) = 1
  <2>1. \E x : S = {x}
    BY <1>3, FS_Singleton
  <2>2. QED
    BY <2>1
<1>4. QED
  BY <1>1, <1>2, <1>3

LEMMA InitIInv == Init => IInv
<1> SUFFICES ASSUME Init PROVE IInv
  OBVIOUS
<1> USE DEF Plain, Fresh
<1>1. thread \in [Threads -> Thread] /\ \A t \in Threads : thread[t].at \in {"poll", "join"}
  BY SlicesAssumption DEF Init, Thread, Place, Waiting
<1>2. TypeOK
  <2>1. sigsegv_exit_status \in Nat \ {0} /\ status \in 0 .. 255
    BY StatusAssumption DEF Init, EXIT_SUCCESS, EXIT_FAILURE
  <2>2. frame \in [Threads -> {"none", "begin", "time"}]
    BY DEF Init
  <2>3. QED
    BY <1>1, <2>1, <2>2 DEF Init, TypeOK
<1>3. PlaceInv
  BY <1>1 DEF Init, PlaceInv
<1>4. Crashing = {}
  BY <1>1 DEF Crashing, Waiting
<1>5. QED
  BY <1>2, <1>3, <1>4 DEF Init, IInv, CrashInv, TerminalInv, StatusTells
-----------------------------------------------------------------------------
\* A thread's step gives it a new record and leaves the others theirs.
LEMMA ThreadChanges ==
  ASSUME TypeOK, PlaceInv, NEW t \in Threads, ThreadStep(t) \/ Fault(t)
  PROVE  /\ \A u \in Threads : u # t => thread'[u] = thread[u]
         /\ thread' \in [Threads -> Thread]
<1> USE SlicesAssumption DEF Step, At, Plain
<1>0. thread \in [Threads -> Thread] /\ thread[t] \in Thread /\ termios \in {"canonical", "raw"}
      /\ sigint \in {"handler", "default"}
  BY DEF TypeOK
<1>a. ASSUME NEW place \in Place, NEW mode \in {"canonical", "raw"},
             NEW l \in {LOG_LEVEL_CRITICAL, LOG_LEVEL_WARNING, LOG_LEVEL_DEBUG}
      PROVE  Fresh(place, l, mode) \in Thread
  <2>1. 0 \in 0 .. Slices
    OBVIOUS
  <2>2. QED
    BY <2>1 DEF Fresh, Thread
<1>1. CASE CheckShutdown(t) \/ SetRaw(t) \/ Begin(t) \/ PromptKey(t)
  <2>1. PICK to \in Place : thread' = [thread EXCEPT ![t].at = to]
    BY <1>1 DEF CheckShutdown, SetRaw, Begin, PromptKey, Place, Waiting
  <2>2. QED
    BY <1>0, <2>1 DEF Thread
<1>2. CASE Work(t)
  <2>1. PICK l \in {LOG_LEVEL_WARNING, LOG_LEVEL_DEBUG} :
          thread' = [thread EXCEPT ![t] = IF Logger_would_log(l)
                                          THEN Fresh("begin", l, "canonical")
                                          ELSE Plain("poll")]
    BY <1>2 DEF Work
  <2>2. Fresh("begin", l, "canonical") \in Thread /\ Plain("poll") \in Thread
    BY <1>a DEF Place
  <2>3. QED
    BY <1>0, <2>1, <2>2
<1>3. CASE Fault(t)
  <2>1. Fresh("begin", LOG_LEVEL_CRITICAL, "canonical") \in Thread
    BY <1>a DEF Place
  <2>2. QED
    BY <1>0, <1>3, <2>1 DEF Fault
<1>4. CASE Time(t)
  <2>1. Plain("poll") \in Thread /\ [thread[t] EXCEPT !.at = "save"] \in Thread
    BY <1>0, <1>a DEF Place, Waiting, Thread
  <2>2. QED
    BY <1>0, <1>4, <2>1 DEF Time
<1>5. CASE SaveTerminal(t)
  <2>1. Fresh("raw", LOG_LEVEL_CRITICAL, termios) \in Thread
    BY <1>0, <1>a DEF Place, Waiting
  <2>2. QED
    BY <1>0, <1>5, <2>1 DEF SaveTerminal
<1>6. CASE AllowCtrlC(t)
  BY <1>0, <1>6 DEF AllowCtrlC, Thread, Place, Waiting
<1>7. CASE PromptTimeout(t)
  <2>1. thread[t].i + 1 \in 0 .. Slices
    BY <1>0, <1>7 DEF PromptTimeout, Thread, PlaceInv
  <2>2. QED
    BY <1>0, <1>7, <2>1 DEF PromptTimeout, Thread, Place, Waiting
<1>8. CASE NoKey(t)
  BY <1>0, <1>8 DEF NoKey
<1>9. CASE Answer(t)
  BY <1>0, <1>9 DEF Answer, Thread, Place, Waiting
<1>10. CASE Attached(t)
  <2>1. Plain("work") \in Thread
    BY <1>a DEF Place
  <2>2. QED
    BY <1>0, <1>10, <2>1 DEF Attached
<1>11. QED
  BY <1>1, <1>2, <1>3, <1>4, <1>5, <1>6, <1>7, <1>8, <1>9, <1>10 DEF ThreadStep

\* Every step keeps to the types.
LEMMA TypeStep == TypeOK /\ PlaceInv /\ [Next]_vars => TypeOK'
<1> SUFFICES ASSUME TypeOK, PlaceInv, [Next]_vars PROVE TypeOK'
  OBVIOUS
<1> USE DEF settings, terminal, process, EXIT_SUCCESS, EXIT_FAILURE
<1>0. exit_status \in 0 .. 255
  BY DEF TypeOK, exit_status
<1>1. ASSUME NEW t \in Threads, ThreadStep(t) \/ Fault(t) PROVE TypeOK'
  <2>1. thread' \in [Threads -> Thread]
    BY <1>1, ThreadChanges
  <2>2. /\ UNCHANGED <<settings, frame, shutdown>>
        /\ termios' \in {"canonical", "raw"}
        /\ sigint' \in {"handler", "default"}
    <3>1. thread[t] \in Thread
      BY DEF TypeOK
    <3>2. thread[t].stdin_termios \in {"canonical", "raw"}
          /\ thread[t].sigint_sa \in {"handler", "default"}
      BY <3>1 DEF Thread
    <3>3. QED
      BY <1>1, <3>2 DEF TypeOK, ThreadStep, Fault, CheckShutdown, Work, Begin, Time,
         SaveTerminal, SetRaw, AllowCtrlC, PromptTimeout, PromptKey, NoKey, Answer, Attached
  <2>3. input' \in {"none", "y", "other"} /\ crashed' \subseteq Threads
    BY <1>1 DEF TypeOK, ThreadStep, Fault, CheckShutdown, Work, Begin, Time,
       SaveTerminal, SetRaw, AllowCtrlC, PromptTimeout, PromptKey, NoKey, Answer, Attached
  <2>4. proc' \in {"running", "stopped", "ended", "killed"} /\ status' \in 0 .. 255
    BY <1>0, <1>1 DEF TypeOK, ThreadStep, Fault, CheckShutdown, Work, Begin, Time, Exit,
       SaveTerminal, SetRaw, AllowCtrlC, PromptTimeout, PromptKey, NoKey, Answer, Attached
  <2>5. tzlock' \in BOOLEAN
    BY <1>1 DEF TypeOK, ThreadStep, Fault, CheckShutdown, Work, Begin, Time,
       SaveTerminal, SetRaw, AllowCtrlC, PromptTimeout, PromptKey, NoKey, Answer, Attached
  <2>6. QED
    BY <2>1, <2>2, <2>3, <2>4, <2>5 DEF TypeOK
<1>2. ASSUME NEW t \in Threads, HandlerStep(t) \/ Interrupt(t) PROVE TypeOK'
  <2>1. frame' \in [Threads -> {"none", "begin", "time"}] /\ shutdown' \in BOOLEAN
    BY <1>2 DEF TypeOK, HandlerStep, HandlerBegin, HandlerTime, Interrupt
  <2>2. UNCHANGED <<settings, thread, sigint, terminal, crashed, process>> /\ tzlock' \in BOOLEAN
    BY <1>2 DEF TypeOK, HandlerStep, HandlerBegin, HandlerTime, Interrupt
  <2>3. QED
    BY <2>1, <2>2 DEF TypeOK
<1>3. CASE MainReturns \/ Kill \/ Type
  BY <1>3 DEF TypeOK, MainReturns, Kill, Type
<1>4. CASE Resume
  <2>1. PICK set \in BOOLEAN :
          thread' = [t \in Threads |-> IF thread[t].at = "attach"
                                       THEN [thread[t] EXCEPT !.attached = set]
                                       ELSE thread[t]]
    BY <1>4 DEF Resume
  <2>2. \A t \in Threads : [thread[t] EXCEPT !.attached = set] \in Thread
    BY DEF TypeOK, Thread
  <2>3. thread' \in [Threads -> Thread]
    BY <2>1, <2>2 DEF TypeOK
  <2>4. QED
    BY <1>4, <2>3 DEF TypeOK, Resume
<1>5. CASE UNCHANGED vars
  BY <1>5 DEF TypeOK, vars
<1>6. QED
  BY <1>1, <1>2, <1>3, <1>4, <1>5 DEF Next

\* A thread that only goes on from one place to another keeps the rest.
LEMMA Goes ==
  ASSUME TypeOK, NEW t \in Threads, NEW to, thread' = [thread EXCEPT ![t].at = to]
  PROVE  /\ thread'[t].at = to
         /\ thread'[t].event = thread[t].event
         /\ thread'[t].i = thread[t].i
         /\ thread'[t].sigint_sa = thread[t].sigint_sa
         /\ thread'[t].stdin_termios = thread[t].stdin_termios
<1>1. thread \in [Threads -> Thread] /\ thread[t] \in Thread
  BY DEF TypeOK
<1>2. thread'[t] = [thread[t] EXCEPT !.at = to]
  BY <1>1
<1>3. QED
  BY <1>1, <1>2 DEF Thread

\* One that starts afresh has the locals it starts with.
LEMMA Starts ==
  ASSUME TypeOK, NEW t \in Threads, NEW place, NEW l, NEW mode,
         thread' = [thread EXCEPT ![t] = Fresh(place, l, mode)]
  PROVE  /\ thread'[t].at = place
         /\ thread'[t].event = l
         /\ thread'[t].i = 0
         /\ thread'[t].stdin_termios = mode
<1>1. thread'[t] = Fresh(place, l, mode)
  BY DEF TypeOK
<1>2. QED
  BY <1>1 DEF Fresh

\* A turn's own event, if any, is no fatal one.
LEMMA WorkMoves ==
  ASSUME TypeOK, NEW t \in Threads, Work(t)
  PROVE  thread'[t].at \in {"begin", "poll"} /\ thread'[t].event # LOG_LEVEL_CRITICAL
<1>1. PICK l : /\ l = LOG_LEVEL_WARNING \/ l = LOG_LEVEL_DEBUG
               /\ thread' = [thread EXCEPT ![t] = IF Logger_would_log(l)
                                                THEN Fresh("begin", l, "canonical")
                                                ELSE Plain("poll")]
  BY DEF Work
<1>2. CASE Logger_would_log(l)
  <2>1. thread' = [thread EXCEPT ![t] = Fresh("begin", l, "canonical")]
    BY <1>1, <1>2
  <2>2. thread'[t].at = "begin" /\ thread'[t].event = l
    BY <2>1, Starts
  <2>3. QED
    BY <1>1, <2>2 DEF LOG_LEVEL_CRITICAL, LOG_LEVEL_WARNING, LOG_LEVEL_DEBUG
<1>3. CASE ~Logger_would_log(l)
  <2>1. thread' = [thread EXCEPT ![t] = Fresh("poll", LOG_LEVEL_DEBUG, "canonical")]
    BY <1>1, <1>3 DEF Plain
  <2>2. thread'[t].at = "poll" /\ thread'[t].event = LOG_LEVEL_DEBUG
    BY <2>1, Starts
  <2>3. QED
    BY <2>2 DEF LOG_LEVEL_CRITICAL, LOG_LEVEL_DEBUG
<1>4. QED
  BY <1>2, <1>3

\* A turn outside of the crash handler: it leaves the process' settings alone, and
\* only a fault enters the handler.
LEMMA TurnMoves ==
  ASSUME TypeOK, NEW t \in Threads,
         CheckShutdown(t) \/ Work(t) \/ ((Begin(t) \/ Time(t)) /\ t \notin Crashing)
  PROVE  /\ proc = "running" /\ thread[t].at \in {"poll", "work", "begin", "time"}
         /\ t \notin Crashing /\ t \notin Crashing'
         /\ thread'[t].at \in {"poll", "work", "begin", "time", "exited"}
         /\ thread'[t].at = "exited" => shutdown
         /\ UNCHANGED <<termios, sigint, crashed, proc, status>>
<1> USE DEF Step, At, Waiting, LOG_LEVEL_CRITICAL, LOG_LEVEL_WARNING, LOG_LEVEL_DEBUG
<1>1. CASE CheckShutdown(t)
  <2>1. PICK to : to = IF shutdown THEN "exited" ELSE "work"
    OBVIOUS
  <2>2. thread' = [thread EXCEPT ![t].at = to]
    BY <1>1, <2>1 DEF CheckShutdown
  <2>3. thread'[t].at = to
    BY <2>2, Goes
  <2>4. QED
    BY <1>1, <2>1, <2>3 DEF CheckShutdown, Crashing, terminal, process
<1>2. CASE Work(t)
  <2>1. thread'[t].at \in {"begin", "poll"} /\ thread'[t].event # LOG_LEVEL_CRITICAL
    BY <1>2, WorkMoves
  <2>2. QED
    BY <1>2, <2>1 DEF Work, Crashing, terminal, process
<1>3. CASE Begin(t) /\ t \notin Crashing
  <2>1. thread'[t].at = "time" /\ thread'[t].event = thread[t].event
    BY <1>3, Goes DEF Begin
  <2>2. QED
    BY <1>3, <2>1 DEF Begin, Crashing, terminal, process
<1>4. CASE Time(t) /\ t \notin Crashing
  <2>1. thread' = [thread EXCEPT ![t] = Plain("poll")]
    BY <1>4 DEF Time, Crashing
  <2>2. thread'[t].at = "poll"
    <3>1. thread'[t] = Plain("poll")
      BY <2>1 DEF TypeOK
    <3>2. QED
      BY ONLY <3>1 DEF Plain, Fresh
  <2>3. QED
    BY <1>4, <2>2 DEF Time, Crashing, terminal, process
<1>5. QED
  BY <1>1, <1>2, <1>3, <1>4

\* What a step of the crash handler may do: it keeps the handler's record of what
\* it has changed, and leaves only to what faulted, with everything given back.
CrashMove(t) ==
  /\ proc = "running" /\ thread[t].at \notin {"join", "exited"}
  /\ thread'[t].at \notin {"join", "exited"}
  /\ thread'[t].at \in {"raw", "sigint", "prompt"} => thread'[t].i < Slices
  /\ t \notin Crashing' => thread[t].attached /\ thread'[t].at = "work"
  /\ Kept(t) => /\ t \in Crashing' => Kept(t)'
                /\ t \notin Crashing' => termios' = "canonical" /\ sigint' = "handler"
                /\ proc' = "ended" => termios' = "canonical"
  /\ proc' = "ended" => t \in Crashing' /\ status' # EXIT_SUCCESS
  /\ UNCHANGED crashed

LEMMA CrashMoves ==
  ASSUME TypeOK, PlaceInv, NEW t \in Threads, t \in Crashing, ThreadStep(t)
  PROVE  CrashMove(t)
<1> USE SlicesAssumption DEF Step, At, Waiting, LOG_LEVEL_CRITICAL, LOG_LEVEL_WARNING,
                             LOG_LEVEL_DEBUG
<1>0. thread[t] \in Thread /\ thread[t].i \in 0 .. Slices /\ thread[t].attached \in BOOLEAN
      /\ (thread[t].at \in {"raw", "sigint", "prompt"} => thread[t].i < Slices)
  <2>1. thread[t] \in Thread
    BY DEF TypeOK
  <2>2. QED
    BY <2>1 DEF Thread, PlaceInv
<1>e. exit_status # EXIT_SUCCESS
  BY DEF exit_status, EXIT_SUCCESS, EXIT_FAILURE
<1>1. CASE CheckShutdown(t) \/ Work(t)
  BY <1>1 DEF CheckShutdown, Work, Crashing
<1>2. CASE Begin(t)
  <2>1. /\ thread'[t].at = "time"
        /\ thread'[t].event = thread[t].event
    BY <1>2, Goes DEF Begin
  <2>2. QED
    BY <1>2, <2>1 DEF Begin, CrashMove, Crashing, Kept, terminal, process
<1>3. CASE Time(t)
  <2>1. thread[t].event = LOG_LEVEL_CRITICAL
    BY <1>3 DEF Time, Crashing
  <2>2. thread' = [thread EXCEPT ![t].at = "save"]
    <3>1. thread' = [thread EXCEPT ![t] = [thread[t] EXCEPT !.at = "save"]]
      BY <1>3, <2>1 DEF Time
    <3>2. QED
      BY <3>1 DEF TypeOK
  <2>3. thread'[t].at = "save"
    BY <2>2, Goes
  <2>4. QED
    BY <1>3, <2>3 DEF Time, CrashMove, Crashing, Kept, terminal, process
<1>4. CASE SaveTerminal(t)
  <2>1. PICK mode : mode = termios
    OBVIOUS
  <2>2. thread' = [thread EXCEPT ![t] = Fresh("raw", LOG_LEVEL_CRITICAL, mode)]
    BY <1>4, <2>1 DEF SaveTerminal
  <2>3. thread'[t].at = "raw" /\ thread'[t].i = 0 /\ thread'[t].stdin_termios = mode
    BY <2>2, Starts
  <2>4. QED
    BY <1>4, <2>1, <2>3 DEF SaveTerminal, CrashMove, Crashing, Kept, terminal, process
<1>5. CASE SetRaw(t)
  <2>1. /\ thread'[t].at = "sigint" /\ thread'[t].i = thread[t].i
        /\ thread'[t].stdin_termios = thread[t].stdin_termios
    BY <1>5, Goes DEF SetRaw
  <2>2. QED
    BY <1>0, <1>5, <2>1 DEF SetRaw, CrashMove, Crashing, Kept, process
<1>6. CASE AllowCtrlC(t)
  <2>1. thread'[t] = [thread[t] EXCEPT !.at = "prompt", !.sigint_sa = sigint]
    BY <1>6 DEF AllowCtrlC, TypeOK
  <2>2. /\ thread'[t].at = "prompt" /\ thread'[t].i = thread[t].i
        /\ thread'[t].stdin_termios = thread[t].stdin_termios
        /\ thread'[t].sigint_sa = sigint
    BY <1>0, <2>1 DEF Thread
  <2>3. QED
    BY <1>0, <1>6, <2>2 DEF AllowCtrlC, CrashMove, Crashing, Kept, terminal, process
<1>7. CASE PromptTimeout(t)
  <2>1. thread'[t] = [thread[t] EXCEPT !.i = thread[t].i + 1,
                        !.at = IF thread[t].i + 1 = Slices THEN "restore" ELSE thread[t].at]
    BY <1>7 DEF PromptTimeout, TypeOK
  <2>2. thread[t].at = "prompt" /\ UNCHANGED <<terminal, sigint, crashed, process>>
        /\ proc = "running"
    BY <1>7 DEF PromptTimeout
  <2>3. PICK to : to = IF thread[t].i + 1 = Slices THEN "restore" ELSE thread[t].at
    OBVIOUS
  <2>4. thread'[t] = [thread[t] EXCEPT !.i = thread[t].i + 1, !.at = to]
    BY <2>1, <2>3
  <2>5. /\ thread'[t].i = thread[t].i + 1
        /\ thread'[t].at = to
        /\ thread'[t].stdin_termios = thread[t].stdin_termios
        /\ thread'[t].sigint_sa = thread[t].sigint_sa
    BY <1>0, <2>4 DEF Thread
  <2>6. to \in {"prompt", "restore"} /\ (to = "prompt" => thread'[t].i < Slices)
    BY <1>0, <2>2, <2>3, <2>5
  <2>7. QED
    BY <2>2, <2>5, <2>6 DEF CrashMove, Crashing, Kept, terminal, process
<1>8. CASE PromptKey(t)
  <2>1. /\ thread'[t].at = "answer"
        /\ thread'[t].stdin_termios = thread[t].stdin_termios
        /\ thread'[t].sigint_sa = thread[t].sigint_sa
    BY <1>8, Goes DEF PromptKey
  <2>2. QED
    BY <1>8, <2>1 DEF PromptKey, CrashMove, Crashing, Kept, process
<1>9. CASE NoKey(t)
  BY <1>e, <1>9 DEF NoKey, Exit, CrashMove, Crashing, Kept
<1>10. CASE Answer(t) /\ input = "y"
  <2>1. /\ thread'[t].at = "attach"
        /\ thread'[t].stdin_termios = thread[t].stdin_termios
        /\ thread'[t].sigint_sa = thread[t].sigint_sa
    BY <1>10, Goes DEF Answer
  <2>2. QED
    BY <1>10, <2>1 DEF Answer, CrashMove, Crashing, Kept
<1>11. CASE Answer(t) /\ input # "y"
  BY <1>e, <1>11 DEF Answer, Exit, CrashMove, Crashing, Kept
<1>12. CASE Attached(t) /\ thread[t].attached
  <2>1. thread'[t].at = "work"
    BY <1>12, Starts DEF Attached, Plain
  <2>2. QED
    BY <1>12, <2>1 DEF Attached, CrashMove, Crashing, Kept, terminal, process
<1>13. CASE Attached(t) /\ ~thread[t].attached
  BY <1>e, <1>13 DEF Attached, Exit, CrashMove, Crashing, Kept, terminal
<1>14. QED
  BY <1>1, <1>2, <1>3, <1>4, <1>5, <1>6, <1>7, <1>8, <1>9, <1>10, <1>11, <1>12, <1>13
  DEF ThreadStep

\* Attaching a debugger changes no place.
LEMMA ResumeKeeps ==
  ASSUME TypeOK, Resume
  PROVE  \A t \in Threads : /\ thread'[t].at = thread[t].at
                            /\ thread'[t].event = thread[t].event
                            /\ thread'[t].i = thread[t].i
                            /\ thread'[t].sigint_sa = thread[t].sigint_sa
                            /\ thread'[t].stdin_termios = thread[t].stdin_termios
<1>1. PICK set \in BOOLEAN :
        thread' = [t \in Threads |-> IF thread[t].at = "attach"
                                     THEN [thread[t] EXCEPT !.attached = set]
                                     ELSE thread[t]]
  BY DEF Resume
<1>2. \A t \in Threads : thread[t] \in Thread
  BY DEF TypeOK
<1>3. QED
  BY <1>1, <1>2 DEF Thread
-----------------------------------------------------------------------------
\* A thread's step, in one of its three forms.
LEMMA ThreadForms ==
  ASSUME TypeOK, PlaceInv, NEW t \in Threads, ThreadStep(t) \/ Fault(t)
  PROVE  \/ Fault(t)
         \/ t \in Crashing /\ CrashMove(t)
         \/ /\ proc = "running" /\ thread[t].at \in {"poll", "work", "begin", "time"}
            /\ t \notin Crashing /\ t \notin Crashing'
            /\ thread'[t].at \in {"poll", "work", "begin", "time", "exited"}
            /\ thread'[t].at = "exited" => shutdown
            /\ UNCHANGED <<termios, sigint, crashed, proc, status>>
<1>1. CASE t \in Crashing /\ ThreadStep(t)
  BY <1>1, CrashMoves
<1>2. CASE t \notin Crashing /\ ThreadStep(t)
  <2>1. CheckShutdown(t) \/ Work(t) \/ Begin(t) \/ Time(t)
    BY <1>2 DEF ThreadStep, Crashing, Waiting, SaveTerminal, SetRaw, AllowCtrlC, PromptTimeout,
                PromptKey, NoKey, Answer, Attached, Step, At
  <2>2. QED
    BY <1>2, <2>1, TurnMoves
<1>3. QED
  BY <1>1, <1>2

LEMMA FaultEnters ==
  ASSUME TypeOK, NEW t \in Threads, Fault(t)
  PROVE  /\ thread[t].at = "work" /\ thread'[t].at = "begin"
         /\ t \notin Crashing /\ t \in Crashing' /\ crashed' = crashed \cup {t}
         /\ proc = "running" /\ UNCHANGED <<termios, sigint, proc, status>>
<1>1. thread'[t].at = "begin" /\ thread'[t].event = LOG_LEVEL_CRITICAL
  BY Starts DEF Fault
<1>2. QED
  BY <1>1 DEF Fault, At, Crashing, Waiting, terminal, process

LEMMA PlaceStep == TypeOK /\ PlaceInv /\ CrashInv /\ [Next]_vars => PlaceInv' /\ CrashInv'
<1> SUFFICES ASSUME TypeOK, PlaceInv, CrashInv, [Next]_vars PROVE PlaceInv' /\ CrashInv'
  OBVIOUS
<1>1. ASSUME NEW t \in Threads, ThreadStep(t) \/ Fault(t) PROVE PlaceInv' /\ CrashInv'
  <2>1. shutdown' = shutdown
    BY <1>1 DEF ThreadStep, Fault, CheckShutdown, Work, Begin, Time, SaveTerminal,
                SetRaw, AllowCtrlC, PromptTimeout, PromptKey, NoKey, Answer, Attached
  <2>2. \A u \in Threads : u # t => thread'[u] = thread[u]
    BY <1>1, ThreadChanges
  <2>3. /\ thread[t].at # "join"
        /\ thread'[t].at # "join"
        /\ thread'[t].at = "exited" => shutdown
        /\ thread'[t].at \in {"raw", "sigint", "prompt"} => thread'[t].i < Slices
    BY <1>1, ThreadForms, FaultEnters DEF CrashMove
  <2>4. PlaceInv'
    BY <2>1, <2>2, <2>3 DEF PlaceInv
  <2>5. crashed \subseteq crashed' /\ (t \in Crashing' => t \in crashed')
    BY <1>1, ThreadForms, FaultEnters DEF CrashMove, CrashInv
  <2>6. \A u \in Threads : u # t => (u \in Crashing' <=> u \in Crashing)
    BY <2>2 DEF Crashing
  <2>7. CrashInv'
    BY <2>5, <2>6 DEF CrashInv, Crashing
  <2>8. QED
    BY <2>4, <2>7
<1>2. ASSUME NEW t \in Threads, HandlerStep(t) \/ Interrupt(t) PROVE PlaceInv' /\ CrashInv'
  BY <1>2 DEF TypeOK, PlaceInv, CrashInv, Crashing, HandlerStep, HandlerBegin, HandlerTime,
              Interrupt
<1>3. CASE MainReturns \/ Kill \/ Type
  BY <1>3 DEF PlaceInv, CrashInv, Crashing, MainReturns, Kill, Type
<1>4. CASE Resume
  BY <1>4, ResumeKeeps DEF PlaceInv, CrashInv, Crashing, Resume
<1>5. CASE UNCHANGED vars
  BY <1>5 DEF PlaceInv, CrashInv, Crashing, vars
<1>6. QED
  BY <1>1, <1>2, <1>3, <1>4, <1>5 DEF Next

\* main() returns after a shutdown, when no thread is in the crash handler.
LEMMA ReturnsCleanly ==
  ASSUME PlaceInv, MainReturns
  PROVE  shutdown /\ Crashing = {}
<1>1. Workers # {}
  BY ThreadsAssumption DEF Workers
<1>2. shutdown
  BY <1>1 DEF MainReturns, PlaceInv, Workers
<1>3. \A t \in Threads : thread[t].at \in {"join", "exited"}
  BY DEF MainReturns, PlaceInv
<1>4. QED
  BY <1>2, <1>3 DEF Crashing, Waiting

LEMMA TerminalStep ==
  TypeOK /\ PlaceInv /\ CrashInv /\ CrashInv' /\ TerminalInv /\ [Next]_vars => TerminalInv'
<1> SUFFICES ASSUME TypeOK, PlaceInv, CrashInv, CrashInv', TerminalInv, [Next]_vars
             PROVE  TerminalInv'
  OBVIOUS
<1>1. ASSUME NEW t \in Threads, ThreadStep(t) \/ Fault(t), Lone' PROVE TerminalInv'
  <2>1. \A u \in Threads : u # t => thread'[u] = thread[u]
    BY <1>1, ThreadChanges
  <2>2. \A u \in Threads : u # t => (u \in Crashing' <=> u \in Crashing)
    BY <2>1 DEF Crashing
  <2>3. Lone
    BY <1>1, ThreadForms, FaultEnters DEF Lone, CrashMove
  <2>4. CASE Fault(t)
    <3>1. Crashing = {} /\ \A u \in Crashing' : u = t
      BY <1>1, <2>4, FaultEnters DEF CrashInv, Lone
    <3>2. termios' = "canonical" /\ sigint' = "handler" /\ thread'[t].at = "begin"
          /\ t \in Crashing'
      BY <2>3, <2>4, <3>1, FaultEnters DEF TerminalInv
    <3>3. QED
      BY <3>1, <3>2 DEF TerminalInv, Kept
  <2>5. CASE t \in Crashing /\ CrashMove(t)
    <3>1. \A u \in Crashing' : u = t
      <4>1. crashed' = crashed /\ t \in crashed'
        BY <2>5 DEF CrashInv, CrashMove
      <4>2. QED
        BY <1>1, <4>1 DEF CrashInv, Lone
    <3>2. Kept(t)
      BY <2>3, <2>5 DEF TerminalInv
    <3>3. QED
      BY <2>5, <3>1, <3>2 DEF TerminalInv, CrashMove
  <2>6. CASE /\ proc = "running" /\ t \notin Crashing /\ t \notin Crashing'
             /\ UNCHANGED <<termios, sigint, crashed, proc, status>>
    <3>1. Crashing' = Crashing
      BY <2>2, <2>6 DEF Crashing
    <3>2. \A u \in Crashing : thread'[u] = thread[u]
      BY <2>1, <2>6 DEF Crashing
    <3>3. QED
      BY <2>3, <2>6, <3>1, <3>2 DEF TerminalInv, Kept
  <2>7. QED
    BY <1>1, <2>4, <2>5, <2>6, ThreadForms
<1>2. ASSUME NEW t \in Threads, HandlerStep(t) \/ Interrupt(t) PROVE TerminalInv'
  BY <1>2 DEF TerminalInv, Lone, Kept, Crashing, HandlerStep, HandlerBegin, HandlerTime,
              Interrupt, terminal, process
<1>3. CASE MainReturns
  <2>1. Crashing = {}
    BY <1>3, ReturnsCleanly
  <2>2. QED
    BY <1>3, <2>1 DEF TerminalInv, Lone, Kept, Crashing, MainReturns, terminal
<1>4. CASE Kill \/ Type
  BY <1>4 DEF TerminalInv, Lone, Kept, Crashing, Kill, Type, terminal, process
<1>5. CASE Resume
  <2>1. Crashing' = Crashing
    BY <1>5, ResumeKeeps DEF Crashing
  <2>2. QED
    BY <1>5, <2>1, ResumeKeeps DEF TerminalInv, Lone, Kept, Crashing, Resume, terminal
<1>6. CASE UNCHANGED vars
  BY <1>6 DEF TerminalInv, Lone, Kept, Crashing, vars, terminal, process
<1>7. QED
  BY <1>1, <1>2, <1>3, <1>4, <1>5, <1>6 DEF Next, TerminalInv

LEMMA StatusStep == TypeOK /\ PlaceInv /\ StatusTells /\ [Next]_vars => StatusTells'
<1> SUFFICES ASSUME TypeOK, PlaceInv, StatusTells, [Next]_vars PROVE StatusTells'
  OBVIOUS
<1>1. ASSUME NEW t \in Threads, ThreadStep(t) \/ Fault(t) PROVE StatusTells'
  BY <1>1, ThreadForms, FaultEnters DEF CrashMove, StatusTells
<1>2. ASSUME NEW t \in Threads, HandlerStep(t) \/ Interrupt(t) PROVE StatusTells'
  BY <1>2 DEF StatusTells, HandlerStep, HandlerBegin, HandlerTime, Interrupt, process
<1>3. CASE MainReturns
  BY <1>3, ReturnsCleanly DEF StatusTells, MainReturns, Crashing
<1>4. CASE Kill \/ Type \/ Resume
  BY <1>4 DEF StatusTells, Kill, Type, Resume, process
<1>5. CASE UNCHANGED vars
  BY <1>5 DEF StatusTells, Crashing, vars, process
<1>6. QED
  BY <1>1, <1>2, <1>3, <1>4, <1>5 DEF Next

LEMMA NextIInv == IInv /\ [Next]_vars => IInv'
BY TypeStep, PlaceStep, TerminalStep, StatusStep DEF IInv
-----------------------------------------------------------------------------
LEMMA Inductive == Spec => []IInv
BY InitIInv, NextIInv, PTL DEF Spec

\* Every variable keeps to its type, wherever the threads are interrupted.
THEOREM TypeCorrect == Spec => []TypeOK
<1>1. IInv => TypeOK
  BY DEF IInv
<1>2. QED
  BY <1>1, Inductive, PTL

\* The wait for a debugger leaves no trace in the terminal or in the action of
\* SIGINT (log.c:99-156) however many threads run beside the one that crashed.
THEOREM LeavesNoTrace == Spec => []NoTrace
<1>1. IInv => NoTrace
  <2> SUFFICES ASSUME IInv, Cardinality(crashed) <= 1
               PROVE  /\ proc = "ended" => termios = "canonical"
                      /\ Crashing = {} => termios = "canonical" /\ sigint = "handler"
    BY DEF NoTrace
  <2>1. IsFiniteSet(crashed)
    BY ThreadsAssumption, FS_Subset DEF IInv, TypeOK
  <2>2. Lone
    BY <2>1, AtMostOne DEF Lone
  <2>3. QED
    BY <2>2 DEF IInv, TerminalInv
<1>2. QED
  BY <1>1, Inductive, PTL

\* The exit status of a process that ends by itself is 0 after a shutdown and
\* only then (log.c:323-337, rdnstun.c:428).
THEOREM StatusTold == Spec => []StatusTells
<1>1. IInv => StatusTells
  BY DEF IInv
<1>2. QED
  BY <1>1, Inductive, PTL

\* A crashed thread leaves its fatal event only with a debugger attached, and only
\* to what faulted (log.c:141-147).
THEOREM FatalKept == Spec => FatalStays
<1>1. IInv /\ [Next]_vars =>
        [\A t \in Crashing :
           t \notin Crashing' => thread[t].attached /\ thread'[t].at = "work"]_vars
  <2> SUFFICES ASSUME IInv, Next, NEW t \in Crashing, t \notin Crashing'
               PROVE  thread[t].attached /\ thread'[t].at = "work"
    OBVIOUS
  <2>0. TypeOK /\ PlaceInv /\ t \in Threads
    BY DEF IInv, Crashing
  <2>1. ASSUME NEW u \in Threads, ThreadStep(u) \/ Fault(u)
        PROVE  thread[t].attached /\ thread'[t].at = "work"
    <3>1. CASE u = t
      BY <2>0, <2>1, <3>1, ThreadForms, FaultEnters DEF CrashMove
    <3>2. CASE u # t
      BY <2>0, <2>1, <3>2, ThreadChanges DEF Crashing
    <3>3. QED
      BY <3>1, <3>2
  <2>2. ASSUME NEW u \in Threads, HandlerStep(u) \/ Interrupt(u) PROVE FALSE
    BY <2>2 DEF Crashing, HandlerStep, HandlerBegin, HandlerTime, Interrupt
  <2>3. CASE MainReturns \/ Kill \/ Type
    BY <2>3 DEF Crashing, MainReturns, Kill, Type
  <2>4. CASE Resume
    BY <2>0, <2>4, ResumeKeeps DEF Crashing
  <2>5. QED
    BY <2>1, <2>2, <2>3, <2>4 DEF Next
<1>2. QED
  BY <1>1, Inductive, PTL DEF Spec, FatalStays
=============================================================================
