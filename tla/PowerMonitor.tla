---------------------------- MODULE PowerMonitor ----------------------------
(***************************************************************************)
(* PowerMonitor of python/examples/scripts/continuous_monitor.py and the   *)
(* main that runs it: a loop that reads the power meter, keeps the last    *)
(* window_size readings in a deque, logs statistics every display_interval *)
(* samples and sleeps, until the SIGINT handler clears self.running; then  *)
(* it logs the final statistics and main returns its exit status.          *)
(*                                                                         *)
(* The handler runs in the main thread between two steps of the loop, as   *)
(* CPython runs signal handlers; time.sleep resumes after it.  A reading   *)
(* is a model value of Powers; read_power may raise instead.               *)
(***************************************************************************)
EXTENDS Naturals, Sequences

CONSTANTS
    Powers,           \* readings read_power can return
    WindowSize,       \* window_size, the deque's maxlen
    DisplayInterval,  \* display_interval
    MaxIterations     \* loop iterations explored


VARIABLES
    pc,             \* the next statement of run / main
    running,        \* self.running
    window,         \* self.window, oldest reading first
    total_samples,  \* self.total_samples
    last_display,   \* last_display (line 82)
    iterations,     \* loop iterations begun
    slept,          \* the loop slept since the last read_power call
    exit_code,      \* what main returns, once it has returned
    hist            \* every reading acquire_sample kept, in order

vars == <<pc, running, window, total_samples, last_display, iterations,
          slept, exit_code, hist>>

PCs == {"check", "acquire", "display", "sleep", "final", "exit"}

TypeOK ==
    /\ pc \in PCs
    /\ running \in BOOLEAN
    /\ window \in Seq(Powers) /\ Len(window) <= WindowSize
    /\ total_samples \in Nat /\ last_display \in Nat
    /\ iterations \in 0..MaxIterations
    /\ slept \in BOOLEAN
    /\ exit_code \in {0, 1, 2}
    /\ hist \in Seq(Powers)

(* PowerMonitor.__init__ and the start of run (lines 24-29, 77-82).        *)
Init ==
    /\ pc = "check" /\ running = TRUE
    /\ window = <<>> /\ total_samples = 0 /\ last_display = 0
    /\ iterations = 0 /\ slept = FALSE /\ exit_code = 2 /\ hist = <<>>

(* Mutant: the deque is built without maxlen.                              *)
DequeAppendUnbounded(d, x) == Append(d, x)

(* deque(maxlen=WindowSize).append: the oldest element goes when full.     *)
DequeAppend(d, x) ==
    IF Len(d) < WindowSize THEN Append(d, x) ELSE Append(Tail(d), x)

(* handle_interrupt (lines 31-34).                                         *)
HandleInterrupt ==
    /\ pc # "exit" /\ running
    /\ running' = FALSE
    /\ UNCHANGED <<pc, window, total_samples, last_display, iterations,
                   slept, exit_code, hist>>

(* Mutant: the loop does not test self.running.                            *)
LoopTestIgnoresFlag ==
    /\ pc = "check" /\ iterations < MaxIterations
    /\ pc' = "acquire" /\ iterations' = iterations + 1
    /\ UNCHANGED <<running, window, total_samples, last_display, slept,
                   exit_code, hist>>

(* while self.running (line 84); iterations bounds the exploration.        *)
LoopTest ==
    /\ pc = "check"
    /\ \/ running /\ iterations < MaxIterations
          /\ pc' = "acquire" /\ iterations' = iterations + 1
       \/ ~running /\ pc' = "final" /\ UNCHANGED iterations
    /\ UNCHANGED <<running, window, total_samples, last_display, slept,
                   exit_code, hist>>

(* acquire_sample returns (lines 36-54, 87): the reading joins the window  *)
(* and total_samples counts it.                                            *)
AcquireSample ==
    /\ pc = "acquire"
    /\ \E p \in Powers :
          /\ window' = DequeAppend(window, p)
          /\ hist' = Append(hist, p)
    /\ total_samples' = total_samples + 1
    /\ pc' = "display" /\ slept' = FALSE
    /\ UNCHANGED <<running, last_display, iterations, exit_code>>

(* Mutant: the sample is counted before read_power, which then raises.     *)
AcquireFailsAfterCount ==
    /\ pc = "acquire"
    /\ total_samples' = total_samples + 1
    /\ pc' = "check" /\ slept' = FALSE
    /\ UNCHANGED <<running, window, last_display, iterations, exit_code, hist>>

(* read_power raises (line 38): except Exception logs and continues with  *)
(* the next iteration, without the sleep (lines 108-110).                 *)
AcquireFails ==
    /\ pc = "acquire"
    /\ pc' = "check" /\ slept' = FALSE
    /\ UNCHANGED <<running, window, total_samples, last_display, iterations,
                   exit_code, hist>>

(* Statistics every display_interval samples (lines 94-103); the window   *)
(* holds the sample just taken, so get_statistics returns every key.       *)
Display ==
    /\ pc = "display"
    /\ last_display' = IF total_samples - last_display >= DisplayInterval
                       THEN total_samples ELSE last_display
    /\ pc' = "sleep"
    /\ UNCHANGED <<running, window, total_samples, iterations, slept,
                   exit_code, hist>>

(* time.sleep(self.sample_interval) (line 106).                            *)
Sleep ==
    /\ pc = "sleep"
    /\ pc' = "check" /\ slept' = TRUE
    /\ UNCHANGED <<running, window, total_samples, last_display, iterations,
                   exit_code, hist>>

(* Final statistics (lines 113-119): get_statistics returns {} for an     *)
(* empty window, stats['total_samples'] raises KeyError, and main's       *)
(* except Exception returns 1 (lines 169-171); otherwise main returns 0.   *)
FinalStatistics ==
    /\ pc = "final"
    /\ exit_code' = IF window = <<>> THEN 1 ELSE 0
    /\ pc' = "exit"
    /\ UNCHANGED <<running, window, total_samples, last_display, iterations,
                   slept, hist>>

MainStep ==
    LoopTest \/ AcquireSample \/ AcquireFails \/ Display \/ Sleep
    \/ FinalStatistics

Next == MainStep \/ HandleInterrupt

(* The loop runs in the process's only thread and takes its next step     *)
(* unless read_power hangs, which is not modelled.                         *)
Spec == Init /\ [][Next]_vars /\ WF_vars(MainStep)

-----------------------------------------------------------------------------
(* The statistics describe the recent readings: the window is exactly the *)
(* last min(total_samples, window_size) readings acquire_sample kept, and  *)
(* total_samples counts every kept reading and no failed one (lines 38-52, *)
(* 108-110).                                                               *)
WindowIsRecent ==
    /\ total_samples = Len(hist)
    /\ Len(window) = IF Len(hist) < WindowSize THEN Len(hist) ELSE WindowSize
    /\ window = SubSeq(hist, Len(hist) - Len(window) + 1, Len(hist))

(* After Ctrl+C the handler's flag ends the loop and main returns, even   *)
(* when every read fails (lines 34, 84, 108-110).                          *)
StopsAfterInterrupt == (~running) ~> (pc = "exit")

(* The module's docstring: it runs until interrupted with Ctrl+C, and the *)
(* handler stops it "gracefully": main returns 0 after an interrupt        *)
(* (lines 31-34, 113-115, 167-171).                                        *)
InterruptExitsCleanly == pc = "exit" => exit_code = 0

(* The docstring: it samples at the specified rate; every read_power call  *)
(* after the first follows a sleep of the sample interval (lines 87-110).  *)
SampledAtRate == (pc = "acquire" /\ iterations > 1) => slept
=============================================================================
