---------------------------- MODULE LatencyWriter ----------------------------
(***************************************************************************)
(* MaxLatencyWriter (pkg/log/buffered.go), the writer of the access log: a *)
(* bufio.Writer that a timer flushes.  Write, delayedFlush and Stop hold   *)
(* the mutex from their first statement to their last, so each is one      *)
(* step; between the timer's expiry and its callback's Lock other calls    *)
(* may run.                                                                *)
(*                                                                         *)
(* A write to the file may fail.  bufio.Writer then keeps its error and    *)
(* refuses whatever comes; MaxLatencyWriter does not look at the error of  *)
(* Flush and goes on as before.                                            *)
(*                                                                         *)
(* External: bufio.Writer, of which only the number of bytes matters here, *)
(* time.AfterFunc and os.File.                                             *)
(***************************************************************************)
EXTENDS Integers

CONSTANTS
    Size,         \* the size of the buffer (1024 bytes in the code)
    MaxWrite,     \* bound: bytes of one call of Write
    MaxBytes,     \* bound: bytes written in one behaviour
    MaxCallbacks, \* bound: callbacks of the timer waiting for the mutex
    Immediate     \* is the latency negative?

ASSUME WriterAssumption ==
    /\ Size \in Nat \ {0} /\ MaxWrite \in Nat \ {0} /\ MaxBytes \in Nat
    /\ MaxCallbacks \in Nat \ {0} /\ Immediate \in BOOLEAN

VARIABLES
    accepted,     \* bytes handed to dst.Write
    file,         \* bytes that have reached the file
    broken,       \* a write to the file has failed
    flushPending, \* MaxLatencyWriter.flushPending
    timer,        \* the timer is running
    callbacks,    \* callbacks that wait for the mutex
    cleanup       \* where the cleanup function is: "none", "stopped", "closed"

writerVars == <<accepted, file, broken, flushPending, timer, callbacks, cleanup>>

Closed == cleanup = "closed"

WriterInit ==
    /\ accepted = 0 /\ file = 0 /\ broken = FALSE
    /\ flushPending = FALSE /\ timer = FALSE /\ callbacks = 0
    /\ cleanup = "none"

(* What comes before the target is written to the file, or some of it      *)
(* before a write fails, as any write to a closed file does.               *)
Reach(target) ==
    IF broken \/ target <= file
    THEN UNCHANGED <<file, broken>>
    ELSE \/ ~ Closed /\ file' = target /\ UNCHANGED broken
         \/ file' \in (IF Closed THEN {file} ELSE file..(target - 1)) /\ broken' = TRUE

(* bufio.Writer.Write: n more bytes; as long as they do not fit, the buffer*)
(* is filled and written, and an empty buffer lets a longer rest pass.     *)
Drained(buffered, n) ==
    LET rest == n - (Size - buffered) \* what is left once the buffer is full
    IN IF rest <= 0 THEN 0
       ELSE IF buffered = 0 THEN n
       ELSE Size + (IF rest <= Size THEN 0 ELSE rest)

-----------------------------------------------------------------------------
(* Mutant: the timer is started again only if it has never been started.   *)
ArmOnce == IF timer \/ accepted > 0 THEN UNCHANGED timer ELSE timer' = TRUE

(* AfterFunc the first time, Reset later on.                               *)
Arm == timer' = TRUE

Write(n) ==
    /\ accepted + n <= MaxBytes
    /\ accepted' = accepted + n
    /\ Reach(IF Immediate THEN accepted + n ELSE file + Drained(accepted - file, n))
    /\ IF Immediate \/ flushPending
       THEN UNCHANGED <<timer, flushPending>>
       ELSE Arm /\ flushPending' = TRUE
    /\ UNCHANGED <<callbacks, cleanup>>

(* The timer expires; its callback gets a goroutine.                       *)
Expire ==
    /\ timer /\ callbacks < MaxCallbacks
    /\ timer' = FALSE
    /\ callbacks' = callbacks + 1
    /\ UNCHANGED <<accepted, file, broken, flushPending, cleanup>>

(* Mutant: flushPending is taken back although nothing is flushed.         *)
DelayedFlushForgets ==
    /\ callbacks > 0
    /\ callbacks' = callbacks - 1
    /\ flushPending' = FALSE
    /\ UNCHANGED <<accepted, file, broken, timer, cleanup>>

DelayedFlush ==
    /\ callbacks > 0
    /\ callbacks' = callbacks - 1
    /\ IF flushPending THEN Reach(accepted) /\ flushPending' = FALSE
                       ELSE UNCHANGED <<file, broken, flushPending>>
    /\ UNCHANGED <<accepted, timer, cleanup>>

(* The cleanup function of GetMaxLatencyWriter: Stop, then Close.          *)
Stop ==
    /\ cleanup = "none"
    /\ cleanup' = "stopped"
    /\ flushPending' = FALSE
    /\ timer' = FALSE
    /\ UNCHANGED <<accepted, file, broken, callbacks>>

Close ==
    /\ cleanup = "stopped"
    /\ cleanup' = "closed"
    /\ UNCHANGED <<accepted, file, broken, flushPending, timer, callbacks>>

WriterNext ==
    \/ \E n \in 1..MaxWrite : Write(n)
    \/ Expire \/ DelayedFlush \/ Stop \/ Close

WriterSpec == WriterInit /\ [][WriterNext]_writerVars

(* The timer expires and its callback gets the mutex; nobody has to write  *)
(* or to clean up.                                                         *)
WriterFairSpec == WriterSpec /\ WF_writerVars(Expire) /\ WF_writerVars(DelayedFlush)

-----------------------------------------------------------------------------
WriterTypeOK ==
    /\ accepted \in 0..MaxBytes /\ file \in 0..accepted
    /\ broken \in BOOLEAN /\ flushPending \in BOOLEAN /\ timer \in BOOLEAN
    /\ callbacks \in 0..MaxCallbacks
    /\ cleanup \in {"none", "stopped", "closed"}

(* Until Stop is called or a write fails, bytes in the buffer always have a*)
(* flush coming: the timer runs or one of its callbacks waits for the      *)
(* mutex, whichever way writes, expiries and callbacks interleave.         *)
FlushIsComing ==
    cleanup = "none" /\ ~ broken /\ file < accepted => flushPending /\ (timer \/ callbacks > 0)

(* The writer keeps the promise of WriteBehind as long.                    *)
Promise == INSTANCE WriteBehind
               WITH durable <- file, open <- (cleanup = "none" /\ ~ broken)
KeepsPromise == Promise!Spec

(* buffered.go: cleanup is said to "Flush the log file, stop the latency   *)
(* timer.": once it has run, what was written before is in the file.       *)
CleanupFlushes ==
    [][cleanup = "stopped" /\ cleanup' = "closed" /\ ~ broken => file = accepted]_writerVars
=============================================================================
