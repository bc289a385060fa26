-------------------------------- MODULE Backup --------------------------------
(***************************************************************************)
(* The backup daemon (internal/daemon/backup.go): a loop that wakes up a   *)
(* minute after it last went to sleep, compares the minute of the day with *)
(* the configured one and, if they agree, pipes mysqldump through gzip     *)
(* into the file of the day.                                               *)
(*                                                                         *)
(* Time passes in units of which a minute has several.  A timer fires at   *)
(* or shortly after its time.  The clock is never set back.                *)
(***************************************************************************)
EXTENDS Naturals

CONSTANTS
    Minute,      \* units in a minute
    DayLength,   \* minutes in a day (1440)
    Scheduled,   \* the minute of the day at which dumps are made
    LastDay,     \* bound: time stops at the end of this day
    MaxDelay,    \* bound: units by which a timer fires late
    MaxDump,     \* bound: units a dump takes
    MaxRestarts  \* bound: restarts of the server

ASSUME BackupAssumption ==
    /\ Minute \in Nat \ {0} /\ DayLength \in Nat \ {0}
    /\ Scheduled \in 0..(DayLength - 1)
    /\ LastDay \in Nat /\ MaxDelay \in Nat /\ MaxDump \in Nat /\ MaxRestarts \in Nat

VARIABLES
    now,      \* the time
    loop,     \* where the loop is; "down" while the server is
    wake,     \* when the timer of the loop fires
    deadline, \* bound: when the step that runs is over at the latest
    day,      \* the day in the name of the file being written
    dump,     \* the mysqldump process: "none", "running", "ok", "bad"
    file,     \* the file of each day: "none", "partial", "complete"
    restarts,
    \* history: days in which a dump was begun, days logged as successful
    dumped, succeeded

backupVars == <<now, loop, wake, deadline, day, dump, file, restarts, dumped, succeeded>>

Days == 0..LastDay
End  == (LastDay + 1) * DayLength * Minute - 1
DayOf(t)    == t \div (DayLength * Minute)
MinuteOf(t) == (t \div Minute) % DayLength

BackupInit ==
    /\ now = 0 /\ loop = "waiting" /\ wake = Minute /\ deadline = Minute + MaxDelay
    /\ day = 0 /\ dump = "none" /\ file = [d \in Days |-> "none"]
    /\ restarts = 0 /\ dumped = {} /\ succeeded = {}

(* Time goes on, but a timer is not later than MaxDelay and a dump does    *)
(* not take longer than MaxDump.                                           *)
Elapse ==
    /\ now < End
    /\ loop # "down" => now < deadline
    /\ now' = now + 1
    /\ UNCHANGED <<loop, wake, deadline, day, dump, file, restarts, dumped, succeeded>>

(* Mutants: half a minute, more than a minute.                             *)
HalfAMinute == Minute \div 2
TwoMinutes == 2 * Minute

(* time.After(time.Minute)                                                 *)
Interval == Minute

(* The loop goes to sleep.                                                 *)
Sleep ==
    /\ loop' = "waiting"
    /\ wake' = now + Interval
    /\ deadline' = now + Interval + MaxDelay

Wake ==
    /\ loop = "waiting" /\ now >= wake
    /\ \/ /\ MinuteOf(now) # Scheduled
          /\ Sleep
          /\ UNCHANGED dumped
       \/ /\ MinuteOf(now) = Scheduled
          /\ loop' = "create"
          /\ deadline' = now + MaxDump
          /\ dumped' = dumped \cup {DayOf(now)}
          /\ UNCHANGED wake
    /\ UNCHANGED <<now, day, dump, file, restarts, succeeded>>

(* createBackupDump asks for the date again and truncates the day's file.  *)
CreateFile ==
    /\ loop = "create"
    /\ \/ Sleep /\ UNCHANGED <<day, file>>
       \/ /\ day' = DayOf(now)
          /\ file' = [file EXCEPT ![day'] = "partial"]
          /\ loop' = "start"
          /\ UNCHANGED <<wake, deadline>>
    /\ UNCHANGED <<now, dump, restarts, dumped, succeeded>>

(* Both processes are started, or the first that cannot be is an error.    *)
StartDump ==
    /\ loop = "start"
    /\ \/ dump' = "running" /\ loop' = "wait" /\ UNCHANGED <<wake, deadline>>
       \/ Sleep /\ UNCHANGED dump
    /\ UNCHANGED <<now, day, file, restarts, dumped, succeeded>>

(* mysqldump exits; its status is not looked at; gzip gets an EOF.         *)
DumpExits ==
    /\ loop = "wait" /\ dump = "running"
    /\ dump' \in {"ok", "bad"}
    /\ UNCHANGED <<now, loop, wake, deadline, day, file, restarts, dumped, succeeded>>

(* gzip exits: well, behind the EOF, or with an error that is logged.      *)
GzipExits ==
    /\ loop = "wait"
    /\ \/ /\ dump \in {"ok", "bad"}
          /\ file' = [file EXCEPT ![day] = IF dump = "ok" THEN "complete" ELSE "partial"]
          /\ succeeded' = succeeded \cup {day}
       \/ UNCHANGED <<file, succeeded>>
    /\ dump' = "none"
    /\ Sleep
    /\ UNCHANGED <<now, day, restarts, dumped>>

(* The context is canceled, which kills both processes; the server starts  *)
(* again some time later.                                                  *)
Shutdown ==
    /\ loop # "down" /\ restarts < MaxRestarts
    /\ loop' = "down" /\ dump' = "none"
    /\ restarts' = restarts + 1
    /\ UNCHANGED <<now, wake, deadline, day, file, dumped, succeeded>>

Run ==
    /\ loop = "down"
    /\ Sleep
    /\ UNCHANGED <<now, day, dump, file, restarts, dumped, succeeded>>

BackupNext == Elapse \/ Wake \/ CreateFile \/ StartDump \/ DumpExits \/ GzipExits
        \/ Shutdown \/ Run

BackupSpec == BackupInit /\ [][BackupNext]_backupVars

-----------------------------------------------------------------------------
BackupTypeOK ==
    /\ now \in 0..End
    /\ loop \in {"down", "waiting", "create", "start", "wait"}
    /\ wake \in 0..(End + Minute) /\ deadline \in 0..(End + Minute + MaxDelay + MaxDump)
    /\ day \in Days
    /\ dump \in {"none", "running", "ok", "bad"}
    /\ file \in [Days -> {"none", "partial", "complete"}]
    /\ restarts \in 0..MaxRestarts
    /\ dumped \subseteq Days /\ succeeded \subseteq Days

(* A complete dump is never truncated by another one of the same day,      *)
(* however short a dump is, however late a timer, and whenever the server  *)
(* is restarted: two wake-ups are never in the same minute.  (A dump in    *)
(* the last minute of the day may be named after the next day; Scheduled   *)
(* is an earlier one in the runs.)                                         *)
CompleteDumpsStay ==
    [][\A d \in Days : file[d] = "complete" => file'[d] = "complete"]_backupVars

(* backup.go: the "Backup daemon dumps the database at a given time": in   *)
(* every day behind the first that has ended, without a restart.           *)
EveryDayDumped == restarts = 0 => \A d \in Days : 0 < d /\ d < DayOf(now) => d \in dumped

(* backup.go logs "database dump created successfully" for a dump that is. *)
SuccessIsComplete == \A d \in succeeded : file[d] = "complete"
=============================================================================
