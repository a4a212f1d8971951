------------------------------ MODULE LogHandler ------------------------------
(***************************************************************************)
(* LogHandler: a TaskSerializer whose tasks are write_log calls, and the   *)
(* settings any thread may change meanwhile.  The task layer is the one of *)
(* TaskSerializer.tla; this module gives the handler's tasks a body.  The  *)
(* other serializers are actors, whose tasks may log.  The text of a line  *)
(* is left out.                                                            *)
(*                                                                         *)
(* file_stream_ has no lock.  A line takes two steps to write, and using   *)
(* the stream in between from another thread is a data race, at which the  *)
(* model stops.                                                            *)
(***************************************************************************)
EXTENDS TaskSerializer

CONSTANTS
  Handler,       \* the LogHandler among the serializers
  Lines,         \* the tasks that are write_log calls; the others are actors'
  Level,         \* the LogLevel of each line
  Configurers,   \* the thread that may change settings, if any does
  FileAtStart,   \* was initialize() given a path before the threads started?
  FileMayFail    \* may opening and writing the file fail?

ASSUME LogAssumption ==
  /\ Handler \in Serializers /\ Lines \subseteq Tasks
  /\ Level \in [Lines -> 0 .. 2]
  /\ Configurers \subseteq Threads
  /\ \A t, u \in Configurers : t = u
  /\ FileAtStart \in BOOLEAN /\ FileMayFail \in BOOLEAN

VARIABLES
  min_level,      \* LogHandler::min_level_
  file_enabled,   \* LogHandler::file_enabled_
  file_stream,    \* LogHandler::file_stream_: "closed", "good" or "bad"
  log,            \* where the thread is in write_log
  config,         \* where it is in enable_ or disable_file_output
  raced,          \* two threads have used the stream at once
  filtered,       \* history: lines below the level when they were logged
  stdout, file    \* external: lines printed, lines in the file

settings == <<min_level, file_enabled, file_stream, config>>
output   == <<filtered, stdout, file>>
logVars  == <<vars, settings, log, output, raced>>

LogInit ==
  /\ Init
  /\ min_level = 0
  /\ file_enabled = FileAtStart
  /\ file_stream = IF FileAtStart THEN "good" ELSE "closed"
  /\ log = [t \in Threads |-> "none"]
  /\ config = [t \in Threads |-> "none"]
  /\ raced = FALSE
  /\ filtered = {} /\ stdout = <<>> /\ file = <<>>

\* Handlers and the tasks of actors log and change settings; write_log does
\* neither.
MayCall(t) ==
  /\ MayRequest(t) /\ config[t] = "none"
  /\ proc[t].phase = "invoke" => Current(t) # Handler

-----------------------------------------------------------------------------
\* LogImpl: lines below the minimum level are dropped, the others requested.
Log(t, k) ==
  /\ MayCall(t) /\ k \notin filtered
  /\ \/ /\ Level[k] < min_level /\ k \notin requested
        /\ filtered' = filtered \cup {k}
        /\ UNCHANGED vars
     \/ /\ Level[k] >= min_level
        /\ RequestTask(t, Handler, k)
        /\ UNCHANGED filtered
  /\ UNCHANGED <<settings, log, stdout, file, raced>>

\* A task of an actor is requested.
RequestActor(t, s, k) ==
  /\ MayCall(t)
  /\ RequestTask(t, s, k)
  /\ UNCHANGED <<settings, log, output, raced>>

-----------------------------------------------------------------------------
(* write_log, run as a task.                                               *)

Goto(t, l) == log' = [log EXCEPT ![t] = l]

WriteToStdout(t) ==
  /\ proc[t].phase = "invoke" /\ Current(t) = Handler /\ log[t] = "none"
  /\ stdout' = Append(stdout, proc[t].task)
  /\ Goto(t, "enabled")
  /\ UNCHANGED <<vars, settings, filtered, file, raced>>

CheckFileEnabled(t) ==
  /\ log[t] = "enabled"
  /\ Goto(t, IF file_enabled THEN "file" ELSE "done")
  /\ UNCHANGED <<vars, settings, output, raced>>

\* Is another thread in the middle of a write?
StreamBusy(t) == \E u \in Threads \ {t} : log[u] = "insert"

\* A use of the stream during a write of another thread is a data race.
Race ==
  /\ raced' = TRUE
  /\ UNCHANGED <<vars, settings, log, output>>

BeginWriteToFile(t) ==
  /\ log[t] = "file"
  /\ \/ StreamBusy(t) /\ Race
     \/ /\ ~StreamBusy(t)
        /\ Goto(t, IF file_stream = "good" THEN "insert" ELSE "disable")
        /\ UNCHANGED <<vars, settings, output, raced>>

EndWriteToFile(t) ==
  /\ log[t] = "insert"
  /\ \/ /\ file' = Append(file, proc[t].task)
        /\ Goto(t, "done")
        /\ UNCHANGED file_stream
     \/ /\ FileMayFail
        /\ file_stream' = "bad"
        /\ Goto(t, "disable")
        /\ UNCHANGED file
  /\ UNCHANGED <<vars, min_level, file_enabled, config, filtered, stdout, raced>>

\* Faulty variant: the line is logged again after the file was switched off.
DisableInvalidRetries(t) ==
  /\ log[t] = "disable"
  /\ file_enabled' = FALSE
  /\ Goto(t, "none")
  /\ UNCHANGED <<vars, min_level, file_stream, config, output, raced>>

DisableInvalid(t) ==
  /\ log[t] = "disable"
  /\ file_enabled' = FALSE
  /\ Goto(t, "done")
  /\ UNCHANGED <<vars, min_level, file_stream, config, output, raced>>

\* The steps of the task layer; invoke() returns when write_log has.
TaskStep(t) ==
  /\ config[t] = "none"
  /\ Step(t)
  /\ proc[t].phase = "invoke" /\ Current(t) = Handler => log[t] = "done"
  /\ Goto(t, "none")
  /\ UNCHANGED <<settings, output, raced>>

-----------------------------------------------------------------------------
(* Settings.                                                               *)

SetMinLevel(t, l) ==
  /\ MayCall(t) /\ l # min_level
  /\ min_level' = l
  /\ UNCHANGED <<vars, file_enabled, file_stream, config, log, output,
                 raced>>

\* One use of the stream by a function that changes the settings, which then
\* goes on at l.
UseStream(t, stream, l) ==
  \/ StreamBusy(t) /\ Race
  \/ /\ ~StreamBusy(t)
     /\ file_stream' = stream
     /\ config' = [config EXCEPT ![t] = l]
     /\ UNCHANGED <<vars, min_level, file_enabled, log, output, raced>>

\* enable_file_output: close the stream, open it, and store the outcome.
EnableFileOutput(t) == MayCall(t) /\ UseStream(t, "closed", "open")

OpenFile(t) ==
  /\ config[t] = "open"
  /\ \/ UseStream(t, "good", "store_true")
     \/ FileMayFail /\ UseStream(t, "closed", "store_false")

StoreEnabled(t) ==
  /\ config[t] \in {"store_true", "store_false"}
  /\ file_enabled' = (config[t] = "store_true")
  /\ config' = [config EXCEPT ![t] = "none"]
  /\ UNCHANGED <<vars, min_level, file_stream, log, output, raced>>

\* disable_file_output: store, then close the stream.
DisableFileOutput(t) ==
  /\ MayCall(t)
  /\ file_enabled' = FALSE
  /\ config' = [config EXCEPT ![t] = "close"]
  /\ UNCHANGED <<vars, min_level, file_stream, log, output, raced>>

CloseFile(t) ==
  /\ config[t] = "close"
  /\ UseStream(t, "closed", "none")

-----------------------------------------------------------------------------
WriteLog(t) ==
  \/ WriteToStdout(t) \/ CheckFileEnabled(t) \/ BeginWriteToFile(t)
  \/ EndWriteToFile(t) \/ DisableInvalid(t)

Configure(t) ==
  \/ EnableFileOutput(t) \/ OpenFile(t) \/ StoreEnabled(t)
  \/ DisableFileOutput(t) \/ CloseFile(t)
  \/ \E l \in 0 .. 2 : SetMinLevel(t, l)

LogNext ==
  /\ fault = "none" /\ ~raced
  /\ \E t \in Threads :
       \/ TaskStep(t) \/ WriteLog(t)
       \/ t \in Configurers /\ Configure(t)
       \/ \E k \in Lines : Log(t, k)
       \/ \E s \in Serializers \ {Handler}, k \in Tasks \ Lines :
            RequestActor(t, s, k)

LogSpec == LogInit /\ [][LogNext]_logVars

-----------------------------------------------------------------------------
(* Properties.                                                             *)

NoRepeat(q) == \A i, j \in DOMAIN q : q[i] = q[j] => i = j

\* Whichever threads run write_log, from whatever handlers and actor tasks
\* they were logged and whatever happens to the file meanwhile, no line is
\* printed twice, every one whose task has finished was printed, and the file
\* holds each line at most once and only printed ones.
LoggedOnce ==
  /\ NoRepeat(stdout) /\ NoRepeat(file)
  /\ \A k \in finished \cap Lines : In(k, stdout)
  /\ \A i \in DOMAIN file : In(file[i], stdout)

=============================================================================
