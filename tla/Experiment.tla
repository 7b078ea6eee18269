------------------------------ MODULE Experiment ------------------------------
(***************************************************************************)
(* The scripts that measure a vLLM server: scripts/run_none_experiment.sh, *)
(* which sweeps the concurrency points of a closed loop, and the arms      *)
(* run_tier_qps_arm.sh and run_tier_mixed_qps_arm.sh.  Each starts a       *)
(* server, waits until it answers, warms it up, resets its caches, opens a *)
(* monitoring window, runs the load client of module LoadClient, closes    *)
(* the window and stops the server; the sweep then qualifies its points.   *)
(*                                                                         *)
(* Scripts run one after another on one port.  A script can be killed at   *)
(* any step, and its client with it, but not its server; a server can end  *)
(* at any time, stop answering, be slow to stop or never stop.  So a       *)
(* server of an earlier script may still hold the port.  The servers and   *)
(* what goes on in them are external: only what the scripts use of them is *)
(* here.  Each sweep has a results directory of its own, the default.      *)
(*                                                                         *)
(* Definitions whose name ends in Bug are slips the properties are tested  *)
(* against.                                                                *)
(***************************************************************************)
EXTENDS LoadClient, Sequences

CONSTANTS
  Scripts,     \* the scripts that may run: "none", "qps", "mixed"
  Points,      \* concurrency points of a sweep
  MaxScripts,  \* bound: scripts run one after another
  MaxFaults    \* bound: crashes, pressure, and failed requests, writes and calls

ASSUME ExperimentAssumption ==
  /\ Scripts \subseteq {"none", "qps", "mixed"}
  /\ {Points, MaxScripts} \subseteq Nat \ {0} /\ MaxFaults \in Nat

VARIABLES
  script, number,  \* the script that runs or ran last, and how many ran
  step, point,     \* where it is
  mode, code,      \* "run", "trap" or "over"; its exit code
  prompts, promptsDraft,  \* the prompt file and the one being generated
  summary,         \* server-window-summary.json of each point of a sweep
  server,          \* the server of each script and point
  silent,          \* servers that accept connections and no longer answer
  window,          \* the id of a server's open monitoring window, or 0
  queued, written, \* monitor records of a server, in memory and in its file
  dirty,           \* servers that served a request since their last reset
  pressed,         \* servers whose window counts queueing, preemption, a failed store
  measured,        \* history: who answered the measurement of each point, and
                   \* whether on clean caches
  hurt,            \* history: points with such pressure while they were measured
  faults           \* faults so far

position == <<script, number, point>>
control  == <<step, mode, code>>
files    == <<prompts, promptsDraft, summary>>
monitor  == <<window, queued, written, pressed>>
env      == <<server, silent, dirty, faults>>
history  == <<measured, hurt>>
vars     == <<client, position, control, files, monitor, env, history>>

Server == (1 .. MaxScripts) \X (1 .. Points)
Own    == <<number, point>>
Summary == [stream |-> "summary", number |-> 0]   \* a record like the others

(* What end_window answers and the sweep keeps: whether the window saw no  *)
(* pressure, and the requests whose store it counted.                      *)
NoSummary == [calm |-> FALSE, stores |-> {}]

Listening == {v \in Server : server[v] \in {"serving", "stopping", "stuck"}}
Told(v)   == server[v] \in {"stopping", "stuck", "leaving", "hung"}
Alive     == {v \in Server : server[v] \in {"starting", "serving"} \/ Told(v)}
Answering == Listening \ silent

(* A server that serves goes on answering until it has ended; one may      *)
(* never end.                                                              *)
TellToStop(v) ==
  \E s \in IF v \in Listening THEN {"stopping", "stuck"} ELSE {"leaving", "hung"} :
    server' = [server EXCEPT ![v] = IF Told(v) THEN @ ELSE s]

Fault == faults < MaxFaults /\ faults' = faults + 1

-----------------------------------------------------------------------------
(* The steps of each script. *)
Steps ==
  [none  |-> <<"prompts", "start", "ready", "warmup", "reset",
               "window", "measure", "endwindow", "flush", "kill", "wait", "qualify">>,
   qps   |-> <<"prompts", "start", "ready", "warmup", "reset", "warmup", "reset",
               "window", "measure", "endwindow", "kill", "wait">>,
   mixed |-> <<"prompts", "start", "ready", "warmup", "reset", "warmup", "warmup", "reset",
               "window", "measure", "reset", "endwindow", "kill", "wait">>]

Now      == Steps[script][step]
Is(name) == mode = "run" /\ Now = name

(* The sweep goes back to start a server for its next point.               *)
GoOn ==
  /\ IF step = Len(Steps[script])
     THEN mode' = "trap" /\ code' = "0" /\ UNCHANGED <<step, point>>
     ELSE /\ IF Now = "wait" /\ script = "none" /\ point < Points
             THEN step' = 2 /\ point' = point + 1
             ELSE step' = step + 1 /\ UNCHANGED point
          /\ UNCHANGED <<mode, code>>
  /\ UNCHANGED <<script, number>>

(* set -e: a command that fails ends the script by way of its EXIT trap.   *)
Fail == mode' = "trap" /\ code' = "1" /\ UNCHANGED <<step, position>>

Unmeasured == [p \in 1 .. Points |-> [by |-> {}, clean |-> FALSE]]
NoRecords  == [v \in Server |-> {}]

Init ==
  /\ Off
  /\ script \in Scripts /\ number = 1 /\ point = 1
  /\ step = 1 /\ mode = "run" /\ code = "running"
  /\ prompts = "absent" /\ promptsDraft = "absent"
  /\ summary = [p \in 1 .. Points |-> NoSummary]
  /\ silent = {} /\ hurt = {}
  /\ server = [v \in Server |-> "none"]
  /\ window = [v \in Server |-> 0]
  /\ queued = NoRecords /\ written = NoRecords
  /\ dirty = {} /\ pressed = {} /\ faults = 0
  /\ measured = Unmeasured

-----------------------------------------------------------------------------
(* generate_none_prompts.py writes to a file of its own, reads it back and *)
(* only then gives it its name.  An arm takes a prompt file that is there. *)
GenerateOpen ==
  /\ Is("prompts") /\ promptsDraft = "absent"
  /\ script = "none" \/ prompts = "absent"
  /\ promptsDraft' = "part"
  /\ UNCHANGED <<client, position, control, prompts, summary, monitor, env, history>>

Verify ==
  /\ Is("prompts") /\ promptsDraft = "part"
  /\ promptsDraft' = "whole"
  /\ UNCHANGED <<client, position, control, prompts, summary, monitor, env, history>>

Publish ==
  /\ Is("prompts") /\ promptsDraft = "whole"
  /\ prompts' = promptsDraft /\ promptsDraft' = "absent"
  /\ GoOn
  /\ UNCHANGED <<client, summary, monitor, env, history>>

GenerateFails ==
  /\ Is("prompts")
  /\ script = "none" \/ prompts = "absent"
  /\ Fault /\ Fail
  /\ promptsDraft' = "absent"
  /\ UNCHANGED <<client, prompts, summary, monitor, server, silent, dirty, history>>

PromptsExist ==
  /\ Is("prompts") /\ promptsDraft = "absent"
  /\ script # "none" /\ prompts # "absent"
  /\ GoOn
  /\ UNCHANGED <<client, files, monitor, env, history>>

-----------------------------------------------------------------------------
StartServer ==
  /\ Is("start")
  /\ server' = [server EXCEPT ![Own] = "starting"]
  /\ GoOn
  /\ UNCHANGED <<client, files, monitor, silent, dirty, faults, history>>

(* The sweep looks at its own process before each probe of the port, an    *)
(* arm only after a probe that failed.                                     *)
Ready ==
  /\ Is("ready") /\ Answering # {}
  /\ script = "none" => Own \in Alive
  /\ GoOn
  /\ UNCHANGED <<client, files, monitor, env, history>>

(* The process has ended or the time is up; the sweep also fails when the  *)
(* server does not name the monitor among its interfaces.                  *)
NotReady ==
  /\ Is("ready")
  /\ \/ script # "none" /\ Listening = {} /\ UNCHANGED faults
     \/ script = "none" /\ (Listening = {} \/ Own \notin Alive) /\ UNCHANGED faults
     \/ script = "none" /\ Answering # {} /\ Fault
  /\ Fail
  /\ UNCHANGED <<client, files, monitor, server, silent, dirty, history>>

(* Which client a script runs, and at which concurrency. *)
ClientKind ==
  CASE script = "none"                       -> "closed"
    [] script = "mixed" /\ Now = "measure"   -> "mixed"
    [] OTHER                                 -> "open"

IsLoad == Is("warmup") \/ Is("measure")

RunClient ==
  /\ IsLoad /\ stage = "off" /\ exit = "running"
  /\ Launch(ClientKind, point)
  /\ UNCHANGED <<position, control, files, monitor, env, history>>

ClientSends ==
  /\ \E s \in Senders : Send(s, Listening # {})
  /\ UNCHANGED <<position, control, files, monitor, env, history>>

ClientFinishes ==
  /\ Finish
  /\ UNCHANGED <<position, control, files, monitor, env, history>>

ClientWriteFails ==
  /\ WriteFails /\ Fault
  /\ UNCHANGED <<position, control, files, monitor, server, silent, dirty, history>>

(* The exit code decides.  The next client finds the variables of its own. *)
ClientExits ==
  /\ IsLoad /\ stage = "off" /\ exit # "running"
  /\ IF exit = "0" THEN GoOn ELSE Fail
  /\ exit' = "running"
  /\ UNCHANGED <<kind, concurrency, stage, cursor, flight, result, draft, output,
                 files, monitor, env, history>>

-----------------------------------------------------------------------------
(* Calls to the server, which is whoever listens on the port.  No call has *)
(* a time limit: one that is not answered goes on until the server ends.   *)
Reset ==
  /\ Is("reset")
  /\ \E v \in Answering : dirty' = dirty \ {v}
  /\ GoOn
  /\ UNCHANGED <<client, files, monitor, server, silent, faults, history>>

WindowId == IF script = "none" THEN point ELSE Points + 1

StartWindow ==
  /\ Is("window")
  /\ \E v \in Answering :
       /\ window' = [window EXCEPT ![v] = WindowId]
       /\ pressed' = pressed \ {v}
       /\ measured' = [measured EXCEPT ![point].clean = v \notin dirty]
  /\ GoOn
  /\ UNCHANGED <<client, files, queued, written, env, hurt>>

(* The summary comes after the window's records in the server's queue.  An *)
(* arm takes whatever it is given, and nobody waits for its records.       *)
Acceptable(v) == script = "none" => window[v] = WindowId

WindowSummary(v) ==
  [calm |-> v \notin pressed, stores |-> (queued[v] \cup written[v]) \ {Summary}]

EndWindow ==
  /\ Is("endwindow")
  /\ \E v \in Answering :
       /\ Acceptable(v)
       /\ window' = [window EXCEPT ![v] = 0]
       /\ IF script = "none"
          THEN /\ queued' = [queued EXCEPT ![v] = @ \cup {Summary}]
               /\ summary' = [summary EXCEPT ![point] = WindowSummary(v)]
          ELSE UNCHANGED <<queued, summary>>
  /\ GoOn
  /\ UNCHANGED <<client, prompts, promptsDraft, written, pressed, env, history>>

CallFails ==
  /\ mode = "run" /\ Now \in {"reset", "window", "endwindow"}
  /\ \/ Listening = {} /\ UNCHANGED faults
     \/ Now = "endwindow" /\ (\E v \in Answering : ~Acceptable(v)) /\ UNCHANGED faults
     \/ Answering # {} /\ Fault
  /\ Fail
  /\ UNCHANGED <<client, files, monitor, server, silent, dirty, history>>

(* Only the sweep waits for the summary, in the files of its own point.    *)
FlushedBug == TRUE
Flushed    == Summary \in written[Own]

Flush ==
  /\ Is("flush") /\ Flushed
  /\ GoOn
  /\ UNCHANGED <<client, files, monitor, env, history>>

FlushTimesOut ==
  /\ Is("flush") /\ ~Flushed
  /\ Fail
  /\ UNCHANGED <<client, files, monitor, env, history>>

-----------------------------------------------------------------------------
(* The sweep stops a server that still runs and gives it thirty seconds;   *)
(* an arm fails if its server has ended already, and else waits for it     *)
(* without a limit.                                                        *)
GivesUpBug == FALSE
GivesUp    == script = "none"

KillServer ==
  /\ Is("kill") /\ Own \in Alive
  /\ TellToStop(Own)
  /\ GoOn
  /\ UNCHANGED <<client, files, monitor, silent, dirty, faults, history>>

NothingToKill ==
  /\ Is("kill") /\ Own \notin Alive
  /\ IF script = "none" THEN GoOn ELSE Fail
  /\ UNCHANGED <<client, files, monitor, env, history>>

ServerStopped ==
  /\ Is("wait") /\ Own \notin Alive
  /\ GoOn
  /\ UNCHANGED <<client, files, monitor, env, history>>

StopTimesOut ==
  /\ Is("wait") /\ Own \in Alive /\ GivesUp
  /\ Fail
  /\ UNCHANGED <<client, files, monitor, env, history>>

(* qualify_point reads what is in the directory of a point: the client's   *)
(* file, which has no failure once the client has exited with 0, the       *)
(* monitor's records of each of its requests, and the window's summary.    *)
QualifyPointBug(p) == Prompts \subseteq written[<<number, p>>]
QualifyPoint(p) ==
  /\ Prompts \subseteq written[<<number, p>>]
  /\ summary[p].calm
  /\ summary[p].stores = Prompts

Qualify ==
  /\ Is("qualify")
  /\ IF \A p \in 1 .. Points : QualifyPoint(p) THEN GoOn ELSE Fail
  /\ UNCHANGED <<client, files, monitor, env, history>>

ArchiveFails ==
  /\ Is("qualify") /\ Fault
  /\ Fail
  /\ UNCHANGED <<client, files, monitor, server, silent, dirty, history>>

-----------------------------------------------------------------------------
(* The EXIT trap. *)
CleanupBug == FALSE
Cleanup    == Own \in Alive /\ ~Told(Own)   \* there is a server to stop

TrapKills ==
  /\ mode = "trap" /\ Cleanup
  /\ TellToStop(Own)
  /\ UNCHANGED <<client, position, control, files, monitor, silent, dirty, faults, history>>

TrapEnds ==
  /\ mode = "trap" /\ ~Cleanup
  /\ Told(Own) => GivesUp
  /\ mode' = "over"
  /\ UNCHANGED <<client, position, step, code, files, monitor, env, history>>

(* Nothing of a script survives a kill but its server.                     *)
KillScript ==
  /\ mode # "over"
  /\ mode' = "over" /\ code' = "killed"
  /\ IF stage = "off" THEN UNCHANGED client ELSE Killed
  /\ UNCHANGED <<position, step, files, monitor, env, history>>

(* Only arms of one kind can share a directory, and its prompts.           *)
NextScript ==
  /\ mode = "over" /\ number < MaxScripts
  /\ script' \in Scripts /\ number' = number + 1 /\ point' = 1
  /\ step' = 1 /\ mode' = "run" /\ code' = "running"
  /\ prompts' \in {"absent"} \cup {p \in {prompts} : script' = script /\ script # "none"}
  /\ promptsDraft' = "absent"
  /\ Fresh("closed", 1, "off")
  /\ queued' = NoRecords /\ written' = NoRecords
  /\ summary' = [p \in 1 .. Points |-> NoSummary]
  /\ measured' = Unmeasured /\ hurt' = {}
  /\ UNCHANGED <<window, pressed, env>>

-----------------------------------------------------------------------------
(* The servers.  One that ends breaks its connections and loses its        *)
(* counters and the records it has not written.                            *)
Ends(v) ==
  /\ server' = [server EXCEPT ![v] = "ended"]
  /\ silent' = silent \ {v}
  /\ window' = [window EXCEPT ![v] = 0]
  /\ queued' = [queued EXCEPT ![v] = {}]
  /\ pressed' = pressed \ {v}
  /\ flight' = [s \in Prompt |-> IF v \in Listening /\ flight[s] = "sent"
                                 THEN "lost" ELSE flight[s]]
  /\ UNCHANGED <<kind, concurrency, stage, cursor, result, draft, output, exit,
                 position, control, files, written, dirty, history>>

Serves(v) ==
  /\ server[v] = "starting" /\ Listening = {}
  /\ server' = [server EXCEPT ![v] = "serving"]
  /\ UNCHANGED <<client, position, control, files, monitor, silent, dirty, faults, history>>

PortInUse(v) == server[v] = "starting" /\ Listening # {} /\ Ends(v) /\ UNCHANGED faults
Stops(v)     == server[v] \in {"stopping", "leaving"} /\ Ends(v) /\ UNCHANGED faults
Crashes(v)   == v \in Alive /\ Ends(v) /\ Fault

(* The monitor writes its records in order, the summary last. *)
WritesRecord(v) ==
  /\ \E r \in queued[v] :
       /\ r = Summary => queued[v] = {Summary}
       /\ queued' = [queued EXCEPT ![v] = @ \ {r}]
       /\ written' = [written EXCEPT ![v] = @ \cup {r}]
  /\ UNCHANGED <<client, position, control, files, window, pressed, env, history>>

Measuring      == Now = "measure"
Recording      == script = "none" /\ Measuring   \* no script reads an arm's records
MeasuringPoint == script = "none" /\ Now \in {"measure", "endwindow"}

(* An answer, good or not; a server that is going down may not answer, and *)
(* the client gives up on a silent one when its own time limit is over.    *)
Answers(s, v, answer) ==
  /\ flight[s] = "sent" /\ Receive(s, answer)
  /\ v \in silent => answer = "broken"
  /\ IF answer = "good" \/ Told(v) \/ v \in silent THEN UNCHANGED faults ELSE Fault
  /\ dirty' = dirty \cup {v}
  /\ queued' = IF Recording /\ window[v] # 0
               THEN [queued EXCEPT ![v] = @ \cup {Current(s)}] ELSE queued
  /\ measured' = IF Measuring
                 THEN [measured EXCEPT ![point].by = @ \cup {v}] ELSE measured
  /\ UNCHANGED <<position, control, files, window, written, pressed, server, silent, hurt>>

ConnectionLost(s) ==
  /\ flight[s] = "lost" /\ Receive(s, "broken")
  /\ UNCHANGED <<position, control, files, monitor, env, history>>

(* Requests queue, are preempted or are not stored: the monitor counts it  *)
(* if it has a window, and it spoils the point that is being measured.     *)
Presses(v) ==
  /\ mode = "run" /\ v \in Listening
  /\ window[v] # 0 \/ MeasuringPoint
  /\ Fault
  /\ pressed' = IF window[v] # 0 THEN pressed \cup {v} ELSE pressed
  /\ hurt' = IF MeasuringPoint THEN hurt \cup {point} ELSE hurt
  /\ UNCHANGED <<client, position, control, files, window, queued, written, server,
                 silent, dirty, measured>>

GoesSilent(v) ==
  /\ mode = "run" /\ v \in Answering
  /\ silent' = silent \cup {v}
  /\ UNCHANGED <<client, position, control, files, monitor, server, dirty, faults, history>>

-----------------------------------------------------------------------------
ScriptStep ==
  \/ GenerateOpen \/ Verify \/ Publish \/ GenerateFails \/ PromptsExist
  \/ StartServer \/ Ready \/ NotReady \/ RunClient \/ ClientExits
  \/ Reset \/ StartWindow \/ EndWindow \/ CallFails \/ Flush \/ FlushTimesOut
  \/ KillServer \/ NothingToKill \/ ServerStopped \/ StopTimesOut
  \/ Qualify \/ ArchiveFails \/ TrapKills \/ TrapEnds

ClientStep ==
  \/ ClientSends \/ ClientFinishes \/ ClientWriteFails
  \/ \E s \in Senders : \/ ConnectionLost(s)
                        \/ \E v \in Listening, answer \in {"good", "mismatch", "broken"} :
                             Answers(s, v, answer)

ServerStep == \E v \in Server : Serves(v) \/ PortInUse(v) \/ Stops(v) \/ WritesRecord(v)

Mishap == KillScript \/ \E v \in Server : Crashes(v) \/ Presses(v) \/ GoesSilent(v)

AllOver == mode = "over" /\ number = MaxScripts /\ UNCHANGED vars

Next == ScriptStep \/ ClientStep \/ ServerStep \/ Mishap \/ NextScript \/ AllOver

(* The call of curl the script is in, if any, is with a silent server.     *)
Unanswered ==
  /\ mode = "run" /\ Now \in {"ready", "reset", "window", "endwindow"}
  /\ Listening \cap silent # {}

(* Clients run, a server that can move does, and a script does unless it   *)
(* waits for an answer; nothing makes a stuck server end or a silent one   *)
(* answer.                                                                 *)
Fairness ==
  WF_vars(~Unanswered /\ ScriptStep) /\ WF_vars(ClientStep) /\ WF_vars(ServerStep)

Spec     == Init /\ [][Next]_vars
FairSpec == Spec /\ Fairness

-----------------------------------------------------------------------------
(* What a later step, or a later script, reads is complete, whenever the   *)
(* script, the generator or the client was stopped: the prompts were       *)
(* verified, the client's output has a line for every prompt.              *)
FilesAreWhole == prompts \in {"absent", "whole"} /\ OutputIsWhole

(* A point the sweep has left behind was measured on the server started    *)
(* for it, on clean caches, although the port may have been answered by a  *)
(* server of an earlier script for a while.                                *)
MeasuredOnOwnServer ==
  script = "none" => \A p \in 1 .. Points :
    p < point \/ (p = point /\ Now \in {"kill", "wait", "qualify"}) =>
      measured[p] = [by |-> {<<number, p>>}, clean |-> TRUE]

(* The files the sweep qualifies tell what happened: a point passes if and *)
(* only if there was no pressure while it was measured.  A point is not    *)
(* passed on another server's summary or on counters that were reset, and  *)
(* not failed for records that were yet to be written.                     *)
VerdictTellsTheTruth ==
  Is("qualify") => \A p \in 1 .. Points : QualifyPoint(p) <=> p \notin hurt

(* A script that ends by itself leaves no server behind but one that does  *)
(* not react to being told to stop, and none at all if it succeeds.        *)
NoServerLeftBehind ==
  mode = "over" /\ code # "killed" =>
    \A p \in 1 .. Points :
      /\ <<number, p>> \in Alive => Told(<<number, p>>)
      /\ code = "0" => <<number, p>> \notin Alive

(* A sweep ends, and an arm ends unless its server never does, whatever    *)
(* else servers do but this: accept a call of curl and not answer it, for  *)
(* which no call of a script has a time limit, the one that waits for the  *)
(* server to be ready included.                                            *)
ScriptEnds ==
  <>[](\/ mode = "over"
       \/ script # "none" /\ server[Own] \in {"stuck", "hung"}
       \/ Unanswered)
=============================================================================
