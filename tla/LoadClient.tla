------------------------------ MODULE LoadClient ------------------------------
(***************************************************************************)
(* One run of a load client: scripts/run_closed_loop_client.py,            *)
(* run_open_loop_client.py or run_mixed_open_loop_client.py.  The client   *)
(* sends each prompt of its files once, writes one line per prompt to the  *)
(* output of each stream and exits with 0 only if every request went well. *)
(*                                                                         *)
(* Its coroutines share one thread; the server's answers, a failed write   *)
(* and a kill fall between any two of their steps.  Wall-clock time is     *)
(* left out: a request of an open loop is due after those before it in its *)
(* stream, whenever that is.                                               *)
(***************************************************************************)
EXTENDS Integers, FiniteSets

CONSTANT PromptCount   \* prompts in a file

ASSUME PromptAssumption == PromptCount \in Nat \ {0}   \* load_prompts

VARIABLES
  kind,         \* "closed", "open" or "mixed"
  concurrency,  \* --concurrency of the closed loop
  stage,        \* "off", "sending", "writing", "replacing"
  cursor,       \* the sequence number each sender is at
  flight,       \* the request of each sender: "none", "sent" or "lost"
  result,       \* the records of each prompt: "none", "ok", "failed", "twice"
  draft,        \* the temporary file of each stream: "absent", "part", "whole"
  output,       \* the output file of each stream
  exit          \* "running", "0", "1", "raised" or "killed"

client == <<kind, concurrency, stage, cursor, flight, result, draft, output, exit>>

Stream  == {"all", "read", "write"}
Streams == IF kind = "mixed" THEN {"read", "write"} ELSE {"all"}

(* A prompt, or the sender that begins with it.                            *)
Prompt  == [stream : Stream, number : 0 .. PromptCount - 1]
Prompts == {p \in Prompt : p.stream \in Streams}

(* The workers of a closed loop share the prompts; an open loop has a task *)
(* for each prompt.                                                        *)
WorkerCount == IF concurrency < PromptCount THEN concurrency ELSE PromptCount
Width       == IF kind = "closed" THEN WorkerCount ELSE PromptCount
Senders     == {s \in Prompts : s.number < Width}

Done(s)     == cursor[s] >= PromptCount
Current(s)  == [s EXCEPT !.number = cursor[s]]

-----------------------------------------------------------------------------
Off ==
  /\ kind = "closed" /\ concurrency = 1 /\ stage = "off"
  /\ cursor = [s \in Prompt |-> s.number]
  /\ flight = [s \in Prompt |-> "none"]
  /\ result = [p \in Prompt |-> "none"]
  /\ draft = [t \in Stream |-> "absent"]
  /\ output = [t \in Stream |-> "absent"]
  /\ exit = "running"

Fresh(k, n, first) ==
  /\ kind' = k /\ concurrency' = n /\ stage' = first
  /\ cursor' = [s \in Prompt |-> s.number]
  /\ flight' = [s \in Prompt |-> "none"]
  /\ result' = [p \in Prompt |-> "none"]
  /\ draft' = [t \in Stream |-> "absent"]
  /\ output' = [t \in Stream |-> "absent"]
  /\ exit' = "running"

(* Every phase of an experiment has output files of its own. *)
Launch(k, n) == stage = "off" /\ Fresh(k, n, "sending")

(* An open loop does not wait for answers, but its tasks come due in order *)
Due(s) ==
  \A t \in Senders : /\ kind # "closed"
                     /\ t.stream = s.stream /\ t.number < s.number
                     => flight[t] # "none" \/ Done(t)

Send(s, reached) ==
  /\ stage = "sending" /\ s \in Senders
  /\ ~Done(s) /\ flight[s] = "none" /\ Due(s)
  /\ flight' = [flight EXCEPT ![s] = IF reached THEN "sent" ELSE "lost"]
  /\ UNCHANGED <<kind, concurrency, stage, cursor, result, draft, output, exit>>

(* What send_one and the check of the token counts make of an answer: any  *)
(* exception and any mismatch is a failed record.                          *)
Judge(answer) == IF answer = "good" THEN "ok" ELSE "failed"

Receive(s, answer) ==
  /\ stage = "sending" /\ s \in Senders
  /\ flight[s] = "sent" \/ (flight[s] = "lost" /\ answer = "broken")
  /\ flight' = [flight EXCEPT ![s] = "none"]
  /\ result' = [result EXCEPT ![Current(s)] =
                  IF @ = "none" THEN Judge(answer) ELSE "twice"]
  /\ cursor' = [cursor EXCEPT ![s] = @ + Width]
  /\ UNCHANGED <<kind, concurrency, stage, draft, output, exit>>

(* As many records as prompts, and every prompt among them. *)
ExactlyOnce(t) ==
  \A p \in Prompts : p.stream = t => result[p] \in {"ok", "failed"}

Unwritten == {t \in Streams : output[t] = "absent"}
NextStream == IF "read" \in Unwritten THEN "read" ELSE CHOOSE t \in Unwritten : TRUE

(* The file that is opened for writing is not the output. *)
OpenedBug(t) == draft' = [draft EXCEPT ![t] = "part"] /\ output' = [output EXCEPT ![t] = "part"]
Opened(t)    == draft' = [draft EXCEPT ![t] = "part"] /\ UNCHANGED output

Leave(code) == stage' = "off" /\ exit' = code

Open ==
  /\ stage = "sending" /\ \A s \in Senders : Done(s)
  /\ Unwritten # {}
  /\ IF ExactlyOnce(NextStream)
     THEN Opened(NextStream) /\ stage' = "writing" /\ UNCHANGED exit
     ELSE Leave("raised") /\ UNCHANGED <<draft, output>>
  /\ UNCHANGED <<kind, concurrency, cursor, flight, result>>

WriteLines ==
  /\ stage = "writing"
  /\ draft' = [draft EXCEPT ![NextStream] = "whole"]
  /\ stage' = "replacing"
  /\ UNCHANGED <<kind, concurrency, cursor, flight, result, output, exit>>

(* The finally clause removes what a failed write has left. *)
WriteFails ==
  /\ stage \in {"writing", "replacing"}
  /\ draft' = [draft EXCEPT ![NextStream] = "absent"]
  /\ Leave("raised")
  /\ UNCHANGED <<kind, concurrency, cursor, flight, result, output>>

Replace ==
  /\ stage = "replacing"
  /\ output' = [output EXCEPT ![NextStream] = draft[NextStream]]
  /\ draft' = [draft EXCEPT ![NextStream] = "absent"]
  /\ stage' = "sending"
  /\ UNCHANGED <<kind, concurrency, cursor, flight, result, exit>>

(* failures counts the records of every stream. *)
FailuresBug == {p \in Prompts : result[p] # "ok" /\ p.stream # "read"}
Failures    == {p \in Prompts : result[p] # "ok"}

Return ==
  /\ stage = "sending" /\ \A s \in Senders : Done(s)
  /\ Unwritten = {}
  /\ Leave(IF Failures = {} THEN "0" ELSE "1")
  /\ UNCHANGED <<kind, concurrency, cursor, flight, result, draft, output>>

Finish == Open \/ WriteLines \/ Replace \/ Return

(* A killed client leaves its temporary file behind. *)
Killed ==
  /\ stage' = "off" /\ exit' = "killed"
  /\ UNCHANGED <<kind, concurrency, cursor, flight, result, draft, output>>

-----------------------------------------------------------------------------
(* Whenever the client is killed or a write fails, an output file that     *)
(* exists has a line for every prompt: whoever finds one can read it.      *)
OutputIsWhole == \A t \in Stream : output[t] \in {"absent", "whole"}

(* The exit code is all a script looks at: 0 means that every prompt of    *)
(* every stream went well exactly once and is on disk, 1 that all is on    *)
(* disk and some request failed, and an exception that a file could not be *)
(* written, never that a prompt was sent twice or not at all.              *)
ExitTellsTheTruth ==
  /\ exit \in {"0", "1"} => \A t \in Streams : output[t] = "whole"
  /\ exit \in {"0", "1", "raised"} =>
       /\ \A p \in Prompts : result[p] \in {"ok", "failed"}
       /\ \A t \in Stream : draft[t] = "absent"
  /\ exit = "0" => \A p \in Prompts : result[p] = "ok"
  /\ exit = "1" => \E p \in Prompts : result[p] = "failed"
  /\ exit = "raised" => \E t \in Streams : output[t] = "absent"
=============================================================================
