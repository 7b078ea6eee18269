---------------------------- MODULE Experiment_proofs ----------------------------
(***************************************************************************)
(* Proofs about Experiment and the LoadClient it runs, for any number of   *)
(* scripts in a row, of points, of prompts and of faults: files that have  *)
(* their name are whole, exit codes are true, each point of a sweep was    *)
(* measured on its own clean server, the verdict of a sweep is true, and a *)
(* script leaves no server behind.                                         *)
(***************************************************************************)
EXTENDS Experiment, TLAPS

--------------------------------------------------------------------------------
(* The invariant                                                           *)

(* Types.  A sweep and the arms differ in the steps they have.             *)
Kinds   == {"closed", "open", "mixed"}
Records == [stream : Stream \cup {"summary"}, number : Nat]
States  == {"none", "starting", "serving", "stopping", "stuck", "leaving", "hung", "ended"}

ClientTypeOK ==
  /\ kind \in Kinds /\ concurrency \in Nat \ {0}
  /\ stage \in {"off", "sending", "writing", "replacing"}
  /\ cursor \in [Prompt -> Nat]
  /\ flight \in [Prompt -> {"none", "sent", "lost"}]
  /\ result \in [Prompt -> {"none", "ok", "failed", "twice"}]
  /\ draft \in [Stream -> {"absent", "part", "whole"}]
  /\ output \in [Stream -> {"absent", "part", "whole"}]
  /\ exit \in {"running", "0", "1", "raised", "killed"}

ScriptTypeOK ==
  /\ script \in {"none", "qps", "mixed"} /\ number \in 1 .. MaxScripts /\ point \in 1 .. Points
  /\ step \in 1 .. Len(Steps[script])
  /\ mode \in {"run", "trap", "over"} /\ code \in {"running", "0", "1", "killed"}
  /\ prompts \in {"absent", "part", "whole"} /\ promptsDraft \in {"absent", "part", "whole"}

ServersTypeOK ==
  /\ server \in [Server -> States] /\ window \in [Server -> Nat]
  /\ queued \in [Server -> SUBSET Records] /\ written \in [Server -> SUBSET Records]
  /\ dirty \subseteq Server /\ pressed \subseteq Server
  /\ measured \in [1 .. Points -> [by : SUBSET Server, clean : BOOLEAN]]

ExperimentTypeOK == ClientTypeOK /\ ScriptTypeOK /\ ServersTypeOK

(* Each prompt has one sender, that goes from it to the next of its own,   *)
(* as far as its cursor: behind it every prompt has one record.            *)
SenderOf(p) == [p EXCEPT !.number = p.number % Width]

Progress ==
  /\ \A s \in Senders : cursor[s] % Width = s.number /\ (flight[s] # "none" => ~Done(s))
  /\ \A p \in Prompts : /\ result[p] # "twice"
                        /\ result[p] = "none" <=> cursor[SenderOf(p)] <= p.number

(* What the client has on disk while it writes and when it has ended.      *)
Writing == stage \in {"writing", "replacing"}

OnDisk ==
  /\ OutputIsWhole
  /\ Writing => Unwritten # {} /\ \A s \in Senders : Done(s)
  /\ stage = "replacing" => draft[NextStream] = "whole"
  /\ exit # "killed" => \A t \in Stream : draft[t] # "absent" => Writing /\ t = NextStream
  /\ stage # "off" => exit = "running"

ClientInv == Progress /\ OnDisk /\ ExitTellsTheTruth

(* The client runs while its script is at a step that has one.             *)
ScriptInv ==
  /\ prompts # "part"
  /\ mode = "run" <=> code = "running"
  /\ stage # "off" => IsLoad
  /\ mode = "run" /\ exit # "running" => IsLoad
  /\ exit = "killed" => mode = "over"

(* One server listens, a window is open only where one does, and a server  *)
(* that has never served has served no request and has no records.         *)
Unborn == {"none", "starting", "leaving", "hung"}

ServerInv ==
  /\ \A v, w \in Listening : v = w
  /\ \A v \in Server : window[v] # 0 => v \in Listening
  /\ \A v \in Server : server[v] \in Unborn =>
       v \notin dirty /\ queued[v] = {} /\ written[v] = {}

(* Later servers are yet to be started, and those of earlier points of the *)
(* script have ended.                                                      *)
PlaceInv ==
  /\ \A m \in 1 .. MaxScripts, p \in 1 .. Points :
       m > number \/ (m = number /\ p > point) => server[<<m, p>>] = "none"
  /\ \A p \in 1 .. Points : p < point => server[<<number, p>>] = "ended"
  /\ step <= 2 => server[Own] = "none"
  /\ step >= 3 => server[Own] # "none"

(* A measurement on the own server shows in its records.                   *)
Good(p) == [by |-> {<<number, p>>}, clean |-> TRUE]

SweepInv ==
  script = "none" =>
    /\ \A p \in 1 .. Points : p > point \/ (p = point /\ step < 7) => measured[p].by = {}
    /\ step = 6 /\ Own \in dirty => server[Own] = "ended"
    /\ window[Own] # 0 => /\ step \in {7, 8}
                          /\ measured[point].by \subseteq {Own} /\ measured[point].clean
    /\ step = 7 /\ (stage # "off" \/ exit # "running") /\ (\E p \in Prompts : result[p] = "ok")
         => measured[point].by # {}
    /\ step >= 8 => measured[point].by # {}
    /\ Summary \in queued[Own] \cup written[Own] => step >= 9 /\ measured[point] = Good(point)
    /\ \A p \in 1 .. Points : p < point \/ (p = point /\ step >= 10) => measured[p] = Good(p)

(* What a script knows when it is over.                                    *)
EndInv ==
  /\ script = "none" /\ step = 12 => point = Points /\ Own \notin Alive
  /\ code = "0" => Own \notin Alive
  /\ mode = "over" /\ code # "killed" => (Own \in Alive => Told(Own))

ExperimentInv ==
  /\ ExperimentTypeOK /\ ClientInv /\ ScriptInv /\ ServerInv /\ PlaceInv
  /\ SweepInv /\ EndInv

--------------------------------------------------------------------------------
(* The steps of the scripts                                                *)

(* Where a sweep is, by number.                                            *)
LEMMA SweepSteps ==
  ASSUME script = "none", step \in 1 .. Len(Steps[script])
  PROVE  /\ Len(Steps[script]) = 12 /\ step \in 1 .. 12
         /\ Now = "prompts" <=> step = 1
         /\ Now = "start" <=> step = 2
         /\ Now = "ready" <=> step = 3
         /\ Now = "warmup" <=> step = 4
         /\ Now = "reset" <=> step = 5
         /\ Now = "window" <=> step = 6
         /\ Now = "measure" <=> step = 7
         /\ Now = "endwindow" <=> step = 8
         /\ Now = "flush" <=> step = 9
         /\ Now = "kill" <=> step = 10
         /\ Now = "wait" <=> step = 11
         /\ Now = "qualify" <=> step = 12
<1> DEFINE steps == <<"prompts", "start", "ready", "warmup", "reset",
               "window", "measure", "endwindow", "flush", "kill", "wait", "qualify">>
<1>1. Steps[script] = steps
  BY DEF Steps
<1>2. Len(steps) = 12
  OBVIOUS
<1>3. step \in {1, 2, 3, 4, 5, 6, 7, 8, 9, 10, 11, 12}
  BY <1>1, <1>2
<1>4. Now = steps[step]
  BY <1>1 DEF Now
<1>5. /\ steps[1] = "prompts" /\ steps[2] = "start" /\ steps[3] = "ready" /\ steps[4] = "warmup"
      /\ steps[5] = "reset" /\ steps[6] = "window" /\ steps[7] = "measure"
      /\ steps[8] = "endwindow" /\ steps[9] = "flush" /\ steps[10] = "kill"
      /\ steps[11] = "wait" /\ steps[12] = "qualify"
  OBVIOUS
<1> HIDE DEF steps
<1> QED BY <1>1, <1>2, <1>3, <1>4, <1>5

(* Where an arm is: it begins like a sweep, and has no flush and nothing   *)
(* to qualify.                                                             *)
LEMMA ArmSteps ==
  ASSUME script \in {"qps", "mixed"}, step \in 1 .. Len(Steps[script])
  PROVE  /\ Len(Steps[script]) \in {12, 14}
         /\ Now = "prompts" <=> step = 1
         /\ Now = "start" <=> step = 2
         /\ Now = "ready" <=> step = 3
         /\ Now = "wait" <=> step = Len(Steps[script])
         /\ Now \notin {"flush", "qualify"}
<1>1. CASE script = "qps"
  <2> DEFINE steps == <<"prompts", "start", "ready", "warmup", "reset", "warmup", "reset",
               "window", "measure", "endwindow", "kill", "wait">>
  <2>1. Steps[script] = steps
    BY <1>1 DEF Steps
  <2>2. Len(steps) = 12
    OBVIOUS
  <2>3. step \in {1, 2, 3, 4, 5, 6, 7, 8, 9, 10, 11, 12}
    BY <2>1, <2>2
  <2>4. Now = steps[step]
    BY <2>1 DEF Now
  <2>5. /\ steps[1] = "prompts" /\ steps[2] = "start" /\ steps[3] = "ready" /\ steps[4] = "warmup"
        /\ steps[5] = "reset" /\ steps[6] = "warmup" /\ steps[7] = "reset" /\ steps[8] = "window"
        /\ steps[9] = "measure" /\ steps[10] = "endwindow" /\ steps[11] = "kill"
        /\ steps[12] = "wait"
    OBVIOUS
  <2> HIDE DEF steps
  <2> QED BY <2>1, <2>2, <2>3, <2>4, <2>5
<1>2. CASE script = "mixed"
  <2> DEFINE steps == <<"prompts", "start", "ready", "warmup", "reset", "warmup", "warmup", "reset",
               "window", "measure", "reset", "endwindow", "kill", "wait">>
  <2>1. Steps[script] = steps
    BY <1>2 DEF Steps
  <2>2. Len(steps) = 14
    OBVIOUS
  <2>3. step \in {1, 2, 3, 4, 5, 6, 7, 8, 9, 10, 11, 12, 13, 14}
    BY <2>1, <2>2
  <2>4. Now = steps[step]
    BY <2>1 DEF Now
  <2>5. /\ steps[1] = "prompts" /\ steps[2] = "start" /\ steps[3] = "ready" /\ steps[4] = "warmup"
        /\ steps[5] = "reset" /\ steps[6] = "warmup" /\ steps[7] = "warmup" /\ steps[8] = "reset"
        /\ steps[9] = "window" /\ steps[10] = "measure" /\ steps[11] = "reset"
        /\ steps[12] = "endwindow" /\ steps[13] = "kill" /\ steps[14] = "wait"
    OBVIOUS
  <2> HIDE DEF steps
  <2> QED BY <2>1, <2>2, <2>3, <2>4, <2>5
<1> QED BY <1>1, <1>2

(* On to the next step: the end of the script, or the next point, or the   *)
(* step that follows.                                                      *)
LEMMA GoOnFacts ==
  ASSUME ScriptTypeOK, mode = "run", code = "running", GoOn
  PROVE  /\ script' = script /\ number' = number
         /\ step' \in 1 .. Len(Steps[script]) /\ point' \in 1 .. Points
         /\ mode' \in {"run", "trap"} /\ code' \in {"running", "0"}
         /\ mode' = "run" <=> code' = "running"
         /\ \/ /\ step = Len(Steps[script]) /\ step' = step /\ point' = point
               /\ mode' = "trap" /\ code' = "0"
            \/ /\ step < Len(Steps[script]) /\ mode' = "run" /\ code' = "running"
               /\ script = "none" /\ Now = "wait" /\ point < Points
               /\ step' = 2 /\ point' = point + 1
            \/ /\ step < Len(Steps[script]) /\ mode' = "run" /\ code' = "running"
               /\ ~(script = "none" /\ Now = "wait" /\ point < Points)
               /\ step' = step + 1 /\ point' = point
<1>1. Points \in Nat /\ Len(Steps[script]) \in {12, 14}
  BY ExperimentAssumption, SweepSteps, ArmSteps DEF ScriptTypeOK
<1>2. /\ step \in 1 .. Len(Steps[script]) /\ point \in 1 .. Points
  BY DEF ScriptTypeOK
<1> QED BY <1>1, <1>2 DEF GoOn

--------------------------------------------------------------------------------
(* The client                                                              *)

(* Division by a positive number.                                          *)
LEMMA Division ==
  ASSUME NEW a \in Nat, NEW w \in Nat, w # 0
  PROVE  /\ a \div w \in Nat /\ a % w \in 0 .. (w - 1)
         /\ a = w * (a \div w) + (a % w)
  BY SMT

(* Numbers of one remainder are at least a width apart.                    *)
LEMMA SameRemainder ==
  ASSUME NEW a \in Nat, NEW b \in Nat, NEW w \in Nat, w # 0, a % w = b % w, a < b
  PROVE  a + w <= b
<1> DEFINE p == a \div w
           q == b \div w
           r == a % w
<1>1. p \in Nat /\ q \in Nat /\ r \in 0 .. (w - 1) /\ a = w * p + r /\ b = w * q + r
  BY Division
<1> HIDE DEF p, q, r
<1>2. w * p \in Nat /\ w * q \in Nat
  BY <1>1, SMT
<1>3. ~(q <= p)
  <2>1. q <= p => w * q <= w * p
    BY <1>1, SMT
  <2> QED BY <1>1, <1>2, <2>1
<1>4. w * (p + 1) <= w * q
  BY <1>1, <1>3, SMT
<1>5. w * (p + 1) = w * p + w
  BY <1>1, SMT
<1> QED BY <1>1, <1>2, <1>4, <1>5

(* The next number of a sender has its remainder.                          *)
LEMMA NextRemainder ==
  ASSUME NEW a \in Nat, NEW w \in Nat, w # 0
  PROVE  (a + w) % w = a % w
<1> DEFINE p == a \div w
           r == a % w
           q == (a + w) \div w
           s == (a + w) % w
<1>1. /\ p \in Nat /\ r \in 0 .. (w - 1) /\ a = w * p + r
  BY Division
<1>2. a + w \in Nat
  BY SMT
<1>3. q \in Nat /\ s \in 0 .. (w - 1) /\ a + w = w * q + s
  BY <1>2, Division
<1> HIDE DEF p, q, r, s
<1>4. w * (p + 1) = w * p + w /\ w * p \in Nat /\ w * q \in Nat
  BY <1>1, <1>3, SMT
<1>5. p + 1 < q => w * (p + 1) + w <= w * q
  BY <1>1, <1>3, SMT
<1>6. q < p + 1 => w * q + w <= w * (p + 1)
  BY <1>1, <1>3, SMT
<1>7. q = p + 1
  BY <1>1, <1>3, <1>4, <1>5, <1>6
<1>8. s = r
  BY <1>1, <1>3, <1>4, <1>7
<1> QED BY <1>8 DEF r, s

(* A number below the width is its own remainder.                          *)
LEMMA OwnRemainder ==
  ASSUME NEW a \in Nat, NEW w \in Nat, a < w
  PROVE  a % w = a
  BY SMT

(* A remainder is no larger than the number.                               *)
LEMMA SmallRemainder ==
  ASSUME NEW a \in Nat, NEW w \in Nat, w # 0
  PROVE  a % w <= a
  BY SMT

(* There is a sender for each prompt.                                      *)
LEMMA WidthFacts ==
  ASSUME ClientTypeOK
  PROVE  /\ Width \in Nat \ {0} /\ Width <= PromptCount /\ PromptCount \in Nat \ {0}
         /\ Senders \subseteq Prompts /\ Prompts \subseteq Prompt
         /\ \A p \in Prompts : /\ SenderOf(p) \in Senders
                               /\ SenderOf(p).number = p.number % Width
                               /\ SenderOf(p).stream = p.stream
                               /\ p.number \in 0 .. PromptCount - 1
<1>1. Width \in Nat \ {0} /\ Width <= PromptCount /\ PromptCount \in Nat \ {0}
  BY PromptAssumption DEF ClientTypeOK, Width, WorkerCount
<1>2. Senders \subseteq Prompts /\ Prompts \subseteq Prompt
  BY DEF Senders, Prompts
<1>3. ASSUME NEW p \in Prompts
      PROVE  /\ SenderOf(p) \in Senders
             /\ SenderOf(p).number = p.number % Width
             /\ SenderOf(p).stream = p.stream
             /\ p.number \in 0 .. PromptCount - 1
  <2>1. p \in Prompt /\ p.stream \in Streams /\ p.number \in 0 .. PromptCount - 1
    BY DEF Prompts, Prompt
  <2>2. p.number \in Nat /\ p.number % Width \in 0 .. (Width - 1)
    BY <1>1, <2>1, Division
  <2>3. p.number % Width \in 0 .. (PromptCount - 1) /\ p.number % Width < Width
    BY <1>1, <2>2
  <2>4. /\ SenderOf(p) \in Prompt /\ SenderOf(p).number = p.number % Width
        /\ SenderOf(p).stream = p.stream
    BY <2>1, <2>3 DEF SenderOf, Prompt
  <2> QED BY <2>1, <2>3, <2>4 DEF Senders, Prompts
<1> QED BY <1>1, <1>2, <1>3

(* A prompt is its stream and its number.                                  *)
LEMMA PromptIsPair ==
  ASSUME NEW p \in Prompt, NEW q \in Prompt, p.stream = q.stream, p.number = q.number
  PROVE  p = q
  BY DEF Prompt

(* A new client has sent nothing.                                          *)
LEMMA FreshKeeps ==
  ASSUME NEW k \in Kinds, NEW n \in Nat \ {0}, NEW first \in {"off", "sending"},
         Fresh(k, n, first)
  PROVE  ClientTypeOK' /\ ClientInv'
<1>1. ClientTypeOK'
  <2>1. \A s \in Prompt : s.number \in Nat
    BY PromptAssumption DEF Prompt
  <2> QED BY <2>1 DEF Fresh, ClientTypeOK
<1>2. /\ Width' \in Nat \ {0} /\ Width' <= PromptCount
  BY PromptAssumption DEF Fresh, Width, WorkerCount
<1>3. Progress'
  <2>1. ASSUME NEW s \in Senders'
        PROVE  cursor'[s] % Width' = s.number /\ flight'[s] = "none"
    <3>1. s \in Prompt /\ s.number < Width' /\ s.number \in Nat
      BY PromptAssumption DEF Senders, Prompts, Prompt
    <3> QED BY <1>2, <3>1, OwnRemainder DEF Fresh
  <2>2. ASSUME NEW p \in Prompts'
        PROVE  result'[p] = "none" /\ cursor'[SenderOf(p)'] <= p.number
    <3>1. p \in Prompt /\ p.number \in Nat /\ p.number <= PromptCount - 1
      BY PromptAssumption DEF Prompts, Prompt
    <3>2. p.number % Width' <= p.number /\ p.number % Width' \in 0 .. (Width' - 1)
      BY <1>2, <3>1, SmallRemainder, Division
    <3>3. p.number % Width' \in 0 .. (PromptCount - 1)
      BY <1>2, <3>2, PromptAssumption
    <3>4. SenderOf(p)' \in Prompt /\ SenderOf(p)'.number = p.number % Width'
      BY <3>1, <3>3 DEF SenderOf, Prompt
    <3> QED BY <3>1, <3>2, <3>4 DEF Fresh
  <2> QED BY <2>1, <2>2 DEF Progress
<1>4. OnDisk'
  BY DEF Fresh, OnDisk, OutputIsWhole, Writing
<1>5. ExitTellsTheTruth'
  BY DEF Fresh, ExitTellsTheTruth
<1> QED BY <1>1, <1>3, <1>4, <1>5 DEF ClientInv

(* A request is sent by a sender that is not done.                         *)
LEMMA SendKeeps ==
  ASSUME ClientTypeOK, ClientInv, NEW s, NEW reached \in BOOLEAN, Send(s, reached)
  PROVE  ClientTypeOK' /\ ClientInv'
<1> USE DEF Send
<1>1. ClientTypeOK'
  BY DEF ClientTypeOK
<1>2. Width' = Width /\ Senders' = Senders /\ Prompts' = Prompts /\ Streams' = Streams
  BY DEF Width, WorkerCount, Senders, Prompts, Streams
<1>3. Progress'
  <2>1. ASSUME NEW t \in Senders
        PROVE  cursor'[t] % Width = t.number /\ (flight'[t] # "none" => ~Done(t)')
    <3>1. t = s \/ flight'[t] = flight[t]
      BY DEF ClientTypeOK
    <3> QED BY <3>1 DEF ClientInv, Progress, Done
  <2>2. \A p \in Prompts : SenderOf(p)' = SenderOf(p)
    BY <1>2 DEF SenderOf
  <2> QED BY <1>2, <2>1, <2>2 DEF ClientInv, Progress
<1>4. OnDisk'
  BY <1>2 DEF ClientInv, OnDisk, OutputIsWhole, Writing, NextStream, Unwritten, Done
<1>5. ExitTellsTheTruth'
  BY <1>2 DEF ClientInv, ExitTellsTheTruth, OnDisk
<1> QED BY <1>1, <1>3, <1>4, <1>5 DEF ClientInv

(* The record of a sender's prompt is its first, and the sender goes on to *)
(* the next prompt it has.                                                 *)
LEMMA ReceiveKeeps ==
  ASSUME ClientTypeOK, ClientInv, NEW s, NEW answer, Receive(s, answer)
  PROVE  /\ ClientTypeOK' /\ ClientInv'
         /\ Current(s) \in Prompts
         /\ result' = [result EXCEPT ![Current(s)] = Judge(answer)]
<1> USE DEF Receive
<1>1. Width' = Width /\ Senders' = Senders /\ Prompts' = Prompts /\ Streams' = Streams
  BY DEF Width, WorkerCount, Senders, Prompts, Streams
<1>2. /\ s \in Senders /\ s \in Prompts /\ s \in Prompt /\ flight[s] # "none"
      /\ cursor[s] \in Nat /\ cursor[s] < PromptCount /\ cursor[s] % Width = s.number
      /\ Width \in Nat \ {0} /\ PromptCount \in Nat
  BY WidthFacts DEF ClientTypeOK, ClientInv, Progress, Done
<1>3. /\ Current(s) \in Prompts /\ Current(s) \in Prompt
      /\ Current(s).stream = s.stream /\ Current(s).number = cursor[s]
  BY <1>2 DEF Current, Prompts, Prompt
<1>4. SenderOf(Current(s)) = s
  BY <1>2, <1>3, WidthFacts, PromptIsPair
<1>5. result[Current(s)] = "none"
  BY <1>2, <1>3, <1>4 DEF ClientInv, Progress
<1>6. Judge(answer) \in {"ok", "failed"}
  BY DEF Judge
<1>7. result' = [result EXCEPT ![Current(s)] = Judge(answer)]
  BY <1>3, <1>5 DEF ClientTypeOK
<1>8. cursor'[s] = cursor[s] + Width /\ \A t \in Prompt : t # s => cursor'[t] = cursor[t]
  BY <1>2 DEF ClientTypeOK
<1>9. ClientTypeOK'
  <2>1. cursor' \in [Prompt -> Nat]
    BY <1>2 DEF ClientTypeOK
  <2>2. result' \in [Prompt -> {"none", "ok", "failed", "twice"}]
    BY <1>6, <1>7 DEF ClientTypeOK
  <2>3. flight' \in [Prompt -> {"none", "sent", "lost"}]
    BY DEF ClientTypeOK
  <2> QED BY <2>1, <2>2, <2>3 DEF ClientTypeOK
<1>10. Progress'
  <2>1. ASSUME NEW t \in Senders
        PROVE  cursor'[t] % Width = t.number /\ (flight'[t] # "none" => ~Done(t)')
    <3>1. CASE t = s
      <4>1. cursor'[t] % Width = t.number
        BY <1>2, <1>8, <3>1, NextRemainder
      <4>2. flight'[t] = "none"
        BY <1>2, <3>1 DEF ClientTypeOK
      <4> QED BY <4>1, <4>2
    <3>2. CASE t # s
      <4>1. t \in Prompt
        BY WidthFacts
      <4>2. cursor'[t] = cursor[t] /\ flight'[t] = flight[t]
        BY <1>8, <3>2, <4>1 DEF ClientTypeOK
      <4> QED BY <4>2 DEF ClientInv, Progress, Done
    <3> QED BY <3>1, <3>2
  <2>2. ASSUME NEW p \in Prompts
        PROVE  result'[p] # "twice" /\ (result'[p] = "none" <=> cursor'[SenderOf(p)] <= p.number)
    <3>1. /\ p \in Prompt /\ SenderOf(p) \in Prompt /\ p.number \in Nat
          /\ SenderOf(p).number = p.number % Width /\ SenderOf(p).stream = p.stream
      BY <1>2, WidthFacts
    <3>2. result[p] # "twice" /\ (result[p] = "none" <=> cursor[SenderOf(p)] <= p.number)
      BY DEF ClientInv, Progress
    <3>3. CASE p = Current(s)
      <4>1. result'[p] = Judge(answer)
        BY <1>7, <3>1, <3>3 DEF ClientTypeOK
      <4>2. cursor'[SenderOf(p)] = p.number + Width
        BY <1>3, <1>4, <1>8, <3>3
      <4>3. ~(cursor'[SenderOf(p)] <= p.number)
        BY <1>2, <3>1, <4>2
      <4> QED BY <1>6, <4>1, <4>3
    <3>4. CASE p # Current(s)
      <4>1. result'[p] = result[p]
        BY <1>7, <3>1, <3>4 DEF ClientTypeOK
      <4>2. CASE SenderOf(p) # s
        BY <1>8, <3>1, <3>2, <4>1, <4>2
      <4>3. CASE SenderOf(p) = s
        <5>1. p.number # cursor[s] /\ p.number % Width = cursor[s] % Width
          BY <1>2, <1>3, <3>1, <3>4, <4>3, PromptIsPair
        <5>2. cursor[s] < p.number => cursor[s] + Width <= p.number
          BY <1>2, <3>1, <5>1, SameRemainder
        <5>3. cursor[s] + Width <= p.number => cursor[s] <= p.number
          BY <1>2, <3>1
        <5>4. cursor[s] <= p.number => cursor[s] < p.number
          BY <1>2, <3>1, <5>1
        <5> QED BY <1>8, <3>2, <4>1, <4>3, <5>2, <5>3, <5>4
      <4> QED BY <4>2, <4>3
    <3> QED BY <3>3, <3>4
  <2>3. \A p \in Prompts : SenderOf(p)' = SenderOf(p)
    BY <1>1 DEF SenderOf
  <2> QED BY <1>1, <2>1, <2>2, <2>3 DEF Progress
<1>11. stage = "sending"
  OBVIOUS
<1>12. OnDisk'
  BY <1>1, <1>11 DEF ClientInv, OnDisk, OutputIsWhole, Writing
<1>13. ExitTellsTheTruth'
  BY <1>1, <1>11 DEF ClientInv, ExitTellsTheTruth, OnDisk
<1> QED BY <1>3, <1>7, <1>9, <1>10, <1>12, <1>13 DEF ClientInv

(* When every sender is done every prompt has its one record.              *)
LEMMA DoneMeansAll ==
  ASSUME ClientTypeOK, Progress, \A s \in Senders : Done(s)
  PROVE  \A p \in Prompts : result[p] \in {"ok", "failed"}
<1> SUFFICES ASSUME NEW p \in Prompts PROVE result[p] \in {"ok", "failed"}
  OBVIOUS
<1>1. /\ SenderOf(p) \in Senders /\ SenderOf(p) \in Prompt /\ p \in Prompt
      /\ p.number \in 0 .. PromptCount - 1 /\ PromptCount \in Nat
  BY WidthFacts
<1>2. cursor[SenderOf(p)] >= PromptCount /\ cursor[SenderOf(p)] \in Nat
  BY <1>1 DEF Done, ClientTypeOK
<1>3. ~(cursor[SenderOf(p)] <= p.number)
  BY <1>1, <1>2
<1>4. result[p] # "none" /\ result[p] # "twice"
  BY <1>3 DEF Progress
<1> QED BY <1>1, <1>4 DEF ClientTypeOK

(* The next stream is one that is not written.                             *)
LEMMA NextIsUnwritten ==
  ASSUME Unwritten # {}
  PROVE  NextStream \in Unwritten /\ NextStream \in Streams /\ NextStream \in Stream
         /\ output[NextStream] = "absent"
<1>1. NextStream \in Unwritten
  BY DEF NextStream
<1> QED BY <1>1 DEF Unwritten, Streams, Stream

(* What an end of the sending, a write and a rename leave.                 *)
LEMMA FinishKeeps ==
  ASSUME ClientTypeOK, ClientInv, Finish
  PROVE  ClientTypeOK' /\ ClientInv'
<1>1. UNCHANGED <<kind, concurrency, cursor, flight, result>>
  BY DEF Finish, Open, WriteLines, Replace, Return
<1>2. Width' = Width /\ Senders' = Senders /\ Prompts' = Prompts /\ Streams' = Streams
  BY <1>1 DEF Width, WorkerCount, Senders, Prompts, Streams
<1>3. \A s : Done(s)' = Done(s)
  BY <1>1 DEF Done
<1>4. Progress'
  <2>1. \A p \in Prompts : SenderOf(p)' = SenderOf(p)
    BY <1>2 DEF SenderOf
  <2> QED BY <1>1, <1>2, <1>3, <2>1 DEF ClientInv, Progress
<1>5. CASE Open
  <2>1. \A p \in Prompts : result[p] \in {"ok", "failed"}
    BY <1>5, DoneMeansAll DEF Open, ClientInv
  <2>2. /\ stage = "sending" /\ stage' = "writing" /\ exit' = exit /\ output' = output
        /\ draft' = [draft EXCEPT ![NextStream] = "part"] /\ Unwritten # {}
        /\ \A s \in Senders : Done(s)
    BY <1>5, <2>1 DEF Open, ExactlyOnce, Opened
  <2>3. Unwritten' = Unwritten /\ NextStream' = NextStream
    BY <1>2, <2>2 DEF Unwritten, NextStream
  <2>4. ClientTypeOK'
    BY <1>1, <2>2 DEF ClientTypeOK
  <2>5. OnDisk'
    <3>1. \A t \in Stream : draft[t] = "absent"
      BY <2>2 DEF ClientInv, OnDisk, Writing
    <3>2. \A t \in Stream : draft'[t] # "absent" => t = NextStream
      BY <2>2, <3>1 DEF ClientTypeOK
    <3>3. exit = "running"
      BY <2>2 DEF ClientInv, OnDisk
    <3>4. OutputIsWhole'
      BY <2>2 DEF ClientInv, OnDisk, OutputIsWhole
    <3> QED BY <1>2, <1>3, <2>2, <2>3, <3>2, <3>3, <3>4 DEF OnDisk, Writing
  <2>6. ExitTellsTheTruth'
    BY <2>2 DEF ClientInv, OnDisk, ExitTellsTheTruth
  <2> QED BY <1>4, <2>4, <2>5, <2>6 DEF ClientInv
<1>6. CASE WriteLines
  <2>1. /\ stage = "writing" /\ stage' = "replacing" /\ exit' = exit /\ output' = output
        /\ draft' = [draft EXCEPT ![NextStream] = "whole"] /\ Unwritten # {}
        /\ \A s \in Senders : Done(s)
    BY <1>6 DEF WriteLines, ClientInv, OnDisk, Writing
  <2>2. Unwritten' = Unwritten /\ NextStream' = NextStream
    BY <1>2, <2>1 DEF Unwritten, NextStream
  <2>3. ClientTypeOK'
    BY <1>1, <2>1 DEF ClientTypeOK
  <2>4. OnDisk'
    <3>1. \A t \in Stream : draft[t] # "absent" => t = NextStream
      BY <2>1 DEF ClientInv, OnDisk, Writing
    <3>2. \A t \in Stream : draft'[t] # "absent" => t = NextStream
      BY <2>1, <3>1 DEF ClientTypeOK
    <3>3. exit = "running"
      BY <2>1 DEF ClientInv, OnDisk
    <3>4. OutputIsWhole'
      BY <2>1 DEF ClientInv, OnDisk, OutputIsWhole
    <3>5. draft'[NextStream] = "whole"
      BY <2>1, NextIsUnwritten DEF ClientTypeOK
    <3> QED BY <1>2, <1>3, <2>1, <2>2, <3>2, <3>3, <3>4, <3>5 DEF OnDisk, Writing
  <2>5. ExitTellsTheTruth'
    BY <2>1 DEF ClientInv, OnDisk, ExitTellsTheTruth
  <2> QED BY <1>4, <2>3, <2>4, <2>5 DEF ClientInv
<1>7. CASE Replace
  <2>1. /\ stage = "replacing" /\ stage' = "sending" /\ exit' = exit
        /\ output' = [output EXCEPT ![NextStream] = "whole"]
        /\ draft' = [draft EXCEPT ![NextStream] = "absent"]
    BY <1>7 DEF Replace, ClientInv, OnDisk
  <2>2. exit = "running"
    BY <2>1 DEF ClientInv, OnDisk
  <2>3. ClientTypeOK'
    BY <1>1, <2>1 DEF ClientTypeOK
  <2>4. OnDisk'
    <3>1. \A t \in Stream : draft[t] # "absent" => t = NextStream
      BY <2>1, <2>2 DEF ClientInv, OnDisk, Writing
    <3>2. \A t \in Stream : draft'[t] = "absent"
      BY <2>1, <3>1 DEF ClientTypeOK
    <3>3. OutputIsWhole'
      BY <2>1 DEF ClientInv, OnDisk, OutputIsWhole, ClientTypeOK
    <3> QED BY <2>1, <2>2, <3>2, <3>3 DEF OnDisk, Writing
  <2>5. ExitTellsTheTruth'
    BY <2>1, <2>2 DEF ExitTellsTheTruth
  <2> QED BY <1>4, <2>3, <2>4, <2>5 DEF ClientInv
<1>8. CASE Return
  <2>1. /\ stage = "sending" /\ stage' = "off" /\ output' = output /\ draft' = draft
        /\ exit' = IF Failures = {} THEN "0" ELSE "1"
        /\ Unwritten = {} /\ \A s \in Senders : Done(s)
    BY <1>8 DEF Return, Leave
  <2>2. \A p \in Prompts : result[p] \in {"ok", "failed"}
    BY <2>1, DoneMeansAll DEF ClientInv
  <2>3. exit = "running" /\ \A t \in Stream : draft[t] = "absent"
    BY <2>1 DEF ClientInv, OnDisk, Writing
  <2>4. \A t \in Streams : output[t] = "whole"
    <3>1. Streams \subseteq Stream
      BY DEF Streams, Stream
    <3>2. \A t \in Streams : output[t] # "absent"
      BY <2>1 DEF Unwritten
    <3> QED BY <3>1, <3>2 DEF ClientInv, OnDisk, OutputIsWhole
  <2>5. ClientTypeOK'
    BY <1>1, <2>1 DEF ClientTypeOK
  <2>6. OnDisk'
    BY <2>1, <2>3 DEF ClientInv, OnDisk, OutputIsWhole, Writing
  <2>7. ExitTellsTheTruth'
    <3>1. exit' \in {"0", "1"}
      BY <2>1
    <3>2. \A p \in Prompts : Failures = {} => result[p] = "ok"
      BY DEF Failures
    <3>3. Failures # {} => \E p \in Prompts : result[p] = "failed"
      BY <2>2 DEF Failures
    <3> QED BY <1>1, <1>2, <2>1, <2>2, <2>3, <2>4, <3>1, <3>2, <3>3 DEF ExitTellsTheTruth
  <2> QED BY <1>4, <2>5, <2>6, <2>7 DEF ClientInv
<1> QED BY <1>5, <1>6, <1>7, <1>8 DEF Finish

(* What a write that fails and a kill leave.                               *)
LEMMA BreakKeeps ==
  ASSUME ClientTypeOK, ClientInv, WriteFails \/ (stage # "off" /\ Killed)
  PROVE  ClientTypeOK' /\ ClientInv'
<1>1. UNCHANGED <<kind, concurrency, cursor, flight, result, output>> /\ stage' = "off"
  BY DEF WriteFails, Killed, Leave
<1>2. Width' = Width /\ Senders' = Senders /\ Prompts' = Prompts /\ Streams' = Streams
  BY <1>1 DEF Width, WorkerCount, Senders, Prompts, Streams
<1>3. Progress'
  <2>1. \A p \in Prompts : SenderOf(p)' = SenderOf(p)
    BY <1>2 DEF SenderOf
  <2>2. \A s : Done(s)' = Done(s)
    BY <1>1 DEF Done
  <2> QED BY <1>1, <1>2, <2>1, <2>2 DEF ClientInv, Progress
<1>4. CASE WriteFails
  <2>1. /\ Writing /\ Unwritten # {} /\ \A s \in Senders : Done(s)
        /\ draft' = [draft EXCEPT ![NextStream] = "absent"] /\ exit' = "raised"
    BY <1>4 DEF WriteFails, Leave, Writing, ClientInv, OnDisk
  <2>2. exit = "running"
    BY <2>1 DEF ClientInv, OnDisk, Writing
  <2>3. \A t \in Stream : draft'[t] = "absent"
    BY <2>1, <2>2 DEF ClientInv, OnDisk, ClientTypeOK
  <2>4. \A p \in Prompts : result[p] \in {"ok", "failed"}
    BY <2>1, DoneMeansAll DEF ClientInv
  <2>5. \E t \in Streams : output[t] = "absent"
    BY <2>1, NextIsUnwritten
  <2>6. ClientTypeOK'
    BY <1>1, <2>1 DEF ClientTypeOK
  <2>7. OnDisk'
    BY <1>1, <2>1, <2>3 DEF ClientInv, OnDisk, OutputIsWhole, Writing
  <2>8. ExitTellsTheTruth'
    BY <1>1, <1>2, <2>1, <2>3, <2>4, <2>5 DEF ExitTellsTheTruth
  <2> QED BY <1>3, <2>6, <2>7, <2>8 DEF ClientInv
<1>5. CASE Killed
  <2>1. draft' = draft /\ exit' = "killed"
    BY <1>5 DEF Killed
  <2>2. ClientTypeOK'
    BY <1>1, <2>1 DEF ClientTypeOK
  <2>3. OnDisk'
    BY <1>1, <2>1 DEF ClientInv, OnDisk, OutputIsWhole, Writing
  <2>4. ExitTellsTheTruth'
    BY <2>1 DEF ExitTellsTheTruth
  <2> QED BY <1>3, <2>2, <2>3, <2>4 DEF ClientInv
<1> QED BY <1>4, <1>5

(* The script takes the exit code.                                         *)
LEMMA TakenKeeps ==
  ASSUME ClientTypeOK, ClientInv, stage = "off", exit # "killed", exit' = "running",
         UNCHANGED <<kind, concurrency, stage, cursor, flight, result, draft, output>>
  PROVE  ClientTypeOK' /\ ClientInv'
<1>1. Width' = Width /\ Senders' = Senders /\ Prompts' = Prompts /\ Streams' = Streams
  BY DEF Width, WorkerCount, Senders, Prompts, Streams
<1>2. Progress'
  <2>1. \A p \in Prompts : SenderOf(p)' = SenderOf(p)
    BY <1>1 DEF SenderOf
  <2>2. \A s : Done(s)' = Done(s)
    BY DEF Done
  <2> QED BY <1>1, <2>1, <2>2 DEF ClientInv, Progress
<1>3. OnDisk'
  BY DEF ClientInv, OnDisk, OutputIsWhole, Writing
<1> QED BY <1>2, <1>3 DEF ClientInv, ClientTypeOK, ExitTellsTheTruth

(* Connections break.                                                      *)
LEMMA LostKeeps ==
  ASSUME ClientTypeOK, ClientInv, NEW S,
         flight' = [s \in Prompt |-> IF S /\ flight[s] = "sent" THEN "lost" ELSE flight[s]],
         UNCHANGED <<kind, concurrency, stage, cursor, result, draft, output, exit>>
  PROVE  ClientTypeOK' /\ ClientInv'
<1>1. Width' = Width /\ Senders' = Senders /\ Prompts' = Prompts /\ Streams' = Streams
  BY DEF Width, WorkerCount, Senders, Prompts, Streams
<1>2. \A s : Done(s)' = Done(s)
  BY DEF Done
<1>3. ClientTypeOK'
  <2>1. \A s \in Prompt : flight'[s] \in {"none", "sent", "lost"}
    BY DEF ClientTypeOK
  <2> QED BY <2>1 DEF ClientTypeOK
<1>4. Progress'
  <2>1. \A p \in Prompts : SenderOf(p)' = SenderOf(p)
    BY <1>1 DEF SenderOf
  <2>2. \A s \in Senders : flight'[s] # "none" => flight[s] # "none"
    BY WidthFacts DEF ClientTypeOK
  <2> QED BY <1>1, <1>2, <2>1, <2>2 DEF ClientInv, Progress
<1>5. Unwritten' = Unwritten /\ NextStream' = NextStream
  BY <1>1 DEF Unwritten, NextStream
<1>6. OnDisk'
  BY <1>1, <1>2, <1>5 DEF ClientInv, OnDisk, OutputIsWhole, Writing
<1>7. ExitTellsTheTruth'
  BY <1>1 DEF ClientInv, ExitTellsTheTruth
<1> QED BY <1>3, <1>4, <1>6, <1>7 DEF ClientInv

(* The steps that leave the client alone.                                  *)
LEMMA SameClient ==
  ASSUME ClientTypeOK, ClientInv, UNCHANGED client
  PROVE  ClientTypeOK' /\ ClientInv'
<1>1. Width' = Width /\ Senders' = Senders /\ Prompts' = Prompts /\ Streams' = Streams
  BY DEF Width, WorkerCount, Senders, Prompts, Streams, client
<1>2. \A s : Done(s)' = Done(s)
  BY DEF Done, client
<1>3. \A p \in Prompts : SenderOf(p)' = SenderOf(p)
  BY <1>1 DEF SenderOf
<1>4. Unwritten' = Unwritten /\ NextStream' = NextStream
  BY <1>1 DEF Unwritten, NextStream, client
<1>5. ClientTypeOK'
  BY DEF ClientTypeOK, client
<1>6. Progress'
  BY <1>1, <1>2, <1>3 DEF ClientInv, Progress, client
<1>7. OnDisk'
  BY <1>1, <1>2, <1>4 DEF ClientInv, OnDisk, OutputIsWhole, Writing, client
<1>8. ExitTellsTheTruth'
  BY <1>1 DEF ClientInv, ExitTellsTheTruth, client
<1> QED BY <1>5, <1>6, <1>7, <1>8 DEF ClientInv

--------------------------------------------------------------------------------
(* The place of a script and its servers                                   *)

(* A server is one of the points of one of the scripts.                    *)
LEMMA OwnServer ==
  ASSUME ScriptTypeOK
  PROVE  /\ Own \in Server /\ number \in Nat /\ point \in Nat /\ Points \in Nat
         /\ \A p \in 1 .. Points : <<number, p>> \in Server
         /\ \A m, p : <<m, p>> \in Server => m \in 1 .. MaxScripts /\ p \in 1 .. Points
  BY ExperimentAssumption DEF ScriptTypeOK, Own, Server

(* The first steps are those of every script.                              *)
LEMMA FirstSteps ==
  ASSUME ScriptTypeOK
  PROVE  /\ Now = "prompts" <=> step = 1
         /\ Now = "start" <=> step = 2
         /\ Now = "ready" <=> step = 3
         /\ step \in Nat /\ step >= 1 /\ Len(Steps[script]) \in Nat
         /\ step = Len(Steps[script]) => Now \in {"wait", "qualify"}
         /\ Now = "qualify" => script = "none"
         /\ Now = "wait" => step # 1
<1>1. CASE script = "none"
  <2>1. step \in 1 .. Len(Steps[script])
    BY DEF ScriptTypeOK
  <2>2. /\ Len(Steps[script]) = 12 /\ step \in 1 .. 12
        /\ Now = "prompts" <=> step = 1
        /\ Now = "start" <=> step = 2
        /\ Now = "ready" <=> step = 3
        /\ Now = "wait" <=> step = 11
        /\ Now = "qualify" <=> step = 12
    BY <1>1, <2>1, SweepSteps
  <2> QED BY <1>1, <2>2
<1>2. CASE script # "none"
  BY <1>2, ArmSteps DEF ScriptTypeOK
<1> QED BY <1>1, <1>2

(* The script's types, when it goes on.                                    *)
LEMMA GoOnType ==
  ASSUME ScriptTypeOK, mode = "run", code = "running", GoOn,
         prompts' \in {"absent", "part", "whole"}, promptsDraft' \in {"absent", "part", "whole"}
  PROVE  ScriptTypeOK'
  BY GoOnFacts DEF ScriptTypeOK

(* When it fails.                                                          *)
LEMMA FailType ==
  ASSUME ScriptTypeOK, Fail, prompts' = prompts, promptsDraft' \in {promptsDraft, "absent"}
  PROVE  ScriptTypeOK'
  BY DEF ScriptTypeOK, Fail, position

(* When it stays where it is.                                              *)
LEMMA SamePlaceType ==
  ASSUME ScriptTypeOK, UNCHANGED <<position, step>>,
         mode' \in {"run", "trap", "over"}, code' \in {"running", "0", "1", "killed"},
         prompts' \in {"absent", "part", "whole"}, promptsDraft' \in {"absent", "part", "whole"}
  PROVE  ScriptTypeOK'
  BY DEF ScriptTypeOK, position

(* Who listens and who is alive is a matter of the servers alone.          *)
LEMMA SameServers ==
  ASSUME server' = server
  PROVE  Listening' = Listening /\ Alive' = Alive /\ \A v : Told(v)' = Told(v)
  BY DEF Listening, Alive, Told

(* A server that listens is alive; one that is alive was started and has   *)
(* not ended.                                                              *)
LEMMA AliveServers ==
  /\ Listening \subseteq Alive
  /\ \A v \in Alive : server[v] # "none" /\ server[v] # "ended" /\ v \in Server
  BY DEF Listening, Alive, Told

(* Steps that change neither servers nor what they have.                   *)
LEMMA ServerInvSame ==
  ASSUME ServerInv, UNCHANGED <<server, window, queued, written, dirty>>
  PROVE  ServerInv'
  BY SameServers DEF ServerInv

(* The servers' places stay while only servers that are alive change, and  *)
(* none is forgotten.                                                      *)
LEMMA PlaceStays ==
  ASSUME ScriptTypeOK, PlaceInv, UNCHANGED <<position, step>>,
         \A w \in Server : server'[w] = server[w] \/ (w \in Alive /\ server'[w] # "none")
  PROVE  PlaceInv'
<1>1. number' = number /\ point' = point /\ step' = step /\ Own' = Own
  BY DEF position, Own
<1>2. ASSUME NEW m \in 1 .. MaxScripts, NEW p \in 1 .. Points,
             m > number \/ (m = number /\ p > point)
      PROVE  server'[<<m, p>>] = "none"
  <2>1. <<m, p>> \in Server /\ server[<<m, p>>] = "none"
    BY <1>2 DEF Server, PlaceInv
  <2> QED BY <2>1, AliveServers
<1>3. ASSUME NEW p \in 1 .. Points, p < point
      PROVE  server'[<<number, p>>] = "ended"
  <2>1. <<number, p>> \in Server /\ server[<<number, p>>] = "ended"
    BY <1>3, OwnServer DEF PlaceInv
  <2> QED BY <2>1, AliveServers
<1>4. step <= 2 => server'[Own] = "none"
  BY OwnServer, AliveServers DEF PlaceInv
<1>5. step >= 3 => server'[Own] # "none"
  BY OwnServer DEF PlaceInv
<1> QED BY <1>1, <1>2, <1>3, <1>4, <1>5 DEF PlaceInv

(* They stay when a script goes on, that stops its server before it goes   *)
(* to the next point.                                                      *)
LEMMA PlaceGoesOn ==
  ASSUME ScriptTypeOK, PlaceInv, mode = "run", code = "running", GoOn, step # 2,
         Now = "wait" => Own \notin Alive /\ server' = server,
         \A w \in Server : server'[w] = server[w] \/ (w \in Alive /\ server'[w] # "none"),
         server \in [Server -> States]
  PROVE  PlaceInv'
<1>1. /\ number' = number /\ step' \in Nat /\ point' \in Nat /\ point \in Nat /\ step \in Nat
      /\ number \in Nat /\ step >= 1
  BY GoOnFacts, OwnServer, FirstSteps DEF ScriptTypeOK
<1>2. CASE point' = point
  <2>1. step' = step \/ step' = step + 1
    BY <1>1, <1>2, GoOnFacts
  <2>2. Own' = Own
    BY <1>1, <1>2 DEF Own
  <2>3. ASSUME NEW m \in 1 .. MaxScripts, NEW p \in 1 .. Points,
               m > number \/ (m = number /\ p > point)
        PROVE  server'[<<m, p>>] = "none"
    <3>1. <<m, p>> \in Server /\ server[<<m, p>>] = "none"
      BY <2>3 DEF Server, PlaceInv
    <3> QED BY <3>1, AliveServers
  <2>4. ASSUME NEW p \in 1 .. Points, p < point
        PROVE  server'[<<number, p>>] = "ended"
    <3>1. <<number, p>> \in Server /\ server[<<number, p>>] = "ended"
      BY <2>4, OwnServer DEF PlaceInv
    <3> QED BY <3>1, AliveServers
  <2>5. step' <= 2 => server'[Own] = "none"
    <3>1. step' <= 2 => step <= 2
      BY <1>1, <2>1
    <3> QED BY <3>1, OwnServer, AliveServers DEF PlaceInv
  <2>6. step' >= 3 => server'[Own] # "none"
    <3>1. step' >= 3 => step >= 3
      BY <1>1, <2>1
    <3> QED BY <3>1, OwnServer DEF PlaceInv
  <2> QED BY <1>1, <1>2, <2>2, <2>3, <2>4, <2>5, <2>6 DEF PlaceInv
<1>3. CASE point' # point
  <2>1. /\ script = "none" /\ Now = "wait" /\ point < Points
        /\ step' = 2 /\ point' = point + 1
    BY <1>3, GoOnFacts
  <2>2. server' = server /\ Own \notin Alive
    BY <2>1
  <2>3. server[Own] = "ended"
    <3>1. step >= 3
      BY <1>1, <2>1, FirstSteps
    <3>2. server[Own] # "none" /\ server[Own] \in States
      BY <3>1, OwnServer DEF PlaceInv
    <3> QED BY <2>2, <3>2, OwnServer DEF Alive, Told, States
  <2>4. Own' = <<number, point + 1>> /\ point + 1 \in 1 .. Points
    BY <1>1, <2>1, OwnServer DEF Own
  <2>5. server[<<number, point + 1>>] = "none"
    BY <1>1, <2>4 DEF PlaceInv, ScriptTypeOK
  <2>6. ASSUME NEW m \in 1 .. MaxScripts, NEW p \in 1 .. Points,
               m > number \/ (m = number /\ p > point + 1)
        PROVE  server[<<m, p>>] = "none"
    BY <1>1, <2>6 DEF PlaceInv
  <2>7. ASSUME NEW p \in 1 .. Points, p < point + 1
        PROVE  server[<<number, p>>] = "ended"
    <3>1. p < point \/ p = point
      BY <1>1, <2>7
    <3> QED BY <2>3, <3>1 DEF PlaceInv, Own
  <2> QED BY <1>1, <2>1, <2>2, <2>4, <2>5, <2>6, <2>7 DEF PlaceInv
<1> QED BY <1>2, <1>3

(* Telling a server to stop changes no other, and does not make it listen. *)
LEMMA Telling ==
  ASSUME server \in [Server -> States], NEW v \in Server, TellToStop(v), v \in Alive
  PROVE  /\ server' \in [Server -> States] /\ server'[v] # "none"
         /\ Told(v)'
         /\ \A w \in Server : server'[w] = server[w] \/ (w \in Alive /\ server'[w] # "none")
         /\ Listening' = Listening /\ Alive' = Alive
         /\ \A w \in Server : server'[w] \in Unborn => server[w] \in Unborn
         /\ \A w \in Server : Told(w) => Told(w)'
<1>1. PICK s \in {"stopping", "stuck", "leaving", "hung"} :
        /\ s \in {"stopping", "stuck"} <=> v \in Listening
        /\ server' = [server EXCEPT ![v] = IF Told(v) THEN @ ELSE s]
  BY DEF TellToStop
<1>2. CASE Told(v)
  <2>1. server' = server
    BY <1>1, <1>2
  <2> QED BY <1>2, <2>1, AliveServers, SameServers
<1>3. CASE ~Told(v)
  <2>1. server' = [server EXCEPT ![v] = s] /\ server[v] \in {"starting", "serving"}
    BY <1>1, <1>3 DEF Alive
  <2>2. server'[v] = s /\ \A w \in Server : w # v => server'[w] = server[w]
    BY <2>1
  <2>3. server' \in [Server -> States]
    BY <1>1, <2>1 DEF States
  <2>4. Told(v)' /\ server'[v] # "none"
    BY <1>1, <2>2 DEF Told
  <2>5. Listening' = Listening
    BY <1>1, <2>1, <2>2 DEF Listening
  <2>6. Alive' = Alive
    BY <1>1, <2>1, <2>2 DEF Alive, Told
  <2>7. \A w \in Server : server'[w] \in Unborn => server[w] \in Unborn
    BY <1>1, <2>1, <2>2 DEF Unborn, Listening
  <2>8. \A w \in Server : Told(w) => Told(w)'
    BY <1>3, <2>2 DEF Told
  <2> QED BY <2>2, <2>3, <2>4, <2>5, <2>6, <2>7, <2>8
<1> QED BY <1>2, <1>3

--------------------------------------------------------------------------------
(* The servers                                                             *)

(* A call is answered by the one server that listens, and changes no other.*)
LEMMA CallKeepsServers ==
  ASSUME ServerInv, NEW v \in Listening, UNCHANGED <<server, written>>,
         dirty' \subseteq dirty \cup {v},
         \A w \in Server : w # v => window'[w] = window[w] /\ queued'[w] = queued[w]
  PROVE  ServerInv'
<1>1. Listening' = Listening
  BY SameServers
<1>2. v \in Server /\ server[v] \notin Unborn
  BY DEF Listening, Unborn
<1>3. ASSUME NEW w \in Server, window'[w] # 0
      PROVE  w \in Listening
  BY <1>3 DEF ServerInv
<1>4. ASSUME NEW w \in Server, server[w] \in Unborn
      PROVE  w \notin dirty' /\ queued'[w] = {} /\ written[w] = {}
  BY <1>2, <1>4 DEF ServerInv
<1> QED BY <1>1, <1>3, <1>4 DEF ServerInv

(* A server is told to stop.                                               *)
LEMMA TellKeepsServers ==
  ASSUME ServersTypeOK, ServerInv, NEW v \in Server, v \in Alive, TellToStop(v),
         UNCHANGED <<window, queued, written, dirty>>
  PROVE  ServerInv'
<1>1. /\ Listening' = Listening
      /\ \A w \in Server : server'[w] \in Unborn => server[w] \in Unborn
  BY Telling DEF ServersTypeOK
<1> QED BY <1>1 DEF ServerInv

(* A server is started.                                                    *)
LEMMA StartKeepsServers ==
  ASSUME ServersTypeOK, ServerInv, NEW v \in Server, server[v] = "none",
         server' = [server EXCEPT ![v] = "starting"],
         UNCHANGED <<window, queued, written, dirty>>
  PROVE  ServerInv'
<1>1. server'[v] = "starting" /\ \A w \in Server : w # v => server'[w] = server[w]
  BY DEF ServersTypeOK
<1>2. Listening' = Listening
  BY <1>1 DEF Listening
<1>3. \A w \in Server : server'[w] \in Unborn => server[w] \in Unborn
  BY <1>1 DEF Unborn
<1> QED BY <1>2, <1>3 DEF ServerInv

(* What ends: the server, its window and what it has not written.          *)
LEMMA Ending ==
  ASSUME ServersTypeOK, NEW v \in Server, Ends(v)
  PROVE  /\ server'[v] = "ended" /\ window'[v] = 0 /\ queued'[v] = {}
         /\ \A w \in Server : w # v => /\ server'[w] = server[w] /\ window'[w] = window[w]
                                       /\ queued'[w] = queued[w]
         /\ UNCHANGED <<written, dirty, measured, hurt, position, control, files>>
         /\ pressed' = pressed \ {v}
         /\ server' \in [Server -> States] /\ window' \in [Server -> Nat]
         /\ queued' \in [Server -> SUBSET Records]
         /\ Listening' = Listening \ {v} /\ Alive' = Alive \ {v}
<1>1. /\ server' = [server EXCEPT ![v] = "ended"] /\ window' = [window EXCEPT ![v] = 0]
      /\ queued' = [queued EXCEPT ![v] = {}]
      /\ UNCHANGED <<written, dirty, measured, hurt, position, control, files>>
      /\ pressed' = pressed \ {v}
  BY DEF Ends, history
<1>2. /\ server'[v] = "ended" /\ window'[v] = 0 /\ queued'[v] = {}
      /\ \A w \in Server : w # v => /\ server'[w] = server[w] /\ window'[w] = window[w]
                                    /\ queued'[w] = queued[w]
  BY <1>1 DEF ServersTypeOK
<1>3. /\ server' \in [Server -> States] /\ window' \in [Server -> Nat]
      /\ queued' \in [Server -> SUBSET Records]
  BY <1>1 DEF ServersTypeOK, States
<1>4. Listening' = Listening \ {v}
  BY <1>2 DEF Listening
<1>5. Alive' = Alive \ {v}
  BY <1>2 DEF Alive, Told
<1> QED BY <1>1, <1>2, <1>3, <1>4, <1>5

(* A window ends with its server.                                          *)
LEMMA EndKeepsServers ==
  ASSUME ServersTypeOK, ServerInv, NEW v \in Server, Ends(v)
  PROVE  ServerInv'
<1>1. ASSUME NEW w \in Server, window'[w] # 0
      PROVE  w \in Listening'
  BY <1>1, Ending DEF ServerInv
<1>2. ASSUME NEW w \in Server, server'[w] \in Unborn
      PROVE  w \notin dirty' /\ queued'[w] = {} /\ written'[w] = {}
  BY <1>2, Ending DEF ServerInv, Unborn
<1>3. \A w, u \in Listening' : w = u
  BY Ending DEF ServerInv
<1> QED BY <1>1, <1>2, <1>3 DEF ServerInv

(* A server has loaded, and the port is free.                              *)
LEMMA Serving ==
  ASSUME ServersTypeOK, NEW v \in Server, Serves(v)
  PROVE  /\ Listening' = {v} /\ Alive' = Alive /\ v \in Alive /\ ~Told(v)
         /\ server'[v] = "serving" /\ server' \in [Server -> States]
         /\ \A w \in Server : w # v => server'[w] = server[w]
         /\ UNCHANGED <<client, position, control, files, monitor, dirty, measured>>
<1>1. /\ server[v] = "starting" /\ Listening = {}
      /\ server' = [server EXCEPT ![v] = "serving"]
      /\ UNCHANGED <<client, position, control, files, monitor, dirty, measured>>
  BY DEF Serves, history
<1>2. server'[v] = "serving" /\ \A w \in Server : w # v => server'[w] = server[w]
  BY <1>1 DEF ServersTypeOK
<1>3. server' \in [Server -> States]
  BY <1>1 DEF ServersTypeOK, States
<1>4. Listening' = {v}
  BY <1>1, <1>2 DEF Listening
<1>5. Alive' = Alive /\ v \in Alive /\ ~Told(v)
  BY <1>1, <1>2 DEF Alive, Told
<1> QED BY <1>1, <1>2, <1>3, <1>4, <1>5

(* The one that has loaded is the one that listens.                        *)
LEMMA ServeKeepsServers ==
  ASSUME ServersTypeOK, ServerInv, NEW v \in Server, Serves(v)
  PROVE  ServerInv'
<1>1. Listening = {}
  BY DEF Serves
<1>2. \A w \in Server : window'[w] = 0
  BY <1>1, Serving DEF ServerInv, monitor
<1>3. ASSUME NEW w \in Server, server'[w] \in Unborn
      PROVE  w \notin dirty' /\ queued'[w] = {} /\ written'[w] = {}
  BY <1>3, Serving DEF ServerInv, Unborn, monitor
<1> QED BY <1>2, <1>3, Serving DEF ServerInv

(* A record moves from a server's queue to its file.                       *)
LEMMA RecordFacts ==
  ASSUME ServersTypeOK, NEW v \in Server, WritesRecord(v)
  PROVE  /\ UNCHANGED <<client, position, control, files, window, pressed, env, measured>>
         /\ queued' \in [Server -> SUBSET Records] /\ written' \in [Server -> SUBSET Records]
         /\ \A w \in Server : /\ queued'[w] \cup written'[w] = queued[w] \cup written[w]
                              /\ written[w] \subseteq written'[w]
<1>1. UNCHANGED <<client, position, control, files, window, pressed, env, measured>>
  BY DEF WritesRecord, history
<1>2. PICK r \in queued[v] : /\ queued' = [queued EXCEPT ![v] = @ \ {r}]
                             /\ written' = [written EXCEPT ![v] = @ \cup {r}]
  BY DEF WritesRecord
<1>3. r \in Records
  BY <1>2 DEF ServersTypeOK
<1>4. queued' \in [Server -> SUBSET Records] /\ written' \in [Server -> SUBSET Records]
  BY <1>2, <1>3 DEF ServersTypeOK
<1>5. ASSUME NEW w \in Server
      PROVE  /\ queued'[w] \cup written'[w] = queued[w] \cup written[w]
             /\ written[w] \subseteq written'[w]
  <2>1. CASE w = v
    <3>1. queued'[w] = queued[w] \ {r} /\ written'[w] = written[w] \cup {r}
      BY <1>2, <2>1 DEF ServersTypeOK
    <3> QED BY <1>2, <2>1, <3>1
  <2>2. CASE w # v
    <3>1. queued'[w] = queued[w] /\ written'[w] = written[w]
      BY <1>2, <2>2 DEF ServersTypeOK
    <3> QED BY <3>1
  <2> QED BY <2>1, <2>2
<1> QED BY <1>1, <1>4, <1>5

(* No summary appears in a file that was not in the queue.                 *)
LEMMA RecordKeepsServers ==
  ASSUME ServersTypeOK, ServerInv, NEW v \in Server, WritesRecord(v)
  PROVE  ServerInv'
<1>1. Listening' = Listening /\ UNCHANGED <<server, window, dirty>>
  BY RecordFacts, SameServers DEF env
<1>2. \A w \in Server : queued'[w] \cup written'[w] = queued[w] \cup written[w]
  BY RecordFacts
<1> QED BY <1>1, <1>2 DEF ServerInv

(* A new script has files of its own.                                      *)
LEMMA NextKeepsServers ==
  ASSUME ServerInv, NextScript
  PROVE  ServerInv'
<1>1. /\ UNCHANGED <<server, window, dirty>> /\ queued' = NoRecords /\ written' = NoRecords
  BY DEF NextScript, env
<1>2. Listening' = Listening
  BY <1>1, SameServers
<1>3. \A w \in Server : queued'[w] = {} /\ written'[w] = {}
  BY <1>1 DEF NoRecords
<1> QED BY <1>1, <1>2, <1>3 DEF ServerInv

--------------------------------------------------------------------------------
(* The sweep                                                               *)

(* Steps of servers, clients and traps measure nothing.                    *)
LEMMA SweepStays ==
  ASSUME SweepInv, ScriptTypeOK, UNCHANGED <<position, step, measured>>,
         Own \in dirty' => Own \in dirty,
         step = 6 => (server[Own] = "ended" => server'[Own] = "ended"),
         window'[Own] # 0 => window[Own] # 0,
         Summary \in queued'[Own] \cup written'[Own] => Summary \in queued[Own] \cup written[Own],
         (stage' # "off" \/ exit' # "running") /\ (\E p \in Prompts' : result'[p] = "ok")
           => (stage # "off" \/ exit # "running") /\ (\E p \in Prompts : result[p] = "ok")
  PROVE  SweepInv'
<1>1. UNCHANGED <<script, number, point, step, measured>> /\ Own' = Own
  BY DEF position, Own
<1>2. \A p : Good(p)' = Good(p)
  BY <1>1 DEF Good
<1> QED BY <1>1, <1>2 DEF SweepInv

(* An arm has no invariant of a sweep.                                     *)
LEMMA ArmIsFree ==
  ASSUME script' # "none"
  PROVE  SweepInv'
  BY DEF SweepInv

(* The next server of the sweep has no window and no records.              *)
LEMMA NextServerIsClean ==
  ASSUME ScriptTypeOK, ServerInv, PlaceInv, point + 1 \in 1 .. Points
  PROVE  /\ <<number, point + 1>> \in Server
         /\ window[<<number, point + 1>>] = 0
         /\ queued[<<number, point + 1>>] = {} /\ written[<<number, point + 1>>] = {}
<1>1. <<number, point + 1>> \in Server /\ point + 1 > point
  BY OwnServer
<1>2. server[<<number, point + 1>>] = "none"
  BY <1>1 DEF PlaceInv, ScriptTypeOK
<1> QED BY <1>1, <1>2 DEF ServerInv, Unborn, Listening

(* The sweep goes on from a step that measures and resets nothing.         *)
LEMMA SweepGoesOn ==
  ASSUME ScriptTypeOK, ServerInv, PlaceInv, SweepInv, mode = "run", code = "running", GoOn,
         script = "none", step \notin {5, 6, 8},
         UNCHANGED <<window, queued, written, measured>>,
         stage' = "off", exit' = "running",
         step = 7 => measured[point].by # {},
         step = 9 => Summary \in written[Own]
  PROVE  SweepInv'
<1>1. /\ Len(Steps[script]) = 12 /\ step \in 1 .. 12 /\ (Now = "wait" <=> step = 11)
  BY SweepSteps DEF ScriptTypeOK
<1>2. script' = script /\ number' = number /\ \A p : Good(p)' = Good(p)
  BY GoOnFacts DEF Good
<1>3. /\ point \in Nat /\ Points \in Nat /\ Own \in Server
  BY OwnServer
<1>4. CASE point' # point
  <2>1. step = 11 /\ point < Points /\ step' = 2 /\ point' = point + 1
    BY <1>1, <1>4, GoOnFacts
  <2>2. Own' = <<number, point + 1>> /\ point + 1 \in 1 .. Points
    BY <1>2, <1>3, <2>1 DEF Own
  <2>3. window[Own'] = 0 /\ Summary \notin queued[Own'] \cup written[Own']
    BY <2>2, NextServerIsClean
  <2>4. \A p \in 1 .. Points : p > point' \/ p = point' => measured[p].by = {}
    <3>1. \A p \in 1 .. Points : p > point' \/ p = point' => p > point
      BY <1>3, <2>1
    <3> QED BY <1>2, <3>1 DEF SweepInv
  <2>5. \A p \in 1 .. Points : p < point' => measured[p] = Good(p)
    <3>1. \A p \in 1 .. Points : p < point' => p < point \/ (p = point /\ step >= 10)
      BY <1>3, <2>1
    <3> QED BY <1>2, <3>1 DEF SweepInv
  <2> QED BY <1>2, <2>1, <2>3, <2>4, <2>5 DEF SweepInv
<1>5. CASE point' = point
  <2>1. Own' = Own
    BY <1>2, <1>5 DEF Own
  <2>2. step' \in Nat /\ (step' = step \/ step' = step + 1) /\ (step' = step => step = 12)
    BY <1>1, <1>5, GoOnFacts
  <2>3. \A p \in 1 .. Points : p > point \/ (p = point /\ step' < 7) => measured[p].by = {}
    <3>1. step' < 7 => step < 7
      BY <1>1, <2>2
    <3> QED BY <3>1 DEF SweepInv
  <2>4. step' # 6
    BY <1>1, <2>2
  <2>5. window[Own] # 0 => /\ step' \in {7, 8}
                           /\ measured[point].by \subseteq {Own} /\ measured[point].clean
    <3>1. window[Own] # 0 => step = 7
      BY DEF SweepInv
    <3>2. step = 7 => step' = 8
      BY <2>2
    <3> QED BY <3>1, <3>2 DEF SweepInv
  <2>6. step' >= 8 => measured[point].by # {}
    <3>1. step' >= 8 => step >= 8 \/ step = 7
      BY <1>1, <2>2
    <3> QED BY <3>1 DEF SweepInv
  <2>7. Summary \in queued[Own] \cup written[Own] => step' >= 9 /\ measured[point] = Good(point)
    <3>1. step >= 9 => step' >= 9
      BY <1>1, <2>2
    <3> QED BY <3>1 DEF SweepInv
  <2>8. \A p \in 1 .. Points : p < point \/ (p = point /\ step' >= 10) => measured[p] = Good(p)
    <3>1. step' >= 10 => step >= 10 \/ step = 9
      BY <1>1, <2>2
    <3>2. step = 9 => measured[point] = Good(point)
      BY DEF SweepInv
    <3> QED BY <3>1, <3>2 DEF SweepInv
  <2> QED BY <1>2, <1>5, <2>1, <2>3, <2>4, <2>5, <2>6, <2>7, <2>8 DEF SweepInv
<1> QED BY <1>4, <1>5

(* After the reset the own server, if it has not ended, is clean: either   *)
(* it answered the reset, or it has never served.                          *)
LEMMA SweepResets ==
  ASSUME ServersTypeOK, ScriptTypeOK, ServerInv, SweepInv, mode = "run", code = "running",
         Reset, script = "none", stage' = "off", exit' = "running"
  PROVE  SweepInv'
<1>1. /\ Len(Steps[script]) = 12 /\ step = 5 /\ (Now = "wait" <=> step = 11)
  BY SweepSteps DEF ScriptTypeOK, Reset, Is
<1>2. /\ script' = script /\ number' = number /\ step' = 6 /\ point' = point
  BY <1>1, GoOnFacts DEF Reset
<1>3. UNCHANGED <<window, queued, written, measured, server>> /\ Own' = Own
  BY <1>2 DEF Reset, monitor, env, history, Own
<1>4. PICK v \in Listening : dirty' = dirty \ {v}
  BY DEF Reset, Answering
<1>5. Own \in dirty' => server[Own] = "ended"
  <2>1. SUFFICES ASSUME Own \in dirty', server[Own] # "ended" PROVE FALSE
    OBVIOUS
  <2>2. Own \in dirty /\ Own # v
    BY <1>4, <2>1
  <2>3. Own \in Server /\ server[Own] \in States /\ server[Own] \notin Unborn
    BY <2>2, OwnServer DEF ServerInv, ServersTypeOK
  <2>4. Own \in Listening
    BY <2>1, <2>3 DEF Listening, Unborn, States
  <2> QED BY <2>2, <2>4 DEF ServerInv
<1>6. \A p : Good(p)' = Good(p)
  BY <1>2 DEF Good
<1>7. window[Own] = 0
  BY <1>1 DEF SweepInv
<1>8. Summary \notin queued[Own] \cup written[Own]
  BY <1>1 DEF SweepInv
<1>9. \A p \in 1 .. Points : p > point \/ p = point => measured[p].by = {}
  BY <1>1 DEF SweepInv
<1>10. \A p \in 1 .. Points : p < point => measured[p] = Good(p)
  BY DEF SweepInv
<1> QED BY <1>2, <1>3, <1>5, <1>6, <1>7, <1>8, <1>9, <1>10 DEF SweepInv

(* A window on the own server finds it clean.                              *)
LEMMA SweepOpensWindow ==
  ASSUME ServersTypeOK, ScriptTypeOK, ServerInv, SweepInv, mode = "run", code = "running",
         StartWindow, script = "none", stage' = "off", exit' = "running"
  PROVE  SweepInv'
<1>1. /\ Len(Steps[script]) = 12 /\ step = 6 /\ (Now = "wait" <=> step = 11)
  BY SweepSteps DEF ScriptTypeOK, StartWindow, Is
<1>2. /\ script' = script /\ number' = number /\ step' = 7 /\ point' = point
  BY <1>1, GoOnFacts DEF StartWindow
<1>3. UNCHANGED <<queued, written, server, dirty>> /\ Own' = Own
  BY <1>2 DEF StartWindow, env, Own
<1>4. PICK v \in Listening : /\ window' = [window EXCEPT ![v] = WindowId]
                             /\ measured' = [measured EXCEPT ![point].clean = v \notin dirty]
  BY DEF StartWindow, Answering
<1>5. point \in 1 .. Points /\ Own \in Server /\ point \in Nat
  BY OwnServer DEF ScriptTypeOK
<1>6. /\ \A p \in 1 .. Points : measured'[p].by = measured[p].by
      /\ \A p \in 1 .. Points : p # point => measured'[p] = measured[p]
      /\ measured'[point].clean = (v \notin dirty)
  BY <1>4, <1>5 DEF ServersTypeOK
<1>7. measured[point].by = {}
  BY <1>1, <1>5 DEF SweepInv
<1>8. window[Own] = 0
  BY <1>1 DEF SweepInv
<1>9. window'[Own] # 0 => measured'[point].clean
  <2>1. window'[Own] # 0 => v = Own
    BY <1>4, <1>5, <1>8 DEF ServersTypeOK
  <2>2. v = Own => Own \notin dirty
    BY <1>1 DEF Listening, SweepInv
  <2> QED BY <1>6, <2>1, <2>2
<1>10. Summary \notin queued[Own] \cup written[Own]
  BY <1>1 DEF SweepInv
<1>11. \A p \in 1 .. Points : p > point => measured'[p].by = {}
  BY <1>6 DEF SweepInv
<1>12. \A p \in 1 .. Points : p < point => measured'[p] = Good(p)
  <2>1. \A p \in 1 .. Points : p < point => p # point /\ measured[p] = Good(p)
    BY <1>5 DEF SweepInv
  <2> QED BY <1>6, <2>1
<1>13. \A p : Good(p)' = Good(p)
  BY <1>2 DEF Good
<1>14. measured'[point].by = {}
  BY <1>5, <1>6, <1>7
<1> QED BY <1>2, <1>3, <1>9, <1>10, <1>11, <1>12, <1>13, <1>14 DEF SweepInv

(* The window that is closed is the one this point opened; on the own      *)
(* server the measurement is good.                                         *)
LEMMA SweepClosesWindow ==
  ASSUME ServersTypeOK, ScriptTypeOK, ServerInv, SweepInv, mode = "run", code = "running",
         EndWindow, script = "none", stage' = "off", exit' = "running"
  PROVE  SweepInv'
<1>1. /\ Len(Steps[script]) = 12 /\ step = 8 /\ (Now = "wait" <=> step = 11)
  BY SweepSteps DEF ScriptTypeOK, EndWindow, Is
<1>2. /\ script' = script /\ number' = number /\ step' = 9 /\ point' = point
  BY <1>1, GoOnFacts DEF EndWindow
<1>3. UNCHANGED <<written, server, dirty, measured>> /\ Own' = Own
  BY <1>2 DEF EndWindow, env, history, Own
<1>4. PICK v \in Listening : /\ window[v] = WindowId
                             /\ window' = [window EXCEPT ![v] = 0]
                             /\ queued' = [queued EXCEPT ![v] = @ \cup {Summary}]
  BY DEF EndWindow, Acceptable, Answering
<1>5. point \in 1 .. Points /\ Own \in Server /\ point \in Nat
  BY OwnServer DEF ScriptTypeOK
<1>6. window'[Own] = 0
  <2>1. window[Own] # 0 => Own = v
    BY <1>5 DEF ServerInv
  <2> QED BY <1>4, <1>5, <2>1 DEF ServersTypeOK
<1>7. Summary \in queued'[Own] \cup written[Own] => measured[point] = Good(point)
  <2>1. Summary \notin queued[Own] \cup written[Own]
    BY <1>1 DEF SweepInv
  <2>2. Summary \in queued'[Own] => v = Own
    BY <1>4, <1>5, <2>1 DEF ServersTypeOK
  <2>3. v = Own => window[Own] # 0
    BY <1>4, <1>5 DEF WindowId
  <2>4. v = Own => /\ measured[point].by \subseteq {Own} /\ measured[point].by # {}
                   /\ measured[point].clean
    BY <1>1, <2>3 DEF SweepInv
  <2>5. v = Own => measured[point].by = {Own} /\ measured[point].clean = TRUE
    BY <1>5, <2>4 DEF ServersTypeOK
  <2>6. v = Own => measured[point] = [by |-> {Own}, clean |-> TRUE]
    BY <1>5, <2>5 DEF ServersTypeOK
  <2> QED BY <2>1, <2>2, <2>6 DEF Good, Own
<1>8. \A p : Good(p)' = Good(p)
  BY <1>2 DEF Good
<1>9. measured[point].by # {}
  BY <1>1 DEF SweepInv
<1>10. \A p \in 1 .. Points : p > point => measured[p].by = {}
  BY DEF SweepInv
<1>11. \A p \in 1 .. Points : p < point => measured[p] = Good(p)
  BY DEF SweepInv
<1> QED BY <1>2, <1>3, <1>6, <1>7, <1>8, <1>9, <1>10, <1>11 DEF SweepInv

(* A request is answered by the server that listens, and recorded while a  *)
(* window is open there.                                                   *)
LEMMA AnswerFacts ==
  ASSUME ClientTypeOK, ClientInv, ServersTypeOK, ScriptTypeOK,
         NEW s, NEW v \in Listening, NEW answer, Answers(s, v, answer)
  PROVE  /\ UNCHANGED <<position, control, files, window, written, pressed, server>>
         /\ queued' \in [Server -> SUBSET Records]
         /\ dirty' = dirty \cup {v} /\ v \in Server
         /\ \A w \in Server : /\ w # v => queued'[w] = queued[w]
                              /\ Summary \in queued'[w] => Summary \in queued[w]
         /\ measured' = IF Now = "measure"
                        THEN [measured EXCEPT ![point].by = @ \cup {v}] ELSE measured
         /\ measured' \in [1 .. Points -> [by : SUBSET Server, clean : BOOLEAN]]
         /\ stage = "sending" /\ stage' = stage /\ exit' = exit
<1>1. /\ UNCHANGED <<position, control, files, window, written, pressed, server>>
      /\ dirty' = dirty \cup {v} /\ v \in Server /\ Receive(s, answer)
      /\ queued' = IF Recording /\ window[v] # 0
                   THEN [queued EXCEPT ![v] = @ \cup {Current(s)}] ELSE queued
      /\ measured' = IF Now = "measure"
                     THEN [measured EXCEPT ![point].by = @ \cup {v}] ELSE measured
  BY DEF Answers, Listening, Measuring
<1>2. Current(s) \in Prompt /\ Current(s) \in Records /\ Current(s) # Summary
  <2>1. Current(s) \in Prompt
    BY <1>1, ReceiveKeeps, WidthFacts
  <2> QED BY <2>1, PromptAssumption DEF Prompt, Records, Summary, Stream
<1>3. queued' \in [Server -> SUBSET Records]
  BY <1>1, <1>2 DEF ServersTypeOK
<1>4. \A w \in Server : /\ w # v => queued'[w] = queued[w]
                        /\ Summary \in queued'[w] => Summary \in queued[w]
  BY <1>1, <1>2 DEF ServersTypeOK
<1>5. measured' \in [1 .. Points -> [by : SUBSET Server, clean : BOOLEAN]]
  BY <1>1 DEF ServersTypeOK, ScriptTypeOK
<1>6. stage = "sending" /\ stage' = stage /\ exit' = exit
  BY <1>1 DEF Receive
<1> QED BY <1>1, <1>3, <1>4, <1>5, <1>6

(* A measurement by another server leaves no open window on the own one.   *)
LEMMA SweepMeasures ==
  ASSUME ClientTypeOK, ClientInv, ServersTypeOK, ScriptTypeOK, ScriptInv, ServerInv, SweepInv,
         NEW s, NEW v \in Listening, NEW answer, Answers(s, v, answer)
  PROVE  SweepInv'
<1> SUFFICES ASSUME script = "none" PROVE SweepInv'
  BY AnswerFacts, ArmIsFree DEF position
<1>1. UNCHANGED <<script, number, point, step, server, window, written>> /\ Own' = Own
  BY AnswerFacts DEF position, control, Own
<1>2. /\ step \in {4, 7} /\ (Now = "measure" <=> step = 7)
  <2>1. Now \in {"warmup", "measure"}
    BY AnswerFacts DEF ScriptInv, IsLoad, Is
  <2> QED BY <2>1, SweepSteps DEF ScriptTypeOK
<1>3. point \in 1 .. Points /\ point \in Nat /\ Own \in Server
  BY OwnServer DEF ScriptTypeOK
<1>4. \A p \in 1 .. Points : p # point => measured'[p] = measured[p]
  BY <1>3, AnswerFacts DEF ServersTypeOK
<1>5. /\ step = 4 => measured'[point] = measured[point]
      /\ step = 7 => /\ measured'[point].by = measured[point].by \cup {v}
                     /\ measured'[point].clean = measured[point].clean
  <2>1. step = 4 => measured' = measured
    BY <1>2, AnswerFacts
  <2>2. step = 7 => measured' = [measured EXCEPT ![point].by = @ \cup {v}]
    BY <1>2, AnswerFacts
  <2>3. /\ measured \in [1 .. Points -> [by : SUBSET Server, clean : BOOLEAN]]
        /\ measured[point] \in [by : SUBSET Server, clean : BOOLEAN]
    BY <1>3 DEF ServersTypeOK
  <2>4. step = 7 => measured'[point] = [measured[point] EXCEPT !.by = @ \cup {v}]
    BY <1>3, <2>2, <2>3
  <2> QED BY <2>1, <2>3, <2>4
<1>6. window[Own] # 0 => /\ step \in {7, 8}
                         /\ measured'[point].by \subseteq {Own} /\ measured'[point].clean
  <2>1. window[Own] # 0 => v = Own
    BY <1>3 DEF ServerInv
  <2>2. window[Own] # 0 => step = 7 /\ measured[point].by \subseteq {Own} /\ measured[point].clean
    BY <1>2 DEF SweepInv
  <2> QED BY <1>5, <2>1, <2>2
<1>7. Summary \notin queued'[Own] \cup written[Own]
  <2>1. Summary \notin queued[Own] \cup written[Own]
    BY <1>2 DEF SweepInv
  <2> QED BY <1>3, <2>1, AnswerFacts
<1>8. \A p : Good(p)' = Good(p)
  BY <1>1 DEF Good
<1>9. \A p \in 1 .. Points : p > point \/ (p = point /\ step < 7) => measured'[p].by = {}
  <2>1. \A p \in 1 .. Points : p > point => measured[p].by = {} /\ p # point
    BY <1>3 DEF SweepInv
  <2>2. step < 7 => measured[point].by = {} /\ step = 4
    BY <1>2, <1>3 DEF SweepInv
  <2> QED BY <1>4, <1>5, <2>1, <2>2
<1>10. \A p \in 1 .. Points : p < point => measured'[p] = Good(p)
  <2>1. \A p \in 1 .. Points : p < point => measured[p] = Good(p) /\ p # point
    BY <1>3 DEF SweepInv
  <2> QED BY <1>4, <2>1
<1>11. step = 7 => measured'[point].by # {}
  BY <1>5
<1> QED BY <1>1, <1>2, <1>6, <1>7, <1>8, <1>9, <1>10, <1>11 DEF SweepInv

(* A new sweep has measured nothing, on servers yet to be started.         *)
LEMMA SweepBegins ==
  ASSUME ScriptTypeOK, ServerInv, PlaceInv, NextScript
  PROVE  SweepInv'
<1>1. /\ number' = number + 1 /\ number + 1 \in 1 .. MaxScripts /\ point' = 1 /\ step' = 1
      /\ queued' = NoRecords /\ written' = NoRecords /\ measured' = Unmeasured
      /\ UNCHANGED <<window, server>> /\ stage' = "off" /\ exit' = "running"
  BY ExperimentAssumption DEF NextScript, Fresh, env, ScriptTypeOK
<1>2. 1 \in 1 .. Points /\ number \in Nat /\ Points \in Nat
  BY ExperimentAssumption DEF ScriptTypeOK
<1>3. Own' = <<number + 1, 1>> /\ Own' \in Server
  BY <1>1, <1>2 DEF Own, Server
<1>4. server[Own'] = "none"
  BY <1>1, <1>2, <1>3 DEF PlaceInv
<1>5. window[Own'] = 0
  BY <1>3, <1>4 DEF ServerInv, Listening
<1>6. Summary \notin queued'[Own'] \cup written'[Own']
  BY <1>1, <1>3 DEF NoRecords
<1>7. \A p \in 1 .. Points : measured'[p].by = {}
  BY <1>1 DEF Unmeasured
<1>8. \A p \in 1 .. Points : ~(p < point')
  BY <1>1
<1> QED BY <1>1, <1>5, <1>6, <1>7, <1>8 DEF SweepInv

--------------------------------------------------------------------------------
(* The end of a script                                                     *)

(* Steps of servers, clients and traps.  A server that was told to stop    *)
(* never serves again as if it were not.                                   *)
LEMMA EndStays ==
  ASSUME ScriptTypeOK, EndInv, UNCHANGED <<position, control>>,
         \A w \in Server : w \in Alive' => w \in Alive,
         Told(Own) => Told(Own)' \/ Own \notin Alive'
  PROVE  EndInv'
<1>1. UNCHANGED <<script, number, point, step, mode, code>> /\ Own' = Own /\ Own \in Server
  BY OwnServer DEF position, control, Own
<1> QED BY <1>1 DEF EndInv

(* A script goes on, or has come to its end.                               *)
LEMMA EndGoesOn ==
  ASSUME ScriptTypeOK, EndInv, mode = "run", code = "running", GoOn,
         Now = "wait" => Own \notin Alive /\ server' = server,
         Now = "qualify" => server' = server
  PROVE  EndInv'
<1>1. script' = script /\ number' = number /\ mode' # "over"
  BY GoOnFacts
<1>2. script = "none" /\ step' = 12 => point' = Points /\ Own' \notin Alive'
  <2>1. SUFFICES ASSUME script = "none", step' = 12 PROVE point' = Points /\ Own' \notin Alive'
    OBVIOUS
  <2>2. /\ Len(Steps[script]) = 12 /\ step \in 1 .. 12 /\ (Now = "wait" <=> step = 11)
        /\ Now = "qualify" <=> step = 12
    BY <2>1, SweepSteps DEF ScriptTypeOK
  <2>3. point' = point /\ (step = 12 \/ (step = 11 /\ ~(point < Points)))
    <3>1. \/ step = 12 /\ point' = point
          \/ step' = 2
          \/ /\ ~(script = "none" /\ Now = "wait" /\ point < Points)
             /\ step' = step + 1 /\ point' = point
      BY <2>2, GoOnFacts
    <3>2. step' = step + 1 => step = 11
      BY <2>1, <2>2
    <3> QED BY <2>1, <2>2, <3>1, <3>2
  <2>4. Own' = Own
    BY <1>1, <2>3 DEF Own
  <2>5. CASE step = 12
    <3>1. server' = server
      BY <2>2, <2>5
    <3> QED BY <2>1, <2>3, <2>4, <2>5, <3>1, SameServers DEF EndInv
  <2>6. CASE step = 11 /\ ~(point < Points)
    <3>1. server' = server /\ Own \notin Alive
      BY <2>2, <2>6
    <3> QED BY <2>3, <2>4, <2>6, <3>1, SameServers, OwnServer DEF ScriptTypeOK
  <2> QED BY <2>3, <2>5, <2>6
<1>3. code' = "0" => Own' \notin Alive'
  <2>1. SUFFICES ASSUME code' = "0" PROVE Own' \notin Alive'
    OBVIOUS
  <2>2. step = Len(Steps[script]) /\ step' = step /\ point' = point
    BY <2>1, GoOnFacts
  <2>3. Own' = Own
    BY <1>1, <2>2 DEF Own
  <2>4. CASE Now = "wait"
    BY <2>3, <2>4, SameServers
  <2>5. CASE Now = "qualify"
    <3>1. script = "none" /\ step = 12
      BY <2>5, FirstSteps, SweepSteps DEF ScriptTypeOK
    <3> QED BY <2>3, <2>5, <3>1, SameServers DEF EndInv
  <2> QED BY <2>2, <2>4, <2>5, FirstSteps
<1> QED BY <1>1, <1>2, <1>3 DEF EndInv

(* A step that fails.                                                      *)
LEMMA EndFails ==
  ASSUME EndInv, Fail, server' = server
  PROVE  EndInv'
  BY SameServers DEF EndInv, Fail, position, Own

(* The trap is through when there is no server to stop.                    *)
LEMMA EndTraps ==
  ASSUME EndInv, TrapEnds
  PROVE  EndInv'
<1>1. UNCHANGED <<script, number, point, step, code, server>> /\ ~Cleanup
  BY DEF TrapEnds, position, env
<1>2. Own' = Own /\ Alive' = Alive /\ Told(Own)' = Told(Own)
  BY <1>1, SameServers DEF Own
<1> QED BY <1>1, <1>2 DEF EndInv, Cleanup

(* A script that is killed knows nothing.                                  *)
LEMMA EndKilled ==
  ASSUME EndInv, UNCHANGED <<position, step, server>>, code' = "killed"
  PROVE  EndInv'
  BY SameServers DEF EndInv, position, Own

(* A new script.                                                           *)
LEMMA EndBegins ==
  ASSUME NextScript
  PROVE  EndInv'
  BY DEF EndInv, NextScript

--------------------------------------------------------------------------------
(* Invariance                                                              *)

(* Outside the steps with a load no client runs, and no code is left.      *)
LEMMA NoClientRuns ==
  ASSUME ScriptInv, mode = "run", Now \notin {"warmup", "measure"}
  PROVE  stage = "off" /\ exit = "running" /\ code = "running"
  BY DEF ScriptInv, IsLoad, Is

(* Steps that keep the script's place.                                     *)
LEMMA ScriptStays ==
  ASSUME ScriptInv, UNCHANGED <<position, control, prompts>>,
         stage' # "off" => stage # "off" \/ IsLoad,
         exit' # "running" => exit # "running" \/ IsLoad,
         exit' = "killed" => exit = "killed"
  PROVE  ScriptInv'
  BY DEF ScriptInv, IsLoad, Is, Now, position, control

(* Steps that change nothing on the servers.                               *)
LEMMA SameServersType ==
  ASSUME ServersTypeOK, UNCHANGED <<monitor, server, dirty, measured>>
  PROVE  ServersTypeOK'
  BY DEF ServersTypeOK, monitor

(* A step of the client, of the generator, or none.                        *)
LEMMA QuietKeeps ==
  ASSUME ExperimentInv, ClientTypeOK', ClientInv',
         UNCHANGED <<position, control, prompts, monitor, server, dirty, measured>>,
         promptsDraft' \in {"absent", "part", "whole"},
         stage' # "off" => stage # "off" \/ IsLoad,
         exit' # "running" => exit # "running" \/ IsLoad,
         exit' = "killed" => exit = "killed",
         (stage' # "off" \/ exit' # "running") /\ (\E p \in Prompts' : result'[p] = "ok")
           => (stage # "off" \/ exit # "running") /\ (\E p \in Prompts : result[p] = "ok")
  PROVE  ExperimentInv'
<1> USE DEF ExperimentInv, ExperimentTypeOK
<1>1. UNCHANGED <<script, number, point, step, mode, code, window, queued, written, pressed>>
  BY DEF position, control, monitor
<1>2. ScriptTypeOK'
  BY <1>1, SamePlaceType DEF ScriptTypeOK
<1>3. ServersTypeOK'
  BY SameServersType
<1>4. ScriptInv'
  BY ScriptStays
<1>5. ServerInv'
  BY <1>1, ServerInvSame
<1>6. PlaceInv'
  BY <1>1, PlaceStays
<1>7. SweepInv'
  BY <1>1, SweepStays
<1>8. EndInv'
  <2>1. Alive' = Alive /\ Told(Own)' = Told(Own)
    BY <1>1, SameServers DEF Told, Own
  <2> QED BY <1>1, <2>1, EndStays
<1> QED BY <1>2, <1>3, <1>4, <1>5, <1>6, <1>7, <1>8

(* The script goes on, and nothing on the servers changes.                 *)
LEMMA GoOnKeeps ==
  ASSUME ExperimentInv, ClientTypeOK', ClientInv', mode = "run", GoOn,
         UNCHANGED <<monitor, server, dirty, measured>>,
         prompts' \in {"absent", "whole"}, promptsDraft' \in {"absent", "part", "whole"},
         stage' = "off", exit' = "running",
         Now \notin {"start", "reset", "window", "endwindow"},
         Now = "wait" => Own \notin Alive,
         script = "none" => /\ Now = "measure" => measured[point].by # {}
                            /\ Now = "flush" => Summary \in written[Own]
  PROVE  ExperimentInv'
<1> USE DEF ExperimentInv, ExperimentTypeOK
<1>1. code = "running" /\ step # 2
  BY FirstSteps DEF ScriptInv
<1>2. UNCHANGED <<window, queued, written, pressed>>
  BY DEF monitor
<1>3. ScriptTypeOK'
  BY <1>1, GoOnType
<1>4. ServersTypeOK'
  BY SameServersType
<1>5. ScriptInv'
  BY <1>1, GoOnFacts DEF ScriptInv
<1>6. ServerInv'
  BY <1>2, ServerInvSame
<1>7. PlaceInv'
  BY <1>1, PlaceGoesOn DEF ServersTypeOK
<1>8. SweepInv'
  <2>1. script' = script
    BY <1>1, GoOnFacts
  <2>2. CASE script = "none"
    <3>1. /\ step \notin {5, 6, 8}
          /\ step = 7 => measured[point].by # {}
          /\ step = 9 => Summary \in written[Own]
      BY <2>2, SweepSteps DEF ScriptTypeOK
    <3> QED BY <1>1, <1>2, <2>2, <3>1, SweepGoesOn
  <2> QED BY <2>1, <2>2, ArmIsFree
<1>9. EndInv'
  BY <1>1, <1>2, EndGoesOn
<1> QED BY <1>3, <1>4, <1>5, <1>6, <1>7, <1>8, <1>9

(* A step of the script fails.                                             *)
LEMMA FailKeeps ==
  ASSUME ExperimentInv, ClientTypeOK', ClientInv', mode = "run", Fail,
         UNCHANGED <<prompts, monitor, server, dirty, measured>>,
         promptsDraft' \in {promptsDraft, "absent"},
         stage' = "off", exit' = "running"
  PROVE  ExperimentInv'
<1> USE DEF ExperimentInv, ExperimentTypeOK
<1>1. UNCHANGED <<window, queued, written, pressed, script, number, point, step>>
      /\ mode' = "trap" /\ code' = "1"
  BY DEF monitor, Fail, position
<1>2. ScriptTypeOK'
  BY FailType
<1>3. ServersTypeOK'
  BY SameServersType
<1>4. ScriptInv'
  BY <1>1 DEF ScriptInv
<1>5. ServerInv'
  BY <1>1, ServerInvSame
<1>6. PlaceInv'
  BY <1>1, PlaceStays DEF position
<1>7. SweepInv'
  BY <1>1, SweepStays DEF position
<1>8. EndInv'
  BY EndFails
<1> QED BY <1>2, <1>3, <1>4, <1>5, <1>6, <1>7, <1>8

(* A call that was answered, and the script goes on.                       *)
LEMMA CallKeeps ==
  ASSUME ExperimentInv, Reset \/ StartWindow \/ EndWindow
  PROVE  ExperimentInv'
<1> USE DEF ExperimentInv, ExperimentTypeOK
<1>1. /\ mode = "run" /\ Now \in {"reset", "window", "endwindow"} /\ GoOn
      /\ UNCHANGED <<client, prompts, promptsDraft, server, written>>
  BY DEF Reset, StartWindow, EndWindow, Is, files, monitor, env
<1>2. stage = "off" /\ exit = "running" /\ code = "running"
  BY <1>1, NoClientRuns
<1>3. stage' = "off" /\ exit' = "running" /\ UNCHANGED <<prompts, promptsDraft>>
  BY <1>1, <1>2 DEF client
<1>4. step # 2
  BY <1>1, FirstSteps
<1>5. ClientTypeOK' /\ ClientInv'
  BY <1>1, SameClient
<1>6. ScriptTypeOK'
  BY <1>1, <1>2, <1>3, GoOnType DEF ScriptTypeOK
<1>7. ScriptInv'
  BY <1>1, <1>2, <1>3, GoOnFacts DEF ScriptInv
<1>8. PlaceInv'
  BY <1>1, <1>2, <1>4, PlaceGoesOn DEF ServersTypeOK
<1>9. EndInv'
  BY <1>1, <1>2, EndGoesOn
<1>10. ServersTypeOK' /\ ServerInv'
  <2>1. CASE Reset
    <3>1. PICK v \in Listening : dirty' = dirty \ {v}
      BY <2>1 DEF Reset, Answering
    <3>2. UNCHANGED <<window, queued, pressed, measured>>
      BY <2>1 DEF Reset, monitor, history
    <3>3. ServersTypeOK'
      BY <1>1, <3>1, <3>2 DEF ServersTypeOK
    <3>4. ServerInv'
      BY <1>1, <3>1, <3>2, CallKeepsServers
    <3> QED BY <3>3, <3>4
  <2>2. CASE StartWindow
    <3>1. PICK v \in Listening : /\ window' = [window EXCEPT ![v] = WindowId]
                                 /\ pressed' = pressed \ {v}
                                 /\ measured' = [measured EXCEPT ![point].clean = v \notin dirty]
      BY <2>2 DEF StartWindow, Answering
    <3>2. UNCHANGED <<queued, dirty>> /\ v \in Server
      BY <2>2 DEF StartWindow, env, Listening
    <3>3. WindowId \in Nat
      BY OwnServer DEF WindowId
    <3>4. measured' \in [1 .. Points -> [by : SUBSET Server, clean : BOOLEAN]]
      BY <3>1 DEF ServersTypeOK, ScriptTypeOK
    <3>5. ServersTypeOK'
      BY <1>1, <3>1, <3>2, <3>3, <3>4 DEF ServersTypeOK
    <3>6. \A w \in Server : w # v => window'[w] = window[w]
      BY <3>1 DEF ServersTypeOK
    <3>7. ServerInv'
      BY <1>1, <3>2, <3>6, CallKeepsServers
    <3> QED BY <3>5, <3>7
  <2>3. CASE EndWindow
    <3>1. PICK v \in Listening : /\ window' = [window EXCEPT ![v] = 0]
                                 /\ \/ queued' = [queued EXCEPT ![v] = @ \cup {Summary}]
                                    \/ queued' = queued
      BY <2>3 DEF EndWindow, Answering
    <3>2. UNCHANGED <<pressed, dirty, measured>> /\ v \in Server
      BY <2>3 DEF EndWindow, env, history, Listening
    <3>3. Summary \in Records
      BY DEF Summary, Records
    <3>4. ServersTypeOK'
      BY <1>1, <3>1, <3>2, <3>3 DEF ServersTypeOK
    <3>5. \A w \in Server : w # v => window'[w] = window[w] /\ queued'[w] = queued[w]
      BY <3>1 DEF ServersTypeOK
    <3>6. ServerInv'
      BY <1>1, <3>2, <3>5, CallKeepsServers
    <3> QED BY <3>4, <3>6
  <2> QED BY <2>1, <2>2, <2>3
<1>11. SweepInv'
  <2>1. script' = script
    BY <1>1, <1>2, GoOnFacts
  <2>2. CASE script = "none"
    BY <1>1, <1>2, <1>3, <2>2, SweepResets, SweepOpensWindow, SweepClosesWindow
  <2> QED BY <2>1, <2>2, ArmIsFree
<1> QED BY <1>5, <1>6, <1>7, <1>8, <1>9, <1>10, <1>11

(* A server is started where none was.                                     *)
LEMMA StartKeeps ==
  ASSUME ExperimentInv, StartServer
  PROVE  ExperimentInv'
<1> USE DEF ExperimentInv, ExperimentTypeOK
<1>1. /\ mode = "run" /\ Now = "start" /\ GoOn /\ server' = [server EXCEPT ![Own] = "starting"]
      /\ UNCHANGED <<client, files, monitor, dirty, faults, measured>>
  BY DEF StartServer, Is, history
<1>2. stage = "off" /\ exit = "running" /\ code = "running"
  BY <1>1, NoClientRuns
<1>3. UNCHANGED <<stage, exit, prompts, promptsDraft, window, queued, written, pressed>>
  BY <1>1 DEF client, files, monitor
<1>4. step = 2 /\ step # Len(Steps[script])
  <2>1. step = 2
    BY <1>1, FirstSteps
  <2>2. Now \notin {"wait", "qualify"}
    BY <1>1
  <2> QED BY <2>1, <2>2, FirstSteps
<1>5. /\ script' = script /\ number' = number /\ step' = 3 /\ point' = point
      /\ mode' = "run" /\ code' = "running"
  <2>1. 2 + 1 = 3 /\ Now # "wait"
    BY <1>1
  <2> QED BY <1>1, <1>2, <1>4, <2>1, GoOnFacts
<1>6. Own \in Server /\ Own' = Own /\ server[Own] = "none"
  BY <1>4, <1>5, OwnServer DEF Own, PlaceInv
<1>7. /\ server'[Own] = "starting" /\ \A w \in Server : w # Own => server'[w] = server[w]
      /\ server' \in [Server -> States]
  BY <1>1, <1>6 DEF ServersTypeOK, States
<1>8. ClientTypeOK' /\ ClientInv'
  BY <1>1, SameClient
<1>9. ScriptTypeOK'
  BY <1>1, <1>2, <1>3, GoOnType DEF ScriptTypeOK
<1>10. ServersTypeOK'
  BY <1>1, <1>3, <1>7 DEF ServersTypeOK
<1>11. ScriptInv'
  BY <1>2, <1>3, <1>5 DEF ScriptInv
<1>12. ServerInv'
  BY <1>1, <1>3, <1>6, StartKeepsServers
<1>13. PlaceInv'
  <2>1. \A m \in 1 .. MaxScripts, p \in 1 .. Points :
          m > number \/ (m = number /\ p > point) =>
            <<m, p>> \in Server /\ <<m, p>> # Own /\ server[<<m, p>>] = "none"
    BY OwnServer DEF PlaceInv, Server, Own
  <2>2. \A p \in 1 .. Points : p < point =>
          <<number, p>> \in Server /\ <<number, p>> # Own /\ server[<<number, p>>] = "ended"
    BY OwnServer DEF PlaceInv, Own
  <2> QED BY <1>5, <1>6, <1>7, <2>1, <2>2 DEF PlaceInv
<1>14. SweepInv'
  <2>1. CASE script = "none"
    BY <1>1, <1>2, <1>3, <1>4, <2>1, SweepGoesOn
  <2> QED BY <1>5, <2>1, ArmIsFree
<1>15. EndInv'
  BY <1>1, <1>2, EndGoesOn
<1> QED BY <1>8, <1>9, <1>10, <1>11, <1>12, <1>13, <1>14, <1>15

(* The script stops its server.                                            *)
LEMMA KillKeeps ==
  ASSUME ExperimentInv, KillServer
  PROVE  ExperimentInv'
<1> USE DEF ExperimentInv, ExperimentTypeOK
<1>1. /\ mode = "run" /\ Now = "kill" /\ GoOn /\ TellToStop(Own) /\ Own \in Alive
      /\ UNCHANGED <<client, files, monitor, dirty, faults, measured>>
  BY DEF KillServer, Is, history
<1>2. stage = "off" /\ exit = "running" /\ code = "running"
  BY <1>1, NoClientRuns
<1>3. UNCHANGED <<stage, exit, prompts, promptsDraft, window, queued, written, pressed>>
  BY <1>1 DEF client, files, monitor
<1>4. step # 2 /\ Own \in Server
  BY <1>1, FirstSteps, OwnServer
<1>5. /\ server' \in [Server -> States]
      /\ \A w \in Server : server'[w] = server[w] \/ (w \in Alive /\ server'[w] # "none")
  BY <1>1, <1>4, Telling DEF ServersTypeOK
<1>6. ClientTypeOK' /\ ClientInv'
  BY <1>1, SameClient
<1>7. ScriptTypeOK'
  BY <1>1, <1>2, <1>3, GoOnType DEF ScriptTypeOK
<1>8. ServersTypeOK'
  BY <1>1, <1>3, <1>5 DEF ServersTypeOK
<1>9. ScriptInv'
  BY <1>1, <1>2, <1>3, GoOnFacts DEF ScriptInv
<1>10. ServerInv'
  BY <1>1, <1>3, <1>4, TellKeepsServers
<1>11. PlaceInv'
  BY <1>1, <1>2, <1>4, <1>5, PlaceGoesOn DEF ServersTypeOK
<1>12. SweepInv'
  <2>1. script' = script
    BY <1>1, <1>2, GoOnFacts
  <2>2. CASE script = "none"
    <3>1. step = 10
      BY <1>1, <2>2, SweepSteps DEF ScriptTypeOK
    <3> QED BY <1>1, <1>2, <1>3, <2>2, <3>1, SweepGoesOn
  <2> QED BY <2>1, <2>2, ArmIsFree
<1>13. EndInv'
  BY <1>1, <1>2, EndGoesOn
<1> QED BY <1>6, <1>7, <1>8, <1>9, <1>10, <1>11, <1>12, <1>13

(* The trap stops it.                                                      *)
LEMMA TrapKeeps ==
  ASSUME ExperimentInv, TrapKills
  PROVE  ExperimentInv'
<1> USE DEF ExperimentInv, ExperimentTypeOK
<1>1. /\ Own \in Alive /\ TellToStop(Own)
      /\ UNCHANGED <<client, position, control, files, monitor, dirty, faults, measured>>
  BY DEF TrapKills, Cleanup, history
<1>2. /\ UNCHANGED <<stage, exit, kind, result, prompts, promptsDraft, window, queued, written>>
      /\ UNCHANGED <<pressed, step, mode, code, number, point>>
  BY <1>1 DEF client, files, monitor, control, position
<1>3. Own \in Server /\ Own' = Own
  BY <1>2, OwnServer DEF Own
<1>4. /\ server' \in [Server -> States] /\ Told(Own)' /\ Alive' = Alive
      /\ \A w \in Server : server'[w] = server[w] \/ (w \in Alive /\ server'[w] # "none")
  BY <1>1, <1>3, Telling DEF ServersTypeOK, Told
<1>5. ClientTypeOK' /\ ClientInv'
  BY <1>1, SameClient
<1>6. ScriptTypeOK'
  BY <1>1, <1>2, SamePlaceType DEF ScriptTypeOK
<1>7. ServersTypeOK'
  BY <1>1, <1>2, <1>4 DEF ServersTypeOK
<1>8. ScriptInv'
  BY <1>1, <1>2, ScriptStays
<1>9. ServerInv'
  BY <1>1, <1>2, <1>3, TellKeepsServers
<1>10. PlaceInv'
  BY <1>1, <1>2, <1>4, PlaceStays
<1>11. SweepInv'
  <2>1. server[Own] # "ended" /\ Prompts' = Prompts
    BY <1>1, <1>2, AliveServers DEF Prompts, Streams
  <2> QED BY <1>1, <1>2, <2>1, SweepStays
<1>12. EndInv'
  <2> QED BY <1>1, <1>2, <1>4, EndStays
<1> QED BY <1>5, <1>6, <1>7, <1>8, <1>9, <1>10, <1>11, <1>12

(* The trap is through.                                                    *)
LEMMA TrapEndKeeps ==
  ASSUME ExperimentInv, TrapEnds
  PROVE  ExperimentInv'
<1> USE DEF ExperimentInv, ExperimentTypeOK
<1>1. /\ mode = "trap" /\ mode' = "over"
      /\ UNCHANGED <<client, position, step, code, files, monitor, env, measured>>
  BY DEF TrapEnds, history
<1>2. /\ UNCHANGED <<stage, exit, kind, result, prompts, promptsDraft, window, queued, written>>
      /\ UNCHANGED <<pressed, server, dirty>>
  BY <1>1 DEF client, files, monitor, env
<1>3. stage = "off" /\ code # "running"
  BY <1>1 DEF ScriptInv, IsLoad, Is
<1>4. ClientTypeOK' /\ ClientInv'
  BY <1>1, SameClient
<1>5. ScriptTypeOK'
  BY <1>1, <1>2, SamePlaceType DEF ScriptTypeOK
<1>6. ServersTypeOK'
  BY <1>1, <1>2 DEF ServersTypeOK
<1>7. ScriptInv'
  BY <1>1, <1>2, <1>3 DEF ScriptInv
<1>8. ServerInv'
  BY <1>2, ServerInvSame
<1>9. PlaceInv'
  BY <1>1, <1>2, PlaceStays
<1>10. SweepInv'
  <2>1. Prompts' = Prompts
    BY <1>2 DEF Prompts, Streams
  <2> QED BY <1>1, <1>2, <2>1, SweepStays
<1>11. EndInv'
  BY EndTraps
<1> QED BY <1>4, <1>5, <1>6, <1>7, <1>8, <1>9, <1>10, <1>11

(* The script is killed, and its client.                                   *)
LEMMA KilledKeeps ==
  ASSUME ExperimentInv, KillScript
  PROVE  ExperimentInv'
<1> USE DEF ExperimentInv, ExperimentTypeOK
<1>1. /\ mode' = "over" /\ code' = "killed"
      /\ IF stage = "off" THEN UNCHANGED client ELSE Killed
      /\ UNCHANGED <<position, step, files, monitor, env, measured>>
  BY DEF KillScript, history
<1>2. /\ UNCHANGED <<kind, result, prompts, promptsDraft, window, queued, written>>
      /\ UNCHANGED <<pressed, server, dirty>> /\ stage' = "off"
      /\ stage = "off" => exit' = exit
  BY <1>1 DEF client, files, monitor, env, Killed
<1>3. ClientTypeOK' /\ ClientInv'
  BY <1>1, SameClient, BreakKeeps
<1>4. ScriptTypeOK'
  BY <1>1, <1>2, SamePlaceType DEF ScriptTypeOK
<1>5. ServersTypeOK'
  BY <1>1, <1>2 DEF ServersTypeOK
<1>6. ScriptInv'
  BY <1>1, <1>2 DEF ScriptInv
<1>7. ServerInv'
  BY <1>2, ServerInvSame
<1>8. PlaceInv'
  BY <1>1, <1>2, PlaceStays
<1>9. SweepInv'
  <2>1. Prompts' = Prompts
    BY <1>2 DEF Prompts, Streams
  <2> QED BY <1>1, <1>2, <2>1, SweepStays
<1>10. EndInv'
  BY <1>1, <1>2, EndKilled
<1> QED BY <1>3, <1>4, <1>5, <1>6, <1>7, <1>8, <1>9, <1>10

(* The next script.                                                        *)
LEMMA NextKeeps ==
  ASSUME ExperimentInv, NextScript
  PROVE  ExperimentInv'
<1> USE DEF ExperimentInv, ExperimentTypeOK
<1>1. /\ number' = number + 1 /\ point' = 1 /\ step' = 1 /\ mode' = "run" /\ code' = "running"
      /\ prompts' \in {"absent", prompts} /\ promptsDraft' = "absent" /\ script' \in Scripts
      /\ stage' = "off" /\ exit' = "running" /\ number < MaxScripts
      /\ queued' = NoRecords /\ written' = NoRecords /\ measured' = Unmeasured
      /\ UNCHANGED <<window, pressed, server, dirty>>
  BY DEF NextScript, Fresh, env
<1>2. 1 \in 1 .. Points /\ number + 1 \in 1 .. MaxScripts /\ number \in Nat
  BY <1>1, ExperimentAssumption DEF ScriptTypeOK
<1>3. ClientTypeOK' /\ ClientInv'
  BY FreshKeeps DEF NextScript, Kinds
<1>4. ScriptTypeOK'
  <2>1. step' \in 1 .. Len(Steps[script'])
    BY <1>1, ExperimentAssumption DEF Steps
  <2> QED BY <1>1, <1>2, <2>1, ExperimentAssumption DEF ScriptTypeOK
<1>5. ServersTypeOK'
  BY <1>1 DEF ServersTypeOK, NoRecords, Unmeasured
<1>6. ScriptInv'
  BY <1>1 DEF ScriptInv
<1>7. ServerInv'
  BY NextKeepsServers
<1>8. PlaceInv'
  <2>1. \A m \in 1 .. MaxScripts, p \in 1 .. Points :
          m > number + 1 \/ (m = number + 1 /\ p > 1) => server[<<m, p>>] = "none"
    BY <1>2 DEF PlaceInv
  <2>2. server[<<number + 1, 1>>] = "none"
    BY <1>2 DEF PlaceInv
  <2>3. \A p \in 1 .. Points : ~(p < 1)
    OBVIOUS
  <2> QED BY <1>1, <2>1, <2>2, <2>3 DEF PlaceInv, Own
<1>9. SweepInv'
  BY SweepBegins
<1>10. EndInv'
  BY EndBegins
<1> QED BY <1>3, <1>4, <1>5, <1>6, <1>7, <1>8, <1>9, <1>10

(* A server ends.                                                          *)
LEMMA EndsKeeps ==
  ASSUME ExperimentInv, NEW v \in Server, v \in Alive, Ends(v)
  PROVE  ExperimentInv'
<1> USE DEF ExperimentInv, ExperimentTypeOK
<1>1. /\ server'[v] = "ended" /\ window'[v] = 0 /\ queued'[v] = {}
      /\ \A w \in Server : w # v => /\ server'[w] = server[w] /\ window'[w] = window[w]
                                    /\ queued'[w] = queued[w]
      /\ UNCHANGED <<written, dirty, measured, position, control, files>>
      /\ pressed' = pressed \ {v}
      /\ server' \in [Server -> States] /\ window' \in [Server -> Nat]
      /\ queued' \in [Server -> SUBSET Records]
      /\ Alive' = Alive \ {v}
  BY Ending
<1>2. /\ UNCHANGED <<kind, concurrency, stage, cursor, result, draft, output, exit>>
      /\ flight' = [s \in Prompt |-> IF v \in Listening /\ flight[s] = "sent"
                                     THEN "lost" ELSE flight[s]]
  BY DEF Ends
<1>3. Own \in Server /\ Own' = Own /\ UNCHANGED <<prompts, promptsDraft, step, mode, code>>
  BY <1>1, OwnServer DEF Own, position, files, control
<1>4. ClientTypeOK' /\ ClientInv'
  BY <1>2, LostKeeps
<1>5. ScriptTypeOK'
  BY <1>1, <1>3, SamePlaceType DEF ScriptTypeOK
<1>6. ServersTypeOK'
  BY <1>1 DEF ServersTypeOK
<1>7. ScriptInv'
  BY <1>1, <1>2, <1>3, ScriptStays
<1>8. ServerInv'
  BY EndKeepsServers
<1>9. PlaceInv'
  <2>1. \A w \in Server : server'[w] = server[w] \/ (w \in Alive /\ server'[w] # "none")
    BY <1>1
  <2> QED BY <1>1, <1>3, <2>1, PlaceStays
<1>10. Prompts' = Prompts
  BY <1>2 DEF Prompts, Streams
<1>11. SweepInv'
  <2>1. server[Own] = "ended" => server'[Own] = "ended"
    BY <1>1, <1>3
  <2>2. window'[Own] # 0 => window[Own] # 0
    BY <1>1, <1>3
  <2>3. Summary \in queued'[Own] \cup written'[Own] => Summary \in queued[Own] \cup written[Own]
    BY <1>1, <1>3
  <2> QED BY <1>1, <1>2, <1>3, <1>10, <2>1, <2>2, <2>3, SweepStays
<1>12. EndInv'
  <2>1. Told(Own) => Told(Own)' \/ Own \notin Alive'
    BY <1>1, <1>3 DEF Told
  <2> QED BY <1>1, <1>10, <2>1, EndStays
<1> QED BY <1>4, <1>5, <1>6, <1>7, <1>8, <1>9, <1>11, <1>12

(* A server has loaded.                                                    *)
LEMMA ServesKeeps ==
  ASSUME ExperimentInv, NEW v \in Server, Serves(v)
  PROVE  ExperimentInv'
<1> USE DEF ExperimentInv, ExperimentTypeOK
<1>1. /\ Alive' = Alive /\ v \in Alive /\ ~Told(v)
      /\ server'[v] = "serving" /\ server' \in [Server -> States]
      /\ \A w \in Server : w # v => server'[w] = server[w]
      /\ UNCHANGED <<client, position, control, files, monitor, dirty, measured>>
  BY Serving
<1>2. /\ UNCHANGED <<stage, exit, kind, result, prompts, promptsDraft, window, queued, written>>
      /\ UNCHANGED <<pressed, step, mode, code, number, point>>
  BY <1>1 DEF client, files, monitor, control, position
<1>3. Own \in Server /\ Own' = Own /\ Prompts' = Prompts
  BY <1>2, OwnServer DEF Own, Prompts, Streams
<1>4. ClientTypeOK' /\ ClientInv'
  BY <1>1, SameClient
<1>5. ScriptTypeOK'
  BY <1>1, <1>2, SamePlaceType DEF ScriptTypeOK
<1>6. ServersTypeOK'
  BY <1>1, <1>2 DEF ServersTypeOK
<1>7. ScriptInv'
  BY <1>1, <1>2, ScriptStays
<1>8. ServerInv'
  BY ServeKeepsServers
<1>9. PlaceInv'
  <2>1. \A w \in Server : server'[w] = server[w] \/ (w \in Alive /\ server'[w] # "none")
    BY <1>1
  <2> QED BY <1>1, <1>2, <2>1, PlaceStays
<1>10. SweepInv'
  <2>1. server[Own] = "ended" => server'[Own] = "ended"
    BY <1>1, <1>3, AliveServers
  <2> QED BY <1>1, <1>2, <1>3, <2>1, SweepStays
<1>11. EndInv'
  <2>1. Told(Own) => Told(Own)'
    BY <1>1, <1>3 DEF Told
  <2> QED BY <1>1, <1>2, <1>3, <2>1, EndStays
<1> QED BY <1>4, <1>5, <1>6, <1>7, <1>8, <1>9, <1>10, <1>11

(* A monitor writes a record.                                              *)
LEMMA RecordKeeps ==
  ASSUME ExperimentInv, NEW v \in Server, WritesRecord(v)
  PROVE  ExperimentInv'
<1> USE DEF ExperimentInv, ExperimentTypeOK
<1>1. /\ UNCHANGED <<client, position, control, files, window, pressed, env, measured>>
      /\ queued' \in [Server -> SUBSET Records] /\ written' \in [Server -> SUBSET Records]
      /\ \A w \in Server : /\ queued'[w] \cup written'[w] = queued[w] \cup written[w]
                           /\ written[w] \subseteq written'[w]
  BY RecordFacts
<1>2. /\ UNCHANGED <<stage, exit, kind, result, prompts, promptsDraft, server, dirty>>
      /\ UNCHANGED <<step, mode, code, number, point>>
  BY <1>1 DEF client, files, env, control, position
<1>3. Own \in Server /\ Own' = Own /\ Prompts' = Prompts
  BY <1>2, OwnServer DEF Own, Prompts, Streams
<1>4. ClientTypeOK' /\ ClientInv'
  BY <1>1, SameClient
<1>5. ScriptTypeOK'
  BY <1>1, <1>2, SamePlaceType DEF ScriptTypeOK
<1>6. ServersTypeOK'
  BY <1>1, <1>2 DEF ServersTypeOK
<1>7. ScriptInv'
  BY <1>1, <1>2, ScriptStays
<1>8. ServerInv'
  BY RecordKeepsServers
<1>9. PlaceInv'
  BY <1>1, <1>2, PlaceStays
<1>10. SweepInv'
  BY <1>1, <1>2, <1>3, SweepStays
<1>11. EndInv'
  <2>1. Alive' = Alive /\ Told(Own)' = Told(Own)
    BY <1>2, <1>3, SameServers DEF Told
  <2> QED BY <1>1, <1>3, <2>1, EndStays
<1> QED BY <1>4, <1>5, <1>6, <1>7, <1>8, <1>9, <1>10, <1>11

(* A server is under pressure.                                             *)
LEMMA PressKeeps ==
  ASSUME ExperimentInv, NEW v \in Server, Presses(v)
  PROVE  ExperimentInv'
<1> USE DEF ExperimentInv, ExperimentTypeOK
<1>1. /\ v \in Listening /\ pressed' \in {pressed, pressed \cup {v}}
      /\ UNCHANGED <<client, position, control, files, window, queued, written, server,
                     dirty, measured>>
  BY DEF Presses
<1>2. /\ UNCHANGED <<stage, exit, kind, result, prompts, promptsDraft>>
      /\ UNCHANGED <<step, mode, code, number, point>>
  BY <1>1 DEF client, files, control, position
<1>3. Own \in Server /\ Own' = Own /\ Prompts' = Prompts
  BY <1>2, OwnServer DEF Own, Prompts, Streams
<1>4. ClientTypeOK' /\ ClientInv'
  BY <1>1, SameClient
<1>5. ScriptTypeOK'
  BY <1>1, <1>2, SamePlaceType DEF ScriptTypeOK
<1>6. ServersTypeOK'
  BY <1>1 DEF ServersTypeOK
<1>7. ScriptInv'
  BY <1>1, <1>2, ScriptStays
<1>8. ServerInv'
  BY <1>1, ServerInvSame
<1>9. PlaceInv'
  BY <1>1, <1>2, PlaceStays
<1>10. SweepInv'
  BY <1>1, <1>2, <1>3, SweepStays
<1>11. EndInv'
  <2>1. Alive' = Alive /\ Told(Own)' = Told(Own)
    BY <1>1, <1>3, SameServers DEF Told
  <2> QED BY <1>1, <1>3, <2>1, EndStays
<1> QED BY <1>4, <1>5, <1>6, <1>7, <1>8, <1>9, <1>10, <1>11

(* A request is answered.                                                  *)
LEMMA AnswerKeeps ==
  ASSUME ExperimentInv, NEW s, NEW v \in Listening, NEW answer, Answers(s, v, answer)
  PROVE  ExperimentInv'
<1> USE DEF ExperimentInv, ExperimentTypeOK
<1>1. /\ UNCHANGED <<position, control, files, window, written, pressed, server>>
      /\ queued' \in [Server -> SUBSET Records]
      /\ dirty' = dirty \cup {v} /\ v \in Server
      /\ \A w \in Server : w # v => queued'[w] = queued[w]
      /\ measured' \in [1 .. Points -> [by : SUBSET Server, clean : BOOLEAN]]
      /\ stage = "sending" /\ stage' = stage /\ exit' = exit
  BY AnswerFacts
<1>2. Receive(s, answer)
  BY DEF Answers
<1>3. ClientTypeOK' /\ ClientInv'
  BY <1>2, ReceiveKeeps
<1>4. UNCHANGED <<prompts, promptsDraft, step, mode, code, number, point>> /\ kind' = kind
  BY <1>1, <1>2 DEF files, control, position, Receive
<1>5. Own \in Server /\ Own' = Own /\ Prompts' = Prompts
  BY <1>4, OwnServer DEF Own, Prompts, Streams
<1>6. ScriptTypeOK'
  BY <1>1, <1>4, SamePlaceType DEF ScriptTypeOK
<1>7. ServersTypeOK'
  BY <1>1 DEF ServersTypeOK
<1>8. ScriptInv'
  BY <1>1, <1>4, ScriptStays
<1>9. ServerInv'
  BY <1>1, CallKeepsServers
<1>10. PlaceInv'
  BY <1>1, <1>4, PlaceStays
<1>11. SweepInv'
  BY SweepMeasures
<1>12. EndInv'
  <2>1. Alive' = Alive /\ Told(Own)' = Told(Own)
    BY <1>1, <1>5, SameServers DEF Told
  <2> QED BY <1>1, <1>5, <2>1, EndStays
<1> QED BY <1>3, <1>6, <1>7, <1>8, <1>9, <1>10, <1>11, <1>12

(* The steps of the client and of the generator that the script waits for. *)
LEMMA QuietSteps ==
  ASSUME ExperimentInv,
         \/ GenerateOpen \/ Verify \/ RunClient \/ ClientSends \/ ClientFinishes
         \/ ClientWriteFails \/ \E s \in Senders : ConnectionLost(s)
  PROVE  ExperimentInv'
<1>1. /\ ClientTypeOK /\ ClientInv /\ ScriptTypeOK /\ ScriptInv
  BY DEF ExperimentInv, ExperimentTypeOK
<1>2. CASE GenerateOpen \/ Verify
  <2>1. /\ UNCHANGED <<client, position, control, prompts, monitor, env, measured>>
        /\ promptsDraft' \in {"part", "whole"}
    BY <1>2 DEF GenerateOpen, Verify, history
  <2>2. UNCHANGED <<stage, exit, kind, result, server, dirty>> /\ Prompts' = Prompts
    BY <2>1 DEF client, env, Prompts, Streams
  <2>3. ClientTypeOK' /\ ClientInv'
    BY <1>1, <2>1, SameClient
  <2> QED BY <2>1, <2>2, <2>3, QuietKeeps
<1>3. CASE RunClient
  <2>1. /\ IsLoad /\ stage = "off" /\ Fresh(ClientKind, point, "sending")
        /\ UNCHANGED <<position, control, files, monitor, env, measured>>
    BY <1>3 DEF RunClient, Launch, history
  <2>2. ClientKind \in Kinds /\ point \in Nat \ {0}
    BY <1>1, ExperimentAssumption DEF ClientKind, Kinds, ScriptTypeOK
  <2>3. ClientTypeOK' /\ ClientInv'
    BY <2>1, <2>2, FreshKeeps
  <2>4. exit' = "running" /\ \A p \in Prompts' : result'[p] = "none"
    BY <2>1 DEF Fresh, Prompts
  <2>5. UNCHANGED <<prompts, server, dirty>> /\ promptsDraft' \in {"absent", "part", "whole"}
    BY <1>1, <2>1 DEF files, env, ScriptTypeOK
  <2> QED BY <2>1, <2>3, <2>4, <2>5, QuietKeeps
<1>4. CASE ClientSends
  <2>1. PICK s : Send(s, Listening # {})
    BY <1>4 DEF ClientSends
  <2>2. /\ UNCHANGED <<position, control, files, monitor, env, measured>>
        /\ UNCHANGED <<kind, stage, result, exit>>
    BY <1>4, <2>1 DEF ClientSends, Send, history
  <2>3. ClientTypeOK' /\ ClientInv'
    <3>1. (Listening # {}) \in BOOLEAN
      OBVIOUS
    <3> QED BY <1>1, <2>1, <3>1, SendKeeps
  <2>4. UNCHANGED <<prompts, server, dirty>> /\ promptsDraft' \in {"absent", "part", "whole"}
    BY <1>1, <2>2 DEF files, env, ScriptTypeOK
  <2>5. Prompts' = Prompts
    BY <2>2 DEF Prompts, Streams
  <2> QED BY <2>2, <2>3, <2>4, <2>5, QuietKeeps
<1>5. CASE ClientFinishes \/ ClientWriteFails
  <2>1. /\ UNCHANGED <<position, control, files, monitor, server, dirty, measured>>
        /\ Finish \/ WriteFails
    BY <1>5 DEF ClientFinishes, ClientWriteFails, env, history
  <2>2. /\ stage # "off" /\ kind' = kind /\ result' = result
        /\ exit' = exit \/ exit' \in {"0", "1", "raised"}
    BY <2>1 DEF Finish, Open, WriteLines, Replace, Return, WriteFails, Leave
  <2>3. ClientTypeOK' /\ ClientInv'
    BY <1>1, <2>1, FinishKeeps, BreakKeeps
  <2>4. IsLoad /\ Prompts' = Prompts
    BY <1>1, <2>2 DEF ScriptInv, Prompts, Streams
  <2>5. prompts' = prompts /\ promptsDraft' \in {"absent", "part", "whole"}
    BY <1>1, <2>1 DEF files, ScriptTypeOK
  <2> QED BY <2>1, <2>2, <2>3, <2>4, <2>5, QuietKeeps
<1>6. CASE \E s \in Senders : ConnectionLost(s)
  <2>1. PICK s : /\ Receive(s, "broken")
                 /\ UNCHANGED <<position, control, files, monitor, env, measured>>
    BY <1>6 DEF ConnectionLost, history
  <2>2. ClientTypeOK' /\ ClientInv' /\ result' = [result EXCEPT ![Current(s)] = "failed"]
    BY <1>1, <2>1, ReceiveKeeps DEF Judge
  <2>3. UNCHANGED <<kind, stage, exit>> /\ Prompts' = Prompts
    BY <2>1 DEF Receive, Prompts, Streams
  <2>4. \A p \in Prompts : result'[p] = "ok" => result[p] = "ok"
    BY <1>1, <2>2, WidthFacts DEF ClientTypeOK
  <2>5. UNCHANGED <<prompts, server, dirty>> /\ promptsDraft' \in {"absent", "part", "whole"}
    BY <1>1, <2>1 DEF files, env, ScriptTypeOK
  <2> QED BY <2>1, <2>2, <2>3, <2>4, <2>5, QuietKeeps
<1> QED BY <1>2, <1>3, <1>4, <1>5, <1>6

(* The script takes the client's exit code.                                *)
LEMMA ExitKeeps ==
  ASSUME ExperimentInv, ClientExits
  PROVE  ExperimentInv'
<1>1. /\ ClientTypeOK /\ ClientInv /\ ScriptTypeOK /\ ScriptInv /\ SweepInv
  BY DEF ExperimentInv, ExperimentTypeOK
<1>2. /\ IsLoad /\ mode = "run" /\ stage = "off" /\ exit # "running" /\ exit' = "running"
      /\ IF exit = "0" THEN GoOn ELSE Fail
      /\ UNCHANGED <<kind, concurrency, stage, cursor, flight, result, draft, output,
                     files, monitor, env, measured>>
  BY DEF ClientExits, IsLoad, Is, history
<1>3. ClientTypeOK' /\ ClientInv'
  BY <1>1, <1>2, TakenKeeps DEF ScriptInv
<1>4. /\ UNCHANGED <<server, dirty, prompts, promptsDraft>>
      /\ prompts \in {"absent", "whole"} /\ promptsDraft \in {"absent", "part", "whole"}
  BY <1>1, <1>2 DEF env, files, ScriptTypeOK, ScriptInv
<1>5. Now \in {"warmup", "measure"}
  BY <1>2 DEF IsLoad, Is
<1>6. CASE exit = "0"
  <2>1. script = "none" /\ Now = "measure" => measured[point].by # {}
    <3>1. \E p \in Prompts : result[p] = "ok"
      <4>1. \A p \in Prompts : result[p] = "ok"
        BY <1>1, <1>6 DEF ClientInv, ExitTellsTheTruth
      <4>2. \E p \in Prompts : TRUE
        <5>1. \E t \in Streams : t \in Stream
          BY DEF Streams, Stream
        <5>2. 0 \in 0 .. PromptCount - 1
          BY PromptAssumption
        <5>3. PICK t \in Streams : t \in Stream
          BY <5>1
        <5>4. [stream |-> t, number |-> 0] \in Prompts
          BY <5>2, <5>3 DEF Prompts, Prompt
        <5> QED BY <5>4
      <4> QED BY <4>1, <4>2
    <3>2. script = "none" /\ Now = "measure" => step = 7
      BY <1>1, SweepSteps DEF ScriptTypeOK
    <3> QED BY <1>1, <1>2, <3>1, <3>2 DEF SweepInv
  <2> QED BY <1>2, <1>3, <1>4, <1>5, <1>6, <2>1, GoOnKeeps
<1>7. CASE exit # "0"
  BY <1>2, <1>3, <1>4, <1>7, FailKeeps
<1> QED BY <1>6, <1>7

(* The other steps after which the script goes on.                         *)
LEMMA GoOnSteps ==
  ASSUME ExperimentInv, mode = "run", GoOn,
         \/ Publish \/ PromptsExist \/ Ready \/ Flush \/ NothingToKill \/ ServerStopped \/ Qualify
  PROVE  ExperimentInv'
<1>1. /\ ClientTypeOK /\ ClientInv /\ ScriptTypeOK /\ ScriptInv
  BY DEF ExperimentInv, ExperimentTypeOK
<1>2. /\ UNCHANGED <<client, monitor, env, measured>>
      /\ Now \in {"prompts", "ready", "flush", "kill", "wait", "qualify"}
      /\ prompts' = prompts \/ prompts' = "whole"
      /\ promptsDraft' = promptsDraft \/ promptsDraft' = "absent"
  BY DEF Publish, PromptsExist, Ready, Flush, NothingToKill, ServerStopped, Qualify, Is, files, env,
         history
<1>3. stage = "off" /\ exit = "running"
  BY <1>1, <1>2, NoClientRuns
<1>4. /\ UNCHANGED <<server, dirty>> /\ stage' = "off" /\ exit' = "running"
  BY <1>2, <1>3 DEF env, client
<1>5. prompts' \in {"absent", "whole"} /\ promptsDraft' \in {"absent", "part", "whole"}
  BY <1>1, <1>2 DEF ScriptTypeOK, ScriptInv
<1>6. ClientTypeOK' /\ ClientInv'
  BY <1>1, <1>2, SameClient
<1>7. Now = "wait" => Own \notin Alive
  BY DEF Publish, PromptsExist, Ready, Flush, NothingToKill, ServerStopped, Qualify, Is
<1>8. Now = "flush" => Summary \in written[Own]
  BY DEF Publish, PromptsExist, Ready, Flush, NothingToKill, ServerStopped, Qualify, Is, Flushed
<1>9. Now # "measure" /\ Now \notin {"start", "reset", "window", "endwindow"}
  BY <1>2
<1> QED BY <1>2, <1>4, <1>5, <1>6, <1>7, <1>8, <1>9, GoOnKeeps

(* And those that fail.                                                    *)
LEMMA FailSteps ==
  ASSUME ExperimentInv, mode = "run", Fail,
         \/ GenerateFails \/ NotReady \/ CallFails \/ FlushTimesOut \/ NothingToKill
         \/ StopTimesOut \/ Qualify \/ ArchiveFails
  PROVE  ExperimentInv'
<1>1. /\ ClientTypeOK /\ ClientInv /\ ScriptTypeOK /\ ScriptInv
  BY DEF ExperimentInv, ExperimentTypeOK
<1>2. /\ UNCHANGED <<client, monitor, server, dirty, measured, prompts>>
      /\ Now \notin {"warmup", "measure"}
      /\ promptsDraft' = promptsDraft \/ promptsDraft' = "absent"
  BY DEF GenerateFails, NotReady, CallFails, FlushTimesOut, NothingToKill, StopTimesOut, Qualify,
         ArchiveFails, Is, files, env, history
<1>3. stage = "off" /\ exit = "running"
  BY <1>1, <1>2, NoClientRuns
<1>4. stage' = "off" /\ exit' = "running"
  BY <1>2, <1>3 DEF client
<1>5. ClientTypeOK' /\ ClientInv'
  BY <1>1, <1>2, SameClient
<1> QED BY <1>2, <1>4, <1>5, FailKeeps

(* Steps that change nothing.                                              *)
LEMMA StutterKeeps ==
  ASSUME ExperimentInv, UNCHANGED vars
  PROVE  ExperimentInv'
<1>1. UNCHANGED <<client, position, control, files, monitor, env, measured>>
  BY DEF vars, history
<1>2. /\ ClientTypeOK /\ ClientInv /\ ScriptTypeOK
  BY DEF ExperimentInv, ExperimentTypeOK
<1>3. /\ UNCHANGED <<stage, exit, kind, result, server, dirty, prompts, promptsDraft>>
      /\ Prompts' = Prompts
  BY <1>1 DEF client, env, files, Prompts, Streams
<1>4. ClientTypeOK' /\ ClientInv'
  BY <1>1, <1>2, SameClient
<1>5. promptsDraft' \in {"absent", "part", "whole"}
  BY <1>2, <1>3 DEF ScriptTypeOK
<1> QED BY <1>1, <1>3, <1>4, <1>5, QuietKeeps

(* A server that no longer answers changes nothing yet.                    *)
LEMMA SilentKeeps ==
  ASSUME ExperimentInv, NEW v \in Server, GoesSilent(v)
  PROVE  ExperimentInv'
<1>1. /\ UNCHANGED <<client, position, control, files, monitor, server, dirty, measured>>
  BY DEF GoesSilent, history
<1>2. /\ ClientTypeOK /\ ClientInv /\ ScriptTypeOK
  BY DEF ExperimentInv, ExperimentTypeOK
<1>3. /\ UNCHANGED <<stage, exit, kind, result, prompts, promptsDraft>>
      /\ Prompts' = Prompts
  BY <1>1 DEF client, files, Prompts, Streams
<1>4. ClientTypeOK' /\ ClientInv'
  BY <1>1, <1>2, SameClient
<1>5. promptsDraft' \in {"absent", "part", "whole"}
  BY <1>2, <1>3 DEF ScriptTypeOK
<1> QED BY <1>1, <1>3, <1>4, <1>5, QuietKeeps

(* Every step keeps the invariant.                                         *)
LEMMA StepKeeps ==
  ASSUME ExperimentInv, [Next]_vars
  PROVE  ExperimentInv'
<1>1. ServersTypeOK /\ ScriptInv
  BY DEF ExperimentInv, ExperimentTypeOK
<1>2. CASE ScriptStep
  <2>1. CASE \/ GenerateOpen \/ Verify \/ RunClient
    BY <2>1, QuietSteps
  <2>2. CASE ClientExits
    BY <2>2, ExitKeeps
  <2>3. CASE Publish \/ PromptsExist \/ Ready \/ Flush \/ ServerStopped
    <3>1. mode = "run" /\ GoOn
      BY <2>3 DEF Publish, PromptsExist, Ready, Flush, ServerStopped, Is
    <3> QED BY <2>3, <3>1, GoOnSteps
  <2>4. CASE \/ GenerateFails \/ NotReady \/ CallFails \/ FlushTimesOut
             \/ StopTimesOut \/ ArchiveFails
    <3>1. mode = "run" /\ Fail
      BY <2>4 DEF GenerateFails, NotReady, CallFails, FlushTimesOut, StopTimesOut, ArchiveFails, Is
    <3> QED BY <2>4, <3>1, FailSteps
  <2>5. CASE NothingToKill \/ Qualify
    <3>1. mode = "run" /\ (GoOn \/ Fail)
      BY <2>5 DEF NothingToKill, Qualify, Is
    <3> QED BY <2>5, <3>1, GoOnSteps, FailSteps
  <2>6. CASE StartServer \/ KillServer \/ TrapKills \/ TrapEnds
    BY <2>6, StartKeeps, KillKeeps, TrapKeeps, TrapEndKeeps
  <2>7. CASE Reset \/ StartWindow \/ EndWindow
    BY <2>7, CallKeeps
  <2> QED BY <1>2, <2>1, <2>2, <2>3, <2>4, <2>5, <2>6, <2>7 DEF ScriptStep
<1>3. CASE ClientStep
  BY <1>3, QuietSteps, AnswerKeeps DEF ClientStep
<1>4. CASE ServerStep
  <2>1. PICK v \in Server : Serves(v) \/ PortInUse(v) \/ Stops(v) \/ WritesRecord(v)
    BY <1>4 DEF ServerStep
  <2>2. PortInUse(v) \/ Stops(v) => v \in Alive /\ Ends(v)
    BY DEF PortInUse, Stops, Alive, Told
  <2> QED BY <2>1, <2>2, ServesKeeps, RecordKeeps, EndsKeeps
<1>5. CASE Mishap
  <2>1. CASE KillScript
    BY <2>1, KilledKeeps
  <2>2. CASE \E v \in Server : Crashes(v) \/ Presses(v)
    BY <2>2, EndsKeeps, PressKeeps DEF Crashes
  <2>3. CASE \E v \in Server : GoesSilent(v)
    BY <2>3, SilentKeeps
  <2> QED BY <1>5, <2>1, <2>2, <2>3 DEF Mishap
<1>6. CASE NextScript
  BY <1>6, NextKeeps
<1>7. CASE AllOver \/ UNCHANGED vars
  BY <1>7, StutterKeeps DEF AllOver
<1> QED BY <1>2, <1>3, <1>4, <1>5, <1>6, <1>7 DEF Next

(* The first script has everything before it.                              *)
LEMMA InitHolds ==
  ASSUME Init
  PROVE  ExperimentInv
<1>1. /\ script \in {"none", "qps", "mixed"} /\ 1 \in 1 .. MaxScripts /\ 1 \in 1 .. Points
      /\ MaxScripts \in Nat /\ Points \in Nat
  BY ExperimentAssumption DEF Init
<1>2. /\ number = 1 /\ point = 1 /\ step = 1 /\ mode = "run" /\ code = "running"
      /\ prompts = "absent" /\ promptsDraft = "absent" /\ stage = "off" /\ exit = "running"
      /\ server = [v \in Server |-> "none"] /\ window = [v \in Server |-> 0]
      /\ queued = NoRecords /\ written = NoRecords /\ dirty = {} /\ pressed = {}
      /\ measured = Unmeasured
  BY DEF Init, Off
<1>3. ClientTypeOK
  <2>1. \A s \in Prompt : s.number \in Nat
    BY PromptAssumption DEF Prompt
  <2> QED BY <2>1 DEF Init, Off, ClientTypeOK, Kinds
<1>4. Progress
  <2>1. ASSUME NEW s \in Senders
        PROVE  cursor[s] % Width = s.number /\ flight[s] = "none"
    <3>1. s \in Prompt /\ s.number < Width /\ s.number \in Nat
      BY PromptAssumption DEF Senders, Prompts, Prompt
    <3> QED BY <1>3, <3>1, OwnRemainder, WidthFacts DEF Init, Off
  <2>2. ASSUME NEW p \in Prompts
        PROVE  result[p] = "none" /\ cursor[SenderOf(p)] <= p.number
    <3>1. /\ p \in Prompt /\ p.number \in Nat /\ SenderOf(p) \in Prompt
          /\ SenderOf(p).number = p.number % Width /\ Width \in Nat /\ Width # 0
      BY <1>3, WidthFacts
    <3>2. p.number % Width <= p.number
      BY <3>1, SmallRemainder
    <3> QED BY <3>1, <3>2 DEF Init, Off
  <2> QED BY <2>1, <2>2 DEF Progress
<1>5. OnDisk
  BY DEF Init, Off, OnDisk, OutputIsWhole, Writing
<1>6. ExitTellsTheTruth
  BY <1>2 DEF ExitTellsTheTruth
<1>7. ScriptTypeOK
  <2>1. 1 \in 1 .. Len(Steps[script])
    BY <1>1 DEF Steps
  <2> QED BY <1>1, <1>2, <2>1 DEF ScriptTypeOK
<1>8. ServersTypeOK
  BY <1>2 DEF ServersTypeOK, NoRecords, Unmeasured, States
<1>9. ScriptInv
  BY <1>2 DEF ScriptInv
<1>10. Own \in Server
  BY <1>7, OwnServer
<1>11. ServerInv
  <2>1. Listening = {}
    BY <1>2 DEF Listening
  <2> QED BY <1>2, <2>1 DEF ServerInv, NoRecords
<1>12. PlaceInv
  <2>1. \A m \in 1 .. MaxScripts, p \in 1 .. Points : server[<<m, p>>] = "none"
    BY <1>2 DEF Server
  <2> QED BY <1>1, <1>2, <1>10, <2>1 DEF PlaceInv
<1>13. SweepInv
  BY <1>1, <1>2, <1>10 DEF SweepInv, Unmeasured, NoRecords
<1>14. EndInv
  BY <1>2 DEF EndInv
<1> QED
  BY <1>3, <1>4, <1>5, <1>6, <1>7, <1>8, <1>9, <1>11, <1>12, <1>13, <1>14
  DEF ExperimentInv, ExperimentTypeOK, ClientInv

--------------------------------------------------------------------------------
(* The verdict of a sweep                                                  *)

(* The prompts of a closed loop, and the monitor's records of the server   *)
(* of the point the sweep is at.                                           *)
Requests   == {p \in Prompt : p.stream = "all"}
OwnRecords == queued[Own] \cup written[Own]

(* The summary of a point says what happened while it was measured.        *)
Tells(p) == summary[p].stores = Requests /\ (summary[p].calm <=> p \notin hurt)

(* A window that is open on the own server was open during the whole       *)
(* measurement: it has the record of each request that went well and the   *)
(* pressure there was.  Its summary comes behind all of its records.       *)
ReportInv ==
  /\ summary \in [1 .. Points -> [calm : BOOLEAN, stores : SUBSET Records]]
  /\ script = "none" =>
       /\ kind = "closed"
       /\ OwnRecords \subseteq Requests \cup {Summary}
       /\ window[Own] # 0 /\ step = 7 /\ (stage # "off" \/ exit # "running")
            => \A q \in Requests : result[q] = "ok" => q \in OwnRecords
       /\ window[Own] # 0 /\ step = 8 => Requests \subseteq OwnRecords
       /\ \A p \in 1 .. Points : p \in hurt => p < point \/ (p = point /\ step >= 7)
       /\ window[Own] # 0 => (Own \in pressed <=> point \in hurt)
       /\ Summary \in OwnRecords => Requests \subseteq OwnRecords /\ Tells(point)
       /\ Summary \in written[Own] => queued[Own] = {}
       /\ \A p \in 1 .. Points : p < point \/ (p = point /\ step >= 10)
            => Requests \subseteq written[<<number, p>>] /\ Tells(p)

(* An arm writes no summary that is read.                                  *)
LEMMA ArmReports ==
  ASSUME script' # "none",
         summary' \in [1 .. Points -> [calm : BOOLEAN, stores : SUBSET Records]]
  PROVE  ReportInv'
  BY DEF ReportInv

(* What a summary says stays while it and the history stay.                *)
LEMMA TellsStays ==
  ASSUME NEW p, Tells(p), summary'[p] = summary[p], p \in hurt' <=> p \in hurt
  PROVE  Tells(p)'
  BY DEF Tells, Requests

(* Where the script stays, records may move from the queue to the file and *)
(* go with the server, whose window goes too.                              *)
LEMMA ReportStays ==
  ASSUME ScriptTypeOK, ReportInv, script = "none",
         UNCHANGED <<position, step, summary, hurt>>, kind' = "closed",
         \A w \in Server : written[w] \subseteq written'[w],
         OwnRecords' \subseteq OwnRecords,
         window'[Own] # 0 => /\ window[Own] # 0 /\ OwnRecords' = OwnRecords
                             /\ Own \in pressed' <=> Own \in pressed,
         Summary \in OwnRecords' => OwnRecords' = OwnRecords,
         Summary \in written'[Own] => queued'[Own] = {},
         \A q \in Requests : (stage' # "off" \/ exit' # "running") /\ result'[q] = "ok"
                               => (stage # "off" \/ exit # "running") /\ result[q] = "ok"
  PROVE  ReportInv'
<1>1. /\ script' = script /\ number' = number /\ point' = point /\ step' = step
      /\ summary' = summary /\ hurt' = hurt /\ Own' = Own
  BY DEF position, Own
<1>2. OwnRecords' = queued'[Own] \cup written'[Own]
  BY <1>1 DEF OwnRecords
<1>3. \A p \in 1 .. Points : Tells(p) => Tells(p)'
  BY <1>1, TellsStays
<1>4. OwnRecords' \subseteq Requests \cup {Summary}
  BY DEF ReportInv
<1>5. /\ window'[Own] # 0 /\ step = 7 /\ (stage' # "off" \/ exit' # "running")
           => \A q \in Requests : result'[q] = "ok" => q \in OwnRecords'
      /\ window'[Own] # 0 /\ step = 8 => Requests \subseteq OwnRecords'
      /\ window'[Own] # 0 => (Own \in pressed' <=> point \in hurt)
  BY DEF ReportInv
<1>6. Summary \in OwnRecords' => Requests \subseteq OwnRecords' /\ Tells(point)'
  <2>1. point \in 1 .. Points /\ point' = point
    BY <1>1 DEF ScriptTypeOK
  <2>2. Tells(point) => Tells(point)'
    <3>1. PICK p \in 1 .. Points : p = point
      BY <2>1
    <3>2. Tells(p) => Tells(p)'
      BY <1>3
    <3> QED BY <2>1, <3>1, <3>2 DEF Tells
  <2>3. Summary \in OwnRecords => Requests \subseteq OwnRecords /\ Tells(point)
    BY DEF ReportInv
  <2> HIDE DEF Tells
  <2> QED BY <2>2, <2>3
<1>7. ASSUME NEW p \in 1 .. Points, p < point \/ (p = point /\ step >= 10)
      PROVE  Requests \subseteq written'[<<number, p>>] /\ Tells(p)'
  <2>1. Requests \subseteq written[<<number, p>>] /\ Tells(p)
    BY <1>7 DEF ReportInv
  <2>2. <<number, p>> \in Server
    BY OwnServer
  <2> QED BY <1>3, <2>1, <2>2
<1>8. \A p \in 1 .. Points : p \in hurt => p < point \/ (p = point /\ step >= 7)
  BY DEF ReportInv
<1>9. Requests' = Requests /\ Summary' = Summary
  BY DEF Requests, Summary
<1>10. summary \in [1 .. Points -> [calm : BOOLEAN, stores : SUBSET Records]]
  BY DEF ReportInv
<1> HIDE DEF Summary, Requests, OwnRecords, Tells
<1> QED BY <1>1, <1>4, <1>5, <1>6, <1>7, <1>8, <1>9, <1>10 DEF ReportInv

(* The sweep goes on from a step that opens and closes no window.  Once    *)
(* the summary is in the file of its server, all its records are.          *)
LEMMA ReportGoesOn ==
  ASSUME ScriptTypeOK, ServerInv, PlaceInv, SweepInv, ReportInv,
         mode = "run", code = "running", GoOn, script = "none", step \notin {6, 8},
         UNCHANGED <<window, queued, written, pressed, summary, hurt, kind>>,
         stage' = "off", exit' = "running",
         step = 7 => /\ stage # "off" \/ exit # "running"
                     /\ \A q \in Requests : result[q] = "ok",
         step = 9 => Summary \in written[Own]
  PROVE  ReportInv'
<1>1. /\ Len(Steps[script]) = 12 /\ step \in 1 .. 12 /\ (Now = "wait" <=> step = 11)
  BY SweepSteps DEF ScriptTypeOK
<1>2. script' = script /\ number' = number /\ kind' = "closed"
  BY GoOnFacts DEF ReportInv
<1>3. /\ point \in Nat /\ Points \in Nat /\ Own \in Server /\ point \in 1 .. Points
  BY OwnServer DEF ScriptTypeOK
<1>4. \A p \in 1 .. Points : Tells(p) => Tells(p)'
  BY TellsStays
<1>5. /\ \A p \in 1 .. Points : p \in hurt => p < point \/ (p = point /\ step >= 7)
      /\ \A p \in 1 .. Points : p < point \/ (p = point /\ step >= 10)
           => Requests \subseteq written[<<number, p>>] /\ Tells(p)
      /\ summary \in [1 .. Points -> [calm : BOOLEAN, stores : SUBSET Records]]
  BY DEF ReportInv
<1>6. CASE point' # point
  <2>1. step = 11 /\ point < Points /\ step' = 2 /\ point' = point + 1
    BY <1>1, <1>6, GoOnFacts
  <2>2. Own' = <<number, point + 1>> /\ point + 1 \in 1 .. Points
    BY <1>2, <1>3, <2>1 DEF Own
  <2>3. window[Own'] = 0 /\ queued[Own'] = {} /\ written[Own'] = {}
    BY <2>2, NextServerIsClean
  <2>4. window'[Own'] = 0 /\ queued'[Own'] = {} /\ written'[Own'] = {} /\ OwnRecords' = {}
    BY <2>3 DEF OwnRecords
  <2>5. \A p \in 1 .. Points : p \in hurt => p < point'
    BY <1>3, <1>5, <2>1
  <2>6. \A p \in 1 .. Points : p < point' => Requests \subseteq written[<<number, p>>] /\ Tells(p)'
    <3>1. \A p \in 1 .. Points : p < point' => p < point \/ (p = point /\ step >= 10)
      BY <1>3, <2>1
    <3> QED BY <1>4, <1>5, <3>1
  <2>7. Requests' = Requests
    BY DEF Requests
  <2> HIDE DEF Requests, OwnRecords, Tells
  <2> QED BY <1>2, <1>5, <2>1, <2>3, <2>4, <2>5, <2>6, <2>7 DEF ReportInv
<1>7. CASE point' = point
  <2>1. Own' = Own
    BY <1>2, <1>7 DEF Own
  <2>2. step' \in Nat /\ (step' = step \/ step' = step + 1) /\ (step' = step => step = 12)
    BY <1>1, <1>7, GoOnFacts
  <2>3. OwnRecords' = OwnRecords /\ Requests' = Requests
    BY <2>1 DEF OwnRecords, Requests
  <2>4. /\ OwnRecords \subseteq Requests \cup {Summary}
        /\ window[Own] # 0 => (Own \in pressed <=> point \in hurt)
        /\ Summary \in OwnRecords => Requests \subseteq OwnRecords /\ Tells(point)
        /\ Summary \in written[Own] => queued[Own] = {}
    BY DEF ReportInv
  <2>5. window[Own] # 0 /\ step' = 8 => Requests \subseteq OwnRecords
    <3>1. step' = 8 => step = 7
      BY <1>1, <2>2
    <3> QED BY <3>1 DEF ReportInv
  <2>6. ~(window[Own] # 0 /\ step' = 7)
    <3>1. window[Own] # 0 => step = 7 \/ step = 8
      BY DEF SweepInv
    <3> QED BY <2>2, <3>1
  <2>7. \A p \in 1 .. Points : p \in hurt => p < point \/ (p = point /\ step' >= 7)
    <3>1. step >= 7 => step' >= 7
      BY <1>1, <2>2
    <3> QED BY <1>5, <3>1
  <2>8. \A p \in 1 .. Points : p < point \/ (p = point /\ step' >= 10)
          => Requests \subseteq written[<<number, p>>] /\ Tells(p)'
    <3>1. step' >= 10 => step >= 10 \/ step = 9
      BY <1>1, <2>2
    <3>2. step = 9 => Requests \subseteq written[Own] /\ Tells(point)
      BY <2>4 DEF OwnRecords
    <3> QED BY <1>3, <1>4, <1>5, <3>1, <3>2 DEF Own
  <2>9. Tells(point) => Tells(point)'
    <3>1. PICK p \in 1 .. Points : p = point
      BY <1>3
    <3>2. Tells(p) => Tells(p)'
      BY <1>4
    <3> QED BY <1>7, <3>1, <3>2 DEF Tells
  <2> HIDE DEF Requests, OwnRecords, Tells
  <2> QED
    BY <1>2, <1>5, <1>7, <2>1, <2>3, <2>4, <2>5, <2>6, <2>7, <2>8, <2>9 DEF ReportInv
<1> QED BY <1>6, <1>7

(* A window that opens on the own server has seen no pressure, and neither *)
(* has the point.                                                          *)
LEMMA ReportOpens ==
  ASSUME ServersTypeOK, ScriptTypeOK, ServerInv, SweepInv, SweepInv', ReportInv,
         mode = "run", code = "running", StartWindow, script = "none",
         stage' = "off", exit' = "running", kind' = kind
  PROVE  ReportInv'
<1>1. /\ Len(Steps[script]) = 12 /\ step = 6 /\ (Now = "wait" <=> step = 11)
  BY SweepSteps DEF ScriptTypeOK, StartWindow, Is
<1>2. /\ script' = script /\ number' = number /\ step' = 7 /\ point' = point
  BY <1>1, GoOnFacts DEF StartWindow
<1>3. UNCHANGED <<queued, written, summary, hurt>> /\ Own' = Own
  BY <1>2 DEF StartWindow, files, Own
<1>4. PICK v \in Listening : /\ window' = [window EXCEPT ![v] = WindowId]
                             /\ pressed' = pressed \ {v}
  BY DEF StartWindow, Answering
<1>5. point \in 1 .. Points /\ Own \in Server /\ point \in Nat
  BY OwnServer DEF ScriptTypeOK
<1>6. point \notin hurt
  BY <1>1, <1>5 DEF ReportInv
<1>7. window'[Own] # 0 => Own \notin pressed'
  <2>1. window[Own] = 0
    BY <1>1 DEF SweepInv
  <2> QED BY <1>4, <1>5, <2>1 DEF ServersTypeOK
<1>8. Summary \notin OwnRecords
  BY <1>1 DEF SweepInv, OwnRecords
<1>9. OwnRecords' = OwnRecords /\ Requests' = Requests
  BY <1>3 DEF OwnRecords, Requests
<1>10. \A p \in 1 .. Points : Tells(p) => Tells(p)'
  BY <1>3, TellsStays
<1>11. /\ kind = "closed" /\ OwnRecords \subseteq Requests \cup {Summary}
       /\ \A p \in 1 .. Points : p \in hurt => p < point
       /\ \A p \in 1 .. Points : p < point => Requests \subseteq written[<<number, p>>] /\ Tells(p)
       /\ summary \in [1 .. Points -> [calm : BOOLEAN, stores : SUBSET Records]]
  BY <1>1 DEF ReportInv
<1>12. Summary \notin written[Own]
  BY <1>8 DEF OwnRecords
<1> HIDE DEF Requests, OwnRecords, Tells
<1> QED
  BY <1>2, <1>3, <1>5, <1>6, <1>7, <1>8, <1>9, <1>10, <1>11, <1>12 DEF ReportInv

(* The summary of the window of the own server has the request of each     *)
(* record, and the pressure there was; another server's summary is not     *)
(* among the records of the own one.                                       *)
LEMMA ReportCloses ==
  ASSUME ServersTypeOK, ScriptTypeOK, ServerInv, SweepInv, ReportInv,
         mode = "run", code = "running", EndWindow, script = "none",
         stage' = "off", exit' = "running", kind' = kind
  PROVE  ReportInv'
<1>1. /\ Len(Steps[script]) = 12 /\ step = 8 /\ (Now = "wait" <=> step = 11)
  BY SweepSteps DEF ScriptTypeOK, EndWindow, Is
<1>2. /\ script' = script /\ number' = number /\ step' = 9 /\ point' = point
  BY <1>1, GoOnFacts DEF EndWindow
<1>3. UNCHANGED <<written, pressed, hurt>> /\ Own' = Own
  BY <1>2 DEF EndWindow, history, Own
<1>4. PICK v \in Listening : /\ window[v] = WindowId
                             /\ window' = [window EXCEPT ![v] = 0]
                             /\ queued' = [queued EXCEPT ![v] = @ \cup {Summary}]
                             /\ summary' = [summary EXCEPT ![point] = WindowSummary(v)]
  BY DEF EndWindow, Acceptable, Answering
<1>5. point \in 1 .. Points /\ Own \in Server /\ point \in Nat /\ v \in Server
  BY OwnServer DEF ScriptTypeOK, Listening
<1>6. window'[Own] = 0
  <2>1. window[Own] # 0 => Own = v
    BY <1>5 DEF ServerInv
  <2> QED BY <1>4, <1>5, <2>1 DEF ServersTypeOK
<1>7. /\ kind = "closed" /\ OwnRecords \subseteq Requests \cup {Summary}
      /\ \A p \in 1 .. Points : p \in hurt => p < point \/ (p = point /\ step >= 7)
      /\ \A p \in 1 .. Points : p < point => Requests \subseteq written[<<number, p>>] /\ Tells(p)
      /\ summary \in [1 .. Points -> [calm : BOOLEAN, stores : SUBSET Records]]
      /\ window[Own] # 0 => Requests \subseteq OwnRecords /\ (Own \in pressed <=> point \in hurt)
  BY <1>1 DEF ReportInv
<1>8. summary' \in [1 .. Points -> [calm : BOOLEAN, stores : SUBSET Records]]
  <2>1. WindowSummary(v) \in [calm : BOOLEAN, stores : SUBSET Records]
    <3>1. (queued[v] \cup written[v]) \ {Summary} \in SUBSET Records
      BY <1>5 DEF ServersTypeOK
    <3> QED BY <3>1 DEF WindowSummary
  <2> QED BY <1>4, <1>7, <2>1
<1>9. Summary \notin OwnRecords /\ Summary \notin written[Own]
  BY <1>1 DEF SweepInv, OwnRecords
<1>10. Summary \notin Requests
  BY DEF Summary, Requests, Prompt, Stream
<1>11. \A p \in 1 .. Points : p < point => Tells(p)'
  <2>1. \A p \in 1 .. Points : p < point => summary'[p] = summary[p]
    BY <1>4, <1>5, <1>7
  <2> QED BY <1>3, <1>7, <2>1, TellsStays
<1>12. Requests' = Requests /\ Summary' = Summary
  BY DEF Requests, Summary
<1>13. CASE v = Own
  <2>1. OwnRecords' = OwnRecords \cup {Summary}
    BY <1>3, <1>4, <1>5, <1>13 DEF OwnRecords, ServersTypeOK
  <2>2. window[Own] # 0
    BY <1>4, <1>5, <1>13 DEF WindowId
  <2>3. OwnRecords \ {Summary} = Requests
    BY <1>7, <1>9, <1>10, <2>2
  <2>4. summary'[point] = WindowSummary(Own)
    BY <1>4, <1>5, <1>7, <1>13
  <2>5. /\ WindowSummary(Own).stores = Requests
        /\ WindowSummary(Own).calm <=> Own \notin pressed
    BY <2>3 DEF WindowSummary, OwnRecords
  <2>6. Tells(point)'
    <3>1. Tells(point)' <=> /\ summary'[point].stores = Requests
                            /\ summary'[point].calm <=> point \notin hurt
      BY <1>2, <1>3, <1>12 DEF Tells
    <3> QED BY <1>7, <2>2, <2>4, <2>5, <3>1
  <2> HIDE DEF Requests, OwnRecords, Tells, Summary
  <2> QED
    BY <1>2, <1>3, <1>6, <1>7, <1>8, <1>9, <1>11, <1>12, <2>1, <2>2, <2>6 DEF ReportInv
<1>14. CASE v # Own
  <2>1. OwnRecords' = OwnRecords
    BY <1>3, <1>4, <1>5, <1>14 DEF OwnRecords, ServersTypeOK
  <2> HIDE DEF Requests, OwnRecords, Tells, Summary
  <2> QED
    BY <1>2, <1>3, <1>6, <1>7, <1>8, <1>9, <1>11, <1>12, <2>1 DEF ReportInv
<1> QED BY <1>13, <1>14

(* Pressure on the own server, where a window is open, is in both the      *)
(* window and the history; the history of a point that has its summary     *)
(* stays.                                                                  *)
LEMMA ReportPressed ==
  ASSUME ScriptTypeOK, ServerInv, SweepInv, ReportInv, script = "none",
         NEW v \in Server, Presses(v)
  PROVE  ReportInv'
<1>1. /\ UNCHANGED <<kind, stage, exit, result, window, queued, written, summary>>
      /\ script' = script /\ number' = number /\ point' = point /\ step' = step /\ Own' = Own
  BY DEF Presses, client, files, position, control, Own
<1>2. MeasuringPoint <=> step \in {7, 8}
  <2>1. step \in 1 .. Len(Steps[script])
    BY DEF ScriptTypeOK
  <2> QED BY <2>1, SweepSteps DEF MeasuringPoint
<1>3. hurt' = IF step \in {7, 8} THEN hurt \cup {point} ELSE hurt
  BY <1>2 DEF Presses
<1>4. point \in 1 .. Points /\ Own \in Server /\ point \in Nat
  BY OwnServer DEF ScriptTypeOK
<1>5. window[Own] # 0 => Own \in pressed' /\ point \in hurt'
  <2>1. window[Own] # 0 => v = Own /\ step \in {7, 8}
    BY <1>4 DEF ServerInv, SweepInv, Presses
  <2> QED BY <1>3, <2>1 DEF Presses
<1>6. OwnRecords' = OwnRecords /\ Requests' = Requests /\ Summary' = Summary
  BY <1>1 DEF OwnRecords, Requests, Summary
<1>7. Summary \in OwnRecords => step >= 9
  BY DEF SweepInv, OwnRecords
<1>8. Tells(point) /\ step >= 9 => Tells(point)'
  <2>1. step >= 9 => hurt' = hurt
    BY <1>3
  <2> QED BY <1>1, <2>1, TellsStays
<1>9. ASSUME NEW p \in 1 .. Points, p < point \/ (p = point /\ step >= 10)
      PROVE  Requests \subseteq written[<<number, p>>] /\ Tells(p)'
  <2>1. p \in hurt' <=> p \in hurt
    BY <1>3, <1>4, <1>9
  <2> QED BY <1>1, <1>9, <2>1, TellsStays DEF ReportInv
<1>10. \A p \in 1 .. Points : p \in hurt' => p < point \/ (p = point /\ step >= 7)
  BY <1>3 DEF ReportInv
<1>11. summary \in [1 .. Points -> [calm : BOOLEAN, stores : SUBSET Records]]
  BY DEF ReportInv
<1>12. /\ kind = "closed" /\ OwnRecords \subseteq Requests \cup {Summary}
       /\ window[Own] # 0 /\ step = 7 /\ (stage # "off" \/ exit # "running")
            => \A q \in Requests : result[q] = "ok" => q \in OwnRecords
       /\ window[Own] # 0 /\ step = 8 => Requests \subseteq OwnRecords
       /\ Summary \in OwnRecords => Requests \subseteq OwnRecords /\ Tells(point)
       /\ Summary \in written[Own] => queued[Own] = {}
  BY DEF ReportInv
<1> HIDE DEF Requests, OwnRecords, Tells, Summary
<1> QED
  BY <1>1, <1>5, <1>6, <1>7, <1>8, <1>9, <1>10, <1>11, <1>12 DEF ReportInv

(* A request that is answered by the own server while its window is open   *)
(* has its record there.                                                   *)
LEMMA ReportAnswered ==
  ASSUME ClientTypeOK, ClientInv, ServersTypeOK, ScriptTypeOK, ScriptInv, ServerInv, SweepInv,
         ReportInv, script = "none", NEW s, NEW v \in Listening, NEW answer, Answers(s, v, answer)
  PROVE  ReportInv'
<1>1. /\ UNCHANGED <<window, written, pressed, summary, hurt>> /\ Receive(s, answer)
      /\ queued' = IF Recording /\ window[v] # 0
                   THEN [queued EXCEPT ![v] = @ \cup {Current(s)}] ELSE queued
      /\ script' = script /\ number' = number /\ point' = point /\ step' = step /\ Own' = Own
  BY DEF Answers, files, position, control, Own
<1>2. stage = "sending" /\ UNCHANGED <<kind, stage, exit>>
  BY <1>1 DEF Receive
<1>3. /\ kind = "closed" /\ OwnRecords \subseteq Requests \cup {Summary}
      /\ \A p \in 1 .. Points : p \in hurt => p < point \/ (p = point /\ step >= 7)
      /\ summary \in [1 .. Points -> [calm : BOOLEAN, stores : SUBSET Records]]
      /\ window[Own] # 0 => (Own \in pressed <=> point \in hurt)
  BY DEF ReportInv
<1>4. /\ Current(s) \in Requests /\ result' = [result EXCEPT ![Current(s)] = Judge(answer)]
  <2>1. /\ Current(s) \in Prompts /\ result' = [result EXCEPT ![Current(s)] = Judge(answer)]
    BY <1>1, ReceiveKeeps
  <2> QED BY <1>3, <2>1 DEF Prompts, Streams, Requests
<1>5. /\ step \in {4, 7} /\ (Recording <=> step = 7)
  <2>1. Now \in {"warmup", "measure"}
    BY <1>2 DEF ScriptInv, IsLoad, Is
  <2> QED BY <2>1, SweepSteps DEF ScriptTypeOK, Recording, Measuring
<1>6. Own \in Server /\ v \in Server /\ point \in 1 .. Points
  BY OwnServer DEF Listening, ScriptTypeOK
<1>7. /\ OwnRecords' \subseteq OwnRecords \cup {Current(s)} /\ OwnRecords \subseteq OwnRecords'
      /\ Requests' = Requests /\ Summary' = Summary
  BY <1>1, <1>6 DEF OwnRecords, Requests, Summary, ServersTypeOK
<1>8. Summary \notin OwnRecords /\ Summary \notin Requests
  <2>1. Summary \notin OwnRecords
    BY <1>5 DEF SweepInv, OwnRecords
  <2> QED BY <2>1 DEF Summary, Requests, Prompt, Stream
<1>9. window[Own] # 0 => v = Own
  BY <1>6 DEF ServerInv
<1>10. window[Own] # 0 /\ step = 7 => Current(s) \in OwnRecords'
  BY <1>1, <1>5, <1>6, <1>9 DEF OwnRecords, ServersTypeOK
<1>11. window[Own] # 0 /\ step = 7 => \A q \in Requests : result'[q] = "ok" => q \in OwnRecords'
  <2>1. \A q \in Requests : q # Current(s) => result'[q] = result[q]
    BY <1>4 DEF ClientTypeOK, Requests
  <2>2. window[Own] # 0 /\ step = 7 => \A q \in Requests : result[q] = "ok" => q \in OwnRecords
    BY <1>2 DEF ReportInv
  <2> QED BY <1>7, <1>10, <2>1, <2>2
<1>12. \A p \in 1 .. Points : p < point \/ (p = point /\ step >= 10)
         => Requests \subseteq written[<<number, p>>] /\ Tells(p)'
  BY <1>1, TellsStays DEF ReportInv
<1>13. Summary \notin OwnRecords' /\ OwnRecords' \subseteq Requests \cup {Summary}
  BY <1>3, <1>4, <1>7, <1>8
<1>14. Summary \notin written[Own]
  BY <1>8 DEF OwnRecords
<1> HIDE DEF Requests, OwnRecords, Tells, Summary
<1> QED
  BY <1>1, <1>2, <1>3, <1>5, <1>7, <1>11, <1>12, <1>13, <1>14 DEF ReportInv

(* A step that leaves the monitors alone and gives no request an answer.   *)
LEMMA ReportQuiet ==
  ASSUME ScriptTypeOK, ReportInv, UNCHANGED <<position, step, summary, monitor, hurt>>,
         kind' = kind \/ (script = "none" => kind' = "closed"),
         \A q \in Requests : (stage' # "off" \/ exit' # "running") /\ result'[q] = "ok"
                               => (stage # "off" \/ exit # "running") /\ result[q] = "ok"
  PROVE  ReportInv'
<1>1. /\ script' = script /\ Own' = Own /\ summary' = summary
      /\ UNCHANGED <<window, queued, written, pressed>>
  BY DEF position, monitor, Own
<1>2. summary' \in [1 .. Points -> [calm : BOOLEAN, stores : SUBSET Records]]
  BY <1>1 DEF ReportInv
<1>3. CASE script = "none"
  <2>1. kind' = "closed" /\ (Summary \in written[Own] => queued[Own] = {})
    BY <1>3 DEF ReportInv
  <2>2. OwnRecords' = OwnRecords
    BY <1>1 DEF OwnRecords
  <2> QED BY <1>1, <1>3, <2>1, <2>2, ReportStays
<1> QED BY <1>1, <1>2, <1>3, ArmReports

(* What the script waits for, and the steps it fails with or ends by.      *)
LEMMA ReportOnQuietSteps ==
  ASSUME ExperimentInv, ReportInv,
         \/ GenerateOpen \/ Verify \/ GenerateFails \/ NotReady \/ CallFails \/ FlushTimesOut
         \/ StopTimesOut \/ ArchiveFails \/ TrapKills \/ TrapEnds
         \/ ((NothingToKill \/ Qualify) /\ Fail)
         \/ (\E v \in Server : Serves(v) \/ GoesSilent(v))
         \/ UNCHANGED vars
  PROVE  ReportInv'
<1>1. UNCHANGED <<client, position, step, summary, monitor, hurt>>
  <2>1. CASE \/ GenerateOpen \/ Verify \/ GenerateFails \/ NotReady \/ CallFails
             \/ FlushTimesOut \/ StopTimesOut \/ ArchiveFails
    BY <2>1 DEF GenerateOpen, Verify, GenerateFails, NotReady, CallFails, FlushTimesOut,
                StopTimesOut, ArchiveFails, Fail, files, control, history
  <2>2. CASE TrapKills \/ TrapEnds \/ ((NothingToKill \/ Qualify) /\ Fail)
    BY <2>2 DEF TrapKills, TrapEnds, NothingToKill, Qualify, Fail, files, control, history
  <2>3. CASE (\E v \in Server : Serves(v) \/ GoesSilent(v)) \/ UNCHANGED vars
    BY <2>3 DEF Serves, GoesSilent, vars, files, control, history
  <2> QED BY <2>1, <2>2, <2>3
<1>2. UNCHANGED <<kind, stage, exit, result>> /\ ScriptTypeOK
  BY <1>1 DEF client, ExperimentInv, ExperimentTypeOK
<1> QED BY <1>1, <1>2, ReportQuiet

(* What the client does by itself, and its end.                            *)
LEMMA ReportOnClientSteps ==
  ASSUME ExperimentInv, ReportInv,
         \/ RunClient \/ ClientSends \/ ClientFinishes \/ ClientWriteFails
         \/ (ClientExits /\ exit # "0") \/ (\E s \in Senders : ConnectionLost(s))
         \/ KillScript
  PROVE  ReportInv'
<1>1. ClientTypeOK /\ ClientInv /\ ScriptTypeOK
  BY DEF ExperimentInv, ExperimentTypeOK
<1>2. UNCHANGED <<position, step, summary, monitor, hurt>>
  BY DEF RunClient, ClientSends, ClientFinishes, ClientWriteFails, ClientExits, ConnectionLost,
         KillScript, Fail, control, files, history
<1>3. CASE RunClient
  <2>1. /\ kind' = ClientKind /\ \A p \in Prompt : result'[p] = "none"
    BY <1>3 DEF RunClient, Launch, Fresh
  <2>2. \A q \in Requests : result'[q] # "ok"
    BY <2>1 DEF Requests
  <2>3. script = "none" => kind' = "closed"
    BY <2>1 DEF ClientKind
  <2> QED BY <1>1, <1>2, <2>2, <2>3, ReportQuiet
<1>4. CASE ClientSends
  <2>1. UNCHANGED <<kind, stage, exit, result>>
    BY <1>4 DEF ClientSends, Send
  <2> QED BY <1>1, <1>2, <2>1, ReportQuiet
<1>5. CASE ClientFinishes \/ ClientWriteFails
  <2>1. stage # "off" /\ kind' = kind /\ result' = result
    BY <1>5 DEF ClientFinishes, ClientWriteFails, Finish, Open, WriteLines, Replace, Return,
                WriteFails, Leave
  <2> QED BY <1>1, <1>2, <2>1, ReportQuiet
<1>6. CASE ClientExits /\ exit # "0"
  <2>1. stage' = "off" /\ exit' = "running" /\ kind' = kind
    BY <1>6 DEF ClientExits
  <2> QED BY <1>1, <1>2, <2>1, ReportQuiet
<1>7. CASE \E s \in Senders : ConnectionLost(s)
  <2>1. PICK s : Receive(s, "broken")
    BY <1>7 DEF ConnectionLost
  <2>2. result' = [result EXCEPT ![Current(s)] = "failed"]
    BY <1>1, <2>1, ReceiveKeeps DEF Judge
  <2>3. UNCHANGED <<kind, stage, exit>>
    BY <2>1 DEF Receive
  <2>4. \A q \in Requests : result'[q] = "ok" => result[q] = "ok"
    BY <1>1, <2>2 DEF ClientTypeOK, Requests
  <2> QED BY <1>1, <1>2, <2>3, <2>4, ReportQuiet
<1>8. CASE KillScript
  <2>1. /\ kind' = kind /\ result' = result
        /\ stage = "off" => UNCHANGED <<stage, exit>>
    BY <1>8 DEF KillScript, Killed, client
  <2> QED BY <1>1, <1>2, <2>1, ReportQuiet
<1> QED BY <1>3, <1>4, <1>5, <1>6, <1>7, <1>8

(* The monitor writes its records in order.                                *)
LEMMA ReportWritten ==
  ASSUME ExperimentInv, ReportInv, NEW v \in Server, WritesRecord(v)
  PROVE  ReportInv'
<1>1. ServersTypeOK /\ ScriptTypeOK /\ Own \in Server
  BY OwnServer DEF ExperimentInv, ExperimentTypeOK
<1>2. /\ UNCHANGED <<client, position, control, files, window, pressed, hurt>>
      /\ \A w \in Server : /\ queued'[w] \cup written'[w] = queued[w] \cup written[w]
                           /\ written[w] \subseteq written'[w]
  BY <1>1, RecordFacts DEF WritesRecord, history
<1>3. /\ UNCHANGED <<kind, stage, exit, result, step, summary>>
      /\ script' = script /\ Own' = Own
  BY <1>2 DEF client, control, files, position, Own
<1>4. OwnRecords' = OwnRecords
  BY <1>1, <1>2, <1>3 DEF OwnRecords
<1>5. PICK r \in queued[v] : /\ r = Summary => queued[v] = {Summary}
                             /\ queued' = [queued EXCEPT ![v] = @ \ {r}]
                             /\ written' = [written EXCEPT ![v] = @ \cup {r}]
  BY DEF WritesRecord
<1>6. CASE script = "none"
  <2>1. kind' = "closed" /\ (Summary \in written[Own] => queued[Own] = {})
    BY <1>3, <1>6 DEF ReportInv
  <2>2. Summary \in written'[Own] => queued'[Own] = {}
    <3>1. CASE v = Own
      <4>1. queued'[Own] = queued[Own] \ {r} /\ written'[Own] = written[Own] \cup {r}
        BY <1>1, <1>5, <3>1 DEF ServersTypeOK
      <4> HIDE DEF Summary
      <4> QED BY <1>5, <2>1, <3>1, <4>1
    <3>2. CASE v # Own
      <4>1. queued'[Own] = queued[Own] /\ written'[Own] = written[Own]
        BY <1>1, <1>5, <3>2 DEF ServersTypeOK
      <4> QED BY <2>1, <4>1
    <3> QED BY <3>1, <3>2
  <2> QED BY <1>1, <1>2, <1>3, <1>4, <1>6, <2>1, <2>2, ReportStays
<1>7. CASE script # "none"
  <2>1. summary' \in [1 .. Points -> [calm : BOOLEAN, stores : SUBSET Records]]
    BY <1>3 DEF ReportInv
  <2> QED BY <1>3, <1>7, <2>1, ArmReports
<1> QED BY <1>6, <1>7

(* A server that ends loses what it has not written, and its window; it    *)
(* loses nothing once its summary is written.                              *)
LEMMA ReportEnded ==
  ASSUME ExperimentInv, ReportInv, NEW v \in Server, v \in Alive, Ends(v)
  PROVE  ReportInv'
<1>1. ServersTypeOK /\ ScriptTypeOK /\ Own \in Server
  BY OwnServer DEF ExperimentInv, ExperimentTypeOK
<1>2. /\ window'[v] = 0 /\ queued'[v] = {}
      /\ \A w \in Server : w # v => window'[w] = window[w] /\ queued'[w] = queued[w]
      /\ UNCHANGED <<written, position, control, files>> /\ pressed' = pressed \ {v}
  BY <1>1, Ending
<1>3. UNCHANGED <<kind, stage, exit, result, hurt, step, summary>>
  BY <1>2 DEF Ends, history, control, files
<1>4. script' = script /\ Own' = Own
  BY <1>2 DEF position, Own
<1>5. CASE script = "none"
  <2>1. kind' = "closed" /\ (Summary \in written[Own] => queued[Own] = {})
    BY <1>3, <1>5 DEF ReportInv
  <2>2. queued'[Own] \subseteq queued[Own]
    BY <1>1, <1>2
  <2>3. /\ OwnRecords' = queued'[Own] \cup written[Own]
        /\ OwnRecords = queued[Own] \cup written[Own]
    BY <1>2, <1>4 DEF OwnRecords
  <2>4. Summary \in OwnRecords' => OwnRecords' = OwnRecords
    BY <1>1, <1>2, <2>1, <2>3
  <2>5. window'[Own] # 0 => /\ window[Own] # 0 /\ OwnRecords' = OwnRecords
                            /\ Own \in pressed' <=> Own \in pressed
    BY <1>1, <1>2, <2>3
  <2>6. Summary \in written'[Own] => queued'[Own] = {}
    BY <1>2, <2>1, <2>2
  <2>7. OwnRecords' \subseteq OwnRecords
    BY <2>2, <2>3
  <2>8. \A w \in Server : written[w] \subseteq written'[w]
    BY <1>2
  <2> QED
    BY <1>1, <1>2, <1>3, <1>4, <1>5, <2>1, <2>4, <2>5, <2>6, <2>7, <2>8, ReportStays
<1>6. CASE script # "none"
  <2>1. summary' \in [1 .. Points -> [calm : BOOLEAN, stores : SUBSET Records]]
    BY <1>3 DEF ReportInv
  <2> QED BY <1>4, <1>6, <2>1, ArmReports
<1> QED BY <1>5, <1>6

(* A closed loop whose exit code is 0 has an answer to every request.      *)
LEMMA AllRequestsWentWell ==
  ASSUME ClientInv, kind = "closed", exit = "0"
  PROVE  \A q \in Requests : result[q] = "ok"
<1>1. Requests = Prompts
  BY DEF Requests, Prompts, Streams
<1> QED BY <1>1 DEF ClientInv, ExitTellsTheTruth

(* The steps after which the script goes on, but for those that open or    *)
(* close a window.                                                         *)
LEMMA ReportOnGoOnSteps ==
  ASSUME ExperimentInv, ReportInv, GoOn,
         \/ Publish \/ PromptsExist \/ Ready \/ Flush \/ NothingToKill \/ ServerStopped \/ Qualify
         \/ StartServer \/ KillServer \/ Reset \/ (ClientExits /\ exit = "0")
  PROVE  ReportInv'
<1>1. /\ ClientTypeOK /\ ClientInv /\ ScriptTypeOK /\ ScriptInv /\ ServerInv /\ PlaceInv
      /\ SweepInv
  BY DEF ExperimentInv, ExperimentTypeOK
<1>2. mode = "run" /\ code = "running"
  <2>1. mode = "run"
    BY DEF Publish, PromptsExist, Ready, Flush, NothingToKill, ServerStopped, Qualify, StartServer,
           KillServer, Reset, ClientExits, IsLoad, Is
  <2> QED BY <1>1, <2>1 DEF ScriptInv
<1>3. script' = script
  BY <1>1, <1>2, GoOnFacts
<1>4. UNCHANGED <<window, queued, written, pressed, summary, hurt, kind>>
  BY DEF Publish, PromptsExist, Ready, Flush, NothingToKill, ServerStopped, Qualify, StartServer,
         KillServer, Reset, ClientExits, client, monitor, files, history
<1>5. stage' = "off" /\ exit' = "running"
  <2>1. CASE ClientExits
    BY <2>1 DEF ClientExits
  <2>2. CASE ~ClientExits
    <3>1. UNCHANGED client /\ Now \notin {"warmup", "measure"}
      BY <2>2 DEF Publish, PromptsExist, Ready, Flush, NothingToKill, ServerStopped, Qualify,
                  StartServer, KillServer, Reset, Is
    <3>2. stage = "off" /\ exit = "running"
      BY <1>1, <1>2, <3>1, NoClientRuns
    <3> QED BY <3>1, <3>2 DEF client
  <2> QED BY <2>1, <2>2
<1>6. Now \notin {"window", "endwindow"}
  BY DEF Publish, PromptsExist, Ready, Flush, NothingToKill, ServerStopped, Qualify, StartServer,
         KillServer, Reset, ClientExits, IsLoad, Is
<1>7. Now = "measure" => ClientExits /\ exit = "0"
  BY DEF Publish, PromptsExist, Ready, Flush, NothingToKill, ServerStopped, Qualify, StartServer,
         KillServer, Reset, Is
<1>8. Now = "flush" => Summary \in written[Own]
  BY DEF Publish, PromptsExist, Ready, Flush, NothingToKill, ServerStopped, Qualify, StartServer,
         KillServer, Reset, ClientExits, IsLoad, Is, Flushed
<1>9. CASE script = "none"
  <2>1. /\ step \notin {6, 8} /\ (step = 7 => Now = "measure") /\ (step = 9 => Now = "flush")
    BY <1>1, <1>6, <1>9, SweepSteps DEF ScriptTypeOK
  <2>2. kind = "closed"
    BY <1>9 DEF ReportInv
  <2>3. step = 7 => exit # "running" /\ \A q \in Requests : result[q] = "ok"
    BY <1>1, <1>7, <2>1, <2>2, AllRequestsWentWell
  <2> QED
    BY <1>1, <1>2, <1>4, <1>5, <1>8, <1>9, <2>1, <2>3, ReportGoesOn
<1>10. CASE script # "none"
  <2>1. summary' \in [1 .. Points -> [calm : BOOLEAN, stores : SUBSET Records]]
    BY <1>4 DEF ReportInv
  <2> QED BY <1>3, <1>10, <2>1, ArmReports
<1> QED BY <1>9, <1>10

(* The steps that open or close a window.                                  *)
LEMMA ReportOnWindows ==
  ASSUME ExperimentInv, ExperimentInv', ReportInv, StartWindow \/ EndWindow
  PROVE  ReportInv'
<1>1. /\ ServersTypeOK /\ ScriptTypeOK /\ ScriptInv /\ ServerInv /\ SweepInv /\ SweepInv'
  BY DEF ExperimentInv, ExperimentTypeOK
<1>2. /\ mode = "run" /\ GoOn /\ Now \notin {"warmup", "measure"} /\ UNCHANGED client
      /\ script # "none" => summary' = summary
  BY DEF StartWindow, EndWindow, Is, files
<1>3. code = "running" /\ stage = "off" /\ exit = "running"
  BY <1>1, <1>2, NoClientRuns DEF ScriptInv
<1>4. stage' = "off" /\ exit' = "running" /\ kind' = kind /\ script' = script
  BY <1>1, <1>2, <1>3, GoOnFacts DEF client
<1>5. CASE script = "none"
  BY <1>1, <1>2, <1>3, <1>4, <1>5, ReportOpens, ReportCloses
<1>6. CASE script # "none"
  <2>1. summary' \in [1 .. Points -> [calm : BOOLEAN, stores : SUBSET Records]]
    BY <1>2, <1>6 DEF ReportInv
  <2> QED BY <1>4, <1>6, <2>1, ArmReports
<1> QED BY <1>5, <1>6

(* What a server does to a measurement.                                    *)
LEMMA ReportOnServerSteps ==
  ASSUME ExperimentInv, ReportInv,
         \/ \E v \in Server : Presses(v)
         \/ \E s \in Senders, v \in Listening, answer \in {"good", "mismatch", "broken"} :
              Answers(s, v, answer)
  PROVE  ReportInv'
<1>1. /\ ClientTypeOK /\ ClientInv /\ ServersTypeOK /\ ScriptTypeOK /\ ScriptInv /\ ServerInv
      /\ SweepInv
  BY DEF ExperimentInv, ExperimentTypeOK
<1>2. CASE script = "none"
  BY <1>1, <1>2, ReportPressed, ReportAnswered
<1>3. CASE script # "none"
  <2>1. UNCHANGED <<script, summary>>
    BY DEF Presses, Answers, position, files
  <2>2. summary' \in [1 .. Points -> [calm : BOOLEAN, stores : SUBSET Records]]
    BY <2>1 DEF ReportInv
  <2> QED BY <1>3, <2>1, <2>2, ArmReports
<1> QED BY <1>2, <1>3

(* A new script has told nothing yet.                                      *)
LEMMA ReportBegins ==
  ASSUME ExperimentInv', NextScript
  PROVE  ReportInv'
<1>1. /\ point' = 1 /\ step' = 1 /\ queued' = NoRecords /\ written' = NoRecords
      /\ summary' = [p \in 1 .. Points |-> NoSummary] /\ hurt' = {} /\ kind' = "closed"
  BY DEF NextScript, Fresh
<1>2. summary' \in [1 .. Points -> [calm : BOOLEAN, stores : SUBSET Records]]
  BY <1>1 DEF NoSummary
<1>3. CASE script' = "none"
  <2>1. Own' \in Server
    BY DEF ExperimentInv, ExperimentTypeOK, ScriptTypeOK, Own, Server
  <2>2. queued'[Own'] = {} /\ written'[Own'] = {} /\ OwnRecords' = {}
    BY <1>1, <2>1 DEF NoRecords, OwnRecords
  <2>3. window'[Own'] = 0
    BY <1>1, <1>3 DEF ExperimentInv, SweepInv
  <2>4. Points \in Nat
    BY ExperimentAssumption
  <2> HIDE DEF Requests, OwnRecords, Tells
  <2> QED BY <1>1, <1>2, <2>2, <2>3, <2>4 DEF ReportInv
<1> QED BY <1>2, <1>3, ArmReports

(* Every step keeps what the summaries say.                                *)
LEMMA ReportStepKeeps ==
  ASSUME ExperimentInv, ExperimentInv', ReportInv, [Next]_vars
  PROVE  ReportInv'
<1>1. CASE ScriptStep
  <2>1. CASE \/ GenerateOpen \/ Verify \/ GenerateFails \/ NotReady \/ CallFails
             \/ FlushTimesOut \/ StopTimesOut \/ ArchiveFails \/ TrapKills \/ TrapEnds
    BY <2>1, ReportOnQuietSteps
  <2>2. CASE NothingToKill \/ Qualify
    <3>1. GoOn \/ Fail
      BY <2>2 DEF NothingToKill, Qualify
    <3> QED BY <2>2, <3>1, ReportOnQuietSteps, ReportOnGoOnSteps
  <2>3. CASE \/ Publish \/ PromptsExist \/ Ready \/ Flush \/ ServerStopped
             \/ StartServer \/ KillServer \/ Reset
    <3>1. GoOn
      BY <2>3 DEF Publish, PromptsExist, Ready, Flush, ServerStopped, StartServer, KillServer, Reset
    <3> QED BY <2>3, <3>1, ReportOnGoOnSteps
  <2>4. CASE RunClient
    BY <2>4, ReportOnClientSteps
  <2>5. CASE ClientExits
    <3>1. exit = "0" => GoOn
      BY <2>5 DEF ClientExits
    <3> QED BY <2>5, <3>1, ReportOnClientSteps, ReportOnGoOnSteps
  <2>6. CASE StartWindow \/ EndWindow
    BY <2>6, ReportOnWindows
  <2> QED BY <1>1, <2>1, <2>2, <2>3, <2>4, <2>5, <2>6 DEF ScriptStep
<1>2. CASE ClientStep
  BY <1>2, ReportOnClientSteps, ReportOnServerSteps DEF ClientStep
<1>3. CASE ServerStep
  <2>1. PICK v \in Server : Serves(v) \/ PortInUse(v) \/ Stops(v) \/ WritesRecord(v)
    BY <1>3 DEF ServerStep
  <2>2. PortInUse(v) \/ Stops(v) => v \in Alive /\ Ends(v)
    BY DEF PortInUse, Stops, Alive, Told
  <2> QED BY <2>1, <2>2, ReportOnQuietSteps, ReportWritten, ReportEnded
<1>4. CASE Mishap
  <2>1. CASE KillScript
    BY <2>1, ReportOnClientSteps
  <2>2. CASE \E v \in Server : Crashes(v)
    BY <2>2, ReportEnded DEF Crashes
  <2>3. CASE \E v \in Server : Presses(v)
    BY <2>3, ReportOnServerSteps
  <2>4. CASE \E v \in Server : GoesSilent(v)
    BY <2>4, ReportOnQuietSteps
  <2> QED BY <1>4, <2>1, <2>2, <2>3, <2>4 DEF Mishap
<1>5. CASE NextScript
  BY <1>5, ReportBegins
<1>6. CASE AllOver \/ UNCHANGED vars
  <2>1. UNCHANGED vars
    BY <1>6 DEF AllOver
  <2> QED BY <2>1, ReportOnQuietSteps
<1> QED BY <1>1, <1>2, <1>3, <1>4, <1>5, <1>6 DEF Next

(* The first script has told nothing yet.                                  *)
LEMMA ReportAtFirst ==
  ASSUME Init
  PROVE  ReportInv
<1>1. /\ point = 1 /\ step = 1 /\ queued = NoRecords /\ written = NoRecords
      /\ window = [v \in Server |-> 0] /\ hurt = {} /\ kind = "closed"
      /\ summary = [p \in 1 .. Points |-> NoSummary]
  BY DEF Init, Off
<1>2. summary \in [1 .. Points -> [calm : BOOLEAN, stores : SUBSET Records]]
  BY <1>1 DEF NoSummary
<1>3. Own \in Server /\ Points \in Nat
  BY ExperimentAssumption DEF Init, Own, Server
<1>4. window[Own] = 0 /\ queued[Own] = {} /\ written[Own] = {} /\ OwnRecords = {}
  BY <1>1, <1>3 DEF NoRecords, OwnRecords
<1> HIDE DEF Requests, OwnRecords, Tells
<1> QED BY <1>1, <1>2, <1>3, <1>4 DEF ReportInv

(* The inductive invariant, for any number of scripts in a row, of points, *)
(* of prompts and of faults.                                               *)
THEOREM ExperimentInvariance == Spec => []ExperimentInv
<1>1. Init => ExperimentInv
  BY InitHolds
<1>2. ExperimentInv /\ [Next]_vars => ExperimentInv'
  BY StepKeeps
<1> QED BY <1>1, <1>2, PTL DEF Spec

(* A file that has its name is complete, whenever the script, the          *)
(* generator or the client was stopped: os.replace comes after the last    *)
(* line was written, and the finally clause only removes temporary files.  *)
THEOREM NamedFilesAreWhole == Spec => []FilesAreWhole
<1>1. ExperimentInv => FilesAreWhole
  BY DEF ExperimentInv, ExperimentTypeOK, ScriptTypeOK, ScriptInv, ClientInv, OnDisk, FilesAreWhole
<1> QED BY <1>1, ExperimentInvariance, PTL

(* The exit code of each client, for any concurrency and any number of     *)
(* prompts, tells what was sent, what went well and what is on disk.       *)
THEOREM ExitCodesAreTrue == Spec => []ExitTellsTheTruth
<1>1. ExperimentInv => ExitTellsTheTruth
  BY DEF ExperimentInv, ClientInv
<1> QED BY <1>1, ExperimentInvariance, PTL

(* A point the sweep has left was measured on the server it started for    *)
(* it, on clean caches, whatever server of an earlier script was there.    *)
THEOREM PointsAreMeasuredOnTheirServer == Spec => []MeasuredOnOwnServer
<1>1. ExperimentInv => MeasuredOnOwnServer
  <2> SUFFICES ASSUME ExperimentInv, script = "none", NEW p \in 1 .. Points,
                      p < point \/ (p = point /\ Now \in {"kill", "wait", "qualify"})
               PROVE  measured[p] = [by |-> {<<number, p>>}, clean |-> TRUE]
    BY DEF MeasuredOnOwnServer
  <2>1. ScriptTypeOK /\ SweepInv
    BY DEF ExperimentInv, ExperimentTypeOK
  <2>2. Now \in {"kill", "wait", "qualify"} => step \in {10, 11, 12}
    BY <2>1, SweepSteps DEF ScriptTypeOK
  <2>3. measured[p] = Good(p)
    BY <2>1, <2>2 DEF SweepInv
  <2> QED BY <2>3 DEF Good
<1> QED BY <1>1, ExperimentInvariance, PTL

(* The sweep passes a point if and only if there was no pressure while it  *)
(* was measured: the files it reads, written by the end of the window and  *)
(* by the monitor behind it, are those of the whole measurement on the own *)
(* server, for any number of requests, of points and of servers.           *)
THEOREM VerdictsAreTrue == Spec => []VerdictTellsTheTruth
<1>1. Init => ReportInv
  BY ReportAtFirst
<1>2. ExperimentInv /\ ExperimentInv' /\ ReportInv /\ [Next]_vars => ReportInv'
  BY ReportStepKeeps
<1>3. ExperimentInv /\ ReportInv => VerdictTellsTheTruth
  <2> SUFFICES ASSUME ExperimentInv, ReportInv, Is("qualify"), NEW p \in 1 .. Points
               PROVE  QualifyPoint(p) <=> p \notin hurt
    BY DEF VerdictTellsTheTruth
  <2>1. ScriptTypeOK /\ EndInv
    BY DEF ExperimentInv, ExperimentTypeOK
  <2>2. script = "none" /\ step = 12
    <3>1. script = "none"
      BY <2>1, FirstSteps DEF Is
    <3> QED BY <2>1, <3>1, SweepSteps DEF ScriptTypeOK, Is
  <2>3. point = Points /\ Points \in Nat
    BY <2>1, <2>2, ExperimentAssumption DEF EndInv
  <2>4. p < point \/ (p = point /\ step >= 10)
    BY <2>2, <2>3
  <2>5. kind = "closed" /\ Requests \subseteq written[<<number, p>>] /\ Tells(p)
    BY <2>2, <2>4 DEF ReportInv
  <2>6. Requests = Prompts
    BY <2>5 DEF Requests, Prompts, Streams
  <2> HIDE DEF Requests
  <2> QED BY <2>5, <2>6 DEF QualifyPoint, Tells
<1> QED BY <1>1, <1>2, <1>3, ExperimentInvariance, PTL DEF Spec

(* A script that ends by itself leaves at most a server that does not      *)
(* react to being told to stop, and none if it succeeds.                   *)
THEOREM ScriptsLeaveNoServer == Spec => []NoServerLeftBehind
<1>1. ExperimentInv => NoServerLeftBehind
  <2> SUFFICES ASSUME ExperimentInv, mode = "over", code # "killed", NEW p \in 1 .. Points
               PROVE  /\ <<number, p>> \in Alive => Told(<<number, p>>)
                      /\ code = "0" => <<number, p>> \notin Alive
    BY DEF NoServerLeftBehind
  <2>1. ScriptTypeOK /\ PlaceInv /\ EndInv
    BY DEF ExperimentInv, ExperimentTypeOK
  <2>2. p < point \/ p = point \/ p > point
    BY <2>1, OwnServer
  <2>3. CASE p < point
    BY <2>1, <2>3, AliveServers DEF PlaceInv
  <2>4. CASE p = point
    BY <2>1, <2>4 DEF EndInv, Own
  <2>5. CASE p > point
    BY <2>1, <2>5, AliveServers DEF PlaceInv, ScriptTypeOK
  <2> QED BY <2>2, <2>3, <2>4, <2>5
<1> QED BY <1>1, ExperimentInvariance, PTL
================================================================================
