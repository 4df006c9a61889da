--------------------------- MODULE SupervisorProofs ---------------------------
(***************************************************************************)
(* What the two halves of coganchor/supervisor.py promise.                 *)
(*                                                                         *)
(* Standing, for any processes and any lengths of output: no command runs  *)
(* on that nothing here would end, and no process reports an end its       *)
(* command did not come to.                                                *)
(*                                                                         *)
(* Mirror, for any files, any processes and any calls of theirs: an edit   *)
(* here reaches the target before a command or a change of names does, the *)
(* supervisor takes none away, what is let through has its bytes, and the  *)
(* mirror is the target's directory while nothing is on its way.           *)
(***************************************************************************)
EXTENDS Standing, Mirror, TLAPS, SequenceTheorems, FiniteSetTheorems

-----------------------------------------------------------------------------
(* Types.                                                                  *)

LEMMA InitTypeOK == Init => TypeOK
<1> SUFFICES ASSUME Init PROVE TypeOK
  OBVIOUS
<1>1. KernelOK
  BY DEF Init, KernelOK, Stages, Closings
<1>2. LoopOK /\ SentOK
  BY DEF Init, LoopOK, SentOK
<1>3. TargetOK
  BY PiecesAssumption DEF Init, TargetOK, Closings
<1>4. ProxyOK
  BY DEF Init, ProxyOK, Closings
<1> QED
  BY <1>1, <1>2, <1>3, <1>4 DEF TypeOK

LEMMA Appends == ASSUME NEW S, NEW s \in Seq(S), NEW x \in S PROVE Append(s, x) \in Seq(S)
  OBVIOUS

LEMMA HeadsTails ==
    ASSUME NEW S, NEW s \in Seq(S), s # <<>> PROVE Head(s) \in S /\ Tail(s) \in Seq(S)
  OBVIOUS

LEMMA Joined == ASSUME NEW S, NEW s \in Seq(S), NEW t \in Seq(S) PROVE s \o t \in Seq(S)
  OBVIOUS

\* What Told adds to a queue is of its kind.
LEMMA TellsTyped ==
    ASSUME NEW s \in Seq({"piece", "why", "end"}), NEW answer
    PROVE  s \o Told(answer) \in Seq({"piece", "why", "end"})
<1>1. Told(answer) \in {<<"why", "end">>, <<"end">>}
  BY DEF Told
<1>2. <<"why", "end">> \in Seq({"piece", "why", "end"}) /\ <<"end">> \in Seq({"piece", "why", "end"})
  OBVIOUS
<1> QED
  BY <1>1, <1>2, Joined

LEMMA AgentTypeOK ==
    ASSUME TypeOK, Crowds \/ Serves \/ Goes \/ \E p \in Procs : Agent(p) \/ Exits(p) PROVE TypeOK'
<1>1. KernelOK' /\ SentOK'
  BY DEF TypeOK, KernelOK, SentOK, Stages, Closings, kernel, Agent, Asks, Signalled, Killed, EndsInput,
         Exits, Crowds, Serves, Goes
<1>2. UNCHANGED <<loop, target, proxy>>
  BY DEF Agent, Asks, Signalled, Killed, EndsInput, Exits, Crowds, Serves, Goes
<1>3. LoopOK' /\ TargetOK'
  BY <1>2 DEF TypeOK, LoopOK, TargetOK, loop, target
<1>4. ProxyOK'
  BY <1>2 DEF TypeOK, ProxyOK, proxy
<1> QED
  BY <1>1, <1>3, <1>4 DEF TypeOK

LEMMA TargetTypeOK == ASSUME TypeOK, NEW p \in Procs, Target(p) PROVE TypeOK'
<1>1. KernelOK' /\ LoopOK' /\ SentOK' /\ ProxyOK'
  BY DEF TypeOK, KernelOK, LoopOK, SentOK, ProxyOK, kernel, loop, proxy, Target, Begins, Writes, Misses, Ends
<1>2. CASE Begins(p)
  <2>1. Append(wire[p], "refused") \in Seq(Closings \cup {"piece", "refused"})
    BY Appends DEF TypeOK, TargetOK
  <2> QED
    BY <1>1, <1>2, <2>1 DEF TypeOK, TargetOK, Begins, Closings
<1>3. CASE Writes(p)
  <2>1. Append(wire[p], "piece") \in Seq(Closings \cup {"piece", "refused"})
    BY Appends DEF TypeOK, TargetOK
  <2> QED
    BY <1>1, <1>3, <2>1, PiecesAssumption DEF TypeOK, TargetOK, Writes
<1>4. ASSUME NEW end \in Closings, Ends(p, end) PROVE TypeOK'
  <2>1. Append(wire[p], end) \in Seq(Closings \cup {"piece", "refused"})
    BY Appends DEF TypeOK, TargetOK
  <2> QED
    BY <1>1, <1>4, <2>1 DEF TypeOK, TargetOK, Ends
<1>5. CASE Misses(p)
  BY <1>1, <1>5 DEF TypeOK, TargetOK, SentOK, Misses
<1> QED
  BY <1>2, <1>3, <1>4, <1>5 DEF Target, Closings

LEMMA LosesTypeOK == ASSUME TypeOK, Loses PROVE TypeOK'
<1>1. KernelOK' /\ LoopOK' /\ SentOK' /\ ProxyOK'
  BY DEF TypeOK, KernelOK, LoopOK, SentOK, ProxyOK, kernel, loop, proxy, Loses
<1>2. wire' \in [Procs -> Seq(Closings \cup {"piece", "refused"})]
  <2>1. [p \in Procs |-> <<>>] \in [Procs -> Seq(Closings \cup {"piece", "refused"})]
    OBVIOUS
  <2> QED
    BY <2>1 DEF TypeOK, TargetOK, Loses
<1> QED
  BY <1>1, <1>2 DEF TypeOK, TargetOK, Loses

LEMMA DeliversTypeOK == ASSUME TypeOK, NEW p \in Procs, Delivers(p) PROVE TypeOK'
<1>1. KernelOK' /\ LoopOK'
  BY DEF TypeOK, KernelOK, LoopOK, kernel, loop, Delivers
<1>2. /\ wire[p] \in Seq(Closings \cup {"piece", "refused"}) /\ wire[p] # <<>>
      /\ outbox[p] \in Seq({"piece", "why", "end"})
  BY DEF TypeOK, TargetOK, ProxyOK, Delivers
<1>3. /\ Head(wire[p]) \in Closings \cup {"piece", "refused"}
      /\ Tail(wire[p]) \in Seq(Closings \cup {"piece", "refused"})
  BY <1>2, HeadsTails
<1>4. TargetOK' /\ SentOK'
  <2>1. wire' = [wire EXCEPT ![p] = Tail(wire[p])]
    BY DEF Delivers
  <2>2. TargetOK'
    BY <1>3, <2>1 DEF TypeOK, TargetOK, Delivers
  <2>3. awaited' \subseteq Procs
    BY DEF TypeOK, SentOK, Delivers
  <2> QED
    BY <2>2, <2>3 DEF TypeOK, SentOK, Delivers
<1>5. CASE Head(wire[p]) = "piece"
  <2>1. Append(outbox[p], "piece") \in Seq({"piece", "why", "end"})
    BY <1>2, Appends
  <2> QED
    BY <1>1, <1>4, <1>5, <2>1 DEF TypeOK, ProxyOK, Delivers, proxy
<1>6. CASE Head(wire[p]) # "piece"
  <2>1. Outcome(Head(wire[p])) \in Closings
    BY <1>3, <1>6 DEF Outcome, Closings
  <2>2. outbox[p] \o Told(Head(wire[p])) \in Seq({"piece", "why", "end"})
    BY <1>2, TellsTyped
  <2>3. ProxyOK'
    BY <1>6, <2>1, <2>2 DEF TypeOK, ProxyOK, Delivers
  <2> QED
    BY <1>1, <1>4, <2>3 DEF TypeOK
<1> QED
  BY <1>5, <1>6

LEMMA NoticesTypeOK == ASSUME TypeOK, Notices PROVE TypeOK'
<1>1. KernelOK' /\ LoopOK' /\ TargetOK' /\ SentOK'
  BY DEF TypeOK, KernelOK, LoopOK, TargetOK, SentOK, kernel, loop, target, Notices
<1>2. ASSUME NEW p \in Procs PROVE outbox[p] \o Told("lost") \in Seq({"piece", "why", "end"})
  BY TellsTyped DEF TypeOK, ProxyOK
<1>3. Outcome("lost") \in Closings
  BY DEF Outcome, Closings
<1>4. outbox' \in [Procs -> Seq({"piece", "why", "end"})] /\ result' \in [Procs -> Closings]
  BY <1>2, <1>3 DEF TypeOK, ProxyOK, Notices
<1> QED
  BY <1>1, <1>4 DEF TypeOK, ProxyOK, Notices

LEMMA PumpsTypeOK ==
    ASSUME TypeOK, NEW p \in Procs, Pours(p) \/ Finishes(p) \/ Feeds(p) PROVE TypeOK'
<1>1. KernelOK' /\ LoopOK' /\ TargetOK' /\ SentOK'
  <2>1. KernelOK' /\ LoopOK' /\ TargetOK'
    BY DEF TypeOK, KernelOK, LoopOK, TargetOK, kernel, loop, target, Pours, Finishes, Feeds
  <2>2. SentOK'
    BY DEF TypeOK, SentOK, Pours, Finishes, Feeds
  <2> QED
    BY <2>1, <2>2
<1>2. CASE Pours(p)
  <2>1. given'[p] \in Nat /\ spilt'[p] \in Nat /\ outbox'[p] \in Seq({"piece", "why", "end"})
    BY <1>2 DEF TypeOK, ProxyOK, Pours
  <2>2. given' \in [Procs -> Nat] /\ spilt' \in [Procs -> Nat]
    BY <1>2, <2>1 DEF TypeOK, ProxyOK, Pours
  <2> QED
    BY <1>1, <1>2, <2>1, <2>2 DEF TypeOK, ProxyOK, Pours
<1>3. CASE Finishes(p)
  BY <1>1, <1>3 DEF TypeOK, ProxyOK, Finishes
<1>4. CASE Feeds(p)
  BY <1>1, <1>4 DEF TypeOK, ProxyOK, Feeds, proxy
<1> QED
  BY <1>2, <1>3, <1>4

LEMMA ReleasesTypeOK == ASSUME TypeOK, Releases PROVE TypeOK'
<1>1. TargetOK' /\ SentOK' /\ LoopOK'
  BY DEF TypeOK, TargetOK, SentOK, LoopOK, target, Releases
<1>2. Head(finished) \in [on : Procs, with : Closings] /\ Tail(finished) \in Seq([on : Procs, with : Closings])
  <2>1. finished \in Seq([on : Procs, with : Closings]) /\ finished # <<>>
    BY DEF TypeOK, ProxyOK, Releases
  <2> QED
    BY <2>1, HeadsTails
<1>3. Head(finished).on \in Procs /\ Head(finished).with \in Closings
  BY <1>2
<1>4. proc' \in [Procs -> Stages] /\ status' \in [Procs -> Closings \cup {"none", "here"}]
  <2>1. EndsWith(Head(finished).on, Head(finished).with) \in Closings \cup {"none", "here"}
    BY <1>3 DEF EndsWith, Closings
  <2> QED
    BY <1>3, <2>1 DEF TypeOK, KernelOK, Releases, Stages
<1> QED
  BY <1>1, <1>2, <1>4 DEF TypeOK, KernelOK, ProxyOK, Releases

LEMMA GivesUpTypeOK == ASSUME TypeOK, NEW left \in SUBSET Procs, Abandon(left)
                       PROVE  /\ sent' \in [Procs -> SUBSET {Cancels, "kill"}]
                              /\ outbox' \in [Procs -> Seq({"piece", "why", "end"})]
<1>1. ASSUME NEW p \in Procs PROVE Append(outbox[p], "end") \in Seq({"piece", "why", "end"})
  BY Appends DEF TypeOK, ProxyOK
<1> QED
  BY <1>1 DEF TypeOK, SentOK, ProxyOK, Abandon

LEMMA LoopTypeOK ==
    ASSUME TypeOK, NEW p \in Procs, Reaps(p) \/ Hears(p) \/ Starts(p) \/ Parks(p) \/ Steps(p)
    PROVE  TypeOK'
<1>1. CASE Reaps(p)
  <2>1. {p} \cap known \cap proxied \in SUBSET Procs /\ Abandon({p} \cap known \cap proxied)
    BY <1>1 DEF Reaps
  <2>2. /\ sent' \in [Procs -> SUBSET {Cancels, "kill"}]
        /\ outbox' \in [Procs -> Seq({"piece", "why", "end"})]
    BY <2>1, GivesUpTypeOK
  <2>3. KernelOK' /\ LoopOK' /\ TargetOK'
    BY <1>1 DEF TypeOK, KernelOK, LoopOK, TargetOK, target, Stages, Reaps
  <2> QED
    BY <1>1, <2>2, <2>3 DEF TypeOK, SentOK, ProxyOK, Reaps
<1>2. CASE Hears(p)
  <2>1. KernelOK' /\ TargetOK' /\ SentOK' /\ ProxyOK'
    BY <1>2 DEF TypeOK, KernelOK, TargetOK, SentOK, ProxyOK, target, proxy, Stages, Hears
  <2>2. sup' = At("start", p)
    BY <1>2 DEF Hears
  <2> QED
    BY <1>2, <2>1, <2>2 DEF TypeOK, LoopOK, Hears
<1>3. CASE Starts(p)
  <2>1. sup' \in {Idle, At("park", p)}
    BY <1>3 DEF Starts
  <2>2. KernelOK' /\ LoopOK'
    BY <1>3, <2>1 DEF TypeOK, KernelOK, LoopOK, Stages, Starts
  <2>3. TargetOK' /\ SentOK' /\ ProxyOK'
    BY <1>3 DEF TypeOK, TargetOK, SentOK, ProxyOK, Starts
  <2> QED
    BY <2>2, <2>3 DEF TypeOK
<1>4. CASE Parks(p)
  <2>1. sup' \in {Idle, At("step", p)}
    BY <1>4 DEF Parks
  <2>2. KernelOK' /\ LoopOK'
    BY <1>4, <2>1 DEF TypeOK, KernelOK, LoopOK, Stages, Parks
  <2>3. TargetOK' /\ SentOK' /\ ProxyOK'
    BY <1>4 DEF TypeOK, TargetOK, SentOK, ProxyOK, target, proxy, Parks
  <2> QED
    BY <2>2, <2>3 DEF TypeOK
<1>5. CASE Steps(p)
  <2>1. KernelOK' /\ LoopOK'
    BY <1>5 DEF TypeOK, KernelOK, LoopOK, Stages, Closings, Steps
  <2>2. TargetOK' /\ SentOK' /\ ProxyOK'
    BY <1>5 DEF TypeOK, TargetOK, SentOK, ProxyOK, target, proxy, Steps
  <2> QED
    BY <2>1, <2>2 DEF TypeOK
<1> QED
  BY <1>1, <1>2, <1>3, <1>4, <1>5

LEMMA StepTypeOK == TypeOK /\ [Next]_vars => TypeOK'
<1> SUFFICES ASSUME TypeOK, [Next]_vars PROVE TypeOK'
  OBVIOUS
<1>1. CASE EndsLoop
  <2>1. sup' = [Idle EXCEPT !.at = "ended"]
    BY <1>1 DEF EndsLoop
  <2>2. known \cap proxied \in SUBSET Procs /\ Abandon(known \cap proxied)
    BY <1>1 DEF TypeOK, LoopOK, EndsLoop
  <2>3. KernelOK' /\ LoopOK' /\ TargetOK'
    BY <1>1, <2>1 DEF TypeOK, KernelOK, LoopOK, TargetOK, kernel, target, EndsLoop
  <2> QED
    BY <1>1, <2>2, <2>3, GivesUpTypeOK DEF TypeOK, SentOK, ProxyOK, EndsLoop
<1>2. CASE Relays
  <2>1. sent' \in [Procs -> SUBSET {Cancels, "kill"}]
    BY <1>2 DEF TypeOK, KernelOK, SentOK, Relays
  <2> QED
    BY <1>2, <2>1 DEF TypeOK, KernelOK, LoopOK, TargetOK, SentOK, ProxyOK, kernel, loop, target, proxy,
                      Relays
<1>3. CASE UNCHANGED vars
  <2>1. KernelOK' /\ LoopOK' /\ TargetOK'
    BY <1>3 DEF TypeOK, KernelOK, LoopOK, TargetOK, vars, kernel, loop, target
  <2>2. SentOK' /\ ProxyOK'
    BY <1>3 DEF TypeOK, SentOK, ProxyOK, vars, proxy
  <2> QED
    BY <2>1, <2>2 DEF TypeOK
<1>4. CASE Loop
  BY <1>1, <1>2, <1>4, ReleasesTypeOK, LoopTypeOK DEF Loop
<1>5. CASE \E p \in Procs : Threads(p)
  BY <1>5, DeliversTypeOK, PumpsTypeOK DEF Threads
<1> QED
  BY <1>3, <1>4, <1>5, AgentTypeOK, TargetTypeOK, LosesTypeOK, NoticesTypeOK DEF Next

\* The types of Standing, for any processes and any lengths of output.
THEOREM TypeCorrect == Spec => []TypeOK
  BY InitTypeOK, StepTypeOK, PTL DEF Spec

-----------------------------------------------------------------------------
(* What is in a queue.                                                     *)

Among(s, S) == \E i \in 1 .. Len(s) : s[i] \in S

LEMMA AmongAppend ==
    ASSUME NEW T, NEW S, NEW s \in Seq(T), NEW x \in T
    PROVE  Among(Append(s, x), S) <=> Among(s, S) \/ x \in S
<1>1. Len(Append(s, x)) = Len(s) + 1 /\ Append(s, x)[Len(s) + 1] = x /\ Len(s) \in Nat
  OBVIOUS
<1>2. \A i \in 1 .. Len(s) : Append(s, x)[i] = s[i]
  OBVIOUS
<1>3. Len(s) + 1 \in 1 .. Len(s) + 1 /\ \A i \in 1 .. Len(s) + 1 : i \in 1 .. Len(s) \/ i = Len(s) + 1
  BY <1>1
<1>4. 1 .. Len(s) \subseteq 1 .. Len(s) + 1
  BY <1>1
<1> QED
  BY <1>1, <1>2, <1>3, <1>4 DEF Among

LEMMA AmongTail ==
    ASSUME NEW T, NEW S, NEW s \in Seq(T), s # <<>>
    PROVE  Among(s, S) <=> Head(s) \in S \/ Among(Tail(s), S)
<1>1. Len(s) \in Nat \ {0} /\ Len(Tail(s)) = Len(s) - 1 /\ Head(s) = s[1]
  OBVIOUS
<1>2. \A i \in 1 .. Len(s) - 1 : Tail(s)[i] = s[i + 1] /\ i + 1 \in 1 .. Len(s)
  BY <1>1
<1>3. \A i \in 1 .. Len(s) : i = 1 \/ (i - 1 \in 1 .. Len(s) - 1 /\ s[i] = Tail(s)[i - 1])
  BY <1>1, <1>2
<1> QED
  BY <1>1, <1>2, <1>3 DEF Among

LEMMA AmongJoined ==
    ASSUME NEW T, NEW S, NEW s \in Seq(T), NEW t \in Seq(T)
    PROVE  Among(s \o t, S) <=> Among(s, S) \/ Among(t, S)
<1>1. Len(s) \in Nat /\ Len(t) \in Nat /\ Len(s \o t) = Len(s) + Len(t)
  OBVIOUS
<1>2. \A i \in 1 .. Len(s) : (s \o t)[i] = s[i] /\ i \in 1 .. Len(s) + Len(t)
  BY <1>1
<1>3. \A i \in 1 .. Len(t) : (s \o t)[Len(s) + i] = t[i] /\ Len(s) + i \in 1 .. Len(s) + Len(t)
  BY <1>1
<1>4. \A i \in 1 .. Len(s) + Len(t) :
         i \in 1 .. Len(s) \/ \E j \in 1 .. Len(t) : (s \o t)[i] = t[j]
  <2> SUFFICES ASSUME NEW i \in 1 .. Len(s) + Len(t), i \notin 1 .. Len(s)
               PROVE  \E j \in 1 .. Len(t) : (s \o t)[i] = t[j]
    OBVIOUS
  <2>1. i - Len(s) \in 1 .. Len(t) /\ Len(s) + (i - Len(s)) = i
    BY <1>1
  <2> QED
    BY <1>3, <2>1
<1>5. Among(s \o t, S) => Among(s, S) \/ Among(t, S)
  BY <1>1, <1>2, <1>4 DEF Among
<1>6. Among(s, S) \/ Among(t, S) => Among(s \o t, S)
  BY <1>1, <1>2, <1>3 DEF Among
<1> QED
  BY <1>5, <1>6

LEMMA AmongNone == ASSUME NEW S PROVE ~Among(<<>>, S)
  BY DEF Among

-----------------------------------------------------------------------------
(* Nothing runs on that nothing here would end.                            *)

\* A connection that is gone has nothing running behind it.
Lost == link # "up" => \A p \in Procs : ~Going(p)

\* Only a process that is gone is not known, and one that is to start a command has none.
Known ==
    \A p \in Procs :
        /\ p \notin known => proc[p] = "reaped"
        /\ sup = At("start", p) => proc[p] \in {"held", "dead"} /\ cmd[p] = "none" /\ p \notin proxied
        /\ proc[p] = "asking" => cmd[p] = "none" /\ p \notin proxied

\* A command that is given up, or will never be asked for.
GivenUp(p) ==
    \/ "kill" \in sent[p] \/ cmd[p] = "over" \/ link # "up"
    \/ cmd[p] = "none" /\ (proc[p] = "reaped" \/ sup.at = "ended")

\* The end of a command is on its way to the loop only when it has ended, or is given up.
Reporting(p) == Among(outbox[p], {"end"}) \/ Among(finished, [on : {p}, with : Closings])
Settled ==
    \A p \in Procs : /\ Reporting(p) => GivenUp(p)
                     /\ Among(wire[p], Closings \cup {"refused"}) => cmd[p] = "over"

LInv == TypeOK /\ Lost /\ Known /\ NeverLosesTrack /\ Settled

LEMMA Ats == /\ \A stage, p : At(stage, p) # Idle /\ At(stage, p) # [Idle EXCEPT !.at = "ended"]
             /\ \A stage, p : At(stage, p).at = stage /\ Idle.at = "idle"
             /\ \A stage, p, q : At(stage, p) = At(stage, q) => p = q
             /\ [Idle EXCEPT !.at = "ended"].at = "ended"
  BY DEF At, Idle

LEMMA InitLInv == Init => LInv
<1> SUFFICES ASSUME Init PROVE LInv
  OBVIOUS
<1>1. Lost /\ Known /\ NeverLosesTrack
  BY Ats DEF Init, Lost, Known, NeverLosesTrack, Going
<1>2. Settled
  BY AmongNone DEF Init, Settled, Reporting
<1> QED
  BY <1>1, <1>2, InitTypeOK DEF LInv

LEMMA StepLost == ASSUME LInv, Next PROVE Lost'
<1>1. ASSUME UNCHANGED <<cmd, link>> PROVE Lost'
  BY <1>1 DEF LInv, Lost, Going
<1>2. ASSUME NEW p \in Procs, Target(p) PROVE Lost'
  BY <1>2 DEF LInv, TypeOK, TargetOK, Lost, Going, Target, Begins, Writes, Misses, Ends
<1>3. ASSUME Loses \/ Notices PROVE Lost'
  BY <1>3 DEF LInv, TypeOK, TargetOK, Lost, Going, Loses, Notices, target
<1>4. ASSUME NEW p \in Procs, Starts(p) PROVE Lost'
  BY <1>4 DEF LInv, TypeOK, TargetOK, Lost, Going, Starts
<1>5. ASSUME NEW p \in Procs, Agent(p) \/ Exits(p) \/ Threads(p) PROVE Lost'
  BY <1>1, <1>5 DEF target, Agent, Asks, Signalled, Killed, EndsInput, Exits, Threads, Delivers, Pours,
                    Finishes, Feeds
<1>6. ASSUME NEW p \in Procs, Reaps(p) \/ Hears(p) \/ Parks(p) \/ Steps(p) PROVE Lost'
  BY <1>1, <1>6 DEF target, Reaps, Hears, Parks, Steps
<1>7. ASSUME Crowds \/ Serves \/ Goes \/ Releases \/ EndsLoop \/ Relays PROVE Lost'
  BY <1>1, <1>7 DEF target, Crowds, Serves, Goes, Releases, EndsLoop, Relays
<1> QED
  BY <1>2, <1>3, <1>4, <1>5, <1>6, <1>7 DEF Next, Loop

LEMMA StepKnown == ASSUME LInv, Next PROVE Known'
<1>t. TypeOK /\ Known
  BY DEF LInv
<1>1. ASSUME UNCHANGED <<proc, known, sup, cmd, proxied>> PROVE Known'
  BY <1>t, <1>1 DEF Known
<1>2. ASSUME NEW p \in Procs, Asks(p) PROVE Known'
  BY <1>t, <1>2 DEF Known, Asks, loop, target, TypeOK, KernelOK
<1>3. ASSUME NEW p \in Procs, Signalled(p) \/ EndsInput(p) PROVE Known'
  BY <1>1, <1>3 DEF Signalled, EndsInput, kernel, loop, target
<1>4. ASSUME NEW p \in Procs, Killed(p) \/ Exits(p) PROVE Known'
  BY <1>t, <1>4 DEF Known, Killed, Stopped, Exits, loop, target, TypeOK, KernelOK
<1>5. ASSUME NEW p \in Procs, Target(p) PROVE Known'
  <2>1. \A q \in Procs : cmd[q] = "none" <=> cmd'[q] = "none"
    BY <1>t, <1>5 DEF TypeOK, TargetOK, Target, Begins, Writes, Misses, Ends
  <2>2. UNCHANGED <<proc, known, sup, proxied>>
    BY <1>5 DEF Target, Begins, Writes, Misses, Ends, kernel, loop
  <2> QED
    BY <1>t, <2>1, <2>2 DEF Known
<1>6. ASSUME NEW p \in Procs, Threads(p) PROVE Known'
  BY <1>1, <1>6 DEF Threads, Delivers, Pours, Finishes, Feeds, kernel, loop, target
<1>7. ASSUME Loses \/ Notices \/ Crowds \/ Serves \/ Goes \/ Relays PROVE Known'
  <2>1. \A q \in Procs : cmd[q] = "none" <=> cmd'[q] = "none"
    BY <1>t, <1>7 DEF TypeOK, TargetOK, Loses, Notices, Crowds, Serves, Goes, Relays, target
  <2>2. UNCHANGED <<proc, known, sup, proxied>>
    BY <1>7 DEF Loses, Notices, Crowds, Serves, Goes, Relays, kernel, loop
  <2> QED
    BY <1>t, <2>1, <2>2 DEF Known
<1>8. ASSUME Releases PROVE Known'
  <2>1. \A q \in Procs : proc'[q] = proc[q] \/ (proc[q] \in {"stayed", "parked"} /\ proc'[q] = "leaving")
    BY <1>t, <1>8 DEF TypeOK, KernelOK, Releases
  <2>2. proxied' \subseteq proxied /\ UNCHANGED <<known, sup, cmd>>
    BY <1>8 DEF Releases, target
  <2> QED
    BY <1>t, <2>1, <2>2 DEF Known
<1>9. ASSUME NEW p \in Procs, Reaps(p) PROVE Known'
  BY <1>t, <1>9, Ats DEF Known, Reaps, TypeOK, KernelOK, LoopOK, target
<1>10. ASSUME NEW p \in Procs, Hears(p) PROVE Known'
  BY <1>t, <1>10, Ats DEF Known, Hears, TypeOK, KernelOK, target
<1>11. ASSUME NEW p \in Procs, Starts(p) PROVE Known'
  <2>1. proc[p] \in {"held", "dead"} /\ sup' \in {Idle, At("park", p)} /\ UNCHANGED known
    BY <1>t, <1>11 DEF Known, Starts
  <2>2. \A q \in Procs : sup' # At("start", q)
    BY <2>1, Ats
  <2>3. /\ \A q \in Procs \ {p} : proc'[q] = proc[q] /\ cmd'[q] = cmd[q]
        /\ proxied' = proxied \cup {p}
    BY <1>t, <1>11 DEF TypeOK, KernelOK, TargetOK, Starts
  <2>4. proc'[p] \in {"held", "dead", "running"} /\ p \in known
    BY <1>t, <1>11, <2>1 DEF TypeOK, KernelOK, Known, Starts
  <2> QED
    BY <1>t, <2>1, <2>2, <2>3, <2>4 DEF Known
<1>12. ASSUME NEW p \in Procs, Parks(p) \/ Steps(p) PROVE Known'
  <2>1. sup' \in {Idle, At("step", p)} /\ UNCHANGED <<known, proxied, cmd>>
    BY <1>12 DEF Parks, Steps, target
  <2>2. \A q \in Procs : sup' # At("start", q)
    BY <2>1, Ats
  <2>3. \A q \in Procs : proc'[q] = proc[q] \/ proc'[q] \in {"launched", "stayed", "parked", "dead", "reaped"}
    BY <1>t, <1>12 DEF TypeOK, KernelOK, Parks, Steps
  <2>4. \A q \in Procs : proc[q] = "reaped" => proc'[q] = "reaped"
    BY <1>t, <1>12 DEF TypeOK, KernelOK, Parks, Steps
  <2> QED
    BY <1>t, <2>1, <2>2, <2>3, <2>4 DEF Known
<1>13. ASSUME EndsLoop PROVE Known'
  BY <1>t, <1>13, Ats DEF Known, EndsLoop, kernel, target
<1> QED
  BY <1>2, <1>3, <1>4, <1>5, <1>6, <1>7, <1>8, <1>9, <1>10, <1>11, <1>12, <1>13 DEF Next, Loop, Agent

\* A kill that has been sent is not taken back.
LEMMA SentGrows == ASSUME TypeOK, Next, NEW p \in Procs, "kill" \in sent[p] PROVE "kill" \in sent'[p]
<1>1. ASSUME NEW q \in Procs, Agent(q) \/ Exits(q) \/ Target(q) \/ Threads(q) PROVE sent' = sent
  BY <1>1 DEF Agent, Asks, Signalled, Killed, EndsInput, Exits, Target, Begins, Writes, Misses, Ends, Threads,
     Delivers, Pours, Finishes, Feeds
<1>2. ASSUME NEW q \in Procs, Hears(q) \/ Starts(q) \/ Parks(q) \/ Steps(q) PROVE sent' = sent
  BY <1>2 DEF Hears, Starts, Parks, Steps
<1>3. ASSUME Crowds \/ Serves \/ Goes \/ Loses \/ Notices \/ Releases PROVE sent' = sent
  BY <1>3 DEF Crowds, Serves, Goes, Loses, Notices, Releases
<1>4. ASSUME NEW left, Abandon(left) PROVE "kill" \in sent'[p]
  BY <1>4 DEF Abandon
<1>5. ASSUME (\E q \in Procs : Reaps(q)) \/ EndsLoop PROVE "kill" \in sent'[p]
  BY <1>4, <1>5 DEF Reaps, EndsLoop
<1>6. ASSUME Relays PROVE "kill" \in sent'[p]
  BY <1>6 DEF Relays
<1> QED
  BY <1>1, <1>2, <1>3, <1>5, <1>6 DEF Next, Loop

\* What is given up stays so.
LEMMA StaysGivenUp == ASSUME LInv, Next, NEW p \in Procs, GivenUp(p) PROVE GivenUp(p)'
<1>t. TypeOK /\ Known
  BY DEF LInv
<1>1. ASSUME "kill" \in sent[p] PROVE "kill" \in sent'[p]
  BY <1>t, <1>1, SentGrows
<1>2. ASSUME link # "up" PROVE link' # "up"
  BY <1>t, <1>2 DEF Next, Loop, Crowds, Serves, Goes, Loses, Notices, Agent, Asks, Signalled, Killed,
     EndsInput, Exits, Target, Begins, Writes, Misses, Ends, Threads, Delivers, Pours, Finishes, Feeds, Releases,
     EndsLoop, Relays, Reaps, Hears, Starts, Parks, Steps, proxy
<1>3. ASSUME cmd[p] = "over" PROVE cmd'[p] = "over"
  BY <1>t, <1>3 DEF TypeOK, TargetOK, Known, Next, Loop, Crowds, Serves, Goes, Loses, Notices, Agent, Asks, Signalled,
     Killed, EndsInput, Exits, Target, Begins, Writes, Misses, Ends, Threads, Delivers, Pours, Finishes, Feeds,
     Releases, EndsLoop, Relays, Reaps, Hears, Starts, Parks, Steps, target
<1>4. ASSUME cmd[p] = "none", proc[p] = "reaped" PROVE cmd'[p] = "none" /\ proc'[p] = "reaped"
  <2>1. proc'[p] = "reaped"
    BY <1>t, <1>4 DEF TypeOK, KernelOK, Known, Stopped, Next, Loop, Crowds, Serves, Goes, Loses, Notices, Agent, Asks,
       Signalled, Killed, EndsInput, Exits, Target, Begins, Writes, Misses, Ends, Threads, Delivers, Pours, Finishes,
       Feeds, Releases, EndsLoop, Relays, Reaps, Hears, Starts, Parks, Steps, kernel
  <2>2. cmd'[p] = "none"
    BY <1>t, <1>4 DEF TypeOK, TargetOK, Known, Next, Loop, Crowds, Serves, Goes, Loses, Notices, Agent, Asks, Signalled,
       Killed, EndsInput, Exits, Target, Begins, Writes, Misses, Ends, Threads, Delivers, Pours, Finishes, Feeds,
       Releases, EndsLoop, Relays, Reaps, Hears, Starts, Parks, Steps, target
  <2> QED
    BY <2>1, <2>2
<1>5. ASSUME cmd[p] = "none", sup.at = "ended" PROVE cmd'[p] = "none" /\ sup'.at = "ended"
  <2>1. sup # Idle /\ \A q \in Procs, stage \in {"start", "park", "step"} : sup # At(stage, q)
    BY <1>5, Ats
  <2>2. ~Loop
    BY <2>1 DEF Loop, Releases, EndsLoop, Relays, Reaps, Hears, Starts, Parks, Steps
  <2>3. UNCHANGED sup
    BY <2>2 DEF Next, Crowds, Serves, Goes, Loses, Notices, Agent, Asks, Signalled, Killed, EndsInput, Exits, Target,
       Begins, Writes, Misses, Ends, Threads, Delivers, Pours, Finishes, Feeds, loop
  <2>4. cmd'[p] = "none"
    BY <1>t, <1>5, <2>2 DEF TypeOK, TargetOK, Next, Crowds, Serves, Goes, Loses, Notices, Agent, Asks, Signalled, Killed,
       EndsInput, Exits, Target, Begins, Writes, Misses, Ends, Threads, Delivers, Pours, Finishes, Feeds, target
  <2> QED
    BY <1>5, <2>3, <2>4
<1> QED
  BY <1>1, <1>2, <1>3, <1>4, <1>5 DEF GivenUp

LEMMA StepTracked == ASSUME LInv, Next PROVE NeverLosesTrack'
<1>t. TypeOK /\ Known /\ Lost /\ NeverLosesTrack /\ Settled
  BY DEF LInv
<1> DEFINE Tracked(p) == (p \in known \cap proxied /\ sup.at # "ended") \/ "kill" \in sent[p]
<1>s. ASSUME NEW p \in Procs, "kill" \in sent[p] PROVE "kill" \in sent'[p]
  BY <1>t, <1>s, SentGrows
<1>g. ASSUME NEW p \in Procs, Going(p)' PROVE Going(p) \/ Starts(p)
  <2>1. ASSUME cmd' = cmd PROVE Going(p)
    BY <1>g, <2>1 DEF Going
  <2>2. ASSUME NEW q \in Procs, Target(q) PROVE Going(p)
    BY <1>t, <1>g, <2>2 DEF TypeOK, TargetOK, Going, Target, Begins, Writes, Misses, Ends
  <2>3. ASSUME NEW q \in Procs, Starts(q) PROVE Going(p) \/ Starts(p)
    BY <1>t, <1>g, <2>3 DEF TypeOK, TargetOK, Going, Starts
  <2>4. ASSUME Loses PROVE Going(p)
    BY <1>t, <1>g, <2>4 DEF TypeOK, TargetOK, Going, Loses
  <2>5. ASSUME NEW q \in Procs, Agent(q) \/ Exits(q) \/ Threads(q) PROVE cmd' = cmd
    BY <2>5 DEF Agent, Asks, Signalled, Killed, EndsInput, Exits, Threads, Delivers, Pours, Finishes, Feeds,
       target
  <2>6. ASSUME NEW q \in Procs, Reaps(q) \/ Hears(q) \/ Parks(q) \/ Steps(q) PROVE cmd' = cmd
    BY <2>6 DEF Reaps, Hears, Parks, Steps, target
  <2>7. ASSUME Crowds \/ Serves \/ Goes \/ Notices \/ Releases \/ EndsLoop \/ Relays PROVE cmd' = cmd
    BY <2>7 DEF Crowds, Serves, Goes, Notices, Releases, EndsLoop, Relays, target
  <2> QED
    BY <2>1, <2>2, <2>3, <2>4, <2>5, <2>6, <2>7 DEF Next, Loop
<1>k. \A p \in Procs : Going(p) => Tracked(p)
  BY <1>t DEF NeverLosesTrack
<1> SUFFICES ASSUME NEW p \in Procs, Going(p)' PROVE Tracked(p)'
  BY DEF NeverLosesTrack
<1>1. CASE Starts(p)
  <2>1. proc[p] \in {"held", "dead"} /\ cmd[p] = "none" /\ p \in known
    BY <1>t, <1>1 DEF Known, Starts
  <2>2. sup' = At("park", p) /\ p \in known' /\ p \in proxied'
    BY <1>1, <2>1 DEF Starts, Going
  <2> QED
    BY <2>2, Ats
<1>2. ASSUME UNCHANGED <<known, proxied, sup>>, Going(p) PROVE Tracked(p)'
  BY <1>2, <1>k, <1>s
<1>3. ASSUME Crowds \/ Serves \/ Goes \/ Loses \/ Notices \/ Relays \/ \E q \in Procs : Agent(q) \/ Exits(q) \/ Target(q) \/ Threads(q)
      PROVE  UNCHANGED <<known, proxied, sup>>
  BY <1>3 DEF Crowds, Serves, Goes, Loses, Notices, Relays, Agent, Asks, Signalled, Killed, EndsInput, Exits, Target, Begins,
     Writes, Misses, Ends, Threads, Delivers, Pours, Finishes, Feeds, loop
<1>4. ASSUME NEW q \in Procs, Hears(q) \/ Parks(q) \/ Steps(q), Going(p) PROVE Tracked(p)'
  <2>1. UNCHANGED <<known, proxied, sent>> /\ sup' \in {Idle} \cup {At(stage, q) : stage \in {"start", "step"}}
    BY <1>4 DEF Hears, Parks, Steps
  <2>2. sup'.at # "ended"
    BY <2>1, Ats
  <2> QED
    BY <1>4, <1>k, <2>1, <2>2
<1>5. ASSUME NEW q \in Procs, Starts(q), Going(p) PROVE Tracked(p)'
  <2>1. known' = known /\ proxied \subseteq proxied' /\ sup' \in {Idle, At("park", q)}
    BY <1>5 DEF Starts
  <2>2. sup'.at # "ended"
    BY <2>1, Ats
  <2> QED
    BY <1>5, <1>k, <1>s, <2>1, <2>2
<1>6. ASSUME NEW q \in Procs, Reaps(q), Going(p) PROVE Tracked(p)'
  <2>1. UNCHANGED sup /\ known' = known \ {q} /\ proxied' = proxied \ {q} /\ Abandon({q} \cap known \cap proxied)
    BY <1>6 DEF Reaps
  <2>2. ASSUME p \in {q} \cap known \cap proxied PROVE "kill" \in sent'[p]
    BY <1>t, <1>6, <2>1, <2>2 DEF Abandon, Going
  <2> QED
    BY <1>6, <1>k, <1>s, <2>1, <2>2
<1>7. ASSUME EndsLoop, Going(p) PROVE Tracked(p)'
  <2>1. p \in known \cap proxied => "kill" \in sent'[p]
    BY <1>7 DEF EndsLoop, Abandon, Going
  <2> QED
    BY <1>7, <1>k, <1>s, <2>1
<1>8. ASSUME Releases, Going(p) PROVE Tracked(p)'
  <2>1. CASE finished # <<>> /\ Head(finished).on = p
    <3>1. finished \in Seq([on : Procs, with : Closings])
      BY <1>t DEF TypeOK, ProxyOK
    <3>2. Head(finished) \in [on : Procs, with : Closings]
      BY <2>1, <3>1, HeadsTails
    <3>3. Head(finished) \in [on : {p}, with : Closings]
      BY <2>1, <3>2
    <3>4. Reporting(p)
      BY <2>1, <3>1, <3>3, AmongTail DEF Reporting
    <3>5. GivenUp(p)
      BY <1>t, <3>4 DEF Settled
    <3>6. "kill" \in sent[p]
      BY <1>t, <1>8, <3>5 DEF GivenUp, Lost, Going
    <3> QED
      BY <1>s, <3>6
  <2>2. CASE Head(finished).on # p
    <3>1. UNCHANGED <<known, sup>> /\ (p \in proxied => p \in proxied')
      BY <1>8, <2>2 DEF Releases
    <3> QED
      BY <1>8, <1>k, <1>s, <3>1
  <2> QED
    BY <1>8, <2>1, <2>2 DEF Releases
<1> QED
  BY <1>g, <1>1, <1>2, <1>3, <1>4, <1>5, <1>6, <1>7, <1>8 DEF Next, Loop

\* A command whose end is on its way here is over.
Ending == \A p \in Procs : Among(wire[p], Closings \cup {"refused"}) => cmd[p] = "over"

LEMMA StaysOver == ASSUME LInv, Next, NEW p \in Procs, cmd[p] = "over" PROVE cmd'[p] = "over"
  BY DEF LInv, TypeOK, TargetOK, Known, Next, Loop, Crowds, Serves, Goes, Loses, Notices, Agent, Asks, Signalled,
     Killed, EndsInput, Exits, Target, Begins, Writes, Misses, Ends, Threads, Delivers, Pours, Finishes, Feeds,
     Releases, EndsLoop, Relays, Reaps, Hears, Starts, Parks, Steps, target

LEMMA StepEnding == ASSUME LInv, Next PROVE Ending'
<1>t. TypeOK /\ Ending
  BY DEF LInv, Settled, Ending
<1> DEFINE S == Closings \cup {"refused"}
           T == Closings \cup {"piece", "refused"}
<1> SUFFICES ASSUME NEW p \in Procs, Among(wire'[p], S) PROVE cmd'[p] = "over"
  BY DEF Ending
<1>w. wire[p] \in Seq(T)
  BY <1>t DEF TypeOK, TargetOK
<1>1. ASSUME wire'[p] = wire[p] PROVE cmd'[p] = "over"
  BY <1>t, <1>1, StaysOver DEF Ending
<1>2. ASSUME NEW q \in Procs, Target(q) PROVE cmd'[p] = "over"
  <2>1. CASE q # p \/ wire' = wire
    BY <1>1, <1>2, <2>1, <1>t DEF Target, Begins, Writes, Misses, Ends, TypeOK, TargetOK
  <2>2. CASE Writes(p)
    <3>1. wire'[p] = Append(wire[p], "piece") /\ "piece" \notin S /\ "piece" \in T
      BY <1>t, <2>2 DEF Writes, TypeOK, TargetOK, Closings
    <3>2. Among(wire[p], S)
      BY <1>w, <3>1, AmongAppend
    <3> QED
      BY <1>t, <3>2, StaysOver DEF Ending
  <2>3. CASE cmd'[p] = "over"
    BY <2>3
  <2>4. (Begins(p) /\ wire' # wire) \/ (\E end \in {"ok", "failed", "term", "kill"} : Ends(p, end))
            => cmd'[p] = "over"
    BY <1>t DEF Begins, Ends, TypeOK, TargetOK
  <2>5. CASE Misses(q)
    BY <1>1, <2>5 DEF Misses
  <2> QED
    BY <1>2, <2>1, <2>2, <2>3, <2>4, <2>5 DEF Target
<1>3. ASSUME Loses PROVE cmd'[p] = "over"
  <2>1. wire'[p] = wire[p] \/ wire'[p] = <<>>
    BY <1>3 DEF Loses
  <2> QED
    BY <1>1, <2>1, AmongNone
<1>4. ASSUME NEW q \in Procs, Delivers(q) PROVE cmd'[p] = "over"
  <2>1. CASE q = p
    <3>1. wire[p] # <<>> /\ wire'[p] = Tail(wire[p])
      BY <1>t, <1>4, <2>1 DEF Delivers, TypeOK, TargetOK
    <3>2. Among(wire[p], S)
      BY <1>w, <3>1, AmongTail
    <3> QED
      BY <1>t, <3>2, StaysOver DEF Ending
  <2>2. CASE q # p
    BY <1>1, <1>4, <2>2, <1>t DEF Delivers, TypeOK, TargetOK
  <2> QED
    BY <2>1, <2>2
<1>5. ASSUME NEW q \in Procs, Agent(q) \/ Exits(q) \/ Pours(q) \/ Finishes(q) \/ Feeds(q) PROVE cmd'[p] = "over"
  BY <1>1, <1>5 DEF Agent, Asks, Signalled, Killed, EndsInput, Exits, Pours, Finishes, Feeds, target
<1>6. ASSUME NEW q \in Procs, Reaps(q) \/ Hears(q) \/ Starts(q) \/ Parks(q) \/ Steps(q) PROVE cmd'[p] = "over"
  BY <1>1, <1>6 DEF Reaps, Hears, Starts, Parks, Steps, target
<1>7. ASSUME Crowds \/ Serves \/ Goes \/ Notices \/ Releases \/ EndsLoop \/ Relays PROVE cmd'[p] = "over"
  BY <1>1, <1>7 DEF Crowds, Serves, Goes, Notices, Releases, EndsLoop, Relays, target
<1> QED
  BY <1>2, <1>3, <1>4, <1>5, <1>6, <1>7 DEF Next, Loop, Threads

\* A command whose end is reported to the loop has ended, or is given up.
LEMMA StepReported == ASSUME LInv, Next, NEW p \in Procs, Reporting(p)' PROVE GivenUp(p)'
<1>t. TypeOK /\ Settled
  BY DEF LInv
<1> DEFINE T == {"piece", "why", "end"}
           R == [on : Procs, with : Closings]
<1>o. outbox[p] \in Seq(T) /\ finished \in Seq(R)
  BY <1>t DEF TypeOK, ProxyOK
<1>1. ASSUME Reporting(p) PROVE GivenUp(p)'
  BY <1>t, <1>1, StaysGivenUp DEF Settled
<1>2. ASSUME outbox'[p] = outbox[p], UNCHANGED finished PROVE GivenUp(p)'
  BY <1>1, <1>2 DEF Reporting
<1>3. ASSUME NEW q \in Procs, Delivers(q) PROVE GivenUp(p)'
  <2>1. UNCHANGED finished /\ wire[q] # <<>>
    BY <1>3 DEF Delivers
  <2>2. CASE q # p
    BY <1>2, <1>3, <2>1, <2>2, <1>t DEF Delivers, TypeOK, ProxyOK
  <2>3. CASE q = p /\ Head(wire[p]) = "piece"
    <3>1. outbox'[p] = Append(outbox[p], "piece") /\ "piece" \in T /\ "piece" \notin {"end"}
      BY <1>3, <1>t, <2>3 DEF Delivers, TypeOK, ProxyOK
    <3>2. Among(outbox'[p], {"end"}) => Among(outbox[p], {"end"})
      BY <1>o, <3>1, AmongAppend
    <3> QED
      BY <1>1, <2>1, <3>2 DEF Reporting
  <2>4. CASE q = p /\ Head(wire[p]) # "piece"
    <3>1. wire[p] \in Seq(Closings \cup {"piece", "refused"}) /\ wire[p] # <<>>
      BY <1>t, <2>1, <2>4 DEF TypeOK, TargetOK
    <3>2. Head(wire[p]) \in Closings \cup {"refused"}
      BY <2>4, <3>1, HeadsTails
    <3>3. Among(wire[p], Closings \cup {"refused"})
      BY <3>1, <3>2, AmongTail
    <3> QED
      BY <1>t, <3>3, StaysOver DEF Settled, GivenUp
  <2> QED
    BY <2>2, <2>3, <2>4
<1>4. ASSUME Notices PROVE GivenUp(p)'
  BY <1>4 DEF Notices, GivenUp
<1>5. ASSUME NEW q \in Procs, Pours(q) PROVE GivenUp(p)'
  <2>1. UNCHANGED finished /\ (outbox'[p] = outbox[p] \/ (outbox[p] # <<>> /\ outbox'[p] = Tail(outbox[p])))
    BY <1>5, <1>t DEF Pours, TypeOK, ProxyOK
  <2>2. Among(outbox'[p], {"end"}) => Among(outbox[p], {"end"})
    BY <1>o, <2>1, AmongTail
  <2> QED
    BY <1>1, <2>1, <2>2 DEF Reporting
<1>6. ASSUME NEW q \in Procs, Finishes(q) PROVE GivenUp(p)'
  <2>1. /\ outbox[q] # <<>> /\ Head(outbox[q]) = "end" /\ UNCHANGED outbox
        /\ finished' = Append(finished, [on |-> q, with |-> result[q]]) /\ [on |-> q, with |-> result[q]] \in R
    BY <1>6, <1>t DEF Finishes, TypeOK, ProxyOK
  <2>2. CASE q = p
    BY <1>1, <1>o, <2>1, <2>2, AmongTail DEF Reporting
  <2>3. CASE q # p
    <3>1. [on |-> q, with |-> result[q]] \notin [on : {p}, with : Closings]
      BY <2>3
    <3>2. ASSUME NEW E, [on |-> q, with |-> result[q]] \notin E
          PROVE  Among(finished', E) => Among(finished, E)
      <4> DEFINE rec == [on |-> q, with |-> result[q]]
      <4> HIDE DEF rec
      <4>1. rec \in R /\ rec \notin E /\ finished' = Append(finished, rec)
        BY <2>1, <3>2 DEF rec
      <4> QED
        BY <1>o, <4>1, AmongAppend
    <3> QED
      BY <1>1, <2>1, <3>1, <3>2 DEF Reporting
  <2> QED
    BY <2>2, <2>3
<1>7. ASSUME Releases PROVE GivenUp(p)'
  <2>1. UNCHANGED outbox /\ finished # <<>> /\ finished' = Tail(finished)
    BY <1>7 DEF Releases
  <2>2. ASSUME NEW E PROVE Among(Tail(finished), E) => Among(finished, E)
    BY <1>o, <2>1, AmongTail
  <2> QED
    BY <1>1, <2>1, <2>2 DEF Reporting
<1>8. ASSUME NEW left \in SUBSET Procs, Abandon(left), UNCHANGED <<finished, cmd>>,
             p \in left /\ cmd[p] = "none" => GivenUp(p)'
      PROVE  GivenUp(p)'
  <2>1. CASE p \in left /\ cmd[p] # "none"
    BY <1>8, <2>1 DEF Abandon, GivenUp
  <2>2. CASE p \notin left
    BY <1>2, <1>8, <2>2, <1>t DEF Abandon, TypeOK, ProxyOK
  <2> QED
    BY <1>8, <2>1, <2>2
<1>9. ASSUME NEW q \in Procs, Reaps(q) PROVE GivenUp(p)'
  <2>1. /\ {q} \cap known \cap proxied \in SUBSET Procs /\ Abandon({q} \cap known \cap proxied)
        /\ UNCHANGED <<finished, cmd>> /\ proc'[q] = "reaped"
    BY <1>9, <1>t DEF Reaps, target, TypeOK, KernelOK
  <2>2. p \in {q} \cap known \cap proxied /\ cmd[p] = "none" => GivenUp(p)'
    BY <2>1 DEF GivenUp
  <2> QED
    BY <1>8, <2>1, <2>2
<1>10. ASSUME EndsLoop PROVE GivenUp(p)'
  <2>1. /\ known \cap proxied \in SUBSET Procs /\ Abandon(known \cap proxied)
        /\ UNCHANGED <<finished, cmd>> /\ sup' = [sup EXCEPT !.at = "ended"] /\ sup = Idle
    BY <1>10, <1>t DEF EndsLoop, target, TypeOK, LoopOK
  <2>2. p \in known \cap proxied /\ cmd[p] = "none" => GivenUp(p)'
    BY <2>1, Ats DEF GivenUp
  <2> QED
    BY <1>8, <2>1, <2>2
<1>11. ASSUME NEW q \in Procs, Agent(q) \/ Exits(q) \/ Target(q) \/ Feeds(q) PROVE GivenUp(p)'
  BY <1>2, <1>11 DEF Agent, Asks, Signalled, Killed, EndsInput, Exits, Target, Begins, Writes, Misses, Ends, Feeds, proxy
<1>12. ASSUME NEW q \in Procs, Hears(q) \/ Starts(q) \/ Parks(q) \/ Steps(q) PROVE GivenUp(p)'
  BY <1>2, <1>12 DEF Hears, Starts, Parks, Steps, proxy
<1>13. ASSUME Crowds \/ Serves \/ Goes \/ Loses \/ Relays PROVE GivenUp(p)'
  BY <1>2, <1>13 DEF Crowds, Serves, Goes, Loses, Relays, proxy
<1> QED
  BY <1>3, <1>4, <1>5, <1>6, <1>7, <1>9, <1>10, <1>11, <1>12, <1>13 DEF Next, Loop, Threads

LEMMA StepLInv == LInv /\ [Next]_vars => LInv'
<1> SUFFICES ASSUME LInv, [Next]_vars PROVE LInv'
  OBVIOUS
<1>1. TypeOK'
  BY StepTypeOK DEF LInv
<1>2. CASE Next
  <2>1. Settled'
    BY <1>2, StepReported, StepEnding DEF Settled, Ending
  <2> QED
    BY <1>1, <1>2, <2>1, StepLost, StepKnown, StepTracked DEF LInv
<1>3. CASE UNCHANGED vars
  BY <1>1, <1>3 DEF LInv, Lost, Known, NeverLosesTrack, Settled, Reporting, GivenUp, Going, vars, kernel,
     loop, target, proxy
<1> QED
  BY <1>2, <1>3

\* Whatever is killed, lost or let go of, a command on the target has a process standing in
\* for it that the loop still watches, or has been sent the kill.
THEOREM NothingRunsOn == Spec => []NeverLosesTrack
<1>1. LInv => NeverLosesTrack
  BY DEF LInv
<1> QED
  BY InitLInv, StepLInv, <1>1, PTL DEF Spec

-----------------------------------------------------------------------------
(* A process ends as its command did, with nothing it wrote on its way.     *)

Only(s, x) == \A i \in 1 .. Len(s) : s[i] = x
Answers == Closings \cup {"refused"}

\* An answer on its way is the last of what is, and the one its command came to.
Framed(p) ==
    \A i \in 1 .. Len(wire[p]) :
        wire[p][i] # "piece" => i = Len(wire[p]) /\ cmd[p] = "over" /\ how[p] = wire[p][i]

\* Nothing comes of a command whose answer nobody waits for.
Quiet(p) == p \notin awaited => wire[p] = <<>> /\ ~Going(p)

Begun(p) == pump[p] = "off" <=> cmd[p] = "none"

\* Nothing has happened yet to a process that may still start its command.
Fresh(p) ==
    cmd[p] = "none" /\ p \in known /\ p \notin proxied =>
        outbox[p] = <<>> /\ wire[p] = <<>> /\ given[p] = 0 /\ spilt[p] = 0 /\ made[p] = 0 /\ p \notin awaited

\* One whose command's end the loop would still tell it.
Watched(p) == p \in known /\ p \in proxied /\ sup.at # "ended"

Flows(p) == Watched(p) /\ pump[p] = "on"

\* Until its answer is here, what a command wrote is handed over or dropped, waits to be, or
\* is coming.
Poured(p) ==
    Flows(p) /\ p \in awaited =>
        /\ Only(outbox[p], "piece")
        /\ link = "up" \/ wire[p] # <<>> =>
             given[p] + spilt[p] + Len(outbox[p]) + Len(wire[p])
                = made[p] + (IF Among(wire[p], Answers) THEN 1 ELSE 0)

\* An answer that is a command's own comes after all of what it wrote.
Answered(p) ==
    Flows(p) /\ p \notin awaited /\ result[p] \in {"ok", "term"} =>
        /\ cmd[p] = "over" /\ how[p] = result[p]
        /\ outbox[p] # <<>> /\ outbox[p][Len(outbox[p])] = "end"
        /\ \A i \in 1 .. Len(outbox[p]) - 1 : outbox[p][i] = "piece"
        /\ given[p] + spilt[p] + Len(outbox[p]) = made[p] + 1

\* What came to an end has, with nothing it wrote on its way.
Whole(p, end) == cmd[p] = "over" /\ how[p] = end /\ given[p] + spilt[p] = made[p]

Filed(p) ==
    \A i \in 1 .. Len(finished) : finished[i].on = p =>
        /\ pump[p] = "over"
        /\ Watched(p) /\ finished[i].with \in {"ok", "term"} => Whole(p, finished[i].with)

\* What a process ended with is what its command did, or what it makes of a signal that does
\* not end it.
Shows(p, end) ==
    \/ end = status[p]
    \/ p \in world.deaf /\ status[p] = "ok" /\ end = Cancels
Closed(p) ==
    status[p] \in {"ok", "term"} =>
        pump[p] = "over" /\ \E end \in {"ok", "term"} : Shows(p, end) /\ Whole(p, end)

Parts(p) == Framed(p) /\ Quiet(p) /\ Begun(p) /\ Fresh(p) /\ Poured(p) /\ Answered(p) /\ Closed(p)
OInv == LInv /\ \A p \in Procs : Parts(p) /\ Filed(p)

\* What a step leaves alone of a process keeps what is said of it, whoever stops watching it.
LEMMA PartsKept ==
    ASSUME NEW p \in Procs, Parts(p),
           /\ wire'[p] = wire[p] /\ cmd'[p] = cmd[p] /\ how'[p] = how[p] /\ made'[p] = made[p]
           /\ outbox'[p] = outbox[p] /\ given'[p] = given[p] /\ spilt'[p] = spilt[p] /\ pump'[p] = pump[p]
           /\ (p \in awaited' <=> p \in awaited),
           result'[p] = result[p] \/ result'[p] \notin {"ok", "term"}, link' = link,
           status'[p] = status[p] \/ status'[p] \notin {"ok", "term"}, world' = world,
           Watched(p)' => Watched(p),
           p \in known' /\ p \notin proxied' => (p \in known /\ p \notin proxied) \/ cmd[p] # "none"
    PROVE  Parts(p)'
<1>1. Framed(p)' /\ Quiet(p)' /\ Begun(p)'
  BY DEF Parts, Framed, Quiet, Begun, Going
<1>2. Fresh(p)' /\ Closed(p)'
  BY DEF Parts, Fresh, Closed, Shows, Whole
<1>3. Poured(p)'
  BY DEF Parts, Poured, Flows, Only, Among
<1>4. Answered(p)'
  BY DEF Parts, Answered, Flows
<1> QED
  BY <1>1, <1>2, <1>3, <1>4 DEF Parts

LEMMA FiledKept ==
    ASSUME NEW p \in Procs, Filed(p), finished' = finished, pump[p] = "over" => pump'[p] = "over",
           Watched(p)' => Watched(p),
           cmd[p] = "over" /\ pump[p] = "over" => cmd'[p] = "over" /\ how'[p] = how[p] /\ given'[p] = given[p] /\ spilt'[p] = spilt[p] /\ made'[p] = made[p]
    PROVE  Filed(p)'
  BY DEF Filed, Whole

\* The loop ends once.
LEMMA EndedStays == ASSUME LInv, Next, sup'.at # "ended" PROVE sup.at # "ended"
<1>1. CASE sup' = sup
  BY <1>1
<1>2. CASE ~Loop
  BY <1>1, <1>2 DEF Next, Crowds, Serves, Goes, Loses, Notices, Agent, Asks, Signalled, Killed, EndsInput, Exits, Target,
     Begins, Writes, Misses, Ends, Threads, Delivers, Pours, Finishes, Feeds, loop
<1>3. CASE Loop
  <2>1. sup = Idle \/ \E q \in Procs, stage \in {"start", "park", "step"} : sup = At(stage, q)
    BY <1>3 DEF Loop, Releases, EndsLoop, Relays, Reaps, Hears, Starts, Parks, Steps
  <2> QED
    BY <2>1, Ats
<1> QED
  BY <1>2, <1>3

LEMMA HoldsAnyway ==
    ASSUME OInv, Next,
           Crowds \/ Serves \/ Goes \/ Relays \/ \E q \in Procs : Agent(q) \/ Exits(q) \/ Feeds(q) \/ Hears(q) \/ Parks(q) \/ Steps(q)
    PROVE  \A p \in Procs : Parts(p)' /\ Filed(p)'
<1> SUFFICES ASSUME NEW p \in Procs PROVE Parts(p)' /\ Filed(p)'
  OBVIOUS
<1>t. TypeOK /\ Parts(p) /\ Filed(p)
  BY DEF OInv, LInv
<1>1. /\ UNCHANGED <<world, cmd, how, made, wire, outbox, result, given, spilt, pump, awaited, finished, link, known, proxied>>
      /\ status'[p] = status[p] \/ status'[p] = "kill"
  BY <1>t DEF TypeOK, KernelOK, Crowds, Serves, Goes, Relays, Agent, Asks, Signalled, Killed, EndsInput, Exits, Feeds, Hears, Parks, Steps,
     kernel, loop, target, proxy
<1>2. Watched(p)' => Watched(p)
  BY <1>1, EndedStays DEF OInv, Watched
<1>3. Parts(p)'
  BY <1>t, <1>1, <1>2, PartsKept
<1>4. Filed(p)'
  BY <1>t, <1>1, <1>2, FiledKept
<1> QED
  BY <1>3, <1>4

\* What the target does is done to one command, which is not over.
LEMMA HoldsElsewhere ==
    ASSUME OInv, NEW q \in Procs, Target(q) PROVE \A p \in Procs \ {q} : Parts(p)' /\ Filed(p)'
<1> SUFFICES ASSUME NEW p \in Procs \ {q} PROVE Parts(p)' /\ Filed(p)'
  OBVIOUS
<1>t. TypeOK /\ Parts(p) /\ Filed(p)
  BY DEF OInv, LInv
<1>1. /\ UNCHANGED <<world, status, outbox, result, given, spilt, pump, awaited, finished, link, known, proxied, sup>>
      /\ cmd'[p] = cmd[p] /\ how'[p] = how[p] /\ made'[p] = made[p] /\ wire'[p] = wire[p]
  BY <1>t DEF TypeOK, TargetOK, Target, Begins, Writes, Misses, Ends, kernel, loop, proxy
<1>2. Watched(p)' => Watched(p)
  BY <1>1 DEF Watched
<1> QED
  BY <1>t, <1>1, <1>2, PartsKept, FiledKept

\* An answer put behind what a command wrote, and a piece of what it writes, on their way.
LEMMA AnswerSent ==
    ASSUME OInv, NEW p \in Procs, NEW end \in Answers, Going(p),
           wire'[p] = Append(wire[p], end), cmd'[p] = "over", how'[p] = end,
           UNCHANGED <<world, made, status, outbox, result, given, spilt, pump, awaited, finished, link, known, proxied, sup>>
    PROVE  Parts(p)' /\ Filed(p)'
<1>t. TypeOK /\ Parts(p) /\ Filed(p) /\ wire[p] \in Seq(Closings \cup {"piece", "refused"})
  BY DEF OInv, LInv, TypeOK, TargetOK
<1>1. Only(wire[p], "piece") /\ ~Among(wire[p], Answers)
  BY <1>t DEF Parts, Framed, Only, Among, Answers, Closings, Going
<1>2. /\ Len(wire[p]) \in Nat /\ Len(wire'[p]) = Len(wire[p]) + 1 /\ wire'[p][Len(wire[p]) + 1] = end
      /\ \A i \in 1 .. Len(wire[p]) : wire'[p][i] = wire[p][i]
  BY <1>t
<1>3. Framed(p)'
  BY <1>1, <1>2 DEF Framed, Only
<1>4. p \in awaited
  BY <1>t DEF Parts, Quiet
<1>5. Quiet(p)' /\ Begun(p)' /\ Fresh(p)' /\ Closed(p)' /\ Answered(p)'
  BY <1>t, <1>4 DEF Parts, Quiet, Begun, Fresh, Closed, Shows, Answered, Whole, Going
<1>6. Poured(p)'
  <2>1. Among(wire'[p], Answers)
    BY <1>2 DEF Among
  <2>2. link = "up"
    BY DEF OInv, LInv, Lost
  <2> QED
    <3>1. given[p] \in Nat /\ spilt[p] \in Nat /\ made[p] \in Nat /\ Len(outbox[p]) \in Nat
      BY <1>t DEF TypeOK, TargetOK, LoopOK, ProxyOK
    <3>2. Flows(p) =>
            Only(outbox[p], "piece") /\ given[p] + spilt[p] + Len(outbox[p]) + Len(wire[p]) = made[p]
      <4>1. Poured(p)
        BY <1>t DEF Parts
      <4> QED
        BY <1>1, <1>4, <2>2, <3>1, <4>1 DEF Poured
    <3>3. (Flows(p)' => Flows(p)) /\ (Only(outbox[p], "piece") => Only(outbox[p], "piece")')
      BY DEF Flows, Watched, Only
    <3> QED
      <4> PICK n \in Nat : n = given[p] + spilt[p]
        BY <3>1
      <4>1. Flows(p) => n + Len(outbox[p]) + Len(wire[p]) = made[p]
        BY <3>2
      <4> PICK l \in Nat : l = n + Len(outbox[p])
        BY <3>1
      <4>2. Flows(p) => n + Len(outbox[p]) + Len(wire'[p]) = made[p] + 1
        BY <1>2, <3>1, <4>1
      <4>3. Flows(p) => given[p] + spilt[p] + Len(outbox[p]) + Len(wire'[p]) = made[p] + 1
        BY <4>2
      <4> QED
        BY <2>1, <3>2, <3>3, <4>3 DEF Poured
<1>7. Filed(p)'
  BY <1>t DEF Filed, Whole, Watched, Going
<1> QED
  BY <1>3, <1>5, <1>6, <1>7 DEF Parts

LEMMA HoldsTarget == ASSUME OInv, NEW q \in Procs, Target(q) PROVE \A p \in Procs : Parts(p)' /\ Filed(p)'
<1> SUFFICES Parts(q)' /\ Filed(q)'
  BY HoldsElsewhere
<1>t. /\ TypeOK /\ Parts(q) /\ Filed(q) /\ wire[q] \in Seq(Closings \cup {"piece", "refused"})
      /\ {"ok", "failed", "term", "kill", "refused"} \subseteq Answers
  BY DEF OInv, LInv, TypeOK, TargetOK, Answers, Closings
<1>u. UNCHANGED <<world, status, outbox, result, given, spilt, pump, awaited, finished, link, known, proxied, sup>>
  BY DEF Target, Begins, Writes, Misses, Ends, kernel, loop, proxy
<1>1. CASE Begins(q) /\ cmd' = [cmd EXCEPT ![q] = "running"] /\ UNCHANGED <<how, wire, made>>
  <2>1. cmd[q] = "asked" /\ cmd'[q] = "running" /\ q \in awaited
    BY <1>t, <1>1 DEF Begins, TypeOK, TargetOK, Parts, Quiet, Going
  <2> QED
    BY <1>t, <1>u, <1>1, <2>1 DEF Parts, Framed, Quiet, Begun, Fresh, Poured, Answered, Closed, Shows, Filed, Flows,
       Watched, Whole, Only, Among, Going
<1>2. CASE Begins(q) /\ ~(cmd' = [cmd EXCEPT ![q] = "running"] /\ UNCHANGED <<how, wire, made>>)
  <2>1. /\ Going(q) /\ wire'[q] = Append(wire[q], "refused") /\ cmd'[q] = "over" /\ how'[q] = "refused"
        /\ UNCHANGED made
    BY <1>t, <1>2 DEF Begins, TypeOK, TargetOK, Going
  <2> QED
    BY <1>t, <1>u, <2>1, AnswerSent
<1>3. ASSUME NEW end \in {"ok", "failed", "term", "kill"}, Ends(q, end) PROVE Parts(q)' /\ Filed(q)'
  <2>1. /\ Going(q) /\ wire'[q] = Append(wire[q], end) /\ cmd'[q] = "over" /\ how'[q] = end
        /\ UNCHANGED made
    BY <1>t, <1>3 DEF Ends, TypeOK, TargetOK, Going
  <2> QED
    BY <1>t, <1>u, <2>1, AnswerSent
<1>4. CASE Writes(q)
  <2>1. /\ cmd[q] = "running" /\ q \in awaited /\ UNCHANGED <<cmd, how>>
        /\ wire'[q] = Append(wire[q], "piece") /\ made'[q] = made[q] + 1
    BY <1>t, <1>4 DEF Writes, TypeOK, TargetOK, Parts, Quiet, Going
  <2>2. Only(wire[q], "piece") /\ Len(wire[q]) \in Nat
    BY <1>t, <2>1 DEF Parts, Framed, Only
  <2>3. /\ Len(wire'[q]) = Len(wire[q]) + 1 /\ wire'[q][Len(wire[q]) + 1] = "piece"
        /\ \A i \in 1 .. Len(wire[q]) : wire'[q][i] = wire[q][i]
    BY <1>t, <2>1
  <2>4. Only(wire'[q], "piece")
    BY <2>2, <2>3 DEF Only
  <2>5. ~Among(wire[q], Answers) /\ ~Among(wire'[q], Answers)
    BY <2>2, <2>4 DEF Among, Only, Answers, Closings
  <2>6. Poured(q)'
    <3>1. link = "up"
      BY <2>1 DEF OInv, LInv, Lost, Going
    <3> QED
      BY <1>t, <1>u, <2>1, <2>2, <2>3, <2>5, <3>1 DEF Parts, Poured, Flows, Watched, Only, TypeOK, TargetOK, ProxyOK
  <2>7. Framed(q)' /\ Quiet(q)' /\ Begun(q)' /\ Fresh(q)' /\ Closed(q)' /\ Answered(q)' /\ Filed(q)'
    BY <1>t, <1>u, <2>1, <2>4 DEF Parts, Framed, Only, Quiet, Begun, Fresh, Closed, Shows, Answered, Whole, Filed, Watched, Going
  <2> QED
    BY <2>6, <2>7 DEF Parts
<1>5. CASE Misses(q)
  <2>1. UNCHANGED <<cmd, how, made, wire>>
    BY <1>5 DEF Misses
  <2> QED
    BY <1>t, <1>u, <2>1, PartsKept, FiledKept DEF Watched
<1> QED
  BY <1>1, <1>2, <1>3, <1>4, <1>5 DEF Target, Begins

\* The connection takes with it what was still running and, or not, what was on its way.
LEMMA HoldsLost == ASSUME OInv, Loses, NEW p \in Procs PROVE Parts(p)' /\ Filed(p)'
<1>t. TypeOK /\ Parts(p) /\ Filed(p) /\ wire[p] \in Seq(Closings \cup {"piece", "refused"})
  BY DEF OInv, LInv, TypeOK, TargetOK
<1>1. /\ UNCHANGED <<world, status, outbox, result, given, spilt, pump, awaited, finished, made, known, proxied, sup>>
      /\ link = "up" /\ link' = "lost" /\ (wire'[p] = wire[p] \/ wire'[p] = <<>>)
      /\ ~Going(p) => cmd'[p] = cmd[p] /\ how'[p] = how[p]
      /\ Going(p) => cmd'[p] = "over"
  BY <1>t DEF Loses, kernel, loop, proxy, Going, TypeOK, TargetOK
<1>2. Framed(p)'
  BY <1>t, <1>1 DEF Parts, Framed, Going
<1>3. Quiet(p)' /\ Begun(p)' /\ Fresh(p)' /\ Closed(p)' /\ Answered(p)' /\ Filed(p)'
  BY <1>t, <1>1 DEF Parts, Quiet, Begun, Fresh, Closed, Shows, Answered, Filed, Whole, Flows, Watched, Going, TypeOK, TargetOK
<1>4. Poured(p)'
  BY <1>t, <1>1 DEF Parts, Poured, Flows, Watched, Only, Among
<1> QED
  BY <1>2, <1>3, <1>4 DEF Parts

\* What Told adds: the word that there is no more, and that alone where a command ended.
LEMMA ToldLast ==
    ASSUME NEW s \in Seq({"piece", "why", "end"}), NEW answer \in Closings
    PROVE  s \o Told(answer) = Append(s, "end")
  BY DEF Told, Closings

LEMMA HoldsDelivered ==
    ASSUME OInv, NEW q \in Procs, Delivers(q), NEW p \in Procs PROVE Parts(p)' /\ Filed(p)'
<1>t. /\ TypeOK /\ Parts(p) /\ Filed(p)
      /\ wire[p] \in Seq(Closings \cup {"piece", "refused"}) /\ outbox[p] \in Seq({"piece", "why", "end"})
  BY DEF OInv, LInv, TypeOK, TargetOK, ProxyOK
<1>u. UNCHANGED <<world, status, cmd, how, made, given, spilt, pump, finished, link, known, proxied, sup>>
  BY DEF Delivers, kernel, loop
<1>1. CASE q # p
  <2>1. /\ wire'[p] = wire[p] /\ outbox'[p] = outbox[p] /\ result'[p] = result[p]
        /\ p \in awaited' <=> p \in awaited
    BY <1>t, <1>1 DEF Delivers, TypeOK, TargetOK, ProxyOK
  <2> QED
    BY <1>t, <1>u, <2>1, PartsKept, FiledKept DEF Watched
<1>2. CASE q = p
  <2>1. /\ wire[p] # <<>> /\ wire'[p] = Tail(wire[p]) /\ p \in awaited /\ Len(wire[p]) \in Nat \ {0}
        /\ Head(wire[p]) = wire[p][1] /\ Len(wire'[p]) = Len(wire[p]) - 1
        /\ \A i \in 1 .. Len(wire[p]) - 1 : wire'[p][i] = wire[p][i + 1]
    BY <1>t, <1>2 DEF Delivers, TypeOK, TargetOK, Parts, Quiet
  <2>2. Framed(p)'
    BY <1>t, <1>u, <2>1 DEF Parts, Framed
  <2>3. Begun(p)' /\ Closed(p)' /\ Filed(p)' /\ Fresh(p)'
    BY <1>t, <1>u, <2>1 DEF Parts, Begun, Closed, Shows, Filed, Fresh, Whole, Watched
  <2>4. Among(wire[p], Answers) <=> Head(wire[p]) \in Answers \/ Among(wire'[p], Answers)
    <3>1. wire[p] \in Seq(Closings \cup {"piece", "refused"}) /\ wire[p] # <<>>
      BY <1>t, <2>1
    <3>2. Among(wire[p], Answers) <=> Head(wire[p]) \in Answers \/ Among(Tail(wire[p]), Answers)
      BY <3>1, AmongTail
    <3> QED
      BY <2>1, <3>2
  <2>5. CASE Head(wire[p]) = "piece"
    <3>1. outbox'[p] = Append(outbox[p], "piece") /\ awaited' = awaited
      BY <1>t, <1>2, <2>5 DEF Delivers, TypeOK, ProxyOK
    <3>2. /\ Len(outbox[p]) \in Nat /\ Len(outbox'[p]) = Len(outbox[p]) + 1
          /\ Only(outbox[p], "piece") => Only(outbox'[p], "piece")
      BY <1>t, <3>1 DEF Only
    <3>3. "piece" \notin Answers
      BY DEF Answers, Closings
    <3>4. Poured(p)'
      <4>1. given[p] \in Nat /\ spilt[p] \in Nat /\ Len(wire'[p]) \in Nat
        BY <1>t, <2>1 DEF TypeOK, ProxyOK
      <4> PICK n \in Nat : n = given[p] + spilt[p]
        BY <4>1
      <4>2. n + Len(outbox'[p]) + Len(wire'[p]) = n + Len(outbox[p]) + Len(wire[p])
        BY <2>1, <3>2, <4>1
      <4>3. given[p] + spilt[p] + Len(outbox'[p]) + Len(wire'[p])
               = given[p] + spilt[p] + Len(outbox[p]) + Len(wire[p])
        BY <4>2
      <4>4. (Flows(p)' => Flows(p)) /\ wire[p] # <<>>
        BY <1>u, <2>1 DEF Flows, Watched
      <4> QED
        BY <1>t, <1>u, <2>1, <2>4, <2>5, <3>1, <3>2, <3>3, <4>3, <4>4 DEF Parts, Poured
    <3>5. Quiet(p)' /\ Answered(p)'
      BY <2>1, <3>1 DEF Quiet, Answered
    <3> QED
      BY <2>2, <2>3, <3>4, <3>5 DEF Parts
  <2>6. CASE Head(wire[p]) # "piece"
    <3>1. Len(wire[p]) = 1 /\ cmd[p] = "over" /\ how[p] = Head(wire[p])
      <4>1. 1 \in 1 .. Len(wire[p])
        BY <2>1
      <4> QED
        BY <1>t, <2>1, <2>6, <4>1 DEF Parts, Framed
    <3>2. /\ awaited' = awaited \ {p} /\ result'[p] = Outcome(how[p])
          /\ outbox'[p] = outbox[p] \o Told(how[p])
      BY <1>t, <1>2, <2>6, <3>1 DEF Delivers, TypeOK, ProxyOK
    <3>3. wire'[p] = <<>>
      <4>1. wire'[p] \in Seq(Closings \cup {"piece", "refused"}) /\ Len(wire'[p]) = 0
        BY <1>t, <2>1, <3>1, HeadsTails
      <4> QED
        BY <4>1
    <3>4. Quiet(p)' /\ Poured(p)'
      BY <1>u, <3>1, <3>2, <3>3 DEF Quiet, Poured, Going
    <3>5. Answered(p)'
      <4> SUFFICES ASSUME Flows(p)', result'[p] \in {"ok", "term"} PROVE Answered(p)'
        BY DEF Answered
      <4>1. how[p] = result'[p] /\ outbox'[p] = Append(outbox[p], "end")
        BY <1>t, <3>2, ToldLast DEF Outcome, Closings
      <4>2. Flows(p) /\ Head(wire[p]) \in Answers
        BY <1>u, <3>1, <4>1 DEF Flows, Watched, Answers, Closings
      <4>3. Only(outbox[p], "piece") /\ given[p] + spilt[p] + Len(outbox[p]) + 1 = made[p] + 1
        BY <1>t, <2>1, <2>4, <3>1, <4>2 DEF Parts, Poured
      <4>4. /\ Len(outbox'[p]) = Len(outbox[p]) + 1 /\ outbox'[p][Len(outbox[p]) + 1] = "end"
            /\ Len(outbox[p]) \in Nat /\ \A i \in 1 .. Len(outbox[p]) : outbox'[p][i] = outbox[p][i]
            /\ outbox'[p] # <<>>
        BY <1>t, <4>1
      <4>5. given'[p] + spilt'[p] + Len(outbox'[p]) = made'[p] + 1
        <5>1. given[p] \in Nat /\ spilt[p] \in Nat /\ given' = given /\ spilt' = spilt /\ made' = made
          BY <1>t, <1>u DEF TypeOK, ProxyOK
        <5> QED
          BY <4>3, <4>4, <5>1
      <4> QED
        BY <1>u, <3>1, <4>1, <4>3, <4>4, <4>5 DEF Answered, Only
    <3> QED
      BY <2>2, <2>3, <3>4, <3>5 DEF Parts
  <2> QED
    BY <2>5, <2>6
<1> QED
  BY <1>1, <1>2

LEMMA HoldsNoticed == ASSUME OInv, Notices, NEW p \in Procs PROVE Parts(p)' /\ Filed(p)'
<1>t. TypeOK /\ Parts(p) /\ Filed(p) /\ Lost
  BY DEF OInv, LInv
<1>u. /\ UNCHANGED <<world, status, cmd, how, made, wire, given, spilt, pump, finished, known, proxied, sup>>
      /\ awaited' = {} /\ wire[p] = <<>> /\ link # "up" /\ link' # "up" /\ ~Going(p)
  BY <1>t DEF Notices, kernel, loop, target, Lost
<1>1. p \in awaited => result'[p] = "failed"
  BY <1>t DEF Notices, Outcome, TypeOK, ProxyOK
<1>2. p \notin awaited => outbox'[p] = outbox[p] /\ result'[p] = result[p]
  BY <1>t DEF Notices, TypeOK, ProxyOK
<1>3. Framed(p)' /\ Begun(p)' /\ Closed(p)' /\ Filed(p)' /\ Poured(p)' /\ Quiet(p)'
  BY <1>t, <1>u DEF Parts, Framed, Begun, Closed, Shows, Filed, Whole, Watched, Poured, Quiet, Going
<1>4. Fresh(p)' /\ Answered(p)'
  BY <1>t, <1>u, <1>1, <1>2 DEF Parts, Fresh, Answered, Flows, Watched
<1> QED
  BY <1>3, <1>4 DEF Parts

LEMMA HoldsPoured ==
    ASSUME OInv, NEW q \in Procs, Pours(q), NEW p \in Procs PROVE Parts(p)' /\ Filed(p)'
<1>t. /\ TypeOK /\ Parts(p) /\ Filed(p) /\ outbox[p] \in Seq({"piece", "why", "end"})
      /\ given[p] \in Nat /\ spilt[p] \in Nat
  BY DEF OInv, LInv, TypeOK, ProxyOK
<1>u. UNCHANGED <<world, status, cmd, how, made, wire, result, awaited, pump, finished, link, known, proxied, sup>>
  BY DEF Pours, kernel, loop, target
<1>1. CASE q # p
  <2>1. outbox'[p] = outbox[p] /\ given'[p] = given[p] /\ spilt'[p] = spilt[p]
    BY <1>t, <1>1 DEF Pours, TypeOK, ProxyOK
  <2> QED
    BY <1>t, <1>u, <2>1, PartsKept, FiledKept DEF Watched
<1>2. CASE q = p
  <2>1. /\ pump[p] = "on" /\ outbox[p] # <<>> /\ outbox[p][1] # "end" /\ outbox'[p] = Tail(outbox[p])
        /\ outbox[p][1] = "piece" => given'[p] + spilt'[p] = given[p] + spilt[p] + 1
    BY <1>t, <1>2 DEF Pours, TypeOK, ProxyOK
  <2>2. /\ Len(outbox[p]) \in Nat \ {0} /\ Len(outbox'[p]) = Len(outbox[p]) - 1
        /\ \A i \in 1 .. Len(outbox[p]) - 1 : outbox'[p][i] = outbox[p][i + 1]
        /\ 1 \in 1 .. Len(outbox[p])
    BY <1>t, <2>1
  <2>3. Framed(p)' /\ Quiet(p)' /\ Begun(p)' /\ Fresh(p)' /\ Closed(p)' /\ Filed(p)'
    BY <1>t, <1>u, <2>1 DEF Parts, Framed, Quiet, Begun, Fresh, Closed, Shows, Filed, Whole, Watched, Going
  <2>4. Poured(p)'
    <3> SUFFICES ASSUME Flows(p), p \in awaited
                 PROVE  /\ Only(outbox'[p], "piece") /\ outbox[p][1] = "piece"
                        /\ given'[p] + spilt'[p] + Len(outbox'[p]) = given[p] + spilt[p] + Len(outbox[p])
      BY <1>t, <1>u DEF Parts, Poured, Flows, Watched
    <3>1. Only(outbox[p], "piece")
      BY <1>t DEF Parts, Poured
    <3>2. Only(outbox'[p], "piece") /\ outbox[p][1] = "piece"
      <4>1. \A i \in 1 .. Len(outbox'[p]) : outbox'[p][i] = outbox[p][i + 1] /\ i + 1 \in 1 .. Len(outbox[p])
        BY <2>2
      <4> QED
        BY <2>2, <3>1, <4>1 DEF Only
    <3> PICK n \in Nat : n = given[p] + spilt[p]
      BY <1>t
    <3>3. given'[p] + spilt'[p] = n + 1
      BY <2>1, <3>2
    <3>4. n + 1 + Len(outbox'[p]) = n + Len(outbox[p])
      BY <2>2
    <3> QED
      BY <3>2, <3>3, <3>4
  <2>5. Answered(p)'
    <3> SUFFICES ASSUME Flows(p), p \notin awaited, result[p] \in {"ok", "term"}
                 PROVE  /\ outbox'[p] # <<>> /\ outbox'[p][Len(outbox'[p])] = "end"
                        /\ \A i \in 1 .. Len(outbox'[p]) - 1 : outbox'[p][i] = "piece"
                        /\ given'[p] + spilt'[p] + Len(outbox'[p]) = given[p] + spilt[p] + Len(outbox[p])
      BY <1>t, <1>u DEF Parts, Answered, Flows, Watched
    <3>1. /\ outbox[p][Len(outbox[p])] = "end"
          /\ \A i \in 1 .. Len(outbox[p]) - 1 : outbox[p][i] = "piece"
      BY <1>t DEF Parts, Answered
    <3>2. Len(outbox[p]) # 1 /\ 1 \in 1 .. Len(outbox[p]) - 1
      BY <2>1, <2>2, <3>1
    <3>3. outbox[p][1] = "piece" /\ Len(outbox'[p]) \in Nat \ {0} /\ outbox'[p] # <<>>
      BY <2>2, <3>1, <3>2
    <3>4. outbox'[p][Len(outbox'[p])] = "end"
      BY <2>2, <3>1, <3>3
    <3>5. \A i \in 1 .. Len(outbox'[p]) - 1 : outbox'[p][i] = "piece"
      BY <2>2, <3>1
    <3>6. given'[p] + spilt'[p] + Len(outbox'[p]) = given[p] + spilt[p] + Len(outbox[p])
      <4>1. \A g \in Nat, n \in Nat \ {0} : g + 1 + (n - 1) = g + n
        OBVIOUS
      <4>2. given'[p] + spilt'[p] = given[p] + spilt[p] + 1 /\ Len(outbox'[p]) = Len(outbox[p]) - 1 /\ Len(outbox[p]) \in Nat \ {0}
        BY <2>1, <2>2, <3>3
      <4> QED
        BY <1>t, <4>1, <4>2
    <3> QED
      BY <3>3, <3>4, <3>5, <3>6
  <2> QED
    BY <2>3, <2>4, <2>5 DEF Parts
<1> QED
  BY <1>1, <1>2

LEMMA HoldsFinished ==
    ASSUME OInv, NEW q \in Procs, Finishes(q), NEW p \in Procs PROVE Parts(p)' /\ Filed(p)'
<1>t. /\ TypeOK /\ Parts(p) /\ Filed(p) /\ outbox[p] \in Seq({"piece", "why", "end"})
      /\ given[p] \in Nat /\ spilt[p] \in Nat /\ made[p] \in Int /\ finished \in Seq([on : Procs, with : Closings])
  BY DEF OInv, LInv, TypeOK, ProxyOK, TargetOK
<1>u. UNCHANGED <<world, status, cmd, how, made, wire, result, awaited, outbox, given, spilt, link, known, proxied, sup>>
  BY DEF Finishes, kernel, loop, target
<1>d. DEFINE rec == [on |-> q, with |-> result[q]]
<1>v. /\ rec \in [on : Procs, with : Closings] /\ finished' = Append(finished, rec)
      /\ rec.on = q /\ rec.with = result[q]
  BY <1>t DEF Finishes, TypeOK, ProxyOK
<1> HIDE DEF rec
<1>w. /\ Len(finished) \in Nat /\ Len(finished') = Len(finished) + 1 /\ finished'[Len(finished) + 1] = rec
      /\ \A i \in 1 .. Len(finished) : finished'[i] = finished[i]
  BY <1>t, <1>v
<1>1. CASE q # p
  <2>1. pump'[p] = pump[p]
    BY <1>t, <1>1 DEF Finishes, TypeOK, ProxyOK
  <2>2. Parts(p)'
    BY <1>t, <1>u, <2>1, PartsKept DEF Watched
  <2>3. Filed(p)'
    BY <1>t, <1>u, <1>v, <1>w, <1>1, <2>1 DEF Filed, Whole, Watched
  <2> QED
    BY <2>2, <2>3
<1>2. CASE q = p
  <2>1. /\ pump[p] = "on" /\ pump'[p] = "over" /\ outbox[p] # <<>> /\ outbox[p][1] = "end"
        /\ Len(outbox[p]) \in Nat \ {0} /\ 1 \in 1 .. Len(outbox[p])
    BY <1>t, <1>2 DEF Finishes, TypeOK, ProxyOK
  <2>2. Parts(p)'
    BY <1>t, <1>u, <2>1 DEF Parts, Framed, Quiet, Begun, Fresh, Closed, Shows, Whole, Poured, Answered, Flows, Going
  <2>3. Watched(p) /\ result[p] \in {"ok", "term"} => Whole(p, result[p])
    <3> SUFFICES ASSUME Watched(p), result[p] \in {"ok", "term"} PROVE Whole(p, result[p])
      OBVIOUS
    <3>1. Flows(p)
      BY <2>1 DEF Flows
    <3>2. p \notin awaited
      BY <1>t, <2>1, <3>1 DEF Parts, Poured, Only
    <3>3. /\ cmd[p] = "over" /\ how[p] = result[p] /\ given[p] + spilt[p] + Len(outbox[p]) = made[p] + 1
          /\ \A i \in 1 .. Len(outbox[p]) - 1 : outbox[p][i] = "piece"
      BY <1>t, <3>1, <3>2 DEF Parts, Answered
    <3>4. Len(outbox[p]) = 1
      <4>0. \A n \in Nat \ {0} : n # 1 => 1 \in 1 .. n - 1
        OBVIOUS
      <4>1. Len(outbox[p]) # 1 => 1 \in 1 .. Len(outbox[p]) - 1
        BY <2>1, <4>0
      <4> QED
        BY <2>1, <3>3, <4>1
    <3> PICK n \in Nat : n = given[p] + spilt[p]
      BY <1>t
    <3>5. n + 1 = made[p] + 1
      BY <3>3, <3>4
    <3>6. n = made[p]
      BY <1>t, <3>5
    <3> QED
      BY <3>3, <3>6 DEF Whole
  <2>4. Filed(p)'
    BY <1>t, <1>u, <1>v, <1>w, <1>2, <2>1, <2>3 DEF Filed, Whole, Watched
  <2> QED
    BY <2>2, <2>4
<1> QED
  BY <1>1, <1>2

LEMMA HoldsReleased == ASSUME OInv, Releases, NEW p \in Procs PROVE Parts(p)' /\ Filed(p)'
<1>t. TypeOK /\ Parts(p) /\ Filed(p) /\ finished \in Seq([on : Procs, with : Closings])
  BY DEF OInv, LInv, TypeOK, ProxyOK
<1>u. /\ UNCHANGED <<world, cmd, how, made, wire, result, awaited, outbox, given, spilt, pump, link, known, sup>>
      /\ proxied' \subseteq proxied /\ sup = Idle /\ finished # <<>> /\ finished' = Tail(finished)
      /\ p # Head(finished).on => status'[p] = status[p] /\ (p \in proxied => p \in proxied')
  BY <1>t DEF Releases, target, TypeOK, KernelOK
<1>w. /\ Len(finished) \in Nat \ {0} /\ Len(finished') = Len(finished) - 1 /\ Head(finished) = finished[1]
      /\ \A i \in 1 .. Len(finished) - 1 : finished'[i] = finished[i + 1]
      /\ 1 \in 1 .. Len(finished) /\ \A i \in 1 .. Len(finished) - 1 : i + 1 \in 1 .. Len(finished)
  BY <1>t, <1>u
<1>1. Filed(p)'
  BY <1>t, <1>u, <1>w DEF Filed, Whole, Watched
<1>2. CASE p # Head(finished).on
  BY <1>t, <1>u, <1>1, <1>2, PartsKept DEF Watched
<1>3. CASE p = Head(finished).on
  <2>1. pump[p] = "over" /\ cmd[p] # "none"
    BY <1>t, <1>w, <1>3 DEF Filed, Parts, Begun
  <2>2. \/ status'[p] = status[p]
        \/ Watched(p) /\ status'[p] = EndsWith(p, Head(finished).with)
    BY <1>t, <1>u, <1>3, Ats DEF Releases, TypeOK, KernelOK, Watched
  <2>3. Closed(p)'
    <3>1. CASE status'[p] = status[p]
      BY <1>t, <1>u, <2>1, <3>1 DEF Parts, Closed, Shows, Whole
    <3>2. CASE Watched(p) /\ status'[p] = EndsWith(p, Head(finished).with)
      <4> PICK end : end = Head(finished).with
        OBVIOUS
      <4>1. end \in {"ok", "term"} => Whole(p, end)
        BY <1>t, <1>w, <1>3, <3>2 DEF Filed
      <4>2. status'[p] \in {"ok", "term"} => end \in {"ok", "term"} /\ Shows(p, end)'
        BY <1>u, <3>2 DEF EndsWith, Shows, Cancels
      <4>3. Whole(p, end) => Whole(p, end)'
        BY <1>u DEF Whole
      <4> QED
        BY <1>u, <2>1, <4>1, <4>2, <4>3 DEF Closed
    <3> QED
      BY <2>2, <3>1, <3>2
  <2>4. /\ Framed(p)' /\ Quiet(p)' /\ Begun(p)' /\ Fresh(p)' /\ Poured(p)' /\ Answered(p)'
    BY <1>t, <1>u, <2>1 DEF Parts, Framed, Quiet, Begun, Fresh, Poured, Answered, Flows, Watched, Going
  <2> QED
    BY <1>1, <2>3, <2>4 DEF Parts
<1> QED
  BY <1>1, <1>2, <1>3

LEMMA HoldsGivenUp ==
    ASSUME OInv, NEW left, Abandon(left), UNCHANGED <<target, awaited, result, given, spilt, pump, finished, link, status, world>>,
           NEW p \in Procs, Watched(p)' => Watched(p) /\ p \notin left, p \in left => p \in proxied,
           p \in known' /\ p \notin proxied' => p \in known /\ p \notin proxied
    PROVE  Parts(p)' /\ Filed(p)'
<1>t. TypeOK /\ Parts(p) /\ Filed(p)
  BY DEF OInv, LInv
<1>1. Filed(p)'
  BY <1>t, FiledKept DEF target
<1>2. CASE p \notin left
  <2>1. outbox'[p] = outbox[p]
    BY <1>t, <1>2 DEF Abandon, TypeOK, ProxyOK
  <2> QED
    BY <1>t, <1>1, <2>1, PartsKept DEF target
<1>3. CASE p \in left
  BY <1>t, <1>1, <1>3 DEF Parts, Framed, Quiet, Begun, Fresh, Closed, Shows, Whole, Poured, Answered, Flows, Going, target
<1> QED
  BY <1>2, <1>3

LEMMA HoldsStarted ==
    ASSUME OInv, NEW q \in Procs, Starts(q), NEW p \in Procs PROVE Parts(p)' /\ Filed(p)'
<1>t. /\ TypeOK /\ Parts(p) /\ Filed(p) /\ Known
      /\ sup = At("start", q)
  BY DEF OInv, LInv, Starts
<1>u. UNCHANGED <<world, status, made, wire, result, outbox, given, spilt, finished, link, known>> /\ sup.at # "ended"
  BY <1>t, Ats DEF Starts
<1>1. CASE q # p
  <2>1. /\ cmd'[p] = cmd[p] /\ how'[p] = how[p] /\ pump'[p] = pump[p]
        /\ p \in awaited' <=> p \in awaited
        /\ p \in proxied' <=> p \in proxied
    BY <1>t, <1>1 DEF Starts, TypeOK, TargetOK, ProxyOK
  <2> QED
    BY <1>t, <1>u, <2>1, PartsKept, FiledKept DEF Watched
<1>2. CASE q = p
  <2>1. cmd[p] = "none" /\ p \notin proxied /\ p \in known /\ pump[p] = "off"
    BY <1>t, <1>2 DEF Known, Parts, Begun
  <2>2. outbox[p] = <<>> /\ wire[p] = <<>> /\ given[p] = 0 /\ spilt[p] = 0 /\ made[p] = 0
    BY <1>t, <2>1 DEF Parts, Fresh
  <2>3. /\ p \in awaited' /\ p \in proxied'
        /\ \/ cmd'[p] \in {"asked", "over"} /\ pump'[p] = "on"
           \/ cmd'[p] = "none" /\ pump'[p] = "off"
    BY <1>t, <1>2, <2>1 DEF Starts, TypeOK, TargetOK, ProxyOK
  <2>4. Len(<<>>) = 0 /\ ~Among(<<>>, Answers) /\ Only(<<>>, "piece")
    BY AmongNone DEF Only
  <2>5. Filed(p)' /\ Closed(p)'
    BY <1>t, <1>u, <2>1 DEF Parts, Filed, Closed, Shows
  <2>6. Framed(p)' /\ Quiet(p)' /\ Begun(p)' /\ Fresh(p)' /\ Poured(p)' /\ Answered(p)'
    BY <1>u, <2>2, <2>3, <2>4 DEF Framed, Quiet, Begun, Fresh, Poured, Answered
  <2> QED
    BY <2>5, <2>6 DEF Parts
<1> QED
  BY <1>1, <1>2

LEMMA HoldsLoop == ASSUME OInv, Next, Loop, NEW p \in Procs PROVE Parts(p)' /\ Filed(p)'
<1>1. ASSUME NEW q \in Procs, Reaps(q) PROVE Parts(p)' /\ Filed(p)'
  <2>1. /\ known' = known \ {q} /\ proxied' = proxied \ {q} /\ UNCHANGED sup
        /\ Abandon({q} \cap known \cap proxied)
        /\ UNCHANGED <<target, awaited, result, given, spilt, pump, finished, link, status, world>>
    BY <1>1 DEF Reaps
  <2> QED
    BY <2>1, HoldsGivenUp DEF Watched
<1>2. ASSUME EndsLoop PROVE Parts(p)' /\ Filed(p)'
  <2>1. /\ UNCHANGED <<known, proxied>> /\ sup'.at = "ended" /\ Abandon(known \cap proxied)
        /\ UNCHANGED <<target, awaited, result, given, spilt, pump, finished, link, status, world>>
    BY <1>2, Ats DEF EndsLoop, kernel
  <2> QED
    BY <2>1, HoldsGivenUp DEF Watched
<1> QED
  BY <1>1, <1>2, HoldsReleased, HoldsStarted, HoldsAnyway DEF Loop

LEMMA StepOInv == OInv /\ [Next]_vars => OInv'
<1> SUFFICES ASSUME OInv, [Next]_vars PROVE OInv'
  OBVIOUS
<1>1. LInv'
  BY StepLInv DEF OInv
<1>2. ASSUME Next, NEW p \in Procs PROVE Parts(p)' /\ Filed(p)'
  BY <1>2, HoldsLoop, HoldsAnyway, HoldsLost, HoldsNoticed, HoldsTarget, HoldsDelivered, HoldsPoured,
     HoldsFinished DEF Next, Threads
<1>3. ASSUME UNCHANGED vars, NEW p \in Procs PROVE Parts(p)' /\ Filed(p)'
  BY <1>3, PartsKept, FiledKept DEF OInv, Watched, vars, kernel, loop, target, proxy
<1> QED
  BY <1>1, <1>2, <1>3 DEF OInv

LEMMA InitOInv == Init => OInv
<1> SUFFICES ASSUME Init, NEW p \in Procs PROVE Parts(p) /\ Filed(p)
  BY InitLInv DEF OInv
<1>1. Framed(p) /\ Quiet(p) /\ Begun(p) /\ Fresh(p) /\ Closed(p) /\ Poured(p) /\ Answered(p) /\ Filed(p)
  BY DEF Init, Framed, Quiet, Begun, Fresh, Closed, Poured, Answered, Flows, Watched, Filed, Going
<1> QED
  BY <1>1 DEF Parts

\* "A command never reports a success it did not achieve": a process that stood in for one
\* ended so only where the command did, or ignores or blocks the signal that cancelled it,
\* with nothing the command wrote still on its way (written to its descriptors, or dropped
\* at them), for any processes, signals, kills and lengths of output, and wherever the
\* connection went.
THEOREM NoFalseSuccess == Spec => []Honest
<1>1. OInv => Honest
  BY DEF OInv, Parts, Closed, Shows, Whole, Honest, Cancels
<1> QED
  BY InitOInv, StepOInv, <1>1, PTL DEF Spec

-----------------------------------------------------------------------------
(* The mirror's types.                                                      *)

Ops == {"none", "stat", "read", "edit", "write", "unlink", "rename", "exec"}
MirrorFile == [v : Nat, hole : BOOLEAN]
Record == [seen : Nat, own : Nat, present : BOOLEAN]
SystemCall == [at : {"idle", "stopped", "let", "open", "parked", "done"}, op : Ops,
               n : SUBSET Names, m : SUBSET Names, v : Nat, fd : SUBSET Names,
               crossed : BOOLEAN]
Handler == [stage : {"off", "flush", "pushed", "apply", "fetch", "replace"}, op : Ops,
            p : SUBSET Tracees, left : SUBSET Names,
            why : {"none", "list", "replay", "start", "final"},
            n : SUBSET Names, list : UNION {[S -> Nat] : S \in SUBSET Names}]

MirrorTypeOK ==
  /\ remote \in [Names -> Nat] /\ local \in [Names -> MirrorFile] /\ files \in [Names -> Record]
  /\ candidates \in SUBSET Names /\ fresh \in BOOLEAN /\ work \in Handler
  /\ call \in [Tracees -> SystemCall] /\ newest \in Nat
  /\ reached \in SUBSET Nat /\ exposed \in SUBSET Nat
  /\ strayed \in SUBSET Names

LEMMA NoListTyped == NoList \in UNION {[S -> Nat] : S \in SUBSET Names}
<1>1. NoList \in [{} -> Nat]
  BY DEF NoList, Gone
<1> QED
  BY <1>1

LEMMA OneListTyped ==
    ASSUME NEW n \in Names, NEW v \in Nat
    PROVE  [x \in {n} |-> v] \in UNION {[S -> Nat] : S \in SUBSET Names}
<1>1. [x \in {n} |-> v] \in [{n} -> Nat]
  OBVIOUS
<1> QED
  BY <1>1

LEMMA OffTyped == Off \in Handler
  BY NoListTyped DEF Off, Handler, Ops

LEMMA NoCallTyped == NoCall \in SystemCall
  BY DEF NoCall, SystemCall, Ops, Gone

\* What becomes of each call where some are let through, or are over.
LEMMA Becomes ==
    ASSUME NEW calls \in [Tracees -> SystemCall], NEW ps, NEW at,
           at \in {"idle", "let", "parked"}
    PROVE  /\ Become(calls, ps, at) \in [Tracees -> SystemCall]
           /\ \A q \in Tracees \ ps : Become(calls, ps, at)[q] = calls[q]
           /\ at = "idle" => \A q \in Tracees \cap ps : Become(calls, ps, at)[q] = NoCall
           /\ at # "idle" => \A q \in Tracees \cap ps :
                Become(calls, ps, at)[q] = [calls[q] EXCEPT !.at = at]
  BY NoCallTyped DEF Become, SystemCall

LEMMA CrossesTyped ==
    ASSUME MirrorTypeOK
    PROVE  /\ Crosses \in [Tracees -> SystemCall]
           /\ \A q \in Tracees : call[q].at \notin {"let", "open"} => Crosses[q] = call[q]
           /\ \A q \in Tracees : call[q].at \in {"let", "open"} =>
                Crosses[q] = [call[q] EXCEPT !.crossed = TRUE]
  BY DEF Crosses, MirrorTypeOK, SystemCall

LEMMA CutsTyped ==
    ASSUME NEW calls \in [Tracees -> SystemCall], NEW gone
    PROVE  /\ Cuts(calls, gone) \in [Tracees -> SystemCall]
           /\ \A q \in Tracees : Cuts(calls, gone)[q] = [calls[q] EXCEPT !.fd = @ \ gone]
  BY DEF Cuts, SystemCall

\* What a process's call is once the handler that was in it lets it through, or ends it.
After(c, op) == IF op = "stat" THEN NoCall ELSE [c EXCEPT !.at = "let"]

LEMMA LetsOn ==
    ASSUME NEW w \in Handler, NEW calls \in [Tracees -> SystemCall], NEW dirty \in SUBSET Names,
           NEW p \in Tracees, w.p = {p}, Lets(w, calls, dirty)
    PROVE  /\ work' = Off /\ call' \in [Tracees -> SystemCall]
           /\ candidates' = IF w.op \in {"edit", "write"} THEN dirty \cup w.n ELSE dirty
           /\ candidates' \in SUBSET Names
           /\ \A q \in Tracees \ {p} : call'[q] = calls[q]
           /\ call'[p] = After(calls[p], w.op)
<1>1. call' = Become(calls, w.p, IF w.op = "stat" THEN "idle" ELSE "let")
  BY DEF Lets
<1>2. CASE w.op = "stat"
  BY <1>1, <1>2, Becomes DEF Lets, After, Handler
<1>3. CASE w.op # "stat"
  <2>1. call' = Become(calls, {p}, "let")
    BY <1>1, <1>3
  <2> QED
    BY <2>1, <1>3, Becomes DEF Lets, After, Handler
<1> QED
  BY <1>2, <1>3

\* The handler goes on: a flush before names change, a fetch before bytes are read, or the
\* call let through.
ToFlush(w, dirty) ==
  /\ w.op \in {"unlink", "rename"} /\ candidates' = dirty
  /\ work' = [w EXCEPT !.stage = "flush", !.why = "replay", !.left = dirty]
ToFetch(w, books, dirty) ==
  /\ w.op \in {"read", "edit"} /\ candidates' = dirty /\ \E n \in w.n : Lacks(books, n)
  /\ work' = [w EXCEPT !.stage = "fetch"]
ToLet(w, books, dirty) ==
  /\ w.op \notin {"unlink", "rename"} /\ work' = Off
  /\ w.op \in {"read", "edit"} => \A n \in w.n : ~Lacks(books, n)
  /\ candidates' = IF w.op \in {"edit", "write"} THEN dirty \cup w.n ELSE dirty

LEMMA OnwardOn ==
    ASSUME NEW w \in Handler, NEW calls \in [Tracees -> SystemCall], NEW dirty \in SUBSET Names,
           NEW p \in Tracees, w.p = {p}, NEW books, Onward(w, calls, books, dirty)
    PROVE  /\ call' \in [Tracees -> SystemCall] /\ candidates' \in SUBSET Names
           /\ \A q \in Tracees \ {p} : call'[q] = calls[q]
           /\ \/ ToFlush(w, dirty) /\ call' = calls
              \/ ToFetch(w, books, dirty) /\ call' = calls
              \/ ToLet(w, books, dirty) /\ call'[p] = After(calls[p], w.op)
<1>1. CASE w.op \in {"unlink", "rename"}
  BY <1>1 DEF Onward, ToFlush
<1>2. CASE w.op \in {"read", "edit"} /\ \E n \in w.n : Lacks(books, n)
  BY <1>2 DEF Onward, ToFetch
<1>3. CASE w.op \notin {"unlink", "rename"} /\ ~(w.op \in {"read", "edit"} /\ \E n \in w.n : Lacks(books, n))
  <2>1. Lets(w, calls, dirty)
    BY <1>3 DEF Onward
  <2> QED
    BY <2>1, <1>3, LetsOn DEF ToLet
<1> QED
  BY <1>1, <1>2, <1>3

-----------------------------------------------------------------------------
(* The steps, one call and one name at a time.                             *)

\* The call c a process stops at, and the handler w that is begun for it.
Halts(p, op, n, m, v, c, w) ==
  /\ c.at = "stopped" /\ c.op = op /\ c.n = n /\ c.m = m /\ c.fd = {}
  /\ c.v = (IF v = 1 THEN newest + 1 ELSE 0) /\ c.crossed = Moving
  /\ w.p = {p} /\ w.op = op /\ w.n = n /\ w.left = candidates /\ w.list = NoList
  /\ w.stage = "flush" /\ w.why = "none"
  /\ \/ ToFlush(w, candidates) /\ call'[p] = c
     \/ ToFetch(w, files, candidates) /\ call'[p] = c
     \/ ToLet(w, files, candidates) /\ call'[p] = After(c, op)
     \/ /\ work'.stage = "flush" /\ work'.why \in {"list", "start"}
        /\ work'.p = {p} /\ work'.op = op /\ work'.n = n
        /\ work'.left = candidates /\ work'.list = NoList
        /\ candidates' = candidates /\ call'[p] = c

LEMMA StopsOn ==
    ASSUME MirrorTypeOK, NEW p \in Tracees, NEW op \in Ops, NEW n \in SUBSET Names,
           NEW m \in SUBSET Names, NEW v \in {0, 1}, Stops(p, op, n, m, v)
    PROVE  /\ MirrorTypeOK' /\ work.stage = "off" /\ call[p].at = "idle"
           /\ UNCHANGED <<remote, local, files, fresh, reached, exposed, strayed>>
           /\ newest' = newest + v
           /\ \A q \in Tracees : q # p => call'[q] = call[q]
           /\ \E c \in SystemCall, w \in Handler : Halts(p, op, n, m, v, c, w)
<1> DEFINE c == [NoCall EXCEPT !.at = "stopped", !.op = op, !.n = n, !.m = m,
                               !.v = IF v = 1 THEN newest + 1 ELSE Gone, !.crossed = Moving]
           said == [call EXCEPT ![p] = c]
           w == [Off EXCEPT !.stage = "flush", !.op = op, !.p = {p}, !.n = n,
                            !.left = candidates]
<1>1. c \in SystemCall /\ c.at = "stopped" /\ c.op = op /\ c.n = n /\ c.m = m /\ c.fd = {}
        /\ c.v = (IF v = 1 THEN newest + 1 ELSE 0) /\ c.crossed = Moving
  <2>1. Moving \in BOOLEAN
    BY DEF Moving
  <2> DEFINE vv == IF v = 1 THEN newest + 1 ELSE 0
  <2>2. vv \in Nat
    BY DEF MirrorTypeOK
  <2>3. NoCall \in SystemCall /\ NoCall.fd = {}
    BY NoCallTyped DEF NoCall
  <2>4. c = [NoCall EXCEPT !.at = "stopped", !.op = op, !.n = n, !.m = m, !.v = vv,
                           !.crossed = Moving]
    BY DEF Gone
  <2> HIDE DEF c, vv
  <2>5. /\ c \in SystemCall /\ c.at = "stopped" /\ c.op = op /\ c.n = n /\ c.m = m
        /\ c.fd = {} /\ c.v = vv /\ c.crossed = Moving
    BY ONLY <2>1, <2>2, <2>3, <2>4, op \in Ops, n \in SUBSET Names, m \in SUBSET Names
       DEF SystemCall
  <2> QED
    BY <2>5 DEF vv
<1>2. w \in Handler /\ w.p = {p} /\ w.op = op /\ w.n = n /\ w.left = candidates
        /\ w.list = NoList /\ w.stage = "flush" /\ w.why = "none"
  BY NoListTyped DEF MirrorTypeOK, Handler, Off, Ops
<1>3. said \in [Tracees -> SystemCall] /\ said[p] = c
        /\ \A q \in Tracees \ {p} : said[q] = call[q]
  BY <1>1 DEF MirrorTypeOK
<1>4. /\ work.stage = "off" /\ call[p].at = "idle" /\ newest' = newest + v
      /\ UNCHANGED <<remote, local, files, fresh, reached, exposed, strayed>>
      /\ IF op # "exec" /\ fresh THEN Onward(w, said, files, candidates)
         ELSE /\ work' = [w EXCEPT !.why = IF op = "exec" THEN "start" ELSE "list"]
              /\ call' = said
              /\ UNCHANGED candidates
  BY DEF Stops
<1> HIDE DEF c, said, w
<1>5. CASE op # "exec" /\ fresh
  <2>1. Onward(w, said, files, candidates) /\ candidates \in SUBSET Names
    BY <1>4, <1>5 DEF MirrorTypeOK
  <2>2. /\ call' \in [Tracees -> SystemCall] /\ candidates' \in SUBSET Names
        /\ \A q \in Tracees \ {p} : call'[q] = said[q]
        /\ \/ ToFlush(w, candidates) /\ call' = said
           \/ ToFetch(w, files, candidates) /\ call' = said
           \/ ToLet(w, files, candidates) /\ call'[p] = After(said[p], w.op)
    BY ONLY <2>1, <1>2, <1>3, p \in Tracees, OnwardOn
  <2>3. work' \in Handler
    BY <2>2, <1>2, OffTyped DEF ToFlush, ToFetch, ToLet, Handler, MirrorTypeOK
  <2>4. MirrorTypeOK'
    BY <1>4, <2>2, <2>3 DEF MirrorTypeOK
  <2> QED
    <3>1. Halts(p, op, n, m, v, c, w)
      BY <1>1, <1>2, <1>3, <2>2 DEF Halts
    <3> QED
      BY <1>1, <1>2, <1>3, <1>4, <2>2, <2>4, <3>1
<1>6. CASE ~(op # "exec" /\ fresh)
  <2>1. /\ work' = [w EXCEPT !.why = IF op = "exec" THEN "start" ELSE "list"]
        /\ call' = said /\ candidates' = candidates
    BY <1>4, <1>6
  <2>2. /\ work' \in Handler /\ work'.stage = "flush" /\ work'.why \in {"list", "start"}
        /\ work'.p = {p} /\ work'.op = op /\ work'.n = n
        /\ work'.left = candidates /\ work'.list = NoList
    BY <2>1, <1>2 DEF Handler
  <2>3. MirrorTypeOK'
    BY <1>3, <1>4, <2>1, <2>2 DEF MirrorTypeOK
  <2> QED
    <3>1. Halts(p, op, n, m, v, c, w)
      BY <1>1, <1>2, <1>3, <2>1, <2>2 DEF Halts
    <3> QED
      BY <1>1, <1>2, <1>3, <1>4, <2>1, <2>3, <3>1
<1> QED
  BY <1>5, <1>6

LEMMA StopsFrame ==
    ASSUME MirrorTypeOK, NEW p \in Tracees, NEW op \in Ops, NEW n \in SUBSET Names,
           NEW m \in SUBSET Names, NEW v \in {0, 1}, Stops(p, op, n, m, v)
    PROVE  /\ MirrorTypeOK' /\ work.stage = "off" /\ call[p].at = "idle"
           /\ UNCHANGED <<remote, local, files, fresh, reached, exposed, strayed>>
           /\ newest' = newest + v
           /\ \A q \in Tracees : q # p => call'[q] = call[q]
  BY Zenon, StopsOn

-----------------------------------------------------------------------------
(* The calls and the handler they are in.                                  *)

OneName(c) ==
  /\ c.op \in {"stat", "read", "edit", "write", "unlink", "rename"} => \E x \in Names : c.n = {x}
  /\ c.op = "unlink" => c.m = {}
  /\ c.op = "rename" => \E y \in Names \ c.n : c.m = {y}

CallOK(p) ==
  /\ OneName(call[p])
  /\ call[p].at = "open" => call[p].op \in {"read", "edit"}
  /\ call[p].at = "stopped" => p \in work.p

\* The handler is in the call of one process, stopped at it, or in nobody's.
Its(p) ==
  work.p = {p} /\ call[p].at = "stopped" /\ call[p].op = work.op /\ call[p].n = work.n

Busy(p) ==
  /\ work.stage \in {"flush", "pushed", "apply", "fetch", "replace"} /\ work.why # "final"
  /\ Its(p)

HandlerOK ==
  /\ \/ work.stage = "off" /\ work.p = {}
     \/ work.stage \in {"flush", "pushed"} /\ work.why = "final" /\ work.p = {}
     \/ \E p \in Tracees : Busy(p)
  /\ work.stage \in {"off", "flush", "fetch"} => work.list = NoList
  /\ work.stage \in {"flush", "pushed"} /\ work.why = "replay" => work.op \in {"unlink", "rename"}
  /\ work.stage \in {"fetch", "replace"} => work.op \in {"read", "edit"}
  /\ work.stage \in {"fetch", "replace"} => \A n \in work.n : Lacks(files, n)
  /\ work.stage = "replace" => DOMAIN work.list = work.n /\ \A n \in work.n : work.list[n] \in reached
  /\ work.stage = "apply" =>
       /\ DOMAIN work.list = Names 
       /\ \A n \in Names : work.list[n] \in reached \cup {Gone}
  /\ work.stage = "pushed" =>
       \E n \in Names \ work.left : DOMAIN work.list = {n} /\ work.list[n] \in reached

CallsOK == \A p \in Tracees : CallOK(p)
Had == \A n \in Names : remote[n] \in reached \cup {Gone}
Structured == MirrorTypeOK /\ CallsOK /\ HandlerOK /\ Had

LEMMA NoListDomain == DOMAIN NoList = {}
  BY DEF NoList

LEMMA OffFields == Off.stage = "off" /\ Off.p = {} /\ Off.list = NoList /\ Off.why = "none"
  BY DEF Off

LEMMA NoCallFields ==
    /\ NoCall.at = "idle" /\ NoCall.op = "none" /\ NoCall.n = {} /\ NoCall.m = {}
    /\ NoCall.fd = {} /\ NoCall.crossed = FALSE /\ NoCall.v = 0
  BY DEF NoCall, Gone

\* The arguments a process's call may have.
LEMMA RequestsOf ==
    ASSUME NEW p \in Tracees, Requests(p)
    PROVE  \E op \in Ops, n \in SUBSET Names, m \in SUBSET Names, v \in {0, 1} :
             /\ Stops(p, op, n, m, v)
             /\ op # "none" /\ (v = 1 <=> op \in {"edit", "write"})
             /\ op \in {"stat", "read", "edit", "write", "unlink", "rename"} =>
                  \E x \in Names : n = {x}
             /\ op = "unlink" => m = {}
             /\ op = "rename" => \E y \in Names \ n : m = {y}
<1>1. CASE \E op \in Calls[p] \cap {"stat", "read"}, n \in Names : Stops(p, op, {n}, {}, 0)
  BY <1>1 DEF Ops
<1>2. CASE \E op \in Calls[p] \cap {"edit", "write"}, n \in Names : Stops(p, op, {n}, {}, 1)
  BY <1>2 DEF Ops
<1>3. CASE \E n \in Names : "unlink" \in Calls[p] /\ Stops(p, "unlink", {n}, {}, 0)
  BY <1>3 DEF Ops
<1>4. CASE \E n, m \in Names : "rename" \in Calls[p] /\ n # m /\ Stops(p, "rename", {n}, {m}, 0)
  <2>1. PICK n \in Names, m \in Names : n # m /\ Stops(p, "rename", {n}, {m}, 0)
    BY <1>4
  <2>2. {n} \in SUBSET Names /\ {m} \in SUBSET Names /\ m \in Names \ {n}
    BY <2>1
  <2> "rename" \in Ops /\ 0 \in {0, 1} /\ {n} \in SUBSET Names /\ {m} \in SUBSET Names
    BY <2>2 DEF Ops
  <2>3. /\ "rename" \in Ops /\ 0 \in {0, 1}
        /\ \E x \in Names : {n} = {x} /\ \E y \in Names \ {n} : {m} = {y}
    BY <2>1, <2>2 DEF Ops
  <2> QED
    <3> WITNESS "rename" \in Ops, {n} \in SUBSET Names, {m} \in SUBSET Names, 0 \in {0, 1}
    <3> QED
      BY <2>1, <2>3
<1>5. CASE "exec" \in Calls[p] /\ Stops(p, "exec", {}, {}, 0)
  BY <1>5 DEF Ops
<1> QED
  BY <1>1, <1>2, <1>3, <1>4, <1>5 DEF Requests

-----------------------------------------------------------------------------
(* What each step does, one call and one name at a time.                  *)

LEMMA PushesOn ==
    ASSUME MirrorTypeOK, HandlerOK, Pushes
    PROVE  /\ MirrorTypeOK' /\ work.stage = "flush" /\ work'.stage = "pushed"
           /\ UNCHANGED <<local, files, candidates, fresh, call, newest, exposed, strayed>>
           /\ work'.p = work.p /\ work'.op = work.op /\ work'.n = work.n /\ work'.why = work.why
           /\ \E n \in Names :
                /\ n \in work.left /\ n \notin work'.left /\ Unpushed(n)
                /\ work'.left \subseteq work.left
                /\ \A x \in work.left \ work'.left : x = n \/ ~Unpushed(x)
                /\ DOMAIN work'.list = {n} /\ work'.list[n] = local[n].v
                /\ \A x \in Names \ {n} : remote'[x] = remote[x]
                /\ remote'[n] = local[n].v /\ reached' = reached \cup {local[n].v}
<1>1. PICK n \in work.left \ Refused, clean \in SUBSET work.left :
        /\ Unpushed(n) /\ \A x \in clean : ~Unpushed(x)
        /\ remote' = [remote EXCEPT ![n] = local[n].v]
        /\ reached' = reached \cup {local[n].v}
        /\ work' = [work EXCEPT !.stage = "pushed", !.left = @ \ ({n} \cup clean),
                                !.list = [x \in {n} |-> local[n].v]]
  BY Zenon DEF Pushes
<1>2. /\ work.stage = "flush"
      /\ UNCHANGED <<local, files, candidates, fresh, call, newest, exposed, strayed>>
  BY DEF Pushes
<1>3. n \in Names /\ local[n].v \in Nat
  BY DEF MirrorTypeOK, Handler, MirrorFile
<1> DEFINE one == [x \in {n} |-> local[n].v]
<1>4. one \in UNION {[S -> Nat] : S \in SUBSET Names} /\ DOMAIN one = {n} /\ one[n] = local[n].v
  BY <1>3, OneListTyped
<1>5. work' = [work EXCEPT !.stage = "pushed", !.left = @ \ ({n} \cup clean), !.list = one]
  BY <1>1
<1> HIDE DEF one
<1>6. /\ work' \in Handler /\ work'.stage = "pushed" /\ work'.left = work.left \ ({n} \cup clean)
      /\ work'.list = one /\ work'.p = work.p /\ work'.op = work.op /\ work'.n = work.n
      /\ work'.why = work.why
  BY <1>4, <1>5 DEF MirrorTypeOK, Handler
<1>7. remote' \in [Names -> Nat] /\ remote'[n] = local[n].v
        /\ \A x \in Names \ {n} : remote'[x] = remote[x]
  BY <1>1, <1>3 DEF MirrorTypeOK
<1>8. MirrorTypeOK'
  BY <1>1, <1>2, <1>3, <1>6, <1>7 DEF MirrorTypeOK
<1> QED
  BY <1>1, <1>2, <1>3, <1>4, <1>6, <1>7, <1>8

LEMMA PushedOn ==
    ASSUME MirrorTypeOK, HandlerOK, Pushed
    PROVE  /\ MirrorTypeOK' /\ work.stage = "pushed" /\ work'.stage = "flush" /\ work'.list = NoList
           /\ UNCHANGED <<remote, local, candidates, fresh, newest, reached, exposed, strayed>>
           /\ work'.p = work.p /\ work'.op = work.op /\ work'.n = work.n /\ work'.why = work.why
           /\ work'.left = work.left /\ call' = Crosses
           /\ \E n \in Names :
                /\ DOMAIN work.list = {n} /\ n \notin work.left
                /\ \A x \in Names \ {n} : files'[x] = files[x]
                /\ files'[n].seen = work.list[n] /\ files'[n].own = local[n].v
                /\ files'[n].present = TRUE /\ work.list[n] \in reached
<1>1. PICK n \in Names \ work.left : DOMAIN work.list = {n} /\ work.list[n] \in reached
  BY DEF Pushed, HandlerOK
<1>2. /\ work.stage = "pushed" /\ work' = [work EXCEPT !.stage = "flush", !.list = NoList]
      /\ call' = Crosses
      /\ UNCHANGED <<remote, local, candidates, fresh, newest, reached, exposed, strayed>>
      /\ files' = [x \in Names |->
                 IF x \in {n}
                 THEN [seen |-> work.list[x], own |-> local[x].v, present |-> TRUE]
                 ELSE files[x]]
  BY <1>1 DEF Pushed
<1>3. local[n].v \in Nat /\ work.list[n] \in Nat
  BY <1>1 DEF MirrorTypeOK, MirrorFile
<1>4. /\ work' \in Handler /\ work'.stage = "flush" /\ work'.list = NoList /\ work'.p = work.p
      /\ work'.op = work.op /\ work'.n = work.n /\ work'.why = work.why /\ work'.left = work.left
  BY <1>2, NoListTyped DEF MirrorTypeOK, Handler
<1>5. /\ files' \in [Names -> Record]
      /\ \A x \in Names \ {n} : files'[x] = files[x]
      /\ files'[n].seen = work.list[n] /\ files'[n].own = local[n].v /\ files'[n].present = TRUE
  BY <1>2, <1>3 DEF MirrorTypeOK, Record
<1>6. MirrorTypeOK'
  BY <1>2, <1>4, <1>5, CrossesTyped DEF MirrorTypeOK
<1> QED
  BY <1>1, <1>2, <1>4, <1>5, <1>6

\* The calls of the process the handler is in, or of nobody, are over or go on elsewhere.
LEMMA HandlerBecomes ==
    ASSUME MirrorTypeOK, HandlerOK, NEW at \in {"idle", "parked"}, work' = Off,
           call' = Become(call, work.p, at)
    PROVE  /\ call' \in [Tracees -> SystemCall] /\ work' \in Handler
           /\ \A q \in Tracees : \/ call'[q] = call[q] /\ q \notin work.p
                                 \/ call'[q] = NoCall /\ q \in work.p /\ at = "idle"
                                 \/ /\ call'[q] = [call[q] EXCEPT !.at = "parked"]
                                    /\ at = "parked" /\ q \in work.p
  BY Becomes, OffTyped DEF MirrorTypeOK

LEMMA RefusesOn ==
    ASSUME MirrorTypeOK, HandlerOK, Refuses
    PROVE  /\ MirrorTypeOK' /\ work' = Off /\ work.stage = "flush" /\ work.why # "final"
           /\ UNCHANGED <<remote, local, files, candidates, fresh, newest, reached, exposed, strayed>>
           /\ \A q \in Tracees : \/ call'[q] = call[q] /\ q \notin work.p
                                 \/ call'[q] = NoCall /\ q \in work.p
<1>1. /\ work' = Off /\ call' = Become(call, work.p, "idle") /\ work.stage = "flush"
      /\ work.why # "final"
      /\ UNCHANGED <<remote, local, files, candidates, fresh, newest, reached, exposed, strayed>>
  BY DEF Refuses, Blocked
<1>2. /\ call' \in [Tracees -> SystemCall] /\ work' \in Handler
      /\ \A q \in Tracees : \/ call'[q] = call[q] /\ q \notin work.p
                            \/ call'[q] = NoCall /\ q \in work.p
  BY <1>1, HandlerBecomes
<1> QED
  BY <1>1, <1>2 DEF MirrorTypeOK

LEMMA BeginsOn ==
    ASSUME MirrorTypeOK, HandlerOK, BeginsRemoteExec
    PROVE  /\ MirrorTypeOK' /\ work' = Off /\ work.stage = "flush" /\ work.why = "start"
           /\ UNCHANGED <<remote, local, files, candidates, fresh, newest, reached, exposed, strayed>>
           /\ \A q \in Tracees : \/ call'[q] = call[q] /\ q \notin work.p
                                 \/ call'[q] = [call[q] EXCEPT !.at = "parked"] /\ q \in work.p
<1>1. /\ work' = Off /\ call' = Become(call, work.p, "parked") /\ work.stage = "flush"
      /\ work.why = "start"
      /\ UNCHANGED <<remote, local, files, candidates, fresh, newest, reached, exposed, strayed>>
  BY DEF BeginsRemoteExec, Blocked, Flushed
<1>2. /\ call' \in [Tracees -> SystemCall] /\ work' \in Handler
      /\ \A q \in Tracees : \/ call'[q] = call[q] /\ q \notin work.p
                            \/ call'[q] = [call[q] EXCEPT !.at = "parked"] /\ q \in work.p
  BY <1>1, HandlerBecomes
<1> QED
  BY <1>1, <1>2 DEF MirrorTypeOK

LEMMA ListsOn ==
    ASSUME MirrorTypeOK, HandlerOK, Lists
    PROVE  /\ MirrorTypeOK' /\ Flushed("list") /\ work'.stage = "apply" /\ work'.list = remote
           /\ work'.left = {} /\ work'.p = work.p /\ work'.op = work.op /\ work'.n = work.n
           /\ work'.why = "list"
           /\ UNCHANGED <<remote, local, files, candidates, fresh, call, newest, reached, exposed, strayed>>
<1>1. /\ Flushed("list") /\ work' = [work EXCEPT !.stage = "apply", !.left = {}, !.list = remote]
      /\ UNCHANGED <<remote, local, files, candidates, fresh, call, newest, reached, exposed, strayed>>
  BY DEF Lists
<1>2. remote \in UNION {[S -> Nat] : S \in SUBSET Names}
  BY DEF MirrorTypeOK
<1>3. /\ work' \in Handler /\ work'.stage = "apply" /\ work'.list = remote /\ work'.left = {}
      /\ work'.p = work.p /\ work'.op = work.op /\ work'.n = work.n /\ work'.why = "list"
  BY <1>1, <1>2 DEF MirrorTypeOK, Handler, Flushed
<1> QED
  BY <1>1, <1>3 DEF MirrorTypeOK

LEMMA FetchesOn ==
    ASSUME MirrorTypeOK, HandlerOK, Fetches
    PROVE  /\ MirrorTypeOK' /\ work.stage = "fetch"
           /\ UNCHANGED <<remote, local, files, candidates, fresh, newest, reached, exposed, strayed>>
           /\ \/ /\ work' = Off
                 /\ \A q \in Tracees : \/ call'[q] = call[q] /\ q \notin work.p
                                       \/ call'[q] = NoCall /\ q \in work.p
              \/ /\ call' = call /\ work'.stage = "replace" /\ work'.p = work.p
                 /\ work'.op = work.op /\ work'.n = work.n /\ work'.why = work.why
                 /\ work'.left = work.left
                 /\ \E n \in work.n : DOMAIN work'.list = {n} /\ work'.list[n] = remote[n]
                                      /\ remote[n] # Gone
<1>1. PICK n \in work.n :
       IF remote[n] = Gone
       THEN work' = Off /\ call' = Become(call, work.p, "idle")
       ELSE /\ work' = [work EXCEPT !.stage = "replace",
                                    !.list = [x \in {n} |-> remote[n]]]
            /\ UNCHANGED call
  BY Zenon DEF Fetches
<1>2. /\ work.stage = "fetch"
      /\ UNCHANGED <<remote, local, files, candidates, fresh, newest, reached, exposed, strayed>>
  BY DEF Fetches
<1>3. CASE remote[n] = Gone
  <2>1. work' = Off /\ call' = Become(call, work.p, "idle")
    BY <1>1, <1>3
  <2>2. /\ call' \in [Tracees -> SystemCall] /\ work' \in Handler
        /\ \A q \in Tracees : \/ call'[q] = call[q] /\ q \notin work.p
                              \/ call'[q] = NoCall /\ q \in work.p
    BY <2>1, HandlerBecomes
  <2> QED
    BY <1>2, <2>1, <2>2 DEF MirrorTypeOK
<1>4. CASE remote[n] # Gone
  <2> DEFINE one == [x \in {n} |-> remote[n]]
  <2>1. n \in Names /\ remote[n] \in Nat
    BY DEF MirrorTypeOK, Handler
  <2>2. one \in UNION {[S -> Nat] : S \in SUBSET Names} /\ DOMAIN one = {n} /\ one[n] = remote[n]
    BY <2>1, OneListTyped
  <2>3. work' = [work EXCEPT !.stage = "replace", !.list = one] /\ call' = call
    BY <1>1, <1>4
  <2> HIDE DEF one
  <2>4. /\ work' \in Handler /\ work'.stage = "replace" /\ work'.list = one
        /\ work'.left = work.left
        /\ work'.p = work.p /\ work'.op = work.op /\ work'.n = work.n /\ work'.why = work.why
    BY <2>2, <2>3 DEF MirrorTypeOK, Handler
  <2>5. MirrorTypeOK'
    BY <1>2, <2>3, <2>4 DEF MirrorTypeOK
  <2> QED
    BY <1>2, <1>4, <2>2, <2>3, <2>4, <2>5
<1> QED
  BY <1>3, <1>4

\* What a listing takes away, and what it says is new or changed.
Vanished == {n \in Names : work.list[n] = Gone /\ local[n].v # Gone}
Arrived == {n \in Names : work.list[n] # Gone /\ ~Intact(n, work.list[n])}

LEMMA AppliesOn ==
    ASSUME MirrorTypeOK, HandlerOK, Applies
    PROVE  /\ MirrorTypeOK' /\ work.stage = "apply" /\ fresh' = TRUE
           /\ UNCHANGED <<remote, newest, reached, exposed, strayed>>
           /\ \A n \in Vanished : local'[n] = Nothing /\ files'[n] = Unknown
           /\ \A n \in Arrived : /\ local'[n].v = work.list[n] /\ local'[n].hole = TRUE
                                 /\ files'[n].seen = work.list[n] /\ files'[n].own = work.list[n]
                                 /\ files'[n].present = FALSE
           /\ \A n \in Names \ (Vanished \cup Arrived) : local'[n] = local[n] /\ files'[n] = files[n]
           /\ \E p \in Tracees, w \in Handler, calls \in [Tracees -> SystemCall] :
                /\ Busy(p) /\ calls = Cuts(Crosses, Vanished)
                /\ w.p = {p} /\ w.op = work.op /\ w.n = work.n /\ w.list = NoList
                /\ w.stage = "apply" /\ w.why = work.why
                /\ \A q \in Tracees \ {p} : call'[q] = calls[q]
                /\ \/ ToFlush(w, candidates \ Vanished) /\ call'[p] = calls[p]
                   \/ ToFetch(w, files', candidates \ Vanished) /\ call'[p] = calls[p]
                   \/ ToLet(w, files', candidates \ Vanished) /\ call'[p] = After(calls[p], w.op)
<1>1. PICK p \in Tracees : Busy(p)
  BY DEF Applies, HandlerOK
<1> DEFINE w == [work EXCEPT !.list = NoList]
           calls == Cuts(Crosses, Vanished)
<1>2. /\ work.stage = "apply" /\ fresh' = TRUE
      /\ UNCHANGED <<remote, newest, reached, exposed, strayed>>
      /\ local' = [n \in Names |->
                       CASE n \in Vanished -> Nothing
                         [] n \in Arrived -> [v |-> work.list[n], hole |-> TRUE]
                         [] OTHER -> local[n]]
      /\ files' = [n \in Names |->
                       CASE n \in Vanished -> Unknown
                         [] n \in Arrived -> [Knows(work.list[n]) EXCEPT !.present = FALSE]
                         [] OTHER -> files[n]]
      /\ Onward(w, calls, files', candidates \ Vanished)
  BY Zenon DEF Applies, Vanished, Arrived
<1>3. /\ w \in Handler /\ w.p = {p} /\ w.op = work.op /\ w.n = work.n /\ w.list = NoList
      /\ w.stage = "apply" /\ w.why = work.why
  BY <1>1, <1>2, NoListTyped DEF MirrorTypeOK, Handler, Busy, Its
<1>4. calls \in [Tracees -> SystemCall] /\ candidates \ Vanished \in SUBSET Names
  BY CrossesTyped, CutsTyped DEF MirrorTypeOK
<1>5. DOMAIN work.list = Names /\ \A n \in Names : work.list[n] \in Nat
  BY <1>2 DEF HandlerOK, MirrorTypeOK, Gone
<1> HIDE DEF w, calls
<1>6. /\ call' \in [Tracees -> SystemCall] /\ candidates' \in SUBSET Names
      /\ \A q \in Tracees \ {p} : call'[q] = calls[q]
      /\ \/ ToFlush(w, candidates \ Vanished) /\ call' = calls
         \/ ToFetch(w, files', candidates \ Vanished) /\ call' = calls
         \/ ToLet(w, files', candidates \ Vanished) /\ call'[p] = After(calls[p], w.op)
  <2>1. Onward(w, calls, files', candidates \ Vanished)
    BY <1>2
  <2> QED
    BY ONLY <2>1, <1>3, <1>4, p \in Tracees, OnwardOn
<1>7. work' \in Handler
  BY <1>3, <1>4, <1>6, OffTyped DEF ToFlush, ToFetch, ToLet, Handler
<1>8. Vanished \cap Arrived = {} /\ Vanished \subseteq Names /\ Arrived \subseteq Names
  BY DEF Vanished, Arrived
<1>9. /\ local' \in [Names -> MirrorFile]
      /\ \A n \in Vanished : local'[n] = Nothing
      /\ \A n \in Arrived : local'[n].v = work.list[n] /\ local'[n].hole = TRUE
      /\ \A n \in Names \ (Vanished \cup Arrived) : local'[n] = local[n]
  <2>1. \A n \in Vanished : local'[n] = Nothing
    BY <1>2, <1>8
  <2>2. \A n \in Arrived : local'[n] = [v |-> work.list[n], hole |-> TRUE]
    BY <1>2, <1>8
  <2>3. \A n \in Names \ (Vanished \cup Arrived) : local'[n] = local[n]
    BY <1>2, <1>8
  <2>4. Nothing \in MirrorFile
    BY DEF Nothing, Gone, MirrorFile
  <2>5. \A x \in Nat : LET one == [v |-> x, hole |-> TRUE]
                       IN one \in MirrorFile /\ one.v = x /\ one.hole = TRUE
    BY DEF MirrorFile
  <2>6. ASSUME NEW n \in Names PROVE local'[n] \in MirrorFile
    <3>1. CASE n \in Vanished
      BY <3>1, <2>1, <2>4
    <3>2. CASE n \in Arrived
      BY <3>2, <2>2, <2>5, <1>5
    <3>3. CASE n \notin Vanished \cup Arrived
      BY <3>3, <2>3 DEF MirrorTypeOK
    <3> QED
      BY <3>1, <3>2, <3>3
  <2>7. local' \in [Names -> MirrorFile]
    BY <1>2, <2>6
  <2>8. ASSUME NEW n \in Arrived PROVE local'[n].v = work.list[n] /\ local'[n].hole = TRUE
    <3>1. local'[n] = [v |-> work.list[n], hole |-> TRUE]
      BY <2>2
    <3> QED
      BY <3>1
  <2> QED
    BY <2>1, <2>3, <2>7, <2>8
<1>10. /\ files' \in [Names -> Record]
       /\ \A n \in Vanished : files'[n] = Unknown
       /\ \A n \in Arrived : /\ files'[n].seen = work.list[n] /\ files'[n].own = work.list[n]
                             /\ files'[n].present = FALSE
       /\ \A n \in Names \ (Vanished \cup Arrived) : files'[n] = files[n]
  <2>1. \A n \in Vanished : files'[n] = Unknown
    BY <1>2, <1>8
  <2>2. \A n \in Arrived : files'[n] = [Knows(work.list[n]) EXCEPT !.present = FALSE]
    BY <1>2, <1>8
  <2>3. \A n \in Names \ (Vanished \cup Arrived) : files'[n] = files[n]
    BY <1>2, <1>8
  <2>4. Unknown \in Record /\ \A x \in Nat : Knows(x) \in Record
    BY DEF Unknown, Knows, Gone, Record
  <2>5. \A x \in Nat : LET one == [Knows(x) EXCEPT !.present = FALSE]
                       IN one \in Record /\ one.seen = x /\ one.own = x /\ one.present = FALSE
    BY DEF Knows, Record
  <2>6. ASSUME NEW n \in Names PROVE files'[n] \in Record
    <3>1. CASE n \in Vanished
      BY <3>1, <2>1, <2>4
    <3>2. CASE n \in Arrived
      BY <3>2, <2>2, <2>5, <1>5
    <3>3. CASE n \notin Vanished \cup Arrived
      BY <3>3, <2>3 DEF MirrorTypeOK
    <3> QED
      BY <3>1, <3>2, <3>3
  <2> QED
    BY <1>2, <1>5, <1>8, <2>1, <2>2, <2>3, <2>5, <2>6
<1>11. MirrorTypeOK'
  BY <1>2, <1>6, <1>7, <1>9, <1>10 DEF MirrorTypeOK
<1>12. calls = Cuts(Crosses, Vanished)
  BY DEF calls
<1>13. \/ ToFlush(w, candidates \ Vanished) /\ call'[p] = calls[p]
       \/ ToFetch(w, files', candidates \ Vanished) /\ call'[p] = calls[p]
       \/ ToLet(w, files', candidates \ Vanished) /\ call'[p] = After(calls[p], w.op)
  BY <1>6
<1>14. \E pp \in Tracees, ww \in Handler, cc \in [Tracees -> SystemCall] :
                /\ Busy(pp) /\ cc = Cuts(Crosses, Vanished)
                /\ ww.p = {pp} /\ ww.op = work.op /\ ww.n = work.n /\ ww.list = NoList
                /\ ww.stage = "apply" /\ ww.why = work.why
                /\ \A q \in Tracees \ {pp} : call'[q] = cc[q]
                /\ \/ ToFlush(ww, candidates \ Vanished) /\ call'[pp] = cc[pp]
                   \/ ToFetch(ww, files', candidates \ Vanished) /\ call'[pp] = cc[pp]
                   \/ ToLet(ww, files', candidates \ Vanished) /\ call'[pp] = After(cc[pp], ww.op)
  <2> w \in Handler /\ calls \in [Tracees -> SystemCall]
    BY <1>3, <1>4
  <2> WITNESS p \in Tracees, w \in Handler, calls \in [Tracees -> SystemCall]
  <2> QED
    BY <1>1, <1>3, <1>6, <1>12, <1>13
<1> QED
  BY <1>2, <1>9, <1>10, <1>11, <1>14

LEMMA ReplacesOn ==
    ASSUME MirrorTypeOK, HandlerOK, Replaces
    PROVE  /\ MirrorTypeOK' /\ work.stage = "replace" /\ work' = Off
           /\ UNCHANGED <<remote, fresh, newest, reached, exposed, strayed>>
           /\ \E p \in Tracees, calls \in [Tracees -> SystemCall] :
                /\ Busy(p) /\ calls = Cuts(Crosses, work.n)
                /\ \A q \in Tracees \ {p} : call'[q] = calls[q]
                /\ call'[p] = After(calls[p], work.op)
           /\ candidates' = IF work.op = "edit" THEN candidates \cup work.n ELSE candidates
           /\ \A n \in work.n : /\ local'[n].v = work.list[n] /\ local'[n].hole = FALSE
                                /\ files'[n].seen = work.list[n] /\ files'[n].own = work.list[n]
                                /\ files'[n].present = TRUE
           /\ \A n \in Names \ work.n : local'[n] = local[n] /\ files'[n] = files[n]
<1>1. PICK p \in Tracees : Busy(p)
  BY DEF Replaces, HandlerOK
<1>2. /\ work.stage = "replace" /\ DOMAIN work.list = work.n /\ work.n \subseteq Names
      /\ \A n \in work.n : work.list[n] \in Nat
      /\ UNCHANGED <<remote, fresh, newest, reached, exposed, strayed>>
  BY DEF Replaces, HandlerOK, MirrorTypeOK, Handler
<1> DEFINE calls == Cuts(Crosses, work.n)
<1>3. /\ local' = [n \in Names |-> IF n \in work.n THEN Fetched(work.list[n]) ELSE local[n]]
      /\ files' = [n \in Names |-> IF n \in work.n THEN Knows(work.list[n]) ELSE files[n]]
      /\ Lets(work, calls, candidates)
  BY <1>2 DEF Replaces
<1>4. calls \in [Tracees -> SystemCall] /\ candidates \in SUBSET Names /\ work \in Handler
  BY CrossesTyped, CutsTyped DEF MirrorTypeOK
<1>5. work.p = {p} /\ work.op # "write"
  BY <1>1, <1>2 DEF Busy, Its, HandlerOK
<1> HIDE DEF calls
<1>6. /\ work' = Off /\ call' \in [Tracees -> SystemCall]
      /\ candidates' = IF work.op \in {"edit", "write"} THEN candidates \cup work.n ELSE candidates
      /\ candidates' \in SUBSET Names
      /\ \A q \in Tracees \ {p} : call'[q] = calls[q]
      /\ call'[p] = After(calls[p], work.op)
  <2>1. Lets(work, calls, candidates)
    BY <1>3
  <2> QED
    BY ONLY <2>1, <1>4, <1>5, p \in Tracees, LetsOn
<1>7. /\ local' \in [Names -> MirrorFile]
      /\ \A n \in work.n : local'[n].v = work.list[n] /\ local'[n].hole = FALSE
      /\ \A n \in Names \ work.n : local'[n] = local[n]
  BY <1>2, <1>3 DEF MirrorTypeOK, MirrorFile, Fetched
<1>8. /\ files' \in [Names -> Record]
      /\ \A n \in work.n : /\ files'[n].seen = work.list[n] /\ files'[n].own = work.list[n]
                           /\ files'[n].present = TRUE
      /\ \A n \in Names \ work.n : files'[n] = files[n]
  BY <1>2, <1>3 DEF MirrorTypeOK, Record, Knows
<1>9. MirrorTypeOK'
  BY <1>2, <1>6, <1>7, <1>8, OffTyped DEF MirrorTypeOK
<1>10. candidates' = IF work.op = "edit" THEN candidates \cup work.n ELSE candidates
  BY <1>5, <1>6
<1>11. calls = Cuts(Crosses, work.n)
  BY DEF calls
<1>12. \E pp \in Tracees, cc \in [Tracees -> SystemCall] :
                /\ Busy(pp) /\ cc = Cuts(Crosses, work.n)
                /\ \A q \in Tracees \ {pp} : call'[q] = cc[q]
                /\ call'[pp] = After(cc[pp], work.op)
  BY <1>1, <1>4, <1>6, <1>11
<1> QED
  BY <1>2, <1>6, <1>7, <1>8, <1>9, <1>10, <1>12

\* The target has not got what was to be removed or renamed there; or it is done.
Unsent(p, n) ==
  /\ remote[n] = Gone /\ call'[p] = NoCall /\ UNCHANGED <<remote, files, candidates>>
  /\ \A q \in Tracees \ {p} : call'[q] = call[q]

Sent(p, n) ==
  /\ remote[n] # Gone /\ n \notin call[p].m
  /\ call'[p] = [call[p] EXCEPT !.at = "let"]
  /\ \A q \in Tracees \ {p} : call'[q] = Crosses[q]
  /\ \A x \in call[p].m : remote'[x] = remote[n] /\ files'[x] = files[n]
  /\ remote'[n] = Gone /\ files'[n] = Unknown
  /\ \A x \in Names \ (call[p].m \cup {n}) : remote'[x] = remote[x] /\ files'[x] = files[x]
  /\ candidates' = IF n \in candidates THEN (candidates \ {n}) \cup call[p].m
                   ELSE candidates \ call[p].m

LEMMA ReplaysOn ==
    ASSUME MirrorTypeOK, CallsOK, HandlerOK, Replays
    PROVE  /\ MirrorTypeOK' /\ Flushed("replay") /\ work' = Off
           /\ UNCHANGED <<local, fresh, newest, reached, exposed, strayed>>
           /\ \E p \in Tracees, n \in Names :
                /\ Busy(p) /\ call[p].n = {n} /\ call[p].op \in {"unlink", "rename"}
                /\ Unsent(p, n) \/ Sent(p, n)
<1>1. Flushed("replay") /\ UNCHANGED <<local, fresh, newest, reached, exposed, strayed>>
  BY DEF Replays
<1>2. PICK p \in Tracees : Busy(p)
  BY <1>1 DEF Flushed, HandlerOK
<1>3. work.p = {p} /\ work.n = call[p].n /\ call[p].op = work.op /\ work.op \in {"unlink", "rename"}
        /\ call[p].at = "stopped"
  BY <1>1, <1>2 DEF Busy, Its, HandlerOK, Flushed
<1>4. PICK n \in Names : call[p].n = {n}
  BY <1>3 DEF CallsOK, CallOK, OneName
<1>5. n \notin call[p].m /\ call[p].m \subseteq Names
  BY <1>3, <1>4 DEF CallsOK, CallOK, OneName
<1>6. IF remote[n] = Gone
      THEN /\ work' = Off /\ call' = Become(call, {p}, "idle")
           /\ UNCHANGED <<remote, files, candidates>>
      ELSE LET m == call[p].m
           IN /\ remote' = [x \in Names |-> CASE x \in m -> remote[n]
                                               [] x = n -> Gone [] OTHER -> remote[x]]
              /\ files' = [x \in Names |-> CASE x \in m -> files[n]
                                              [] x = n -> Unknown [] OTHER -> files[x]]
              /\ Lets(work, Crosses, IF n \in candidates THEN (candidates \ {n}) \cup m
                                     ELSE candidates \ m)
  <2>1. PICK pp \in work.p, nn \in work.n :
          IF remote[nn] = Gone
          THEN /\ work' = Off /\ call' = Become(call, {pp}, "idle")
               /\ UNCHANGED <<remote, files, candidates>>
          ELSE LET m == call[pp].m
               IN /\ remote' = [x \in Names |-> CASE x \in m -> remote[nn]
                                                   [] x = nn -> Gone [] OTHER -> remote[x]]
                  /\ files' = [x \in Names |-> CASE x \in m -> files[nn]
                                                  [] x = nn -> Unknown [] OTHER -> files[x]]
                  /\ Lets(work, Crosses, IF nn \in candidates THEN (candidates \ {nn}) \cup m
                                         ELSE candidates \ m)
    BY Zenon DEF Replays
  <2>2. pp = p /\ nn = n
    BY <1>3, <1>4
  <2> QED
    BY <2>1, <2>2
<1>7. CASE remote[n] = Gone
  <2>1. work' = Off /\ call' = Become(call, work.p, "idle") /\ UNCHANGED <<remote, files, candidates>>
    BY <1>3, <1>6, <1>7
  <2>2. /\ call' \in [Tracees -> SystemCall] /\ work' \in Handler
        /\ \A q \in Tracees : \/ call'[q] = call[q] /\ q \notin work.p
                              \/ call'[q] = NoCall /\ q \in work.p
    BY <2>1, HandlerBecomes
  <2>3. MirrorTypeOK'
    BY <1>1, <2>1, <2>2 DEF MirrorTypeOK
  <2> QED
    BY <1>1, <1>2, <1>3, <1>4, <1>7, <2>1, <2>2, <2>3 DEF Unsent
<1>8. CASE remote[n] # Gone
  <2> DEFINE m == call[p].m
             dirty == IF n \in candidates THEN (candidates \ {n}) \cup m ELSE candidates \ m
  <2>1. /\ remote' = [x \in Names |-> CASE x \in m -> remote[n]
                                         [] x = n -> Gone [] OTHER -> remote[x]]
        /\ files' = [x \in Names |-> CASE x \in m -> files[n]
                                        [] x = n -> Unknown [] OTHER -> files[x]]
        /\ Lets(work, Crosses, dirty)
    BY <1>6, <1>8
  <2>2. dirty \in SUBSET Names /\ Crosses \in [Tracees -> SystemCall] /\ work \in Handler
    BY <1>5, CrossesTyped DEF MirrorTypeOK
  <2> HIDE DEF dirty, m
  <2>3. /\ work' = Off /\ call' \in [Tracees -> SystemCall]
        /\ candidates' = IF work.op \in {"edit", "write"} THEN dirty \cup work.n ELSE dirty
        /\ candidates' \in SUBSET Names
        /\ \A q \in Tracees \ {p} : call'[q] = Crosses[q]
        /\ call'[p] = After(Crosses[p], work.op)
    <3>1. Lets(work, Crosses, dirty)
      BY <2>1
    <3> QED
      BY ONLY <3>1, <2>2, <1>3, p \in Tracees, LetsOn
  <2>4. candidates' = dirty /\ call'[p] = [call[p] EXCEPT !.at = "let"]
    BY <2>3, <1>3, CrossesTyped DEF After
  <2>5. m \subseteq Names /\ n \notin m /\ Unknown \in Record
    BY <1>5 DEF m, Unknown, Record, Gone
  <2>6. /\ remote' \in [Names -> Nat] /\ \A x \in m : remote'[x] = remote[n]
        /\ remote'[n] = Gone /\ \A x \in Names \ (m \cup {n}) : remote'[x] = remote[x]
    BY <2>1, <2>5 DEF MirrorTypeOK, Gone
  <2>7. /\ files' \in [Names -> Record] /\ \A x \in m : files'[x] = files[n]
        /\ files'[n] = Unknown /\ \A x \in Names \ (m \cup {n}) : files'[x] = files[x]
    BY <2>1, <2>5 DEF MirrorTypeOK
  <2>8. MirrorTypeOK'
    BY <1>1, <2>3, <2>6, <2>7, OffTyped DEF MirrorTypeOK
  <2> QED
    BY <1>1, <1>2, <1>3, <1>4, <1>5, <1>8, <2>3, <2>4, <2>6, <2>7, <2>8 DEF dirty, m, Sent
<1> QED
  BY <1>7, <1>8

LEMMA FlushesFinalOn ==
    ASSUME MirrorTypeOK, FlushesFinal
    PROVE  /\ MirrorTypeOK' /\ work.stage = "off" /\ \A p \in Tracees : call[p].at \in {"idle", "parked", "done"}
           /\ work'.stage = "flush" /\ work'.why = "final" /\ work'.p = {} /\ work'.left = candidates
           /\ work'.list = NoList
           /\ UNCHANGED <<remote, local, files, candidates, fresh, call, newest, reached, exposed, strayed>>
<1>1. /\ work.stage = "off" /\ \A p \in Tracees : call[p].at \in {"idle", "parked", "done"}
      /\ work' = [Off EXCEPT !.stage = "flush", !.why = "final", !.left = candidates]
      /\ UNCHANGED <<remote, local, files, candidates, fresh, call, newest, reached, exposed, strayed>>
  BY DEF FlushesFinal
<1>2. /\ work' \in Handler /\ work'.stage = "flush" /\ work'.why = "final" /\ work'.p = {}
      /\ work'.left = candidates /\ work'.list = NoList
  BY <1>1, NoListTyped DEF MirrorTypeOK, Handler, Off, Ops
<1> QED
  BY <1>1, <1>2 DEF MirrorTypeOK

LEMMA ReleasesOn ==
    ASSUME MirrorTypeOK, NEW p \in Tracees, ReleasesStalled(p)
    PROVE  /\ MirrorTypeOK' /\ work.stage = "off" /\ call[p].at = "done" /\ fresh' = FALSE
           /\ call'[p] = NoCall /\ \A q \in Tracees \ {p} : call'[q] = call[q]
           /\ UNCHANGED <<remote, local, files, candidates, work, newest, reached, exposed, strayed>>
  BY NoCallTyped DEF ReleasesStalled, MirrorTypeOK

LEMMA OpensOn ==
    ASSUME MirrorTypeOK, NEW p \in Tracees, Opens(p)
    PROVE  /\ MirrorTypeOK' /\ call[p].at = "let" /\ call[p].op \in {"read", "edit"}
           /\ \/ call'[p] = NoCall
              \/ call'[p] = [call[p] EXCEPT !.at = "open", !.fd = There(p)]
           /\ \A q \in Tracees \ {p} : call'[q] = call[q]
           /\ UNCHANGED <<remote, local, files, candidates, fresh, work, newest, reached, exposed, strayed>>
<1>1. There(p) \in SUBSET Names
  BY DEF There, MirrorTypeOK, SystemCall
<1>2. /\ call[p].at = "let" /\ call[p].op \in {"read", "edit"}
      /\ call' = [call EXCEPT ![p] = IF There(p) = {} THEN NoCall
                                     ELSE [call[p] EXCEPT !.at = "open", !.fd = There(p)]]
      /\ UNCHANGED <<remote, local, files, candidates, fresh, work, newest, reached, exposed, strayed>>
  BY DEF Opens
<1>3. [call[p] EXCEPT !.at = "open", !.fd = There(p)] \in SystemCall
  BY <1>1 DEF MirrorTypeOK, SystemCall
<1> QED
  BY <1>2, <1>3, NoCallTyped DEF MirrorTypeOK

\* What is written, and whether anything here looks after it.
Wrote(p, names) ==
  /\ \A n \in names : local'[n].v = call[p].v
                      /\ local'[n].hole = (call[p].op = "edit" /\ local[n].hole)
  /\ \A n \in Names \ names : local'[n] = local[n]
  /\ IF Exposed(p, names) THEN exposed' = exposed \cup {call[p].v} ELSE exposed' = exposed

LEMMA WritesOn ==
    ASSUME MirrorTypeOK, NEW p \in Tracees, NEW names \in SUBSET Names, WritesTo(p, names)
    PROVE  local' \in [Names -> MirrorFile] /\ exposed' \in SUBSET Nat /\ Wrote(p, names)
<1>1. local' = [n \in Names |-> IF n \in names
                               THEN [v |-> call[p].v,
                                     hole |-> call[p].op = "edit" /\ local[n].hole]
                               ELSE local[n]]
  BY DEF WritesTo
<1>2. call[p].v \in Nat /\ \A n \in names : (call[p].op = "edit" /\ local[n].hole) \in BOOLEAN
  BY DEF MirrorTypeOK, SystemCall, MirrorFile
<1>3. \A n \in names : /\ local'[n] \in MirrorFile /\ local'[n].v = call[p].v
                       /\ local'[n].hole = (call[p].op = "edit" /\ local[n].hole)
  <2> SUFFICES ASSUME NEW n \in names
               PROVE  /\ local'[n] \in MirrorFile /\ local'[n].v = call[p].v
                      /\ local'[n].hole = (call[p].op = "edit" /\ local[n].hole)
    OBVIOUS
  <2>1. local'[n] = [v |-> call[p].v, hole |-> call[p].op = "edit" /\ local[n].hole]
    BY <1>1
  <2> QED
    BY <2>1, <1>2 DEF MirrorFile
<1>4. \A n \in Names \ names : local'[n] = local[n]
  BY <1>1
<1>5. local' \in [Names -> MirrorFile]
  BY <1>1, <1>3, <1>4 DEF MirrorTypeOK
<1>6. exposed' = IF Exposed(p, names) THEN exposed \cup {call[p].v} ELSE exposed
  BY DEF WritesTo
<1> QED
  BY <1>2, <1>3, <1>4, <1>5, <1>6 DEF MirrorTypeOK, Wrote

\* A process makes its write, through the descriptor it has open or by name.
LEMMA UsesOn ==
    ASSUME MirrorTypeOK, NEW p \in Tracees, Uses(p)
    PROVE  /\ MirrorTypeOK' /\ call[p].at = "open"
           /\ call'[p] = NoCall /\ \A q \in Tracees \ {p} : call'[q] = call[q]
           /\ \/ call[p].op # "edit" /\ UNCHANGED <<local, exposed>>
              \/ call[p].op = "edit" /\ Wrote(p, call[p].fd)
           /\ UNCHANGED <<remote, files, candidates, fresh, work, newest, reached, strayed>>
<1>1. /\ call[p].at = "open" /\ call' = [call EXCEPT ![p] = NoCall]
      /\ IF call[p].op = "edit" THEN WritesTo(p, call[p].fd) ELSE UNCHANGED <<local, exposed>>
      /\ UNCHANGED <<remote, files, candidates, fresh, work, newest, reached, strayed>>
  BY DEF Uses
<1>2. call[p].fd \in SUBSET Names
  BY DEF MirrorTypeOK, SystemCall
<1>3. CASE call[p].op = "edit"
  <2>1. local' \in [Names -> MirrorFile] /\ exposed' \in SUBSET Nat /\ Wrote(p, call[p].fd)
    BY <1>1, <1>2, <1>3, WritesOn
  <2> QED
    BY <1>1, <1>3, <2>1, NoCallTyped DEF MirrorTypeOK
<1>4. CASE call[p].op # "edit"
  BY <1>1, <1>4, NoCallTyped DEF MirrorTypeOK
<1> QED
  BY <1>3, <1>4

LEMMA OverwritesOn ==
    ASSUME MirrorTypeOK, NEW p \in Tracees, Overwrites(p)
    PROVE  /\ MirrorTypeOK' /\ call[p].at = "let" /\ call[p].op = "write"
           /\ call'[p] = NoCall /\ \A q \in Tracees \ {p} : call'[q] = call[q]
           /\ Wrote(p, call[p].n)
           /\ UNCHANGED <<remote, files, candidates, fresh, work, newest, reached, strayed>>
<1>1. /\ call[p].at = "let" /\ call[p].op = "write" /\ call' = [call EXCEPT ![p] = NoCall]
      /\ WritesTo(p, call[p].n)
      /\ UNCHANGED <<remote, files, candidates, fresh, work, newest, reached, strayed>>
  BY DEF Overwrites
<1>2. call[p].n \in SUBSET Names
  BY DEF MirrorTypeOK, SystemCall
<1>3. local' \in [Names -> MirrorFile] /\ exposed' \in SUBSET Nat /\ Wrote(p, call[p].n)
  BY <1>1, <1>2, WritesOn
<1> QED
  BY <1>1, <1>3, NoCallTyped DEF MirrorTypeOK

LEMMA MovesOn ==
    ASSUME MirrorTypeOK, CallsOK, NEW p \in Tracees, Moves(p)
    PROVE  /\ MirrorTypeOK' /\ call[p].at = "let" /\ call[p].op \in {"unlink", "rename"}
           /\ UNCHANGED <<remote, files, candidates, fresh, work, newest, reached, exposed>>
           /\ call'[p] = NoCall
           /\ \A q \in Tracees \ {p} :
                call'[q] = call[q] \/ \E d \in SUBSET Names : call'[q] = [call[q] EXCEPT !.fd = d]
           /\ strayed \subseteq strayed'
           /\ \E n \in Names :
                /\ call[p].n = {n} /\ n \notin call[p].m
                /\ \A x \in Names \ (call[p].m \cup {n}) : local'[x] = local[x]
                /\ \/ /\ local[n].v = Gone /\ local' = local
                      /\ {n} \cup call[p].m \subseteq strayed'
                   \/ /\ local[n].v # Gone /\ local'[n] = Nothing
                      /\ \A x \in call[p].m : local'[x] = local[n]
                      /\ call[p].crossed \/ work.stage # "off" \/ n \in strayed =>
                           {n} \cup call[p].m \subseteq strayed'
<1>1. call[p].at = "let" /\ call[p].op \in {"unlink", "rename"}
      /\ UNCHANGED <<remote, files, candidates, fresh, work, newest, reached, exposed>>
  BY DEF Moves
<1>2. PICK n \in call[p].n :
       LET m == call[p].m
           there == local[n].v # Gone
           goes(d) == IF n \in d THEN m ELSE d \ m
           astray == call[p].crossed \/ ~there \/ work.stage # "off" \/ n \in strayed
       IN /\ local' = [x \in Names |-> CASE there /\ x \in m -> local[n]
                                         [] there /\ x = n -> Nothing
                                         [] OTHER -> local[x]]
          /\ call' = [q \in Tracees |->
                        IF q = p THEN NoCall
                        ELSE IF there THEN [call[q] EXCEPT !.fd = goes(@)] ELSE call[q]]
          /\ strayed' = IF astray THEN strayed \cup {n} \cup m ELSE strayed
  BY Zenon DEF Moves
<1>3. n \in Names /\ call[p].n = {n} /\ n \notin call[p].m /\ call[p].m \subseteq Names
  BY <1>1, <1>2 DEF CallsOK, CallOK, OneName, MirrorTypeOK, SystemCall
<1> DEFINE m == call[p].m
           goes(d) == IF n \in d THEN m ELSE d \ m
<1>4. /\ call' \in [Tracees -> SystemCall] /\ call'[p] = NoCall
      /\ \A q \in Tracees \ {p} :
           call'[q] = call[q] \/ \E d \in SUBSET Names : call'[q] = [call[q] EXCEPT !.fd = d]
  <2>1. \A q \in Tracees : goes(call[q].fd) \in SUBSET Names
    BY <1>3 DEF MirrorTypeOK, SystemCall
  <2>2. call' = [q \in Tracees |->
                   IF q = p THEN NoCall
                   ELSE IF local[n].v # Gone THEN [call[q] EXCEPT !.fd = goes(call[q].fd)] ELSE call[q]]
    BY <1>2
  <2> HIDE DEF goes, m
  <2>3. \A q \in Tracees, d \in SUBSET Names : [call[q] EXCEPT !.fd = d] \in SystemCall
    BY DEF MirrorTypeOK, SystemCall
  <2> QED
    BY <2>1, <2>2, <2>3, NoCallTyped DEF MirrorTypeOK
<1>5. /\ strayed \subseteq strayed' /\ strayed' \in SUBSET Names
      /\ call[p].crossed \/ local[n].v = Gone \/ work.stage # "off" \/ n \in strayed =>
           {n} \cup m \subseteq strayed'
  BY <1>2, <1>3 DEF MirrorTypeOK
<1>6. /\ local' = [x \in Names |-> CASE local[n].v # Gone /\ x \in m -> local[n]
                                     [] local[n].v # Gone /\ x = n -> Nothing
                                     [] OTHER -> local[x]]
      /\ m \subseteq Names /\ n \notin m /\ Nothing \in MirrorFile
  BY <1>2, <1>3 DEF Nothing, MirrorFile, Gone
<1> HIDE DEF m
<1>7. /\ local' \in [Names -> MirrorFile]
      /\ \A x \in Names \ (m \cup {n}) : local'[x] = local[x]
      /\ local[n].v = Gone => local' = local
      /\ local[n].v # Gone => local'[n] = Nothing /\ \A x \in m : local'[x] = local[n]
  BY <1>3, <1>6 DEF MirrorTypeOK
<1>8. MirrorTypeOK'
  BY <1>1, <1>4, <1>5, <1>7 DEF MirrorTypeOK
<1> QED
  BY <1>1, <1>3, <1>4, <1>5, <1>7, <1>8 DEF m

LEMMA ChangesOn ==
    ASSUME MirrorTypeOK, NEW p \in Tracees, Changes(p)
    PROVE  /\ MirrorTypeOK' /\ call[p].at = "parked"
           /\ UNCHANGED <<local, files, candidates, fresh, work, call, exposed, strayed>>
           /\ \E n \in Names :
                /\ \A x \in Names \ {n} : remote'[x] = remote[x]
                /\ \/ /\ newest' = newest + 1 /\ remote'[n] = newest + 1
                      /\ reached' = reached \cup {newest + 1}
                   \/ /\ remote'[n] = Gone /\ UNCHANGED <<newest, reached>>
<1>1. /\ call[p].at = "parked"
      /\ UNCHANGED <<local, files, candidates, fresh, work, call, exposed, strayed>>
  BY DEF Changes
<1>2. PICK n \in Names :
       \/ /\ newest < Versions /\ newest' = newest + 1
          /\ remote' = [remote EXCEPT ![n] = newest + 1]
          /\ reached' = reached \cup {newest + 1}
       \/ /\ remote[n] # Gone
          /\ remote' = [remote EXCEPT ![n] = Gone]
          /\ UNCHANGED <<newest, reached>>
  BY Zenon DEF Changes
<1>3. /\ newest' \in Nat /\ reached' \in SUBSET Nat /\ remote' \in [Names -> Nat]
      /\ \A x \in Names \ {n} : remote'[x] = remote[x]
  <2>1. \A v \in Nat : LET t == [remote EXCEPT ![n] = v]
                       IN t \in [Names -> Nat] /\ \A x \in Names \ {n} : t[x] = remote[x]
    BY DEF MirrorTypeOK
  <2>2. newest + 1 \in Nat /\ Gone \in Nat /\ newest \in Nat /\ reached \in SUBSET Nat
    BY DEF MirrorTypeOK, Gone
  <2> QED
    BY <1>2, <2>1, <2>2
<1>4. \/ /\ newest' = newest + 1 /\ remote'[n] = newest + 1
         /\ reached' = reached \cup {newest + 1}
      \/ /\ remote'[n] = Gone /\ UNCHANGED <<newest, reached>>
  <2>1. \A v \in Nat : [remote EXCEPT ![n] = v][n] = v
    BY DEF MirrorTypeOK
  <2>2. newest + 1 \in Nat /\ Gone \in Nat
    BY DEF MirrorTypeOK, Gone
  <2> QED
    BY <1>2, <2>1, <2>2
<1> QED
  BY <1>1, <1>3, <1>4 DEF MirrorTypeOK

LEMMA ReturnsOn ==
    ASSUME MirrorTypeOK, NEW p \in Tracees, Returns(p)
    PROVE  /\ MirrorTypeOK' /\ call[p].at = "parked" /\ call'[p] = [call[p] EXCEPT !.at = "done"]
           /\ \A q \in Tracees \ {p} : call'[q] = call[q]
           /\ UNCHANGED <<remote, local, files, candidates, fresh, work, newest, reached, exposed, strayed>>
<1>1. [call[p] EXCEPT !.at = "done"] \in SystemCall
  BY DEF MirrorTypeOK, SystemCall
<1> QED
  BY <1>1 DEF Returns, MirrorTypeOK

-----------------------------------------------------------------------------
(* Whose calls are whose, and how far a handler may have got.              *)

LEMMA InitStructured == MirrorInit => Structured
<1> SUFFICES ASSUME MirrorInit PROVE Structured
  OBVIOUS
<1>1. Cardinality(Names) \in Nat
  BY NamesAssumption, FS_CardinalityType
<1>2. MirrorTypeOK
  <2>1. remote \in [Names -> Nat]
    BY <1>1, SeededAssumption DEF MirrorInit, Gone
  <2>2. local \in [Names -> MirrorFile] /\ files \in [Names -> Record]
    BY DEF MirrorInit, Gone, Nothing, Unknown, MirrorFile, Record
  <2>3. work \in Handler /\ call \in [Tracees -> SystemCall]
    BY OffTyped, NoCallTyped DEF MirrorInit
  <2>4. /\ candidates \in SUBSET Names /\ fresh \in BOOLEAN /\ newest \in Nat
        /\ reached = 1 .. newest /\ exposed \in SUBSET Nat /\ strayed \in SUBSET Names
    BY <1>1 DEF MirrorInit
  <2>5. \A k \in Nat : 1 .. k \in SUBSET Nat
    OBVIOUS
  <2> QED
    BY <2>1, <2>2, <2>3, <2>4, <2>5 DEF MirrorTypeOK
<1>3. CallsOK
  BY NoCallFields DEF MirrorInit, CallsOK, CallOK, OneName
<1>4. HandlerOK
  BY OffFields DEF MirrorInit, HandlerOK
<1>5. Had
  BY <1>1, SeededAssumption DEF MirrorInit, Had, Gone
<1> QED
  BY <1>2, <1>3, <1>4, <1>5 DEF Structured

\* What a process does, or is done to it.
Stopping(p) ==
  \E op \in Ops, n \in SUBSET Names, m \in SUBSET Names, v \in {0, 1} :
    /\ Stops(p, op, n, m, v)
    /\ op # "none" /\ (v = 1 <=> op \in {"edit", "write"})
    /\ op \in {"stat", "read", "edit", "write", "unlink", "rename"} => \E x \in Names : n = {x}
    /\ op = "unlink" => m = {}
    /\ op = "rename" => \E y \in Names \ n : m = {y}

LEMMA MirrorSteps ==
    ASSUME [MirrorNext]_mirror
    PROVE  \/ UNCHANGED mirror
           \/ Pushes \/ Pushed \/ Refuses \/ Lists \/ Applies \/ Fetches \/ Replaces \/ Replays
           \/ BeginsRemoteExec \/ FlushesFinal
           \/ \E p \in Tracees :
                \/ Stopping(p) \/ Opens(p) \/ Uses(p) \/ Overwrites(p) \/ Moves(p)
                \/ ReleasesStalled(p) \/ Changes(p) \/ Returns(p)
  BY RequestsOf DEF Stopping, MirrorNext, Supervisor, Process, Command

LEMMA StepHad == ASSUME Structured, [MirrorNext]_mirror PROVE Had'
<1> USE DEF Structured
<1>1. CASE UNCHANGED <<remote, reached>>
  BY <1>1 DEF Had
<1>2. CASE Pushes
  BY <1>2, PushesOn DEF Had
<1>3. CASE Replays
  <2>1. PICK p \in Tracees, n \in Names : Unsent(p, n) \/ Sent(p, n)
    BY <1>3, ReplaysOn
  <2>2. reached' = reached
    BY <1>3, ReplaysOn
  <2> QED
    BY <2>1, <2>2 DEF Had, Unsent, Sent
<1>4. ASSUME NEW p \in Tracees, Changes(p) PROVE Had'
  BY <1>4, ChangesOn DEF Had
<1>5. CASE Pushed \/ Refuses \/ Lists \/ Applies \/ Fetches
  BY <1>1, <1>5 DEF Pushed, Refuses, Lists, Applies, Fetches
<1>6. CASE Replaces \/ BeginsRemoteExec \/ FlushesFinal \/ UNCHANGED mirror
  BY <1>1, <1>6 DEF Replaces, BeginsRemoteExec, FlushesFinal, mirror
<1>7. ASSUME NEW p \in Tracees,
             Stopping(p) \/ Opens(p) \/ Uses(p) \/ Overwrites(p) \/ Moves(p)
               \/ ReleasesStalled(p) \/ Returns(p)
      PROVE Had'
  <2>1. ASSUME Stopping(p) PROVE UNCHANGED <<remote, reached>>
    <3>1. PICK op \in Ops, n \in SUBSET Names, m \in SUBSET Names, v \in {0, 1} :
            Stops(p, op, n, m, v)
      BY <2>1 DEF Stopping
    <3> QED
      BY <3>1 DEF Stops
  <2>2. ASSUME Opens(p) \/ Uses(p) \/ Overwrites(p) \/ Moves(p) \/ ReleasesStalled(p) \/ Returns(p)
        PROVE  UNCHANGED <<remote, reached>>
    BY Zenon, <2>2 DEF Opens, Uses, Overwrites, Moves, ReleasesStalled, Returns
  <2> QED
    BY <2>1, <2>2, <1>1, <1>7
<1> QED
  BY <1>2, <1>3, <1>4, <1>5, <1>6, <1>7, MirrorSteps

\* A call goes on with what it was made with.
SameCall(c, d) == d.op = c.op /\ d.n = c.n /\ d.m = c.m /\ d.v = c.v

LEMMA AfterOn ==
    ASSUME NEW c \in SystemCall, NEW op
    PROVE  \/ op = "stat" /\ After(c, op) = NoCall
           \/ /\ op # "stat" /\ SameCall(c, After(c, op)) /\ After(c, op).at = "let"
              /\ After(c, op).fd = c.fd /\ After(c, op).crossed = c.crossed
  BY DEF After, SameCall, SystemCall

\* The supervisor has changed the mirror or its books.
Touched(c, d) ==
  /\ SameCall(c, d) /\ d.at = c.at /\ d.fd \subseteq c.fd
  /\ d.crossed = (c.crossed \/ c.at \in {"let", "open"})

LEMMA CrossesOn ==
    ASSUME MirrorTypeOK, NEW q \in Tracees
    PROVE  Touched(call[q], Crosses[q]) /\ \A gone : Touched(call[q], Cuts(Crosses, gone)[q])
<1>1. call[q] \in SystemCall /\ Crosses \in [Tracees -> SystemCall]
  BY CrossesTyped DEF MirrorTypeOK
<1>2. Touched(call[q], Crosses[q])
  <2>1. CASE call[q].at \in {"let", "open"}
    <3>1. Crosses[q] = [call[q] EXCEPT !.crossed = TRUE]
      BY <2>1, CrossesTyped
    <3> QED
      BY <1>1, <2>1, <3>1 DEF Touched, SameCall, SystemCall
  <2>2. CASE call[q].at \notin {"let", "open"}
    <3>1. Crosses[q] = call[q]
      BY <2>2, CrossesTyped
    <3>2. call[q].crossed \in BOOLEAN
      BY <1>1 DEF SystemCall
    <3> QED
      BY <2>2, <3>1, <3>2 DEF Touched, SameCall
  <2> QED
    BY <2>1, <2>2
<1>3. ASSUME NEW gone PROVE Touched(call[q], Cuts(Crosses, gone)[q])
  <2>1. Cuts(Crosses, gone)[q] = [Crosses[q] EXCEPT !.fd = Crosses[q].fd \ gone]
    BY <1>1, CutsTyped
  <2>2. Crosses[q] \in SystemCall /\ Crosses[q].fd \ gone \in SUBSET Names
    BY <1>1 DEF SystemCall
  <2>3. LET d == Cuts(Crosses, gone)[q]
        IN SameCall(Crosses[q], d) /\ d.at = Crosses[q].at /\ d.fd = Crosses[q].fd \ gone
           /\ d.crossed = Crosses[q].crossed
    BY <2>1, <2>2 DEF SameCall, SystemCall
  <2> QED
    BY <1>2, <2>3 DEF Touched, SameCall
<1> QED
  BY <1>2, <1>3

LEMMA OneNameSame == ASSUME NEW c, NEW d, SameCall(c, d), OneName(c) PROVE OneName(d)
  BY DEF SameCall, OneName

LEMMA OneNameNone == OneName(NoCall)
  BY NoCallFields DEF OneName

\* A call nothing but the supervisor's crossing touched is as it should be still.
LEMMA CallKept ==
    ASSUME MirrorTypeOK, NEW q \in Tracees, CallOK(q), Touched(call[q], call'[q]),
           call[q].at = "stopped" => q \in work'.p
    PROVE  CallOK(q)'
  BY OneNameSame DEF CallOK, Touched, SameCall, MirrorTypeOK, SystemCall

LEMMA CallSame ==
    ASSUME MirrorTypeOK, NEW q \in Tracees, CallOK(q), call'[q] = call[q],
           call[q].at = "stopped" => q \in work'.p
    PROVE  CallOK(q)'
  BY DEF CallOK

LEMMA CallOver == ASSUME NEW q, call'[q] = NoCall PROVE CallOK(q)'
  BY OneNameNone, NoCallFields DEF CallOK

\* The call of the process the handler is in is let through, or made once and for all.
LEMMA CallLet ==
    ASSUME NEW q, NEW c \in SystemCall, OneName(c), NEW op, call'[q] = After(c, op)
    PROVE  CallOK(q)'
<1>1. CASE op = "stat"
  BY <1>1, CallOver DEF After
<1>2. CASE op # "stat"
  BY <1>2, AfterOn, OneNameSame DEF CallOK
<1> QED
  BY <1>1, <1>2

LEMMA StepCallsOK == ASSUME Structured, [MirrorNext]_mirror PROVE CallsOK'
<1> USE DEF Structured
<1>0. \A q \in Tracees : CallOK(q) /\ call[q] \in SystemCall
  BY DEF CallsOK, MirrorTypeOK
<1>1. CASE UNCHANGED mirror
  BY <1>1, <1>0, CallSame DEF CallsOK, CallOK, mirror
<1>2. CASE Pushes \/ Lists
  <2>1. call' = call /\ work'.p = work.p
    BY <1>2, PushesOn, ListsOn
  <2> QED
    BY <1>0, <2>1 DEF CallsOK, CallOK
<1>3. CASE Pushed
  <2>1. \A q \in Tracees : Touched(call[q], call'[q]) /\ work'.p = work.p
    BY <1>3, PushedOn, CrossesOn
  <2> QED
    BY <1>0, <2>1, CallKept DEF CallsOK, CallOK
<1>4. CASE Refuses \/ BeginsRemoteExec \/ Fetches
  <2>1. \/ /\ call' = call /\ work'.p = work.p
        \/ \A q \in Tracees : \/ call'[q] = call[q] /\ q \notin work.p
                              \/ call'[q] = NoCall
                              \/ call'[q] = [call[q] EXCEPT !.at = "parked"]
    BY <1>4, RefusesOn, BeginsOn, FetchesOn
  <2>2. ASSUME NEW q \in Tracees, call'[q] = [call[q] EXCEPT !.at = "parked"] PROVE CallOK(q)'
    <3>1. SameCall(call[q], call'[q]) /\ call'[q].at = "parked"
      BY <1>0, <2>2 DEF SameCall, SystemCall
    <3> QED
      BY <1>0, <3>1, OneNameSame DEF CallOK
  <2> QED
    BY <1>0, <2>1, <2>2, CallOver DEF CallsOK, CallOK
<1>5. CASE Applies
  <2>1. PICK p \in Tracees, w \in Handler, calls \in [Tracees -> SystemCall] :
                /\ Busy(p) /\ calls = Cuts(Crosses, Vanished)
                /\ w.p = {p} /\ w.op = work.op /\ w.n = work.n /\ w.list = NoList
                /\ w.stage = "apply" /\ w.why = work.why
                /\ \A q \in Tracees \ {p} : call'[q] = calls[q]
                /\ \/ ToFlush(w, candidates \ Vanished) /\ call'[p] = calls[p]
                   \/ ToFetch(w, files', candidates \ Vanished) /\ call'[p] = calls[p]
                   \/ ToLet(w, files', candidates \ Vanished) /\ call'[p] = After(calls[p], w.op)
    BY <1>5, AppliesOn
  <2>2. \A q \in Tracees : Touched(call[q], calls[q])
    BY <2>1, CrossesOn
  <2>3. work.p = {p} /\ \A q \in Tracees \ {p} : call[q].at # "stopped"
    BY <2>1, <1>0 DEF Busy, Its, CallOK
  <2>4. ASSUME NEW q \in Tracees \ {p} PROVE CallOK(q)'
    BY <2>1, <2>2, <2>3, <2>4, <1>0, CallKept
  <2>5. ASSUME call'[p] = calls[p], work'.p = {p} PROVE CallOK(p)'
    BY <2>2, <2>5, <1>0, CallKept
  <2>6. ASSUME call'[p] = After(calls[p], w.op) PROVE CallOK(p)'
    <3>1. OneName(calls[p])
      BY <2>2, <1>0, OneNameSame DEF CallOK, Touched
    <3> QED
      BY <2>6, <3>1, CallLet
  <2>7. \/ call'[p] = calls[p] /\ work'.p = {p}
        \/ call'[p] = After(calls[p], w.op)
    BY <2>1 DEF ToFlush, ToFetch, Handler
  <2> QED
    BY <2>4, <2>5, <2>6, <2>7 DEF CallsOK
<1>6. CASE Replaces
  <2>1. PICK p \in Tracees, calls \in [Tracees -> SystemCall] :
                /\ Busy(p) /\ calls = Cuts(Crosses, work.n)
                /\ \A q \in Tracees \ {p} : call'[q] = calls[q]
                /\ call'[p] = After(calls[p], work.op)
    BY <1>6, ReplacesOn
  <2>2. \A q \in Tracees : Touched(call[q], calls[q])
    BY <2>1, CrossesOn
  <2>3. work.p = {p} /\ \A q \in Tracees \ {p} : call[q].at # "stopped"
    BY <2>1, <1>0 DEF Busy, Its, CallOK
  <2>4. ASSUME NEW q \in Tracees \ {p} PROVE CallOK(q)'
    BY <2>1, <2>2, <2>3, <2>4, <1>0, CallKept
  <2>5. OneName(calls[p])
    BY <2>2, <1>0, OneNameSame DEF CallOK, Touched
  <2>6. CallOK(p)'
    BY <2>1, <2>5, CallLet
  <2> QED
    BY <2>4, <2>6 DEF CallsOK
<1>7. CASE Replays
  <2>1. PICK p \in Tracees, n \in Names : Busy(p) /\ (Unsent(p, n) \/ Sent(p, n))
    BY <1>7, ReplaysOn
  <2>2. \A q \in Tracees : Touched(call[q], Crosses[q])
    BY CrossesOn
  <2>3. work.p = {p} /\ \A q \in Tracees \ {p} : call[q].at # "stopped"
    BY <2>1, <1>0 DEF Busy, Its, CallOK
  <2>4. ASSUME NEW q \in Tracees \ {p} PROVE CallOK(q)'
    BY <2>1, <2>2, <2>3, <2>4, <1>0, CallKept, CallSame DEF Unsent, Sent
  <2>5. CallOK(p)'
    <3>1. CASE Unsent(p, n)
      BY <3>1, CallOver DEF Unsent
    <3>2. CASE Sent(p, n)
      <4>1. SameCall(call[p], call'[p]) /\ call'[p].at = "let"
        BY <1>0, <3>2 DEF Sent, SameCall, SystemCall
      <4> QED
        BY <1>0, <4>1, OneNameSame DEF CallOK
    <3> QED
      BY <2>1, <3>1, <3>2
  <2> QED
    BY <2>4, <2>5 DEF CallsOK
<1>8. CASE FlushesFinal
  BY <1>0, <1>8, FlushesFinalOn DEF CallsOK, CallOK
<1>9. ASSUME NEW p \in Tracees, Stopping(p) PROVE CallsOK'
  <2>1. PICK op \in Ops, n \in SUBSET Names, m \in SUBSET Names, v \in {0, 1} :
          /\ Stops(p, op, n, m, v)
          /\ op \in {"stat", "read", "edit", "write", "unlink", "rename"} => \E x \in Names : n = {x}
          /\ op = "unlink" => m = {}
          /\ op = "rename" => \E y \in Names \ n : m = {y}
    BY <1>9 DEF Stopping
  <2>2. PICK c \in SystemCall :
          /\ c.at = "stopped" /\ c.op = op /\ c.n = n /\ c.m = m
          /\ (call'[p] = c /\ work'.p = {p}) \/ call'[p] = After(c, op)
    <3>1. PICK c \in SystemCall, w \in Handler : Halts(p, op, n, m, v, c, w)
      BY Zenon, <2>1, StopsOn
    <3> QED
      BY <3>1 DEF Halts, ToFlush, ToFetch, Handler
  <2>3. work.stage = "off" /\ \A q \in Tracees \ {p} : call'[q] = call[q]
    <3>1. work.stage = "off"
      BY <2>1 DEF Stops
    <3>2. \A q \in Tracees \ {p} : call'[q] = call[q]
      BY <2>1, StopsFrame
    <3> QED
      BY <3>1, <3>2
  <2>4. OneName(c)
    BY <2>1, <2>2 DEF OneName
  <2>5. \A q \in Tracees : call[q].at # "stopped"
    <3>1. work.p = {}
      BY <2>3 DEF HandlerOK, Busy
    <3> QED
      BY <3>1, <1>0 DEF CallOK
  <2>6. ASSUME NEW q \in Tracees \ {p} PROVE CallOK(q)'
    BY <2>3, <2>5, <2>6, <1>0, CallSame
  <2>7. CallOK(p)'
    BY <2>2, <2>4, CallLet DEF CallOK
  <2> QED
    BY <2>6, <2>7 DEF CallsOK
<1>10. ASSUME NEW p \in Tracees,
              Opens(p) \/ Uses(p) \/ Overwrites(p) \/ ReleasesStalled(p) \/ Returns(p)
       PROVE CallsOK'
  <2>1. work' = work /\ \A q \in Tracees \ {p} : call'[q] = call[q]
    BY <1>10, OpensOn, UsesOn, OverwritesOn, ReleasesOn, ReturnsOn
  <2>2. \/ call'[p] = NoCall
        \/ call[p].op \in {"read", "edit"} /\ call'[p] = [call[p] EXCEPT !.at = "open", !.fd = There(p)]
        \/ call'[p] = [call[p] EXCEPT !.at = "done"]
    BY <1>10, OpensOn, UsesOn, OverwritesOn, ReleasesOn, ReturnsOn
  <2>3. There(p) \subseteq call[p].n /\ There(p) \in SUBSET Names
    BY DEF There, MirrorTypeOK, SystemCall
  <2>4. ASSUME NEW q \in Tracees \ {p} PROVE CallOK(q)'
    BY <2>1, <2>4, <1>0, CallSame DEF CallOK
  <2>5. ASSUME call'[p] = NoCall PROVE CallOK(p)'
    BY <2>5, CallOver
  <2>6. ASSUME call[p].op \in {"read", "edit"},
               call'[p] = [call[p] EXCEPT !.at = "open", !.fd = There(p)]
        PROVE  CallOK(p)'
    <3>1. /\ SameCall(call[p], call'[p]) /\ call'[p].at = "open" /\ call'[p].op \in {"read", "edit"}
      BY <1>0, <2>3, <2>6 DEF SameCall, SystemCall
    <3> QED
      BY <1>0, <3>1, OneNameSame DEF CallOK
  <2>7. ASSUME call'[p] = [call[p] EXCEPT !.at = "done"] PROVE CallOK(p)'
    <3>1. SameCall(call[p], call'[p]) /\ call'[p].at = "done"
      BY <1>0, <2>7 DEF SameCall, SystemCall
    <3> QED
      BY <1>0, <3>1, OneNameSame DEF CallOK
  <2> QED
    BY <2>2, <2>4, <2>5, <2>6, <2>7 DEF CallsOK
<1>11. ASSUME NEW p \in Tracees, Changes(p) PROVE CallsOK'
  BY <1>0, <1>11, ChangesOn DEF CallsOK, CallOK
<1>12. ASSUME NEW p \in Tracees, Moves(p) PROVE CallsOK'
  <2>1. /\ call[p].at = "let" /\ call[p].op \in {"unlink", "rename"} /\ work' = work
        /\ call'[p] = NoCall
        /\ \A q \in Tracees \ {p} :
             call'[q] = call[q] \/ \E d \in SUBSET Names : call'[q] = [call[q] EXCEPT !.fd = d]
    BY <1>12, MovesOn
  <2>2. ASSUME NEW q \in Tracees \ {p} PROVE CallOK(q)'
    <3>1. CASE call'[q] = call[q]
      BY <2>1, <3>1, <1>0, CallSame DEF CallOK
    <3>2. CASE \E d \in SUBSET Names : call'[q] = [call[q] EXCEPT !.fd = d]
      <4>1. PICK d \in SUBSET Names : call'[q] = [call[q] EXCEPT !.fd = d]
        BY <3>2
      <4>2. SameCall(call[q], call'[q]) /\ call'[q].at = call[q].at
        BY <1>0, <4>1 DEF SameCall, SystemCall
      <4> QED
        BY <2>1, <1>0, <4>2, OneNameSame DEF CallOK, SameCall
    <3> QED
      BY <2>1, <3>1, <3>2
  <2> QED
    BY <2>1, <2>2, CallOver DEF CallsOK
<1> QED
  BY <1>1, <1>2, <1>3, <1>4, <1>5, <1>6, <1>7, <1>8, <1>9, <1>10, <1>11, <1>12, MirrorSteps

\* Where the handler is nobody's, or its process is where it was, what is known of it stays.
LEMMA ItsKept ==
    ASSUME MirrorTypeOK, HandlerOK, UNCHANGED <<work, files>>, reached \subseteq reached',
           \A q \in Tracees : call[q].at = "stopped" => call'[q] = call[q]
    PROVE  HandlerOK'
<1>1. \A p \in Tracees : Its(p) => Its(p)'
  BY DEF Its
<1>2. \A p \in Tracees : Busy(p) => Busy(p)'
  BY <1>1 DEF Busy
<1>3. \A n : Lacks(files, n)' <=> Lacks(files, n)
  OBVIOUS
<1> QED
  BY <1>2, <1>3 DEF HandlerOK

\* The handler begun, or gone on with, for a process stopped at a call.
LEMMA BegunOK ==
    ASSUME NEW p \in Tracees, NEW w \in Handler, NEW c, NEW books, NEW dirty,
           w.p = {p}, w.list = NoList, w.why # "final", c.at = "stopped", c.op = w.op, c.n = w.n,
           books = files', OneName(c),
           \/ ToFlush(w, dirty) /\ call'[p] = c
           \/ ToFetch(w, books, dirty) /\ call'[p] = c
           \/ ToLet(w, books, dirty)
    PROVE  HandlerOK'
<1>1. CASE ToFlush(w, dirty) /\ call'[p] = c
  <2>1. /\ work'.stage = "flush" /\ work'.why = "replay" /\ work'.p = {p} /\ work'.list = NoList
        /\ work'.op = w.op /\ work'.n = w.n /\ w.op \in {"unlink", "rename"}
    BY <1>1 DEF ToFlush, Handler
  <2>2. Busy(p)'
    BY <1>1, <2>1 DEF Busy, Its
  <2> QED
    BY <2>1, <2>2 DEF HandlerOK
<1>2. CASE ToFetch(w, books, dirty) /\ call'[p] = c
  <2>1. /\ work'.stage = "fetch" /\ work'.why = w.why /\ work'.p = {p} /\ work'.list = NoList
        /\ work'.op = w.op /\ work'.n = w.n /\ w.op \in {"read", "edit"}
        /\ \E n \in w.n : Lacks(files', n)
    BY <1>2 DEF ToFetch, Handler
  <2>2. Busy(p)'
    BY <1>2, <2>1 DEF Busy, Its
  <2>3. \A n \in w.n : Lacks(files, n)'
    BY <2>1 DEF OneName, Lacks
  <2> QED
    BY <2>1, <2>2, <2>3 DEF HandlerOK
<1>3. CASE ToLet(w, books, dirty)
  <2>1. work' = Off
    BY <1>3 DEF ToLet
  <2> QED
    BY <2>1, OffFields DEF HandlerOK
<1> QED
  BY <1>1, <1>2, <1>3

LEMMA StepHandlerOK == ASSUME Structured, [MirrorNext]_mirror PROVE HandlerOK'
<1> USE DEF Structured
<1>0. \A q \in Tracees : CallOK(q) /\ call[q] \in SystemCall
  BY DEF CallsOK, MirrorTypeOK
<1>1. CASE UNCHANGED mirror
  BY <1>1, ItsKept DEF mirror
<1>2. CASE Pushes
  <2>1. /\ work.stage = "flush" /\ work'.stage = "pushed" /\ call' = call
        /\ work'.p = work.p /\ work'.op = work.op /\ work'.n = work.n /\ work'.why = work.why
    BY <1>2, PushesOn
  <2>2. \A p \in Tracees : Busy(p) => Busy(p)'
    BY <2>1 DEF Busy, Its
  <2>3. \E n \in Names \ work'.left : DOMAIN work'.list = {n} /\ work'.list[n] \in reached'
    BY <1>2, PushesOn
  <2> QED
    BY <2>1, <2>2, <2>3 DEF HandlerOK
<1>3. CASE Pushed
  <2>1. /\ work.stage = "pushed" /\ work'.stage = "flush" /\ work'.list = NoList
        /\ work'.p = work.p /\ work'.op = work.op /\ work'.n = work.n /\ work'.why = work.why
        /\ call' = Crosses
    BY <1>3, PushedOn
  <2>2. ASSUME NEW p \in Tracees, Busy(p) PROVE Busy(p)'
    <3>1. call'[p] = call[p]
      BY <2>1, <2>2, CrossesTyped DEF Busy, Its
    <3> QED
      BY <2>1, <2>2, <3>1 DEF Busy, Its
  <2> QED
    BY <2>1, <2>2 DEF HandlerOK
<1>4. CASE Refuses \/ BeginsRemoteExec \/ Replaces \/ Replays
  <2>1. work' = Off
    BY <1>4, RefusesOn, BeginsOn, ReplacesOn, ReplaysOn
  <2> QED
    BY <2>1, OffFields DEF HandlerOK
<1>5. CASE Lists
  <2>1. /\ work.stage = "flush" /\ work.why = "list"
        /\ work'.stage = "apply" /\ work'.list = remote /\ call' = call /\ reached' = reached
        /\ work'.p = work.p /\ work'.op = work.op /\ work'.n = work.n /\ work'.why = "list"
    BY <1>5, ListsOn DEF Flushed
  <2>2. \A p \in Tracees : Busy(p) => Busy(p)'
    BY <2>1 DEF Busy, Its
  <2>3. DOMAIN remote = Names
    BY DEF MirrorTypeOK
  <2> QED
    BY <2>1, <2>2, <2>3 DEF HandlerOK, Had
<1>6. CASE Applies
  <2>1. PICK p \in Tracees, w \in Handler, calls \in [Tracees -> SystemCall] :
                /\ Busy(p) /\ calls = Cuts(Crosses, Vanished)
                /\ w.p = {p} /\ w.op = work.op /\ w.n = work.n /\ w.list = NoList
                /\ w.stage = "apply" /\ w.why = work.why
                /\ \A q \in Tracees \ {p} : call'[q] = calls[q]
                /\ \/ ToFlush(w, candidates \ Vanished) /\ call'[p] = calls[p]
                   \/ ToFetch(w, files', candidates \ Vanished) /\ call'[p] = calls[p]
                   \/ ToLet(w, files', candidates \ Vanished) /\ call'[p] = After(calls[p], w.op)
    BY <1>6, AppliesOn
  <2>2. Touched(call[p], calls[p])
    BY <2>1, CrossesOn
  <2>3. /\ calls[p].at = "stopped" /\ calls[p].op = w.op /\ calls[p].n = w.n /\ OneName(calls[p])
        /\ w.why # "final"
    BY <2>1, <2>2, <1>0, OneNameSame DEF Touched, SameCall, Busy, Its, CallOK
  <2> QED
    BY Zenon, <2>1, <2>3, BegunOK
<1>7. CASE Fetches
  <2>1. CASE work' = Off
    BY <2>1, OffFields DEF HandlerOK
  <2>2. CASE work' # Off
    <3>1. /\ work.stage = "fetch" /\ UNCHANGED <<remote, files, reached>>
          /\ call' = call /\ work'.stage = "replace" /\ work'.p = work.p
          /\ work'.op = work.op /\ work'.n = work.n /\ work'.why = work.why
          /\ \E n \in work.n : DOMAIN work'.list = {n} /\ work'.list[n] = remote[n]
                               /\ remote[n] # Gone
      BY <1>7, <2>2, FetchesOn
    <3>2. PICK p \in Tracees : Busy(p)
      BY <3>1 DEF HandlerOK
    <3>3. Busy(p)'
      BY <3>1, <3>2 DEF Busy, Its
    <3>4. \E x \in Names : work.n = {x}
      BY <3>1, <3>2, <1>0 DEF Busy, Its, CallOK, OneName, HandlerOK
    <3>5. \A n \in work'.n : Lacks(files, n)'
      BY <3>1 DEF HandlerOK
    <3> QED
      BY <3>1, <3>3, <3>4, <3>5 DEF HandlerOK, Had
  <2> QED
    BY <2>1, <2>2
<1>8. CASE FlushesFinal
  BY <1>8, FlushesFinalOn DEF HandlerOK
<1>9. ASSUME NEW p \in Tracees, Stopping(p) PROVE HandlerOK'
  <2>1. PICK op \in Ops, n \in SUBSET Names, m \in SUBSET Names, v \in {0, 1} :
          /\ Stops(p, op, n, m, v)
          /\ op \in {"stat", "read", "edit", "write", "unlink", "rename"} => \E x \in Names : n = {x}
          /\ op = "unlink" => m = {}
          /\ op = "rename" => \E y \in Names \ n : m = {y}
    BY <1>9 DEF Stopping
  <2>2. PICK c \in SystemCall, w \in Handler : Halts(p, op, n, m, v, c, w)
    BY Zenon, <2>1, StopsOn
  <2>3. files' = files
    BY <2>1, StopsFrame
  <2>4. OneName(c)
    BY <2>1, <2>2 DEF Halts, OneName
  <2>5. CASE /\ work'.stage = "flush" /\ work'.why \in {"list", "start"}
             /\ work'.p = {p} /\ work'.op = op /\ work'.n = n
             /\ work'.left = candidates /\ work'.list = NoList
             /\ candidates' = candidates /\ call'[p] = c
    <3>1. Busy(p)'
      BY <2>2, <2>5 DEF Busy, Its, Halts
    <3> QED
      BY <2>5, <3>1 DEF HandlerOK
  <2>6. CASE \/ ToFlush(w, candidates) /\ call'[p] = c
             \/ ToFetch(w, files, candidates) /\ call'[p] = c
             \/ ToLet(w, files, candidates) /\ call'[p] = After(c, op)
    <3>1. /\ w.p = {p} /\ w.list = NoList /\ w.why # "final" /\ c.at = "stopped" /\ c.op = w.op
          /\ c.n = w.n
      BY <2>2 DEF Halts
    <3> QED
      BY Zenon, <2>3, <2>4, <2>6, <3>1, BegunOK
  <2> QED
    BY <2>2, <2>5, <2>6 DEF Halts
<1>10. ASSUME NEW p \in Tracees,
              \/ Opens(p) \/ Uses(p) \/ Overwrites(p) \/ Moves(p) \/ ReleasesStalled(p)
              \/ Changes(p) \/ Returns(p)
       PROVE HandlerOK'
  <2>1. UNCHANGED <<work, files>> /\ reached \subseteq reached'
    BY <1>10, OpensOn, UsesOn, OverwritesOn, ReleasesOn, ReturnsOn, MovesOn, ChangesOn
  <2>2. CASE Moves(p)
    <3>1. ASSUME NEW q \in Tracees, call[q].at = "stopped" PROVE Its(q)' \/ ~Its(q)
      <4>1. \/ call'[q] = call[q]
            \/ \E d \in SUBSET Names : call'[q] = [call[q] EXCEPT !.fd = d]
        BY <2>2, <3>1, MovesOn
      <4>2. call'[q].at = call[q].at /\ call'[q].op = call[q].op /\ call'[q].n = call[q].n
        BY <1>0, <4>1 DEF SystemCall
      <4> QED
        BY <2>1, <4>2 DEF Its
    <3>2. \A q \in Tracees : Busy(q) => Busy(q)'
      BY <2>1, <3>1 DEF Busy, Its
    <3>3. \A n : Lacks(files, n)' <=> Lacks(files, n)
      BY <2>1 DEF Lacks
    <3> QED
      BY <2>1, <3>2, <3>3 DEF HandlerOK
  <2>3. CASE Opens(p) \/ Uses(p) \/ Overwrites(p) \/ ReleasesStalled(p) \/ Changes(p) \/ Returns(p)
    <3>1. \A q \in Tracees : call[q].at = "stopped" => call'[q] = call[q]
      BY <2>3, OpensOn, UsesOn, OverwritesOn, ReleasesOn, ReturnsOn, ChangesOn
    <3> QED
      BY <2>1, <3>1, ItsKept
  <2> QED
    BY <1>10, <2>2, <2>3
<1> QED
  BY <1>1, <1>2, <1>3, <1>4, <1>5, <1>6, <1>7, <1>8, <1>9, <1>10, MirrorSteps

LEMMA StepStructured == ASSUME Structured, [MirrorNext]_mirror PROVE Structured'
<1>1. MirrorTypeOK'
  <2> USE DEF Structured
  <2>1. ASSUME NEW p \in Tracees, Stopping(p) PROVE MirrorTypeOK'
    BY <2>1, StopsFrame DEF Stopping
  <2>2. CASE UNCHANGED mirror
    BY <2>2 DEF mirror, MirrorTypeOK
  <2> QED
    BY <2>1, <2>2, MirrorSteps, PushesOn, PushedOn, RefusesOn, ListsOn, AppliesOn, FetchesOn,
       ReplacesOn, ReplaysOn, BeginsOn, FlushesFinalOn, OpensOn, UsesOn, OverwritesOn, MovesOn,
       ReleasesOn, ChangesOn, ReturnsOn
<1> QED
  BY <1>1, StepHad, StepCallsOK, StepHandlerOK DEF Structured

-----------------------------------------------------------------------------
(* Which versions there are, and who is still to write which.              *)

Writer(p) == call[p].at \in {"stopped", "let", "open"} /\ call[p].op \in {"edit", "write"}
Mover(p) == call[p].at = "let" /\ call[p].op \in {"unlink", "rename"}
AtHand(p) == call[p].at \in {"stopped", "let", "open"}

Taken ==
  {local[n].v : n \in Names} \cup {files[n].own : n \in Names} \cup reached \cup exposed \cup {Gone}

\* A version that is to be written is nowhere yet, and is nobody else's.
Pending ==
  /\ Taken \subseteq 0 .. newest
  /\ \A p \in Tracees : Writer(p) =>
       /\ call[p].v \in 0 .. newest /\ call[p].v \notin Taken
       /\ \A q \in Tracees \ {p} : Writer(q) => call[q].v # call[p].v

\* What a step brings about, where it is new: what somebody was to write and no longer is,
\* or what a command wrote on the target.
Written(v) == \E p \in Tracees : Writer(p) /\ v = call[p].v /\ ~Writer(p)'
Commanded(v) == v = newest + 1 /\ newest' = newest + 1 /\ call' = call
Accounted(v) == v \in Taken \/ Written(v) \/ Commanded(v)

LEMMA KeptTaken ==
    ASSUME \A n \in Names : Accounted(local'[n].v) /\ Accounted(files'[n].own),
           \A v \in reached' : Accounted(v), \A v \in exposed' : Accounted(v)
    PROVE  \A v \in Taken' : Accounted(v)
  BY DEF Taken, Accounted, Gone

LEMMA TakenOf ==
    /\ \A n \in Names : local[n].v \in Taken /\ files[n].own \in Taken
    /\ \A v \in reached : v \in Taken
    /\ \A v \in exposed : v \in Taken
    /\ 0 \in Taken
  BY DEF Taken, Gone

LEMMA UntouchedTaken ==
    ASSUME UNCHANGED <<local, files, reached, exposed>>
    PROVE  Taken' = Taken
  BY DEF Taken

LEMMA NothingFields == Nothing.v = 0 /\ Nothing.hole = FALSE /\ Unknown.seen = 0 /\ Unknown.own = 0
                       /\ Unknown.present = FALSE
  BY DEF Nothing, Unknown, Gone

LEMMA NotWriting == ASSUME NEW p, call'[p] = NoCall PROVE ~Writer(p)'
  BY NoCallFields DEF Writer

LEMMA WroteTaken ==
    ASSUME MirrorTypeOK, NEW p \in Tracees, Writer(p), call'[p] = NoCall, NEW names \in SUBSET Names,
           Wrote(p, names), UNCHANGED <<files, reached>>
    PROVE  \A v \in Taken' : Accounted(v)
<1>1. Written(call[p].v)
  BY NotWriting DEF Written
<1>2. \A n \in Names : Accounted(local'[n].v) /\ Accounted(files'[n].own)
  BY <1>1, TakenOf DEF Wrote, Accounted
<1>3. \A v \in exposed' : Accounted(v)
  BY <1>1, TakenOf DEF Wrote, Accounted
<1>4. \A v \in reached' : Accounted(v)
  BY TakenOf DEF Accounted
<1> QED
  BY <1>2, <1>3, <1>4, KeptTaken

LEMMA StepTaken ==
    ASSUME Structured, [MirrorNext]_mirror
    PROVE  \A v \in Taken' : Accounted(v)
<1> USE DEF Structured
<1>1. CASE UNCHANGED <<local, files, reached, exposed>>
  BY <1>1, UntouchedTaken DEF Accounted
<1>2. CASE Pushes
  <2>1. UNCHANGED <<local, files, exposed>> /\ \E n \in Names : reached' = reached \cup {local[n].v}
    BY <1>2, PushesOn
  <2> QED
    BY <2>1, TakenOf, KeptTaken DEF Accounted
<1>3. CASE Pushed
  <2>1. /\ UNCHANGED <<local, reached, exposed>>
        /\ \E n \in Names :
             files'[n].own = local[n].v /\ \A x \in Names \ {n} : files'[x] = files[x]
    BY <1>3, PushedOn
  <2>2. \A n \in Names : files'[n].own \in Taken /\ local'[n].v \in Taken
    BY <2>1, TakenOf
  <2> QED
    BY <2>1, <2>2, TakenOf, KeptTaken DEF Accounted
<1>4. CASE Applies
  <2>1. /\ UNCHANGED <<reached, exposed>>
        /\ \A n \in Vanished : local'[n] = Nothing /\ files'[n] = Unknown
        /\ \A n \in Arrived : local'[n].v = work.list[n] /\ files'[n].own = work.list[n]
        /\ \A n \in Names \ (Vanished \cup Arrived) : local'[n] = local[n] /\ files'[n] = files[n]
        /\ work.stage = "apply"
    BY <1>4, AppliesOn
  <2>2. \A n \in Names : work.list[n] \in reached \cup {0}
    BY <2>1 DEF HandlerOK, Gone
  <2>3. Arrived \subseteq Names
    BY DEF Arrived
  <2>4. \A n \in Names : files'[n].own \in Taken /\ local'[n].v \in Taken
    BY <2>1, <2>2, <2>3, TakenOf, NothingFields
  <2> QED
    BY <2>1, <2>4, TakenOf, KeptTaken DEF Accounted
<1>5. CASE Replaces
  <2>1. /\ UNCHANGED <<reached, exposed>> /\ work.stage = "replace"
        /\ \A n \in work.n : local'[n].v = work.list[n] /\ files'[n].own = work.list[n]
        /\ \A n \in Names \ work.n : local'[n] = local[n] /\ files'[n] = files[n]
    BY <1>5, ReplacesOn
  <2>2. \A n \in Names : files'[n].own \in Taken /\ local'[n].v \in Taken
    BY <2>1, TakenOf DEF HandlerOK
  <2> QED
    BY <2>1, <2>2, TakenOf, KeptTaken DEF Accounted
<1>6. CASE Replays
  <2>1. PICK p \in Tracees, n \in Names :
           Busy(p) /\ call[p].n = {n} /\ (Unsent(p, n) \/ Sent(p, n))
    BY <1>6, ReplaysOn
  <2>2. UNCHANGED <<local, reached, exposed>>
    BY <1>6, ReplaysOn
  <2>3. \A x \in Names : files'[x].own \in Taken
    <3>1. CASE Unsent(p, n)
      BY <3>1, TakenOf DEF Unsent
    <3>2. CASE Sent(p, n)
      BY <3>2, TakenOf, NothingFields DEF Sent
    <3> QED
      BY <2>1, <3>1, <3>2
  <2> QED
    BY <2>2, <2>3, TakenOf, KeptTaken DEF Accounted
<1>7. CASE Refuses \/ BeginsRemoteExec \/ Fetches \/ Lists \/ FlushesFinal \/ UNCHANGED mirror
  BY <1>1, <1>7, RefusesOn, BeginsOn, FetchesOn, ListsOn, FlushesFinalOn DEF mirror
<1>8. ASSUME NEW p \in Tracees, Stopping(p) \/ Opens(p) \/ ReleasesStalled(p) \/ Returns(p)
      PROVE  \A v \in Taken' : Accounted(v)
  <2>1. ASSUME Stopping(p) PROVE UNCHANGED <<local, files, reached, exposed>>
    BY <2>1, StopsFrame DEF Stopping
  <2> QED
    BY <1>1, <1>8, <2>1, OpensOn, ReleasesOn, ReturnsOn
<1>9. ASSUME NEW p \in Tracees, Uses(p) PROVE \A v \in Taken' : Accounted(v)
  <2>1. /\ call[p].at = "open" /\ call'[p] = NoCall /\ UNCHANGED <<files, reached>>
        /\ \/ call[p].op # "edit" /\ UNCHANGED <<local, exposed>>
           \/ call[p].op = "edit" /\ Wrote(p, call[p].fd)
    BY <1>9, UsesOn
  <2>2. call[p].fd \in SUBSET Names
    BY DEF MirrorTypeOK, SystemCall
  <2> QED
    BY <1>1, <2>1, <2>2, WroteTaken DEF Writer
<1>10. ASSUME NEW p \in Tracees, Overwrites(p) PROVE \A v \in Taken' : Accounted(v)
  <2>1. /\ call[p].at = "let" /\ call[p].op = "write" /\ call'[p] = NoCall
        /\ UNCHANGED <<files, reached>> /\ Wrote(p, call[p].n)
    BY <1>10, OverwritesOn
  <2>2. call[p].n \in SUBSET Names
    BY DEF MirrorTypeOK, SystemCall
  <2> QED
    BY <2>1, <2>2, WroteTaken DEF Writer
<1>11. ASSUME NEW p \in Tracees, Moves(p) PROVE \A v \in Taken' : Accounted(v)
  <2>1. UNCHANGED <<files, reached, exposed>>
    BY <1>11, MovesOn
  <2>2. \A x \in Names : local'[x].v \in Taken
    <3>1. PICK n \in Names :
                /\ \A x \in Names \ (call[p].m \cup {n}) : local'[x] = local[x]
                /\ \/ local' = local
                   \/ local'[n] = Nothing /\ \A x \in call[p].m : local'[x] = local[n]
      BY <1>11, MovesOn
    <3> QED
      BY <3>1, TakenOf, NothingFields
  <2> QED
    BY <2>1, <2>2, TakenOf, KeptTaken DEF Accounted
<1>12. ASSUME NEW p \in Tracees, Changes(p) PROVE \A v \in Taken' : Accounted(v)
  <2>1. /\ UNCHANGED <<local, files, call, exposed>>
        /\ \/ newest' = newest + 1 /\ reached' = reached \cup {newest + 1}
           \/ UNCHANGED <<newest, reached>>
    BY <1>12, ChangesOn
  <2>2. CASE newest' = newest + 1 /\ reached' = reached \cup {newest + 1}
    BY <2>1, <2>2, TakenOf, KeptTaken DEF Accounted, Commanded
  <2> QED
    BY <1>1, <2>1, <2>2
<1> QED
  BY <1>2, <1>3, <1>4, <1>5, <1>6, <1>7, <1>8, <1>9, <1>10, <1>11, <1>12, MirrorSteps

\* What becomes of each call in a step.  It is begun:
LetNoted(q) ==
  /\ call'[q].op \in {"edit", "write"} => call'[q].n \subseteq candidates'
  /\ call'[q].op \in {"read", "edit"} => \A n \in call'[q].n : ~Lacks(files', n)

New(q) ==
  /\ work.stage = "off" /\ call[q].at = "idle" /\ call'[q].at \in {"stopped", "let"}
  /\ call'[q].crossed = Moving
  /\ call'[q].at = "let" => call'[q].op \notin {"unlink", "rename"} /\ LetNoted(q)
  /\ Writer(q)' => call'[q].v = newest + 1 /\ newest' = newest + 1
  /\ \A r \in Tracees \ {q} : call'[r] = call[r]
  /\ UNCHANGED <<remote, local, files, fresh, reached, exposed, strayed>>

\* it is let through:
Through(q) ==
  /\ SameCall(call[q], call'[q]) /\ call[q].at = "stopped" /\ call'[q].at = "let"
  /\ call'[q].crossed = call[q].crossed /\ q \in work.p /\ work' = Off
  /\ call[q].op \in {"unlink", "rename"} => \A r \in Tracees \ {q} : call'[r] = Crosses[r]
  /\ LetNoted(q)

\* its file is opened:
Opened(q) ==
  /\ SameCall(call[q], call'[q]) /\ call[q].at = "let" /\ call'[q].at = "open"
  /\ call[q].op \in {"read", "edit"}
  /\ call'[q].crossed = call[q].crossed /\ call'[q].fd = There(q)
  /\ UNCHANGED <<remote, local, files, candidates, fresh, work, newest, reached, exposed, strayed>>

\* or it stays where it is; what the supervisor changes under it is said to be crossed.
Stays(q) ==
  /\ SameCall(call[q], call'[q]) /\ call'[q].at = call[q].at
  /\ call[q].crossed => call'[q].crossed
  /\ call[q].at \in {"let", "open"} =>
       \/ call'[q].crossed
       \/ /\ candidates \subseteq candidates' /\ files' = files
          /\ call'[q].fd = call[q].fd \/ \E p \in Tracees \ {q} : Mover(p)

ComesTo(q) ==
  \/ call'[q] = NoCall \/ call'[q].at \in {"parked", "done"}
  \/ New(q) \/ Through(q) \/ Opened(q) \/ Stays(q)

LEMMA StaysTouched ==
    ASSUME NEW q, Touched(call[q], call'[q])
    PROVE  Stays(q)
  BY DEF Touched, Stays

LEMMA StaysSame ==
    ASSUME NEW q, call'[q] = call[q], candidates \subseteq candidates', files' = files
    PROVE  Stays(q)
  BY DEF Stays, SameCall

LEMMA Onwards ==
    ASSUME Structured, NEW p \in Tracees, NEW w \in Handler, NEW calls, NEW dirty,
           Busy(p), w.op = work.op, w.n = work.n, calls[p] \in SystemCall,
           Touched(call[p], calls[p]),
           \/ ToFlush(w, dirty) /\ call'[p] = calls[p]
           \/ ToFetch(w, files', dirty) /\ call'[p] = calls[p]
           \/ ToLet(w, files', dirty) /\ call'[p] = After(calls[p], w.op)
    PROVE  ComesTo(p)
<1>1. CASE call'[p] = calls[p]
  BY <1>1, StaysTouched DEF ComesTo
<1>2. CASE ToLet(w, files', dirty) /\ call'[p] = After(calls[p], w.op)
  <2>1. CASE w.op = "stat"
    BY <1>2, <2>1, AfterOn DEF ComesTo
  <2>2. CASE w.op # "stat"
    <3>1. /\ SameCall(calls[p], call'[p]) /\ call'[p].at = "let"
          /\ call'[p].crossed = calls[p].crossed
      BY <1>2, <2>2, AfterOn
    <3>2. /\ call[p].at = "stopped" /\ call[p].op = work.op /\ call[p].n = work.n /\ p \in work.p
      BY DEF Busy, Its
    <3>3. SameCall(call[p], call'[p])
      BY <3>1 DEF Touched, SameCall
    <3>4. call'[p].crossed = call[p].crossed
      BY <3>1, <3>2 DEF Touched, Structured, MirrorTypeOK, SystemCall
    <3>5. Through(p)
      BY <1>2, <3>1, <3>2, <3>3, <3>4 DEF Through, ToLet, LetNoted, SameCall
    <3> QED
      BY <3>5 DEF ComesTo
  <2> QED
    BY <2>1, <2>2
<1> QED
  BY <1>1, <1>2

LEMMA StepGoes ==
    ASSUME Structured, [MirrorNext]_mirror, NEW q \in Tracees
    PROVE  ComesTo(q)
<1> USE DEF Structured
<1>0. CallOK(q) /\ call[q] \in SystemCall
  BY DEF CallsOK, MirrorTypeOK
<1>1. CASE Pushes \/ Lists \/ FlushesFinal \/ UNCHANGED mirror
  <2>1. call' = call /\ files' = files /\ candidates' = candidates
    BY <1>1, PushesOn, ListsOn, FlushesFinalOn DEF mirror
  <2> QED
    BY <2>1, StaysSame DEF ComesTo
<1>2. CASE Pushed
  BY <1>2, PushedOn, CrossesOn, StaysTouched DEF ComesTo
<1>3. CASE Refuses \/ BeginsRemoteExec \/ Fetches
  <2>1. /\ files' = files /\ candidates' = candidates
        /\ call'[q] = call[q] \/ call'[q] = NoCall \/ call'[q] = [call[q] EXCEPT !.at = "parked"]
    BY <1>3, RefusesOn, BeginsOn, FetchesOn
  <2>2. [call[q] EXCEPT !.at = "parked"].at = "parked"
    BY <1>0 DEF SystemCall
  <2> QED
    BY <2>1, <2>2, StaysSame DEF ComesTo
<1>4. CASE Applies
  <2>1. PICK p \in Tracees, w \in Handler, calls \in [Tracees -> SystemCall] :
                /\ Busy(p) /\ calls = Cuts(Crosses, Vanished)
                /\ w.p = {p} /\ w.op = work.op /\ w.n = work.n /\ w.list = NoList
                /\ w.stage = "apply" /\ w.why = work.why
                /\ \A r \in Tracees \ {p} : call'[r] = calls[r]
                /\ \/ ToFlush(w, candidates \ Vanished) /\ call'[p] = calls[p]
                   \/ ToFetch(w, files', candidates \ Vanished) /\ call'[p] = calls[p]
                   \/ ToLet(w, files', candidates \ Vanished) /\ call'[p] = After(calls[p], w.op)
    BY <1>4, AppliesOn
  <2>2. \A r \in Tracees : Touched(call[r], calls[r])
    BY <2>1, CrossesOn
  <2>3. CASE q # p
    BY <2>1, <2>2, <2>3, StaysTouched DEF ComesTo
  <2>4. CASE q = p
    <3>1. calls[p] \in SystemCall /\ Touched(call[p], calls[p])
      BY <2>1, <2>2
    <3>2. ComesTo(p)
      BY Zenon, <2>1, <3>1, Onwards
    <3> QED
      BY <2>4, <3>2
  <2> QED
    BY <2>3, <2>4
<1>5. CASE Replaces
  <2>1. PICK p \in Tracees, calls \in [Tracees -> SystemCall] :
                /\ Busy(p) /\ calls = Cuts(Crosses, work.n)
                /\ \A r \in Tracees \ {p} : call'[r] = calls[r]
                /\ call'[p] = After(calls[p], work.op)
    BY <1>5, ReplacesOn
  <2>2. \A r \in Tracees : Touched(call[r], calls[r])
    BY <2>1, CrossesOn
  <2>3. CASE q # p
    BY <2>1, <2>2, <2>3, StaysTouched DEF ComesTo
  <2>4. CASE q = p
    <3>1. work.op \in {"read", "edit"} /\ work.stage = "replace" /\ work' = Off
      BY <1>5, ReplacesOn DEF HandlerOK
    <3>2. /\ call[p].at = "stopped" /\ call[p].op = work.op /\ call[p].n = work.n /\ p \in work.p
      BY <2>1 DEF Busy, Its
    <3>3. /\ SameCall(calls[p], call'[p]) /\ call'[p].at = "let"
          /\ call'[p].crossed = calls[p].crossed
      BY <2>1, <3>1, AfterOn
    <3>4. SameCall(call[p], call'[p]) /\ call'[p].crossed = call[p].crossed
      BY <2>2, <3>2, <3>3, <1>0, <2>4 DEF Touched, SameCall, SystemCall
    <3>5. candidates' = IF work.op = "edit" THEN candidates \cup work.n ELSE candidates
      BY <1>5, ReplacesOn
    <3>6. \A n \in work.n : files'[n].present = TRUE
      BY <1>5, ReplacesOn
    <3>7. LetNoted(p)
      BY <3>1, <3>2, <3>4, <3>5, <3>6 DEF LetNoted, SameCall, Lacks
    <3>8. Through(p)
      BY <3>1, <3>2, <3>3, <3>4, <3>7 DEF Through
    <3> QED
      BY <2>4, <3>8 DEF ComesTo
  <2> QED
    BY <2>3, <2>4
<1>6. CASE Replays
  <2>1. PICK p \in Tracees, n \in Names :
           Busy(p) /\ call[p].op \in {"unlink", "rename"} /\ (Unsent(p, n) \/ Sent(p, n))
    BY <1>6, ReplaysOn
  <2>2. CASE Unsent(p, n)
    BY <2>2, StaysSame DEF ComesTo, Unsent
  <2>3. CASE Sent(p, n) /\ q # p
    BY <2>3, CrossesOn, StaysTouched DEF ComesTo, Sent
  <2>4. CASE Sent(p, n) /\ q = p
    <3>1. /\ SameCall(call[p], call'[p]) /\ call'[p].at = "let"
          /\ call'[p].crossed = call[p].crossed
      BY <1>0, <2>4 DEF Sent, SameCall, SystemCall
    <3>2. call[p].at = "stopped" /\ p \in work.p
      BY <2>1 DEF Busy, Its
    <3>3. work' = Off
      BY <1>6, ReplaysOn
    <3>4. Through(p)
      BY <2>1, <2>4, <3>1, <3>2, <3>3 DEF Through, LetNoted, SameCall, Sent
    <3> QED
      BY <2>4, <3>4 DEF ComesTo
  <2> QED
    BY <2>1, <2>2, <2>3, <2>4
<1>7. ASSUME NEW p \in Tracees, Stopping(p) PROVE ComesTo(q)
  <2>1. PICK op \in Ops, n \in SUBSET Names, m \in SUBSET Names, v \in {0, 1} :
          /\ Stops(p, op, n, m, v) /\ (v = 1 <=> op \in {"edit", "write"})
    BY <1>7 DEF Stopping
  <2>2. /\ work.stage = "off" /\ call[p].at = "idle"
        /\ UNCHANGED <<remote, local, files, fresh, reached, exposed, strayed>>
        /\ newest' = newest + v
        /\ \A r \in Tracees : r # p => call'[r] = call[r]
    BY <2>1, StopsFrame
  <2>3. PICK c \in SystemCall, w \in Handler : Halts(p, op, n, m, v, c, w)
    BY Zenon, <2>1, StopsOn
  <2>4. candidates \subseteq candidates'
    BY <2>3 DEF Halts, ToFlush, ToFetch, ToLet
  <2>5. CASE q # p
    BY <2>2, <2>4, <2>5, StaysSame DEF ComesTo
  <2>6. CASE q = p
    <3>1. CASE call'[p] = c
      BY <2>1, <2>2, <2>3, <2>6, <3>1 DEF Halts, ComesTo, New, Writer
    <3>2. CASE ToLet(w, files, candidates) /\ call'[p] = After(c, op)
      <4>1. CASE op = "stat"
        BY <2>6, <3>2, <4>1, AfterOn DEF ComesTo
      <4>2. CASE op # "stat"
        <5>1. SameCall(c, call'[p]) /\ call'[p].at = "let" /\ call'[p].crossed = c.crossed
          BY <3>2, <4>2, AfterOn
        <5>2. /\ call'[p].op = op /\ call'[p].n = n /\ call'[p].crossed = Moving
              /\ call'[p].v = (IF v = 1 THEN newest + 1 ELSE 0) /\ w.op = op /\ w.n = n
          BY <5>1, <2>3 DEF SameCall, Halts
        <5>3. op \notin {"unlink", "rename"} /\ LetNoted(p)
          BY <3>2, <5>2, <2>2 DEF ToLet, LetNoted
        <5>4. Writer(p)' => call'[p].v = newest + 1 /\ newest' = newest + 1
          BY <2>1, <2>2, <5>2 DEF Writer
        <5>5. New(p)
          BY <2>2, <5>1, <5>2, <5>3, <5>4 DEF New
        <5> QED
          BY <2>6, <5>5 DEF ComesTo
      <4> QED
        BY <4>1, <4>2
    <3> QED
      BY <2>3, <3>1, <3>2 DEF Halts
  <2> QED
    BY <2>5, <2>6
<1>8. ASSUME NEW p \in Tracees, Opens(p) PROVE ComesTo(q)
  <2>1. /\ call[p].at = "let" /\ call[p].op \in {"read", "edit"}
        /\ \/ call'[p] = NoCall
           \/ call'[p] = [call[p] EXCEPT !.at = "open", !.fd = There(p)]
        /\ \A r \in Tracees \ {p} : call'[r] = call[r]
        /\ UNCHANGED <<remote, local, files, candidates, fresh, work, newest, reached, exposed, strayed>>
    BY <1>8, OpensOn
  <2>2. CASE q # p
    BY <2>1, <2>2, StaysSame DEF ComesTo
  <2>3. CASE q = p
    <3>1. There(p) \in SUBSET Names
      BY DEF There, MirrorTypeOK, SystemCall
    <3>2. ASSUME call'[p] = [call[p] EXCEPT !.at = "open", !.fd = There(p)] PROVE Opened(p)
      <4>1. /\ SameCall(call[p], call'[p]) /\ call'[p].at = "open" /\ call'[p].fd = There(p)
            /\ call'[p].crossed = call[p].crossed
        BY <1>0, <2>3, <3>1, <3>2 DEF SameCall, SystemCall
      <4> QED
        BY <2>1, <4>1 DEF Opened
    <3> QED
      BY <2>1, <2>3, <3>2 DEF ComesTo
  <2> QED
    BY <2>2, <2>3
<1>9. ASSUME NEW p \in Tracees,
             Uses(p) \/ Overwrites(p) \/ ReleasesStalled(p) \/ Changes(p) \/ Returns(p)
      PROVE  ComesTo(q)
  <2>1. UNCHANGED <<files, candidates>>
    BY <1>9, UsesOn, OverwritesOn, ReleasesOn, ChangesOn, ReturnsOn
  <2>2. \/ call'[q] = call[q] \/ call'[q] = NoCall \/ call'[q] = [call[q] EXCEPT !.at = "done"]
    BY <1>9, UsesOn, OverwritesOn, ReleasesOn, ChangesOn, ReturnsOn
  <2>3. [call[q] EXCEPT !.at = "done"].at = "done"
    BY <1>0 DEF SystemCall
  <2> QED
    BY <2>1, <2>2, <2>3, StaysSame DEF ComesTo
<1>10. ASSUME NEW p \in Tracees, Moves(p) PROVE ComesTo(q)
  <2>1. /\ Mover(p) /\ call'[p] = NoCall /\ UNCHANGED <<files, candidates>>
        /\ \A r \in Tracees \ {p} :
             call'[r] = call[r] \/ \E d \in SUBSET Names : call'[r] = [call[r] EXCEPT !.fd = d]
    BY <1>10, MovesOn DEF Mover
  <2>2. CASE q = p
    BY <2>1, <2>2 DEF ComesTo
  <2>3. CASE q # p /\ call'[q] = call[q]
    BY <2>1, <2>3, StaysSame DEF ComesTo
  <2>4. CASE q # p /\ \E d \in SUBSET Names : call'[q] = [call[q] EXCEPT !.fd = d]
    <3>1. SameCall(call[q], call'[q]) /\ call'[q].at = call[q].at /\ call'[q].crossed = call[q].crossed
      BY <1>0, <2>4 DEF SameCall, SystemCall
    <3> QED
      BY <2>1, <2>4, <3>1 DEF ComesTo, Stays
  <2> QED
    BY <2>1, <2>2, <2>3, <2>4
<1> QED
  BY <1>1, <1>2, <1>3, <1>4, <1>5, <1>6, <1>7, <1>8, <1>9, <1>10, MirrorSteps

LEMMA NewestOn ==
    ASSUME Structured, [MirrorNext]_mirror
    PROVE  newest' = newest \/ newest' = newest + 1
<1> USE DEF Structured
<1>1. CASE \/ Pushes \/ Pushed \/ Refuses \/ Lists \/ Applies \/ Fetches \/ Replaces \/ Replays
           \/ BeginsRemoteExec \/ FlushesFinal \/ UNCHANGED mirror
  BY <1>1, PushesOn, PushedOn, RefusesOn, ListsOn, AppliesOn, FetchesOn, ReplacesOn, ReplaysOn,
     BeginsOn, FlushesFinalOn DEF mirror
<1>2. ASSUME NEW p \in Tracees, Stopping(p) PROVE newest' = newest \/ newest' = newest + 1
  <2>1. \E v \in {0, 1} : newest' = newest + v
    BY <1>2, StopsFrame DEF Stopping
  <2> QED
    BY <2>1 DEF MirrorTypeOK
<1>3. ASSUME NEW p \in Tracees,
             \/ Opens(p) \/ Uses(p) \/ Overwrites(p) \/ Moves(p) \/ ReleasesStalled(p)
             \/ Changes(p) \/ Returns(p)
      PROVE  newest' = newest \/ newest' = newest + 1
  BY <1>3, OpensOn, UsesOn, OverwritesOn, MovesOn, ReleasesOn, ChangesOn, ReturnsOn
<1> QED
  BY <1>1, <1>2, <1>3, MirrorSteps

\* Who is still to write a version was so before, or has only now asked to.
LEMMA StepWriters ==
    ASSUME Structured, [MirrorNext]_mirror, NEW q \in Tracees, Writer(q)'
    PROVE  \/ Writer(q) /\ call'[q].v = call[q].v
           \/ /\ call'[q].v = newest + 1 /\ newest' = newest + 1 /\ Taken' = Taken
              /\ \A r \in Tracees \ {q} : call'[r] = call[r]
              /\ ~Writer(q)
<1>1. ComesTo(q)
  BY StepGoes
<1>2. CASE call'[q] = NoCall \/ call'[q].at \in {"parked", "done"}
  BY <1>2, NoCallFields DEF Writer
<1>3. CASE New(q)
  BY <1>3, UntouchedTaken DEF New, Writer
<1>4. CASE Through(q) \/ Opened(q) \/ Stays(q)
  BY <1>4 DEF Through, Opened, Stays, SameCall, Writer
<1> QED
  BY <1>1, <1>2, <1>3, <1>4 DEF ComesTo

LEMMA StepPending == ASSUME Structured, Pending, [MirrorNext]_mirror PROVE Pending'
<1>1. newest \in Nat /\ (newest' = newest \/ newest' = newest + 1)
  BY NewestOn DEF Structured, MirrorTypeOK
<1>2. \A v \in Taken' : Accounted(v)
  BY StepTaken
<1>3. Taken' \subseteq 0 .. newest'
  <2>1. ASSUME NEW v \in Taken' PROVE v \in 0 .. newest'
    <3>1. CASE v \in Taken
      BY <1>1, <3>1 DEF Pending
    <3>2. CASE Written(v)
      BY <1>1, <3>2 DEF Pending, Written
    <3>3. CASE Commanded(v)
      BY <1>1, <3>3 DEF Commanded
    <3> QED
      BY <1>2, <3>1, <3>2, <3>3 DEF Accounted
  <2> QED
    BY <2>1
<1>4. ASSUME NEW q \in Tracees, Writer(q)'
      PROVE  call'[q].v \in 0 .. newest' /\ call'[q].v \notin Taken'
  <2>1. CASE Writer(q) /\ call'[q].v = call[q].v
    <3>1. call[q].v \in 0 .. newest /\ call[q].v \notin Taken
      BY <2>1 DEF Pending
    <3>2. ~Written(call[q].v)
      BY <1>4, <2>1 DEF Pending, Written
    <3>3. ~Commanded(call[q].v)
      BY <1>1, <3>1 DEF Commanded
    <3> QED
      BY <1>1, <1>2, <2>1, <3>1, <3>2, <3>3 DEF Accounted
  <2>2. CASE call'[q].v = newest + 1 /\ newest' = newest + 1 /\ Taken' = Taken
    BY <1>1, <2>2 DEF Pending
  <2> QED
    BY <1>4, <2>1, <2>2, StepWriters
<1>5. ASSUME NEW q \in Tracees, NEW r \in Tracees \ {q}, Writer(q)', Writer(r)'
      PROVE  call'[r].v # call'[q].v
  <2>1. /\ \/ Writer(q) /\ call'[q].v = call[q].v
           \/ call'[q].v = newest + 1 /\ ~Writer(q) /\ call'[r] = call[r]
        /\ \/ Writer(r) /\ call'[r].v = call[r].v
           \/ call'[r].v = newest + 1 /\ ~Writer(r) /\ call'[q] = call[q]
    BY <1>5, StepWriters
  <2>2. CASE Writer(q) /\ Writer(r) /\ call'[q].v = call[q].v /\ call'[r].v = call[r].v
    BY <2>2 DEF Pending
  <2>3. CASE Writer(q) /\ call'[q].v = call[q].v /\ call'[r].v = newest + 1
    BY <1>1, <2>3 DEF Pending
  <2>4. CASE Writer(r) /\ call'[r].v = call[r].v /\ call'[q].v = newest + 1
    BY <1>1, <2>4 DEF Pending
  <2>5. ~(~Writer(q) /\ call'[q] = call[q])
    BY <1>5 DEF Writer
  <2> QED
    BY <2>1, <2>2, <2>3, <2>4, <2>5
<1> QED
  BY <1>3, <1>4, <1>5 DEF Pending

-----------------------------------------------------------------------------
(* What is let through is as the supervisor left it, or is said not to be. *)

\* A name that is on its way somewhere else has everybody's call crossed.
Crossing ==
  \A p, q \in Tracees : Mover(p) /\ q # p /\ AtHand(q) => call[q].crossed

\* A call let through has what it writes noted, and what it reads here.
LetWhole ==
  \A p \in Tracees : call[p].at \in {"let", "open"} /\ ~call[p].crossed =>
    /\ call[p].op \in {"edit", "write"} => call[p].n \subseteq candidates
    /\ call[p].op \in {"read", "edit"} => \A n \in call[p].n : ~Lacks(files, n)
    /\ call[p].at = "open" => call[p].fd \subseteq call[p].n

LEMMA StepCrossing == ASSUME Structured, Crossing, [MirrorNext]_mirror PROVE Crossing'
<1> SUFFICES ASSUME NEW p \in Tracees, NEW q \in Tracees \ {p}, Mover(p)', AtHand(q)'
             PROVE  call'[q].crossed
  BY DEF Crossing
<1>1. ComesTo(p) /\ ComesTo(q)
  BY StepGoes
<1>2. Mover(p) \/ Through(p)
  <2>1. call'[p] # NoCall /\ call'[p].at = "let"
    BY NoCallFields DEF Mover
  <2> QED
    BY <1>1, <2>1 DEF ComesTo, New, Opened, Stays, SameCall, Mover
<1>3. New(q) \/ Through(q) \/ Opened(q) \/ Stays(q)
  BY <1>1, NoCallFields DEF ComesTo, AtHand
<1>4. CASE Mover(p)
  <2>1. CASE New(q)
    BY <1>4, <2>1 DEF New, Moving, Mover
  <2>2. CASE Through(q) \/ Opened(q) \/ Stays(q)
    <3>1. AtHand(q)
      BY <2>2 DEF AtHand, Through, Opened, Stays
    <3>2. call[q].crossed
      BY <1>4, <3>1 DEF Crossing
    <3> QED
      BY <2>2, <3>2 DEF Through, Opened, Stays
  <2> QED
    BY <1>3, <2>1, <2>2
<1>5. CASE Through(p)
  <2>1. call'[q] = Crosses[q]
    BY <1>5 DEF Through, Mover, SameCall
  <2>2. Touched(call[q], Crosses[q])
    BY CrossesOn DEF Structured
  <2>3. call[q].at \in {"stopped", "let", "open"}
    BY <2>1, <2>2 DEF AtHand, Touched
  <2>4. call[q].at # "stopped"
    <3>1. p \in work.p
      BY <1>5 DEF Through
    <3>2. work.p = {p}
      BY <3>1 DEF Structured, HandlerOK, Busy, Its
    <3> QED
      BY <3>2 DEF Structured, CallsOK, CallOK
  <2> QED
    BY <2>1, <2>2, <2>3, <2>4 DEF Touched
<1> QED
  BY <1>2, <1>4, <1>5

LEMMA StepLetWhole == ASSUME Structured, Crossing, LetWhole, [MirrorNext]_mirror PROVE LetWhole'
<1> SUFFICES ASSUME NEW p \in Tracees, call'[p].at \in {"let", "open"}, ~call'[p].crossed
             PROVE  /\ call'[p].op \in {"edit", "write"} => call'[p].n \subseteq candidates'
                    /\ call'[p].op \in {"read", "edit"} => \A n \in call'[p].n : ~Lacks(files', n)
                    /\ call'[p].at = "open" => call'[p].fd \subseteq call'[p].n
  BY DEF LetWhole, Lacks
<1>1. New(p) \/ Through(p) \/ Opened(p) \/ Stays(p)
  BY StepGoes, NoCallFields DEF ComesTo
<1>2. CASE New(p) \/ Through(p)
  BY <1>2 DEF New, Through, LetNoted
<1>3. CASE Opened(p)
  BY <1>3 DEF Opened, LetWhole, SameCall, There
<1>4. CASE Stays(p)
  <2>1. /\ candidates \subseteq candidates' /\ files' = files
        /\ call'[p].fd = call[p].fd \/ \E q \in Tracees \ {p} : Mover(q)
        /\ ~call[p].crossed /\ call[p].at \in {"let", "open"} /\ call'[p].at = call[p].at
        /\ SameCall(call[p], call'[p])
    BY <1>4 DEF Stays
  <2>2. ~\E q \in Tracees \ {p} : Mover(q)
    BY <2>1 DEF Crossing, AtHand
  <2> QED
    BY <2>1, <2>2 DEF LetWhole, SameCall
<1> QED
  BY <1>1, <1>2, <1>3, <1>4

-----------------------------------------------------------------------------
(* What was written here goes to the target before anything takes it away. *)

\* A file here the target has never had, that the code looks after.
Edited(n) == local[n].v > Gone /\ local[n].v \notin reached \cup exposed
Flushing == work.stage \in {"flush", "pushed"}

Noted(n) ==
  /\ n \in candidates /\ Unpushed(n) /\ ~Lacks(files, n)
  /\ Flushing => n \in work.left
  /\ work.stage # "apply"
  /\ \A p \in Tracees : ~Mover(p)

Looked == \A n \in Names : Edited(n) => Noted(n)

LEMMA NotedKept ==
    ASSUME NEW n \in Names, Looked, Edited(n), local'[n] = local[n], files'[n] = files[n],
           n \in candidates', Flushing' => n \in work'.left, work'.stage # "apply",
           \A p \in Tracees : Mover(p)' => Mover(p)
    PROVE  Noted(n)'
  BY DEF Looked, Noted, Unpushed, Lacks

LEMMA EditedKept ==
    ASSUME NEW n \in Names, Edited(n)', local'[n].v = local[n].v, reached \subseteq reached',
           exposed \subseteq exposed'
    PROVE  Edited(n)
  BY DEF Edited

\* Where there is no edited file, only a write makes one.
LEMMA NoneEdited ==
    ASSUME NEW n \in Names, Edited(n)', \A x \in Names : ~Edited(x), reached \subseteq reached',
           exposed \subseteq exposed'
    PROVE  \A x \in Names : local'[n] # local[x]
  BY DEF Edited

LEMMA StayMovers ==
    ASSUME Structured, [MirrorNext]_mirror, ~Replays, NEW p \in Tracees, Mover(p)'
    PROVE  Mover(p)
<1>1. ComesTo(p)
  BY StepGoes
<1>2. CASE Through(p)
  <2>1. call[p].op \in {"unlink", "rename"} /\ p \in work.p /\ work' = Off
        /\ call[p].at = "stopped" /\ call'[p].at = "let"
    BY <1>2 DEF Through, Mover, SameCall
  <2>2. work.op = call[p].op /\ work.p = {p} /\ work.stage # "off"
    BY <2>1 DEF Structured, HandlerOK, Busy, Its
  <2> USE DEF Structured
  <2>3. CASE Pushes \/ Pushed \/ Lists \/ FlushesFinal \/ UNCHANGED mirror
    <3>1. Touched(call[p], call'[p]) \/ call'[p] = call[p]
      BY <2>3, PushesOn, PushedOn, ListsOn, FlushesFinalOn, CrossesOn DEF mirror
    <3> QED
      BY <2>1, <3>1 DEF Touched
  <2>4. CASE Refuses \/ BeginsRemoteExec
    BY <2>1, <2>4, RefusesOn, BeginsOn, NoCallFields DEF MirrorTypeOK, SystemCall
  <2>5. CASE Fetches \/ Replaces
    BY <2>1, <2>2, <2>5, FetchesOn, ReplacesOn DEF HandlerOK
  <2>6. CASE Applies
    <3>1. PICK r \in Tracees, w \in Handler, calls \in [Tracees -> SystemCall] :
                /\ Busy(r) /\ calls = Cuts(Crosses, Vanished)
                /\ w.p = {r} /\ w.op = work.op /\ w.n = work.n /\ w.list = NoList
                /\ w.stage = "apply" /\ w.why = work.why
                /\ \A q \in Tracees \ {r} : call'[q] = calls[q]
                /\ \/ ToFlush(w, candidates \ Vanished) /\ call'[r] = calls[r]
                   \/ ToFetch(w, files', candidates \ Vanished) /\ call'[r] = calls[r]
                   \/ ToLet(w, files', candidates \ Vanished) /\ call'[r] = After(calls[r], w.op)
      BY <2>6, AppliesOn
    <3>2. r = p
      BY <2>2, <3>1 DEF Busy, Its
    <3>3. ToFlush(w, candidates \ Vanished)
      BY <2>1, <2>2, <3>1 DEF ToFetch, ToLet, ToFlush
    <3>4. Touched(call[p], calls[p])
      BY <3>1, CrossesOn
    <3> QED
      BY <2>1, <3>1, <3>2, <3>3, <3>4 DEF Touched, ToFlush, ToLet
  <2>7. ASSUME NEW q \in Tracees, Stopping(q) PROVE FALSE
    BY <2>2, <2>7, StopsFrame DEF Stopping
  <2>8. ASSUME NEW q \in Tracees,
               \/ Opens(q) \/ Uses(q) \/ Overwrites(q) \/ Moves(q) \/ ReleasesStalled(q)
               \/ Changes(q) \/ Returns(q)
        PROVE FALSE
    <3>1. work' = work
      BY <2>8, OpensOn, UsesOn, OverwritesOn, MovesOn, ReleasesOn, ChangesOn, ReturnsOn
    <3> QED
      BY <2>1, <2>2, <3>1, OffFields
  <2> QED
    BY <2>3, <2>4, <2>5, <2>6, <2>7, <2>8, MirrorSteps
<1> QED
  BY <1>1, <1>2, NoCallFields DEF ComesTo, New, Opened, Stays, SameCall, Mover

LEMMA NoMovers ==
    ASSUME NEW p \in Tracees, ~Mover(p), \A q \in Tracees \ {p} : call'[q] = call[q],
           call'[p] = NoCall
    PROVE  \A q \in Tracees : Mover(q)' => Mover(q)
  BY NoCallFields DEF Mover

LEMMA WroteLooked ==
    ASSUME Structured, Pending, Crossing, LetWhole, Looked, NEW p \in Tracees, Writer(p),
           call[p].at \in {"let", "open"}, NEW names \in SUBSET Names, Wrote(p, names),
           names = call[p].n \/ (call[p].at = "open" /\ names = call[p].fd),
           call'[p] = NoCall, \A q \in Tracees \ {p} : call'[q] = call[q],
           UNCHANGED <<files, candidates, work, reached>>
    PROVE  Looked'
<1> SUFFICES ASSUME NEW n \in Names, Edited(n)' PROVE Noted(n)'
  BY DEF Looked
<1>1. exposed \subseteq exposed' /\ reached \subseteq reached'
  BY DEF Wrote
<1>2. \A q \in Tracees : Mover(q)' => Mover(q)
  BY NoMovers DEF Mover, Writer
<1>3. CASE n \notin names
  <2>1. local'[n] = local[n]
    BY <1>3 DEF Wrote
  <2>2. Edited(n)
    BY <1>1, <2>1, EditedKept
  <2>3. Noted(n)
    BY <2>2 DEF Looked
  <2> QED
    BY <1>2, <2>1, <2>2, <2>3, NotedKept DEF Noted, Flushing
<1>4. CASE n \in names
  <2>1. local'[n].v = call[p].v
    BY <1>4 DEF Wrote
  <2>2. ~Exposed(p, names)
    BY <2>1 DEF Wrote, Edited
  <2>3. work.stage = "off" /\ ~call[p].crossed /\ \A x \in call[p].n : ~Lacks(files, x)
    BY <2>2 DEF Exposed
  <2>4. names \subseteq call[p].n
    BY <2>3 DEF LetWhole
  <2>5. n \in candidates
    BY <1>4, <2>3, <2>4 DEF LetWhole, Writer
  <2>6. call[p].v \notin Taken
    BY DEF Pending
  <2>7. files[n].own # call[p].v
    BY <2>6, TakenOf
  <2>8. \A q \in Tracees : ~Mover(q)
    <3>1. \A q \in Tracees \ {p} : ~Mover(q)
      BY <2>3 DEF Crossing, AtHand, Writer
    <3> QED
      BY <3>1 DEF Writer, Mover
  <2>9. ~Lacks(files, n)'
    BY <1>4, <2>3, <2>4 DEF Lacks
  <2>10. Unpushed(n)'
    BY <2>1, <2>7 DEF Edited, Unpushed
  <2> QED
    BY <1>2, <2>3, <2>5, <2>8, <2>9, <2>10 DEF Noted, Flushing
<1> QED
  BY <1>3, <1>4

LEMMA StepLooked ==
    ASSUME Structured, Pending, Crossing, LetWhole, Looked, [MirrorNext]_mirror
    PROVE  Looked'
<1> USE DEF Structured
<1>0. \A p \in Tracees : ~Replays /\ Mover(p)' => Mover(p)
  BY StayMovers
<1>1. ASSUME NEW n \in Names, Edited(n)', Pushes PROVE Noted(n)'
  <2>1. PICK m \in Names :
          /\ m \in work.left /\ m \notin work'.left /\ Unpushed(m)
          /\ work'.left \subseteq work.left
          /\ \A x \in work.left \ work'.left : x = m \/ ~Unpushed(x)
          /\ reached' = reached \cup {local[m].v}
    BY <1>1, PushesOn
  <2>2. UNCHANGED <<local, files, candidates, call, exposed>> /\ work.stage = "flush"
        /\ work'.stage = "pushed"
    BY <1>1, PushesOn
  <2>3. Edited(n) /\ n # m
    BY <1>1, <2>1, <2>2 DEF Edited
  <2>4. Noted(n)
    BY <2>3 DEF Looked
  <2>5. n \in work'.left
    BY <2>1, <2>2, <2>3, <2>4 DEF Noted, Flushing
  <2> QED
    BY <2>2, <2>3, <2>4, <2>5, NotedKept DEF Noted, Mover
<1>2. ASSUME NEW n \in Names, Edited(n)', Pushed PROVE Noted(n)'
  <2>1. PICK m \in Names :
          m \notin work.left /\ \A x \in Names \ {m} : files'[x] = files[x]
    BY <1>2, PushedOn
  <2>2. /\ UNCHANGED <<local, candidates, reached, exposed>> /\ work.stage = "pushed"
        /\ work'.stage = "flush" /\ work'.left = work.left
    BY <1>2, PushedOn
  <2>3. Edited(n)
    BY <1>2, <2>2 DEF Edited
  <2>4. Noted(n)
    BY <2>3 DEF Looked
  <2>5. n # m
    BY <2>1, <2>2, <2>4 DEF Noted, Flushing
  <2>6. ~Replays
    BY <2>2, ReplaysOn DEF Flushed
  <2> QED
    BY <1>0, <2>1, <2>2, <2>3, <2>4, <2>5, <2>6, NotedKept DEF Noted, Flushing
<1>3. ASSUME NEW n \in Names, Edited(n)', Refuses \/ BeginsRemoteExec \/ Fetches PROVE Noted(n)'
  <2>1. UNCHANGED <<local, files, candidates, reached, exposed>>
    BY <1>3, RefusesOn, BeginsOn, FetchesOn
  <2>2. work'.stage \in {"off", "replace"}
    BY <1>3, RefusesOn, BeginsOn, FetchesOn, OffFields
  <2>3. Edited(n)
    BY <1>3, <2>1 DEF Edited
  <2>4. Noted(n)
    BY <2>3 DEF Looked
  <2>5. \A p \in Tracees : Mover(p)' => Mover(p)
    <3>1. \A p \in Tracees : \/ call'[p] = call[p] \/ call'[p] = NoCall
                             \/ call'[p] = [call[p] EXCEPT !.at = "parked"]
      BY <1>3, RefusesOn, BeginsOn, FetchesOn
    <3>2. \A p \in Tracees : [call[p] EXCEPT !.at = "parked"].at = "parked"
      BY DEF MirrorTypeOK, SystemCall
    <3> QED
      BY <3>1, <3>2, NoCallFields DEF Mover
  <2> QED
    BY <2>1, <2>2, <2>3, <2>4, <2>5, NotedKept DEF Noted, Flushing
<1>4. ASSUME NEW n \in Names, Edited(n)', Lists PROVE FALSE
  <2>1. UNCHANGED <<local, reached, exposed>> /\ Flushed("list")
    BY <1>4, ListsOn
  <2>2. Edited(n)
    BY <1>4, <2>1 DEF Edited
  <2> QED
    BY <2>1, <2>2 DEF Looked, Noted, Flushing, Flushed
<1>5. ASSUME NEW n \in Names, Edited(n)', Applies PROVE FALSE
  <2>1. /\ UNCHANGED <<reached, exposed>> /\ work.stage = "apply"
        /\ \A x \in Vanished : local'[x] = Nothing
        /\ \A x \in Arrived : local'[x].v = work.list[x]
        /\ \A x \in Names \ (Vanished \cup Arrived) : local'[x] = local[x]
    BY <1>5, AppliesOn
  <2>2. ~Edited(n)
    BY <2>1 DEF Looked, Noted
  <2>3. work.list[n] \in reached \cup {Gone}
    BY <2>1 DEF HandlerOK
  <2> QED
    BY <1>5, <2>1, <2>2, <2>3, NothingFields DEF Edited, Gone
<1>6. ASSUME NEW n \in Names, Edited(n)', Replaces PROVE Noted(n)'
  <2>1. /\ UNCHANGED <<reached, exposed>> /\ work.stage = "replace" /\ work' = Off
        /\ \A x \in work.n : local'[x].v = work.list[x]
        /\ \A x \in Names \ work.n : local'[x] = local[x] /\ files'[x] = files[x]
        /\ candidates' = IF work.op = "edit" THEN candidates \cup work.n ELSE candidates
    BY <1>6, ReplacesOn
  <2>2. n \notin work.n
    BY <1>6, <2>1 DEF HandlerOK, Edited
  <2>3. Edited(n)
    BY <1>6, <2>1, <2>2 DEF Edited
  <2>4. Noted(n)
    BY <2>3 DEF Looked
  <2>5. ~Replays
    BY <2>1, ReplaysOn DEF Flushed
  <2> QED
    BY <1>0, <2>1, <2>2, <2>3, <2>4, <2>5, NotedKept, OffFields DEF Noted, Flushing
<1>7. ASSUME NEW n \in Names, Edited(n)', Replays PROVE FALSE
  <2>1. Flushed("replay") /\ UNCHANGED <<local, reached, exposed>>
    BY <1>7, ReplaysOn
  <2>2. Edited(n)
    BY <1>7, <2>1 DEF Edited
  <2> QED
    BY <2>1, <2>2 DEF Looked, Noted, Flushing, Flushed
<1>8. ASSUME NEW n \in Names, Edited(n)', FlushesFinal PROVE Noted(n)'
  <2>1. /\ UNCHANGED <<local, files, candidates, call, reached, exposed>> /\ work'.stage = "flush"
        /\ work'.left = candidates
    BY <1>8, FlushesFinalOn
  <2>2. Edited(n)
    BY <1>8, <2>1 DEF Edited
  <2>3. Noted(n)
    BY <2>2 DEF Looked
  <2> QED
    BY <2>1, <2>2, <2>3, NotedKept DEF Noted, Mover
<1>9. ASSUME NEW n \in Names, Edited(n)', NEW p \in Tracees, Stopping(p) PROVE Noted(n)'
  <2>1. PICK op \in Ops, nn \in SUBSET Names, m \in SUBSET Names, v \in {0, 1} :
          Stops(p, op, nn, m, v)
    BY <1>9 DEF Stopping
  <2>2. work.stage = "off" /\ UNCHANGED <<local, files, reached, exposed>>
    BY <2>1, StopsFrame
  <2>3. PICK c \in SystemCall, w \in Handler : Halts(p, op, nn, m, v, c, w)
    BY Zenon, <2>1, StopsOn
  <2>4. /\ candidates \subseteq candidates' /\ work'.stage # "apply"
        /\ Flushing' => work'.left = candidates
    BY <2>3, OffFields DEF Halts, ToFlush, ToFetch, ToLet, Flushing, Handler
  <2>5. Edited(n)
    BY <1>9, <2>2 DEF Edited
  <2>6. Noted(n)
    BY <2>5 DEF Looked
  <2>7. ~Replays
    BY <2>2, ReplaysOn DEF Flushed
  <2> QED
    BY <1>0, <2>2, <2>4, <2>5, <2>6, <2>7, NotedKept DEF Noted
<1>10. ASSUME NEW n \in Names, Edited(n)', NEW p \in Tracees,
              Opens(p) \/ ReleasesStalled(p) \/ Changes(p) \/ Returns(p)
       PROVE Noted(n)'
  <2>1. /\ UNCHANGED <<local, files, candidates, work, exposed>> /\ reached \subseteq reached'
    BY <1>10, OpensOn, ReleasesOn, ChangesOn, ReturnsOn
  <2>2. Edited(n)
    BY <1>10, <2>1 DEF Edited
  <2>3. Noted(n)
    BY <2>2 DEF Looked
  <2>4. \A q \in Tracees : Mover(q)' => Mover(q)
    <3>1. \A q \in Tracees :
             call'[q] = call[q] \/ call'[q] = NoCall \/ call'[q] = [call[q] EXCEPT !.at = "done"]
             \/ call'[q] = [call[q] EXCEPT !.at = "open", !.fd = There(q)]
      BY <1>10, OpensOn, ReleasesOn, ChangesOn, ReturnsOn
    <3>2. \A q \in Tracees : [call[q] EXCEPT !.at = "done"].at = "done"
                             /\ [call[q] EXCEPT !.at = "open", !.fd = There(q)].at = "open"
      BY DEF MirrorTypeOK, SystemCall
    <3> QED
      BY <3>1, <3>2, NoCallFields DEF Mover
  <2> QED
    BY <2>1, <2>2, <2>3, <2>4, NotedKept DEF Noted, Flushing
<1>11. ASSUME NEW p \in Tracees, Uses(p) PROVE Looked'
  <2>1. /\ call[p].at = "open" /\ call'[p] = NoCall
        /\ \A q \in Tracees \ {p} : call'[q] = call[q]
        /\ UNCHANGED <<files, candidates, work, reached>>
        /\ \/ call[p].op # "edit" /\ UNCHANGED <<local, exposed>>
           \/ call[p].op = "edit" /\ Wrote(p, call[p].fd)
    BY <1>11, UsesOn
  <2>2. CASE call[p].op = "edit" /\ Wrote(p, call[p].fd)
    <3>1. call[p].fd \in SUBSET Names
      BY DEF MirrorTypeOK, SystemCall
    <3> QED
      BY <2>1, <2>2, <3>1, WroteLooked DEF Writer
  <2>3. CASE UNCHANGED <<local, exposed>>
    <3>1. \A q \in Tracees : Mover(q)' => Mover(q)
      BY <2>1, NoMovers DEF Mover
    <3>2. ASSUME NEW n \in Names, Edited(n)' PROVE Noted(n)'
      <4>1. Edited(n)
        BY <2>1, <2>3, <3>2 DEF Edited
      <4>2. Noted(n)
        BY <4>1 DEF Looked
      <4> QED
        BY <2>1, <2>3, <3>1, <4>1, <4>2, NotedKept DEF Noted, Flushing
    <3> QED
      BY <3>2 DEF Looked
  <2> QED
    BY <2>1, <2>2, <2>3
<1>12. ASSUME NEW p \in Tracees, Overwrites(p) PROVE Looked'
  <2>1. /\ call[p].at = "let" /\ call[p].op = "write" /\ call'[p] = NoCall
        /\ \A q \in Tracees \ {p} : call'[q] = call[q]
        /\ UNCHANGED <<files, candidates, work, reached>> /\ Wrote(p, call[p].n)
    BY <1>12, OverwritesOn
  <2>2. call[p].n \in SUBSET Names
    BY DEF MirrorTypeOK, SystemCall
  <2>3. Writer(p) /\ call[p].at \in {"let", "open"}
    BY <2>1 DEF Writer
  <2>4. PICK names \in SUBSET Names : Wrote(p, names) /\ names = call[p].n
    BY <2>1, <2>2
  <2>5. names = call[p].n \/ (call[p].at = "open" /\ names = call[p].fd)
    BY <2>4
  <2> QED
    BY Zenon, <2>1, <2>3, <2>4, <2>5, WroteLooked
<1>13. ASSUME NEW n \in Names, Edited(n)', NEW p \in Tracees, Moves(p) PROVE FALSE
  <2>1. Mover(p) /\ UNCHANGED <<reached, exposed>>
    BY <1>13, MovesOn DEF Mover
  <2>2. \A x \in Names : ~Edited(x)
    BY <2>1 DEF Looked, Noted
  <2>3. PICK m \in Names :
                /\ \A x \in Names \ (call[p].m \cup {m}) : local'[x] = local[x]
                /\ \/ local' = local
                   \/ local'[m] = Nothing /\ \A x \in call[p].m : local'[x] = local[m]
    BY <1>13, MovesOn
  <2> QED
    BY <1>13, <2>1, <2>2, <2>3, NothingFields DEF Edited, Gone
<1>14. CASE UNCHANGED mirror
  BY <1>14 DEF mirror, Looked, Edited, Noted, Unpushed, Lacks, Flushing, Mover
<1> QED
  BY <1>1, <1>2, <1>3, <1>4, <1>5, <1>6, <1>7, <1>8, <1>9, <1>10, <1>11, <1>12, <1>13, <1>14,
     MirrorSteps DEF Looked

EInv == Structured /\ Pending /\ Crossing /\ LetWhole /\ Looked

LEMMA InitEInv == MirrorInit => EInv
<1> SUFFICES ASSUME MirrorInit PROVE EInv
  OBVIOUS
<1>1. Structured
  BY InitStructured
<1>2. newest \in Nat /\ reached = 1 .. newest /\ exposed = {}
  BY <1>1 DEF MirrorInit, Structured, MirrorTypeOK
<1>3. \A p \in Tracees : call[p] = NoCall
  BY DEF MirrorInit
<1>4. \A n \in Names : local[n].v = 0 /\ files[n].own = 0
  BY NothingFields DEF MirrorInit
<1>5. Pending
  <2>1. \A p \in Tracees : ~Writer(p)
    BY <1>3, NoCallFields DEF Writer
  <2>2. \A v \in Taken : v = 0 \/ v \in 1 .. newest
    BY <1>2, <1>4 DEF Taken, Gone
  <2> QED
    BY <1>2, <2>1, <2>2 DEF Pending
<1>6. Crossing /\ LetWhole
  BY <1>3, NoCallFields DEF Crossing, LetWhole, Mover
<1>7. Looked
  BY <1>4 DEF Looked, Edited, Gone
<1> QED
  BY <1>1, <1>5, <1>6, <1>7 DEF EInv

LEMMA StepEInv == EInv /\ [MirrorNext]_mirror => EInv'
  BY StepStructured, StepPending, StepCrossing, StepLetWhole, StepLooked DEF EInv

LEMMA EditsInvariant == MirrorSpec => []EInv
  BY InitEInv, StepEInv, PTL DEF MirrorSpec

\* When a flush is over, every file here that the code looks after is one the target has had.
THEOREM EditsReachTheTarget == MirrorSpec => []CommandsSeeTheEdits
<1>1. EInv => CommandsSeeTheEdits
  BY DEF EInv, Looked, Edited, Noted, Flushing, Flushed, CommandsSeeTheEdits
<1> QED
  BY <1>1, EditsInvariant, PTL

\* The supervisor takes no file away that the target has not had.
THEOREM NoEditTaken == MirrorSpec => KeepsEdits
<1>1. ASSUME EInv, [MirrorNext]_mirror
      PROVE  [\A n \in Names : Rewritten(n) => local[n].v \in reached \cup exposed]_mirror
  <2> SUFFICES ASSUME NEW n \in Names, Rewritten(n), local[n].v \notin reached \cup exposed
               PROVE  FALSE
    OBVIOUS
  <2>1. Edited(n) /\ (Applies \/ Replaces) /\ local'[n] # local[n]
    BY DEF Rewritten, Edited
  <2>2. Noted(n)
    BY <1>1, <2>1 DEF EInv, Looked
  <2>3. CASE Applies
    BY <2>2, <2>3 DEF Applies, Noted
  <2>4. CASE Replaces
    <3>1. n \in work.n
      BY <1>1, <2>1, <2>4, ReplacesOn DEF EInv, Structured
    <3>2. work.stage = "replace"
      BY <2>4 DEF Replaces
    <3> QED
      BY <1>1, <2>2, <3>1, <3>2 DEF EInv, Structured, HandlerOK, Noted
  <2> QED
    BY <2>1, <2>3, <2>4
<1> QED
  BY <1>1, EditsInvariant, PTL DEF MirrorSpec, KeepsEdits

-----------------------------------------------------------------------------
(* The names on their way somewhere else, in each kind of step.            *)

InMotion(n) == \E p \in Tracees : Mover(p) /\ n \in call[p].n \cup call[p].m
Astray(n) == local[n].v \in exposed \/ n \in strayed

\* Nothing is set in motion or over; or all that is still in motion is crossed.
SameMovers == \A p \in Tracees : Mover(p) \/ Mover(p)' => call'[p] = call[p]
CrossedMovers ==
  \A p \in Tracees :
    /\ Mover(p)' => Mover(p) /\ call'[p].crossed
    /\ Mover(p) => Mover(p)' /\ call'[p].n = call[p].n /\ call'[p].m = call[p].m

LEMMA SameMotion == ASSUME SameMovers PROVE \A n : InMotion(n)' <=> InMotion(n)
<1> SUFFICES ASSUME NEW n PROVE InMotion(n)' <=> InMotion(n)
  OBVIOUS
<1>1. \A p \in Tracees : Mover(p)' <=> Mover(p)
  BY DEF SameMovers, Mover
<1> QED
  BY <1>1 DEF SameMovers, InMotion

LEMMA CrossedMotion == ASSUME CrossedMovers PROVE \A n : InMotion(n)' <=> InMotion(n)
<1> SUFFICES ASSUME NEW n PROVE InMotion(n)' <=> InMotion(n)
  OBVIOUS
<1>1. \A p \in Tracees : Mover(p)' <=> Mover(p)
  BY DEF CrossedMovers
<1>2. \A p \in Tracees : Mover(p) => call'[p].n = call[p].n /\ call'[p].m = call[p].m
  BY DEF CrossedMovers
<1> QED
  BY <1>1, <1>2 DEF InMotion

LEMMA OneCall ==
    ASSUME NEW p \in Tracees, ~Mover(p), ~Mover(p)', \A q \in Tracees \ {p} : call'[q] = call[q]
    PROVE  SameMovers
  BY DEF SameMovers

\* Steps that leave the mirror, and what is known to be amiss in it, as they were.
Undisturbed ==
  \/ Pushes \/ Refuses \/ Lists \/ Fetches \/ BeginsRemoteExec \/ FlushesFinal
  \/ \E p \in Tracees : Stopping(p) \/ Opens(p) \/ ReleasesStalled(p) \/ Changes(p) \/ Returns(p)
  \/ \E p \in Tracees : call[p].op # "edit" /\ Uses(p)
  \/ \E p \in Tracees, n \in Names : Replays /\ Busy(p) /\ Unsent(p, n)
  \/ UNCHANGED mirror

WritesHere(p, names) ==
  /\ Writer(p) /\ call[p].at \in {"let", "open"} /\ Wrote(p, names)
  /\ names = call[p].n \/ (call[p].at = "open" /\ names = call[p].fd)
  /\ call'[p] = NoCall /\ \A q \in Tracees \ {p} : call'[q] = call[q]
  /\ UNCHANGED <<remote, files, candidates, fresh, work, newest, reached, strayed>>

SendsAway(p, n) == Replays /\ Busy(p) /\ call[p].n = {n} /\ Sent(p, n)
                /\ call[p].op \in {"unlink", "rename"}

LEMMA StepKinds ==
    ASSUME Structured, [MirrorNext]_mirror
    PROVE  \/ Undisturbed \/ Pushed \/ Applies \/ Replaces
           \/ \E p \in Tracees, n \in Names : SendsAway(p, n)
           \/ \E p \in Tracees, names \in SUBSET Names : WritesHere(p, names)
           \/ \E p \in Tracees : Moves(p)
<1> USE DEF Structured
<1>1. ASSUME NEW p \in Tracees, Uses(p)
      PROVE  Undisturbed \/ \E names \in SUBSET Names : WritesHere(p, names)
  <2>1. CASE call[p].op # "edit"
    BY <1>1, <2>1 DEF Undisturbed
  <2>2. CASE call[p].op = "edit"
    <3>1. call[p].fd \in SUBSET Names
      BY DEF MirrorTypeOK, SystemCall
    <3>2. WritesHere(p, call[p].fd)
      BY <1>1, <2>2, UsesOn DEF WritesHere, Writer
    <3> QED
      BY <3>1, <3>2
  <2> QED
    BY <2>1, <2>2
<1>2. ASSUME NEW p \in Tracees, Overwrites(p)
      PROVE  \E names \in SUBSET Names : WritesHere(p, names)
  <2>1. call[p].n \in SUBSET Names
    BY DEF MirrorTypeOK, SystemCall
  <2>2. WritesHere(p, call[p].n)
    BY <1>2, OverwritesOn DEF WritesHere, Writer
  <2> QED
    BY <2>1, <2>2
<1>3. ASSUME Replays
      PROVE  Undisturbed \/ \E p \in Tracees, n \in Names : SendsAway(p, n)
  <2>1. PICK p \in Tracees, n \in Names :
          /\ Busy(p) /\ call[p].n = {n} /\ call[p].op \in {"unlink", "rename"}
          /\ Unsent(p, n) \/ Sent(p, n)
    BY <1>3, ReplaysOn
  <2> QED
    BY <1>3, <2>1 DEF Undisturbed, SendsAway
<1> QED
  BY <1>1, <1>2, <1>3, MirrorSteps DEF Undisturbed

LEMMA QuietOn ==
    ASSUME Structured, [MirrorNext]_mirror, Undisturbed
    PROVE  /\ UNCHANGED <<local, files, exposed, strayed>> /\ SameMovers
           /\ candidates \subseteq candidates'
           /\ candidates' = candidates \/ work.stage = "off"
<1> USE DEF Structured
<1>1. ASSUME UNCHANGED call PROVE SameMovers
  BY <1>1 DEF SameMovers
<1>2. CASE Pushes \/ Lists \/ FlushesFinal \/ UNCHANGED mirror
  BY <1>1, <1>2, PushesOn, ListsOn, FlushesFinalOn DEF mirror
<1>3. CASE Refuses \/ BeginsRemoteExec \/ Fetches
  <2>1. \A q \in Tracees : q \in work.p => call[q].at = "stopped"
    BY DEF HandlerOK, Busy, Its
  <2>2. /\ UNCHANGED <<local, files, exposed, strayed, candidates>>
        /\ \A q \in Tracees : \/ call'[q] = call[q]
                              \/ call'[q] = NoCall /\ q \in work.p
                              \/ call'[q] = [call[q] EXCEPT !.at = "parked"] /\ q \in work.p
    BY <1>3, RefusesOn, BeginsOn, FetchesOn
  <2>3. \A q \in Tracees : [call[q] EXCEPT !.at = "parked"].at = "parked"
    BY DEF MirrorTypeOK, SystemCall
  <2> QED
    BY <2>1, <2>2, <2>3, NoCallFields DEF SameMovers, Mover
<1>4. ASSUME NEW p \in Tracees, Stopping(p)
      PROVE  /\ UNCHANGED <<local, files, exposed, strayed>> /\ SameMovers
             /\ candidates \subseteq candidates' /\ work.stage = "off"
  <2>1. PICK op \in Ops, n \in SUBSET Names, m \in SUBSET Names, v \in {0, 1} :
          Stops(p, op, n, m, v)
    BY <1>4 DEF Stopping
  <2>2. /\ UNCHANGED <<local, files, exposed, strayed>> /\ call[p].at = "idle" /\ work.stage = "off"
        /\ \A q \in Tracees \ {p} : call'[q] = call[q]
    BY <2>1, StopsFrame
  <2>3. PICK c \in SystemCall, w \in Handler : Halts(p, op, n, m, v, c, w)
    BY Zenon, <2>1, StopsOn
  <2>4. candidates \subseteq candidates'
    BY <2>3 DEF Halts, ToFlush, ToFetch, ToLet
  <2>5. ~Mover(p)'
    <3>1. ComesTo(p)
      BY StepGoes
    <3> QED
      BY <2>2, <3>1, NoCallFields DEF ComesTo, New, Through, Opened, Stays, Mover
  <2> QED
    BY <2>2, <2>4, <2>5, OneCall DEF Mover
<1>5. ASSUME NEW p \in Tracees, Opens(p)
      PROVE  /\ UNCHANGED <<local, files, exposed, strayed, candidates>> /\ SameMovers
  <2>1. [call[p] EXCEPT !.at = "open", !.fd = There(p)].at = "open"
    BY DEF MirrorTypeOK, SystemCall
  <2> QED
    BY <1>5, <2>1, OpensOn, NoCallFields, OneCall DEF Mover
<1>6. ASSUME NEW p \in Tracees, ReleasesStalled(p) \/ Changes(p) \/ Returns(p)
      PROVE  /\ UNCHANGED <<local, files, exposed, strayed, candidates>> /\ SameMovers
  <2>1. [call[p] EXCEPT !.at = "done"].at = "done"
    BY DEF MirrorTypeOK, SystemCall
  <2> QED
    BY <1>1, <1>6, <2>1, ReleasesOn, ChangesOn, ReturnsOn, NoCallFields, OneCall DEF Mover
<1>7. ASSUME NEW p \in Tracees, call[p].op # "edit", Uses(p)
      PROVE  /\ UNCHANGED <<local, files, exposed, strayed, candidates>> /\ SameMovers
  BY <1>7, UsesOn, NoCallFields, OneCall DEF Mover
<1>8. ASSUME NEW p \in Tracees, NEW n \in Names, Replays, Busy(p), Unsent(p, n)
      PROVE  /\ UNCHANGED <<local, files, exposed, strayed, candidates>> /\ SameMovers
  BY <1>8, ReplaysOn, NoCallFields, OneCall DEF Unsent, Mover, Busy, Its
<1> QED
  BY <1>2, <1>3, <1>4, <1>5, <1>6, <1>7, <1>8 DEF Undisturbed

LEMMA TouchedMover ==
    ASSUME NEW p, Touched(call[p], call'[p])
    PROVE  /\ Mover(p)' <=> Mover(p)
           /\ Mover(p) => call'[p].crossed /\ call'[p].n = call[p].n /\ call'[p].m = call[p].m
  BY DEF Touched, SameCall, Mover

LEMMA SupervisedOn ==
    ASSUME Structured, [MirrorNext]_mirror, Pushed \/ Applies \/ Replaces
    PROVE  CrossedMovers /\ UNCHANGED <<exposed, strayed, remote, reached>>
<1> USE DEF Structured
<1>1. ~Replays
  BY ReplaysOn, PushedOn, AppliesOn, ReplacesOn DEF Flushed
<1>2. \A p \in Tracees : Mover(p)' => Mover(p)
  BY <1>1, StayMovers
<1>3. ASSUME NEW p \in Tracees, Mover(p) PROVE Touched(call[p], call'[p])
  <2>1. CASE Pushed
    BY <2>1, PushedOn, CrossesOn
  <2>2. CASE Applies
    <3>1. PICK r \in Tracees, calls \in [Tracees -> SystemCall] :
                /\ Busy(r) /\ calls = Cuts(Crosses, Vanished)
                /\ \A q \in Tracees \ {r} : call'[q] = calls[q]
      BY <2>2, AppliesOn
    <3>2. p # r
      BY <1>3, <3>1 DEF Mover, Busy, Its
    <3> QED
      BY <3>1, <3>2, CrossesOn
  <2>3. CASE Replaces
    <3>1. PICK r \in Tracees, calls \in [Tracees -> SystemCall] :
                /\ Busy(r) /\ calls = Cuts(Crosses, work.n)
                /\ \A q \in Tracees \ {r} : call'[q] = calls[q]
      BY <2>3, ReplacesOn
    <3>2. p # r
      BY <1>3, <3>1 DEF Mover, Busy, Its
    <3> QED
      BY <3>1, <3>2, CrossesOn
  <2> QED
    BY <2>1, <2>2, <2>3
<1>4. CrossedMovers
  BY <1>2, <1>3, TouchedMover DEF CrossedMovers
<1> QED
  BY <1>4, PushedOn, AppliesOn, ReplacesOn

\* What has been sent to the target is on its way here too.
LEMMA SendsOn ==
    ASSUME Structured, NEW p \in Tracees, NEW n \in Names, SendsAway(p, n)
    PROVE  /\ \A x : InMotion(x) => InMotion(x)'
           /\ \A x \in {n} \cup call[p].m : InMotion(x)'
           /\ Mover(p)' /\ call'[p].n = {n} /\ call'[p].m = call[p].m
           /\ call'[p].crossed = call[p].crossed
           /\ AtHand(p) /\ ~Mover(p) /\ n \notin call[p].m /\ call[p].m \subseteq Names
           /\ \A q \in Tracees \ {p} : Mover(q)' => Mover(q) /\ call'[q].crossed
           /\ UNCHANGED <<local, exposed, strayed, fresh>> /\ work' = Off /\ Flushed("replay")
<1> USE DEF Structured
<1>1. /\ Replays /\ call[p].at = "stopped" /\ call[p].n = {n} /\ Sent(p, n)
      /\ call[p].op \in {"unlink", "rename"} /\ call[p] \in SystemCall
  BY DEF SendsAway, Busy, Its, MirrorTypeOK
<1>2. /\ Mover(p)' /\ call'[p].n = {n} /\ call'[p].m = call[p].m
      /\ call'[p].crossed = call[p].crossed
  BY <1>1 DEF Sent, SystemCall, Mover
<1>3. \A q \in Tracees \ {p} : Touched(call[q], call'[q])
  BY <1>1, CrossesOn DEF Sent
<1>4. \A q \in Tracees \ {p} :
        /\ Mover(q)' <=> Mover(q)
        /\ Mover(q) => call'[q].crossed /\ call'[q].n = call[q].n /\ call'[q].m = call[q].m
  BY <1>3, TouchedMover
<1>5. ~Mover(p) /\ AtHand(p)
  BY <1>1 DEF Mover, AtHand
<1>6. ASSUME NEW x, InMotion(x) PROVE InMotion(x)'
  BY <1>4, <1>5, <1>6 DEF InMotion
<1>7. \A x \in {n} \cup call[p].m : InMotion(x)'
  BY <1>2 DEF InMotion
<1>8. n \notin call[p].m /\ call[p].m \subseteq Names
  BY <1>1 DEF Sent, SystemCall
<1>9. UNCHANGED <<local, exposed, strayed, fresh>> /\ work' = Off /\ Flushed("replay")
  BY <1>1, ReplaysOn
<1> QED
  BY <1>2, <1>4, <1>5, <1>6, <1>7, <1>8, <1>9

\* What has been moved here is in motion no more, by that call.
LEMMA MovedOn ==
    ASSUME Structured, Crossing, NEW p \in Tracees, Moves(p)
    PROVE  /\ \A x : x \notin call[p].n \cup call[p].m /\ InMotion(x) => InMotion(x)'
           /\ \A q \in Tracees : Mover(q)' => Mover(q) /\ call'[q].crossed
           /\ Mover(p) /\ UNCHANGED <<exposed, files, candidates, remote, fresh, work>>
<1> USE DEF Structured
<1>1. /\ Mover(p) /\ call'[p] = NoCall /\ UNCHANGED <<exposed, files, candidates, remote, fresh, work>>
      /\ \A q \in Tracees \ {p} :
           call'[q] = call[q] \/ \E d \in SUBSET Names : call'[q] = [call[q] EXCEPT !.fd = d]
  BY MovesOn DEF Mover
<1>2. ASSUME NEW q \in Tracees \ {p}
      PROVE  /\ Mover(q)' <=> Mover(q)
             /\ call'[q].n = call[q].n /\ call'[q].m = call[q].m
             /\ call'[q].crossed = call[q].crossed
  <2>1. CASE call'[q] = call[q]
    BY <2>1 DEF Mover
  <2>2. CASE \E d \in SUBSET Names : call'[q] = [call[q] EXCEPT !.fd = d]
    <3>1. SameCall(call[q], call'[q]) /\ call'[q].at = call[q].at /\ call'[q].crossed = call[q].crossed
      BY <2>2 DEF SameCall, MirrorTypeOK, SystemCall
    <3> QED
      BY <3>1 DEF SameCall, Mover
  <2> QED
    BY <1>1, <2>1, <2>2
<1>3. \A q \in Tracees : Mover(q)' => Mover(q) /\ call'[q].crossed
  <2>1. ~Mover(p)'
    BY <1>1, NoCallFields DEF Mover
  <2>2. ASSUME NEW q \in Tracees \ {p}, Mover(q) PROVE call[q].crossed
    <3>1. AtHand(q)
      BY <2>2 DEF Mover, AtHand
    <3> QED
      BY <1>1, <3>1 DEF Crossing
  <2> QED
    BY <1>2, <2>1, <2>2
<1>4. ASSUME NEW x, x \notin call[p].n \cup call[p].m, InMotion(x) PROVE InMotion(x)'
  BY <1>2, <1>4 DEF InMotion
<1> QED
  BY <1>1, <1>3, <1>4

-----------------------------------------------------------------------------
(* The zeroes of a placeholder are dirty for what they are.                *)

\* A placeholder here is in the books as one, but where a write or a change of names that
\* nothing looks after has come between; also while a name is on its way.
HoleKnown ==
  \A n \in Names : local[n].hole /\ ~Astray(n) /\ ~InMotion(n) =>
    Lacks(files, n) /\ files[n].own = local[n].v
MoverKnown ==
  \A p \in Tracees : Mover(p) /\ ~call[p].crossed =>
    \A n \in call[p].n, x \in call[p].m : local[n].hole /\ ~Astray(n) =>
      Lacks(files, x) /\ files[x].own = local[n].v
PushedHole ==
  work.stage = "pushed" =>
    \A n \in DOMAIN work.list : local[n].hole => Astray(n) \/ InMotion(n)
HInv == HoleKnown /\ MoverKnown /\ PushedHole

LEMMA ListedNat ==
    ASSUME MirrorTypeOK, HandlerOK, work.stage = "apply"
    PROVE  \A n \in Names : work.list[n] \in Nat
<1>1. \A n \in Names : work.list[n] \in reached \cup {Gone}
  BY DEF HandlerOK
<1>2. \A v \in reached \cup {Gone} : v \in Nat
  BY DEF MirrorTypeOK, Gone
<1> QED
  BY ONLY <1>1, <1>2

LEMMA LacksSame == ASSUME NEW n, files'[n] = files[n] PROVE Lacks(files, n)' <=> Lacks(files, n)
  BY DEF Lacks

LEMMA ExposedBusy == ASSUME NEW p, NEW names, work.stage # "off" PROVE Exposed(p, names)
  BY DEF Exposed

\* A write either is looked after, and then fills no zeroes, or is said not to be.
LEMMA WrittenHole ==
    ASSUME NEW p, NEW names \in SUBSET Names, WritesHere(p, names), NEW n \in names
    PROVE  Astray(n)' \/ (~local'[n].hole /\ work.stage = "off" /\ ~call[p].crossed)
<1>1. CASE Exposed(p, names)
  BY <1>1 DEF WritesHere, Wrote, Astray
<1>2. CASE ~Exposed(p, names)
  BY <1>2 DEF WritesHere, Wrote, Exposed
<1> QED
  BY <1>1, <1>2

LEMMA WritesOf ==
    ASSUME NEW p \in Tracees, NEW names, WritesHere(p, names)
    PROVE  SameMovers /\ exposed \subseteq exposed' /\ ~Mover(p)
  BY OneCall, NoCallFields DEF WritesHere, Wrote, Writer, Mover

LEMMA StepHoleKnown ==
    ASSUME Structured, Crossing, HInv, [MirrorNext]_mirror
    PROVE  HoleKnown'
<1> USE DEF Structured
<1> SUFFICES ASSUME NEW n \in Names, local'[n].hole, ~Astray(n)', ~InMotion(n)'
             PROVE  Lacks(files', n) /\ files'[n].own = local'[n].v
  BY DEF HoleKnown, Lacks
<1>0. ASSUME local[n].hole, ~Astray(n), ~InMotion(n), files'[n] = files[n], local'[n] = local[n]
      PROVE  Lacks(files', n) /\ files'[n].own = local'[n].v
  BY <1>0 DEF HInv, HoleKnown, Lacks
<1>1. CASE Undisturbed
  BY <1>0, <1>1, QuietOn, SameMotion DEF Astray
<1>2. CASE Pushed
  <2>1. PICK m \in Names :
          DOMAIN work.list = {m} /\ \A x \in Names \ {m} : files'[x] = files[x]
    BY <1>2, PushedOn
  <2>2. local' = local /\ work.stage = "pushed" /\ UNCHANGED <<exposed, strayed>>
    BY <1>2, PushedOn
  <2>3. ~Astray(n) /\ ~InMotion(n)
    BY <1>2, <2>2, SupervisedOn, CrossedMotion DEF Astray
  <2>4. n # m
    BY <2>1, <2>2, <2>3 DEF HInv, PushedHole
  <2> QED
    BY <1>0, <2>1, <2>2, <2>3, <2>4
<1>3. CASE Applies
  <2>1. /\ work.stage = "apply" /\ UNCHANGED <<exposed, strayed>>
        /\ \A x \in Vanished : local'[x] = Nothing /\ files'[x] = Unknown
        /\ \A x \in Arrived : /\ local'[x].v = work.list[x] /\ local'[x].hole = TRUE
                              /\ files'[x].seen = work.list[x] /\ files'[x].own = work.list[x]
                              /\ files'[x].present = FALSE
        /\ \A x \in Names \ (Vanished \cup Arrived) : local'[x] = local[x] /\ files'[x] = files[x]
    BY <1>3, AppliesOn
  <2>2. ASSUME n \in Arrived PROVE work.list[n] > Gone
    <3>1. work.list[n] # 0
      BY <2>2 DEF Arrived, Gone
    <3>2. \A x \in Names : work.list[x] \in Nat
      BY <2>1, ListedNat
    <3> QED
      BY <3>1, <3>2 DEF Gone
  <2>3. CASE n \in Arrived
    BY <2>1, <2>2, <2>3 DEF Lacks
  <2>4. CASE n \in Vanished
    BY <2>1, <2>4, NothingFields
  <2>5. CASE n \notin Arrived \cup Vanished
    BY <1>0, <1>3, <2>1, <2>5, SupervisedOn, CrossedMotion DEF Astray
  <2> QED
    BY <2>3, <2>4, <2>5
<1>4. CASE Replaces
  <2>1. /\ \A x \in work.n : local'[x].hole = FALSE
        /\ \A x \in Names \ work.n : local'[x] = local[x] /\ files'[x] = files[x]
    BY <1>4, ReplacesOn
  <2>2. UNCHANGED <<exposed, strayed>> /\ ~InMotion(n) /\ n \notin work.n
    BY <1>4, <2>1, SupervisedOn, CrossedMotion
  <2> QED
    BY <1>0, <2>1, <2>2 DEF Astray
<1>5. ASSUME NEW p \in Tracees, NEW m \in Names, SendsAway(p, m)
      PROVE  Lacks(files', n) /\ files'[n].own = local'[n].v
  <2>1. n \notin {m} \cup call[p].m /\ ~InMotion(n) /\ UNCHANGED <<local, exposed, strayed>>
    BY <1>5, SendsOn
  <2>2. files'[n] = files[n]
    BY <1>5, <2>1 DEF SendsAway, Sent
  <2> QED
    BY <1>0, <2>1, <2>2 DEF Astray
<1>6. ASSUME NEW p \in Tracees, NEW names \in SUBSET Names, WritesHere(p, names)
      PROVE  Lacks(files', n) /\ files'[n].own = local'[n].v
  <2>1. n \notin names
    BY <1>6, WrittenHole
  <2>2. local'[n] = local[n] /\ files' = files /\ strayed' = strayed
    BY <1>6, <2>1 DEF WritesHere, Wrote
  <2>3. ~InMotion(n) /\ exposed \subseteq exposed'
    BY <1>6, WritesOf, SameMotion
  <2> QED
    BY <1>0, <2>2, <2>3 DEF Astray
<1>7. ASSUME NEW p \in Tracees, Moves(p)
      PROVE  Lacks(files', n) /\ files'[n].own = local'[n].v
  <2>1. PICK m \in Names :
          /\ call[p].n = {m}
          /\ \A x \in Names \ (call[p].m \cup {m}) : local'[x] = local[x]
          /\ \/ {m} \cup call[p].m \subseteq strayed'
             \/ /\ local'[m] = Nothing /\ \A x \in call[p].m : local'[x] = local[m]
                /\ ~call[p].crossed /\ m \notin strayed
    BY <1>7, MovesOn
  <2>2. strayed \subseteq strayed' /\ exposed' = exposed /\ files' = files /\ Mover(p)
    BY <1>7, MovesOn, MovedOn
  <2>3. CASE n \notin call[p].m \cup {m}
    <3>1. ~InMotion(n)
      BY <1>7, <2>1, <2>3, MovedOn
    <3> QED
      BY <1>0, <2>1, <2>2, <2>3, <3>1 DEF Astray
  <2>4. CASE n \in call[p].m \cup {m}
    <3>1. local'[m] = Nothing /\ ~call[p].crossed /\ m \notin strayed
            /\ \A x \in call[p].m : local'[x] = local[m]
      BY <2>1, <2>4 DEF Astray
    <3>2. n \in call[p].m /\ local'[n] = local[m]
      BY <2>4, <3>1, NothingFields
    <3>3. ~Astray(m) /\ local[m].hole
      BY <2>2, <3>1, <3>2 DEF Astray
    <3>4. Lacks(files, n) /\ files[n].own = local[m].v
      BY <2>1, <2>2, <3>1, <3>2, <3>3 DEF HInv, MoverKnown
    <3> QED
      BY <2>2, <3>2, <3>4
  <2> QED
    BY <2>3, <2>4
<1> QED
  BY <1>1, <1>2, <1>3, <1>4, <1>5, <1>6, <1>7, StepKinds

LEMMA StepMoverKnown ==
    ASSUME Structured, Crossing, HInv, [MirrorNext]_mirror
    PROVE  MoverKnown'
<1> USE DEF Structured
<1> SUFFICES ASSUME NEW p \in Tracees, Mover(p)', ~call'[p].crossed,
                    NEW n \in call'[p].n, NEW x \in call'[p].m, local'[n].hole, ~Astray(n)'
             PROVE  Lacks(files', x) /\ files'[x].own = local'[n].v
  BY DEF MoverKnown, Lacks
<1>0. ASSUME Mover(p), call'[p] = call[p], files' = files, local'[n] = local[n], ~Astray(n)
      PROVE  Lacks(files', x) /\ files'[x].own = local'[n].v
  BY <1>0 DEF HInv, MoverKnown
<1>1. CASE Undisturbed
  <2>1. Mover(p) /\ call'[p] = call[p] /\ UNCHANGED <<local, files, exposed, strayed>>
    BY <1>1, QuietOn DEF SameMovers, Mover
  <2> QED
    BY <1>0, <2>1 DEF Astray
<1>2. CASE Pushed \/ Applies \/ Replaces
  BY <1>2, SupervisedOn DEF CrossedMovers
<1>3. ASSUME NEW q \in Tracees, NEW m \in Names, SendsAway(q, m)
      PROVE  Lacks(files', x) /\ files'[x].own = local'[n].v
  <2>1. p = q
    BY <1>3, SendsOn
  <2>2. /\ n = m /\ x \in call[p].m /\ ~call[p].crossed /\ AtHand(p) /\ ~Mover(p)
        /\ UNCHANGED <<local, exposed, strayed>>
    BY <1>3, <2>1, SendsOn
  <2>3. ~InMotion(n)
    <3>1. \A r \in Tracees : ~Mover(r)
      BY <2>2 DEF Crossing
    <3> QED
      BY <3>1 DEF InMotion
  <2>4. Lacks(files, n) /\ files[n].own = local[n].v
    BY <2>2, <2>3 DEF HInv, HoleKnown, Astray
  <2>5. files'[x] = files[n]
    BY <1>3, <2>1, <2>2 DEF SendsAway, Sent
  <2> QED
    BY <2>2, <2>4, <2>5 DEF Lacks
<1>4. ASSUME NEW q \in Tracees, NEW names \in SUBSET Names, WritesHere(q, names)
      PROVE  Lacks(files', x) /\ files'[x].own = local'[n].v
  <2>1. Mover(p) /\ call'[p] = call[p] /\ exposed \subseteq exposed'
    BY <1>4, WritesOf DEF SameMovers, Mover
  <2>2. n \notin names
    BY <1>4, WrittenHole
  <2>3. local'[n] = local[n] /\ files' = files /\ strayed' = strayed
    BY <1>4, <2>1, <2>2 DEF WritesHere, Wrote, MirrorTypeOK, SystemCall
  <2> QED
    BY <1>0, <2>1, <2>3 DEF Astray
<1>5. ASSUME NEW q \in Tracees, Moves(q) PROVE FALSE
  BY <1>5, MovedOn
<1> QED
  BY <1>1, <1>2, <1>3, <1>4, <1>5, StepKinds

\* What has been pushed, listed or read is what it was until the supervisor uses it.
LEMMA StillWork ==
    ASSUME Structured, [MirrorNext]_mirror, work'.stage \in {"pushed", "apply", "replace"},
           ~Pushes, ~Lists, ~Fetches
    PROVE  work' = work
<1> USE DEF Structured
<1>1. ASSUME NEW p \in Tracees, Stopping(p) PROVE FALSE
  <2>1. PICK op \in Ops, m \in SUBSET Names, l \in SUBSET Names, v \in {0, 1} :
          Stops(p, op, m, l, v)
    BY <1>1 DEF Stopping
  <2>2. PICK c \in SystemCall, w \in Handler : Halts(p, op, m, l, v, c, w)
    BY Zenon, <2>1, StopsOn
  <2> QED
    BY <2>2, OffFields DEF Halts, ToFlush, ToFetch, ToLet, Handler
<1>2. CASE Applies
  <2>1. PICK w \in Handler :
          \/ ToFlush(w, candidates \ Vanished)
          \/ ToFetch(w, files', candidates \ Vanished)
          \/ ToLet(w, files', candidates \ Vanished)
    BY <1>2, AppliesOn
  <2> QED
    BY <2>1, OffFields DEF ToFlush, ToFetch, ToLet, Handler
<1>3. CASE Pushed \/ Refuses \/ Replaces \/ Replays \/ BeginsRemoteExec
            \/ FlushesFinal
  BY <1>3, PushedOn, RefusesOn, ReplacesOn, ReplaysOn, BeginsOn,
     FlushesFinalOn, OffFields
<1>4. ASSUME NEW p \in Tracees,
             \/ Opens(p) \/ Uses(p) \/ Overwrites(p) \/ Moves(p) \/ ReleasesStalled(p)
             \/ Changes(p) \/ Returns(p)
      PROVE work' = work
  BY <1>4, OpensOn, UsesOn, OverwritesOn, MovesOn, ReleasesOn, ChangesOn, ReturnsOn
<1>5. CASE UNCHANGED mirror
  BY <1>5 DEF mirror
<1> QED
  BY <1>1, <1>2, <1>3, <1>4, <1>5, MirrorSteps

LEMMA StepPushedHole ==
    ASSUME Structured, Crossing, HInv, [MirrorNext]_mirror
    PROVE  PushedHole'
<1> USE DEF Structured
<1>1. CASE Pushes
  <2>1. PICK n \in Names : Unpushed(n) /\ DOMAIN work'.list = {n}
    BY <1>1, PushesOn
  <2>2. UNCHANGED <<local, files, call, exposed, strayed>>
    BY <1>1, PushesOn
  <2>3. local[n].hole => Astray(n) \/ InMotion(n)
    BY <2>1 DEF HInv, HoleKnown, Unpushed
  <2>4. InMotion(n)' <=> InMotion(n)
    BY <2>2 DEF InMotion, Mover
  <2> QED
    BY <2>1, <2>2, <2>3, <2>4 DEF PushedHole, Astray
<1> SUFFICES ASSUME ~Pushes, work'.stage = "pushed", NEW n \in DOMAIN work'.list, local'[n].hole
             PROVE  Astray(n)' \/ InMotion(n)'
  BY <1>1 DEF PushedHole
<1>2. work' = work
  <2>1. ~Lists /\ ~Fetches
    BY ListsOn, FetchesOn, OffFields
  <2> QED
    BY <2>1, StillWork
<1>3. work.stage = "pushed" /\ n \in DOMAIN work.list /\ n \in Names
  BY <1>2 DEF HandlerOK
<1>4. local[n].hole => Astray(n) \/ InMotion(n)
  BY <1>3 DEF HInv, PushedHole
<1>5. CASE Undisturbed
  BY <1>4, <1>5, QuietOn, SameMotion DEF Astray
<1>6. CASE Pushed \/ Applies \/ Replaces
  BY <1>2, <1>3, <1>6, PushedOn, AppliesOn, ReplacesOn
<1>7. ASSUME NEW p \in Tracees, NEW m \in Names, SendsAway(p, m) PROVE FALSE
  BY <1>3, <1>7, SendsOn DEF Flushed
<1>8. ASSUME NEW p \in Tracees, NEW names \in SUBSET Names, WritesHere(p, names)
      PROVE  Astray(n)' \/ InMotion(n)'
  <2>1. CASE n \in names
    BY <1>3, <1>8, <2>1, WrittenHole
  <2>2. CASE n \notin names
    <3>1. local'[n] = local[n] /\ strayed' = strayed /\ exposed \subseteq exposed'
      BY <1>3, <1>8, <2>2 DEF WritesHere, Wrote
    <3> QED
      BY <1>4, <1>8, <3>1, WritesOf, SameMotion DEF Astray
  <2> QED
    BY <2>1, <2>2
<1>9. ASSUME NEW p \in Tracees, Moves(p) PROVE Astray(n)' \/ InMotion(n)'
  <2>1. PICK m \in Names :
          /\ call[p].n = {m}
          /\ \A x \in Names \ (call[p].m \cup {m}) : local'[x] = local[x]
          /\ {m} \cup call[p].m \subseteq strayed'
    BY <1>3, <1>9, MovesOn
  <2>2. strayed \subseteq strayed' /\ exposed' = exposed
    BY <1>9, MovesOn
  <2> QED
    BY <1>3, <1>4, <1>9, <2>1, <2>2, MovedOn DEF Astray
<1> QED
  BY <1>5, <1>6, <1>7, <1>8, <1>9, StepKinds

LEMMA StepHInv ==
    ASSUME Structured, Crossing, HInv, [MirrorNext]_mirror
    PROVE  HInv'
  BY StepHoleKnown, StepMoverKnown, StepPushedHole DEF HInv

LEMMA InitHInv == MirrorInit => HInv
<1> SUFFICES ASSUME MirrorInit PROVE HInv
  OBVIOUS
<1>1. \A n \in Names : local[n].hole = FALSE
  BY NothingFields DEF MirrorInit
<1>2. \A p \in Tracees : ~Mover(p)
  BY NoCallFields DEF MirrorInit, Mover
<1>3. work.stage = "off"
  BY OffFields DEF MirrorInit
<1> QED
  BY <1>1, <1>2, <1>3 DEF HInv, HoleKnown, MoverKnown, PushedHole

\* A file let through to be read or edited has its bytes here.
THEOREM BytesAreThere == MirrorSpec => []LetThroughWhole
<1>1. EInv /\ HInv => LetThroughWhole
  <2> SUFFICES ASSUME EInv, HInv, NEW p \in Tracees, call[p].at \in {"let", "open"},
                      call[p].op \in {"read", "edit"}, ~call[p].crossed,
                      NEW n \in (IF call[p].at = "open" THEN call[p].fd ELSE There(p)) \ strayed,
                      local[n].hole, local[n].v \notin exposed
               PROVE  FALSE
    BY DEF LetThroughWhole
  <2>1. n \in call[p].n
    BY DEF EInv, LetWhole, There
  <2>2. n \in Names /\ ~Astray(n)
    BY <2>1 DEF EInv, Structured, MirrorTypeOK, SystemCall, Astray
  <2>3. ~InMotion(n)
    <3>1. \A q \in Tracees : ~Mover(q)
      BY DEF EInv, Crossing, AtHand, Mover
    <3> QED
      BY <3>1 DEF InMotion
  <2>4. Lacks(files, n)
    BY <2>2, <2>3 DEF HInv, HoleKnown
  <2> QED
    BY <2>1, <2>4 DEF EInv, LetWhole
<1>2. EInv /\ HInv /\ [MirrorNext]_mirror => HInv'
  BY StepHInv DEF EInv
<1> QED
  BY <1>1, <1>2, InitHInv, EditsInvariant, PTL DEF MirrorSpec

-----------------------------------------------------------------------------
(* The listing, the books and the mirror agree, where no command runs.     *)

NoCommand == \A p \in Tracees : call[p].at \notin {"parked", "done"}

\* What the books say is here is what they say is there, but where a push met a write.
Books ==
  \A n \in Names : files[n].own # files[n].seen =>
    files[n].own \in exposed \/ n \in strayed \/ InMotion(n)
MoverBooks ==
  \A p \in Tracees : Mover(p) /\ ~call[p].crossed =>
    \A n \in call[p].n :
      /\ files[n].own = files[n].seen
      /\ \A x \in call[p].m : files[x].own # files[x].seen => files[x].own \in exposed \/ n \in strayed

\* What the supervisor was told of the target is still so.
Listed ==
  NoCommand /\ work.stage \in {"apply", "replace", "pushed"} =>
    \A n \in DOMAIN work.list : work.list[n] = remote[n]

\* What was pushed is what is here.
PushedIt ==
  work.stage = "pushed" => \A n \in DOMAIN work.list : local[n].v = work.list[n] \/ Astray(n)

\* What a flush has gone past needs no pushing.
Cleaned ==
  Flushing => \A n \in candidates \ work.left :
    Unpushed(n) => Astray(n) \/ InMotion(n) \/ n \in DOMAIN work.list

Agree(n) == local[n].v = remote[n] \/ (n \in candidates /\ Unpushed(n)) \/ Astray(n)
Agreed == fresh /\ NoCommand => \A n \in Names : Agree(n) \/ InMotion(n)
MoverAgree ==
  fresh /\ NoCommand /\ work.stage # "pushed" =>
    \A p \in Tracees : Mover(p) /\ ~call[p].crossed =>
      \A n \in call[p].n :
        remote[n] = Gone /\ \A x \in call[p].m : local[n].v = remote[x] \/ Astray(n)

AInv == Books /\ MoverBooks /\ Listed /\ PushedIt /\ Cleaned /\ Agreed /\ MoverAgree

LEMMA StrayedGrow ==
    ASSUME Structured, [MirrorNext]_mirror
    PROVE  exposed \subseteq exposed' /\ strayed \subseteq strayed'
<1>1. ASSUME NEW p \in Tracees, NEW names \in SUBSET Names, WritesHere(p, names)
      PROVE  exposed \subseteq exposed' /\ strayed \subseteq strayed'
  BY <1>1, WritesOf DEF WritesHere
<1>2. ASSUME NEW p \in Tracees, Moves(p)
      PROVE  exposed \subseteq exposed' /\ strayed \subseteq strayed'
  BY <1>2, MovesOn DEF Structured
<1>3. ASSUME NEW p \in Tracees, NEW n \in Names, SendsAway(p, n)
      PROVE  exposed \subseteq exposed' /\ strayed \subseteq strayed'
  BY <1>3, SendsOn
<1> QED
  BY <1>1, <1>2, <1>3, StepKinds, QuietOn, SupervisedOn

LEMMA AloneMover ==
    ASSUME Crossing, NEW p \in Tracees, AtHand(p), ~Mover(p), ~call[p].crossed
    PROVE  \A x : ~InMotion(x)
<1>1. \A r \in Tracees : ~Mover(r)
  BY DEF Crossing
<1> QED
  BY <1>1 DEF InMotion

LEMMA StepBooks ==
    ASSUME Structured, Crossing, AInv, [MirrorNext]_mirror
    PROVE  Books'
<1> USE DEF Structured
<1> SUFFICES ASSUME NEW n \in Names, files'[n].own # files'[n].seen, ~InMotion(n)'
             PROVE  files'[n].own \in exposed' \/ n \in strayed'
  BY DEF Books
<1>0. exposed \subseteq exposed' /\ strayed \subseteq strayed'
  BY StrayedGrow
<1>1. ASSUME files'[n] = files[n], ~InMotion(n)
      PROVE  files'[n].own \in exposed' \/ n \in strayed'
  BY <1>0, <1>1 DEF AInv, Books
<1>2. CASE Undisturbed
  BY <1>1, <1>2, QuietOn, SameMotion
<1>3. CASE Pushed
  <2>1. PICK m \in Names :
          /\ DOMAIN work.list = {m} /\ \A x \in Names \ {m} : files'[x] = files[x]
          /\ files'[m].seen = work.list[m] /\ files'[m].own = local[m].v
    BY <1>3, PushedOn
  <2>2. ~InMotion(n) /\ work.stage = "pushed"
    BY <1>3, SupervisedOn, CrossedMotion, PushedOn
  <2>3. CASE n = m
    <3>1. local[m].v = work.list[m] \/ Astray(m)
      BY <2>1, <2>2 DEF AInv, PushedIt
    <3> QED
      BY <1>0, <2>1, <2>3, <3>1 DEF Astray
  <2> QED
    BY <1>1, <2>1, <2>2, <2>3
<1>4. CASE Applies
  <2>1. /\ \A x \in Vanished : files'[x] = Unknown
        /\ \A x \in Arrived : files'[x].seen = work.list[x] /\ files'[x].own = work.list[x]
        /\ \A x \in Names \ (Vanished \cup Arrived) : files'[x] = files[x]
    BY <1>4, AppliesOn
  <2>2. ~InMotion(n)
    BY <1>4, SupervisedOn, CrossedMotion
  <2> QED
    BY <1>1, <2>1, <2>2, NothingFields
<1>5. CASE Replaces
  <2>1. /\ \A x \in work.n : files'[x].seen = work.list[x] /\ files'[x].own = work.list[x]
        /\ \A x \in Names \ work.n : files'[x] = files[x]
    BY <1>5, ReplacesOn
  <2>2. ~InMotion(n)
    BY <1>5, SupervisedOn, CrossedMotion
  <2> QED
    BY <1>1, <2>1, <2>2
<1>6. ASSUME NEW p \in Tracees, NEW m \in Names, SendsAway(p, m)
      PROVE  files'[n].own \in exposed' \/ n \in strayed'
  <2>1. n \notin {m} \cup call[p].m /\ ~InMotion(n)
    BY <1>6, SendsOn
  <2>2. files'[n] = files[n]
    BY <1>6, <2>1 DEF SendsAway, Sent
  <2> QED
    BY <1>1, <2>1, <2>2
<1>7. ASSUME NEW p \in Tracees, NEW names \in SUBSET Names, WritesHere(p, names)
      PROVE  files'[n].own \in exposed' \/ n \in strayed'
  <2>1. ~InMotion(n) /\ files' = files
    BY <1>7, WritesOf, SameMotion DEF WritesHere
  <2> QED
    BY <1>1, <2>1
<1>8. ASSUME NEW p \in Tracees, Moves(p)
      PROVE  files'[n].own \in exposed' \/ n \in strayed'
  <2>1. PICK m \in Names :
          /\ call[p].n = {m}
          /\ \/ {m} \cup call[p].m \subseteq strayed'
             \/ ~call[p].crossed /\ m \notin strayed
    BY <1>8, MovesOn
  <2>2. Mover(p) /\ files' = files /\ (n \notin call[p].n \cup call[p].m => ~InMotion(n))
    BY <1>8, MovedOn
  <2>3. CASE n \in {m} \cup call[p].m /\ ~call[p].crossed /\ m \notin strayed
    BY <1>0, <2>1, <2>2, <2>3 DEF AInv, MoverBooks
  <2> QED
    BY <1>1, <2>1, <2>2, <2>3
<1> QED
  BY <1>2, <1>3, <1>4, <1>5, <1>6, <1>7, <1>8, StepKinds

LEMMA StepMoverBooks ==
    ASSUME Structured, Crossing, AInv, [MirrorNext]_mirror
    PROVE  MoverBooks'
<1> USE DEF Structured
<1> SUFFICES ASSUME NEW p \in Tracees, Mover(p)', ~call'[p].crossed, NEW n \in call'[p].n
             PROVE  /\ files'[n].own = files'[n].seen
                    /\ \A x \in call'[p].m : files'[x].own # files'[x].seen =>
                         files'[x].own \in exposed' \/ n \in strayed'
  BY DEF MoverBooks
<1>0. exposed \subseteq exposed' /\ strayed \subseteq strayed'
  BY StrayedGrow
<1>1. ASSUME Mover(p), call'[p] = call[p], files' = files
      PROVE  /\ files'[n].own = files'[n].seen
             /\ \A x \in call'[p].m : files'[x].own # files'[x].seen =>
                  files'[x].own \in exposed' \/ n \in strayed'
  BY <1>0, <1>1 DEF AInv, MoverBooks
<1>2. CASE Undisturbed
  BY <1>1, <1>2, QuietOn DEF SameMovers, Mover
<1>3. CASE Pushed \/ Applies \/ Replaces
  BY <1>3, SupervisedOn DEF CrossedMovers
<1>4. ASSUME NEW q \in Tracees, NEW m \in Names, SendsAway(q, m)
      PROVE  /\ files'[n].own = files'[n].seen
             /\ \A x \in call'[p].m : files'[x].own # files'[x].seen =>
                  files'[x].own \in exposed' \/ n \in strayed'
  <2>1. p = q
    BY <1>4, SendsOn
  <2>2. /\ n = m /\ call'[p].m = call[p].m /\ ~call[p].crossed /\ AtHand(p) /\ ~Mover(p)
    BY <1>4, <2>1, SendsOn
  <2>3. ~InMotion(m)
    BY <2>2, AloneMover
  <2>4. files'[m] = Unknown /\ \A x \in call[p].m : files'[x] = files[m]
    BY <1>4, <2>1 DEF SendsAway, Sent
  <2>5. files[m].own # files[m].seen => files[m].own \in exposed \/ m \in strayed
    BY <2>3 DEF AInv, Books
  <2> QED
    BY <1>0, <2>2, <2>4, <2>5, NothingFields
<1>5. ASSUME NEW q \in Tracees, NEW names \in SUBSET Names, WritesHere(q, names)
      PROVE  Mover(p) /\ call'[p] = call[p] /\ files' = files
  BY <1>5, WritesOf DEF SameMovers, WritesHere, Mover
<1>6. ASSUME NEW q \in Tracees, Moves(q) PROVE FALSE
  BY <1>6, MovedOn
<1> QED
  BY <1>1, <1>2, <1>3, <1>4, <1>5, <1>6, StepKinds

\* A command is over once its process is released, and begun by BeginsRemoteExec alone.
LEMMA StepCommand ==
    ASSUME Structured, [MirrorNext]_mirror, NEW q \in Tracees, call[q].at \in {"parked", "done"},
           call'[q].at \notin {"parked", "done"}
    PROVE  ReleasesStalled(q)
<1> USE DEF Structured
<1>1. CASE Pushes \/ Lists \/ FlushesFinal \/ UNCHANGED mirror
  BY <1>1, PushesOn, ListsOn, FlushesFinalOn DEF mirror
<1>2. CASE Pushed
  BY <1>2, PushedOn, CrossesOn DEF Touched
<1>3. q \notin work.p
  BY DEF HandlerOK, Busy, Its
<1>4. CASE Refuses \/ BeginsRemoteExec \/ Fetches
  BY <1>3, <1>4, RefusesOn, BeginsOn, FetchesOn
<1>5. CASE Applies
  <2>1. PICK r \in Tracees, calls \in [Tracees -> SystemCall] :
                /\ Busy(r) /\ calls = Cuts(Crosses, Vanished)
                /\ \A p \in Tracees \ {r} : call'[p] = calls[p]
    BY <1>5, AppliesOn
  <2>2. q # r
    BY <1>3, <2>1 DEF Busy, Its
  <2> QED
    BY <2>1, <2>2, CrossesOn DEF Touched
<1>6. CASE Replaces
  <2>1. PICK r \in Tracees, calls \in [Tracees -> SystemCall] :
                /\ Busy(r) /\ calls = Cuts(Crosses, work.n)
                /\ \A p \in Tracees \ {r} : call'[p] = calls[p]
    BY <1>6, ReplacesOn
  <2>2. q # r
    BY <1>3, <2>1 DEF Busy, Its
  <2> QED
    BY <2>1, <2>2, CrossesOn DEF Touched
<1>7. CASE Replays
  <2>1. PICK p \in Tracees, n \in Names : Busy(p) /\ (Unsent(p, n) \/ Sent(p, n))
    BY <1>7, ReplaysOn
  <2>2. q # p
    BY <1>3, <2>1 DEF Busy, Its
  <2> QED
    BY <2>1, <2>2, CrossesOn DEF Touched, Unsent, Sent
<1>8. ASSUME NEW p \in Tracees, Stopping(p) PROVE FALSE
  <2>1. call[p].at = "idle" /\ \A r \in Tracees : r # p => call'[r] = call[r]
    BY <1>8, StopsFrame DEF Stopping
  <2> QED
    BY <2>1
<1>9. ASSUME NEW p \in Tracees, Opens(p) \/ Uses(p) \/ Overwrites(p) \/ Changes(p) PROVE FALSE
  BY <1>9, OpensOn, UsesOn, OverwritesOn, ChangesOn
<1>10. ASSUME NEW p \in Tracees, Moves(p) PROVE FALSE
  <2>1. q # p /\ (call'[q] = call[q] \/ \E d \in SUBSET Names : call'[q] = [call[q] EXCEPT !.fd = d])
    BY <1>10, MovesOn
  <2>2. call'[q].at = call[q].at
    BY <2>1 DEF MirrorTypeOK, SystemCall
  <2> QED
    BY <2>2
<1>11. ASSUME NEW p \in Tracees, Returns(p) PROVE FALSE
  <2>1. [call[p] EXCEPT !.at = "done"].at = "done"
    BY DEF MirrorTypeOK, SystemCall
  <2> QED
    BY <1>11, <2>1, ReturnsOn
<1>12. ASSUME NEW p \in Tracees, ReleasesStalled(p) PROVE ReleasesStalled(q)
  BY <1>12, ReleasesOn
<1> QED
  BY <1>1, <1>2, <1>4, <1>5, <1>6, <1>7, <1>8, <1>9, <1>10, <1>11, <1>12, MirrorSteps

LEMMA NoCommandBefore ==
    ASSUME Structured, [MirrorNext]_mirror, NoCommand', ~NoCommand
    PROVE  \E p \in Tracees : ReleasesStalled(p)
  BY StepCommand DEF NoCommand

\* Where no command runs, only what the supervisor pushes or sends changes the target.
LEMMA SameRemote ==
    ASSUME Structured, [MirrorNext]_mirror, NoCommand', ~Pushes,
           ~\E p \in Tracees, n \in Names : SendsAway(p, n)
    PROVE  remote' = remote
<1> USE DEF Structured
<1>1. ASSUME NEW p \in Tracees, Changes(p) PROVE FALSE
  BY <1>1, ChangesOn DEF NoCommand
<1>2. ASSUME NEW p \in Tracees, Stopping(p) PROVE remote' = remote
  BY <1>2, StopsFrame DEF Stopping
<1>3. ASSUME NEW p \in Tracees,
             Opens(p) \/ Uses(p) \/ Overwrites(p) \/ Moves(p) \/ ReleasesStalled(p) \/ Returns(p)
      PROVE  remote' = remote
  BY <1>3, OpensOn, UsesOn, OverwritesOn, MovesOn, ReleasesOn, ReturnsOn
<1>4. CASE \/ Pushed \/ Refuses \/ Lists \/ Applies \/ Fetches \/ Replaces \/ BeginsRemoteExec
           \/ FlushesFinal \/ UNCHANGED mirror
  BY <1>4, PushedOn, RefusesOn, ListsOn, AppliesOn, FetchesOn, ReplacesOn, BeginsOn,
     FlushesFinalOn DEF mirror
<1>5. CASE Replays
  <2>1. PICK p \in Tracees, n \in Names :
          /\ Busy(p) /\ call[p].n = {n} /\ call[p].op \in {"unlink", "rename"}
          /\ Unsent(p, n) \/ Sent(p, n)
    BY <1>5, ReplaysOn
  <2>2. Unsent(p, n)
    BY <1>5, <2>1 DEF SendsAway
  <2> QED
    BY <2>2 DEF Unsent
<1> QED
  BY <1>1, <1>2, <1>3, <1>4, <1>5, MirrorSteps

LEMMA StepListed ==
    ASSUME Structured, AInv, [MirrorNext]_mirror
    PROVE  Listed'
<1> USE DEF Structured
<1> SUFFICES ASSUME NoCommand', work'.stage \in {"apply", "replace", "pushed"},
                    NEW n \in DOMAIN work'.list
             PROVE  work'.list[n] = remote'[n]
  BY DEF Listed
<1>1. CASE Pushes
  BY <1>1, PushesOn
<1>2. CASE Lists
  BY <1>2, ListsOn
<1>3. CASE Fetches
  BY <1>3, FetchesOn, OffFields
<1>4. CASE ~Pushes /\ ~Lists /\ ~Fetches
  <2>1. work' = work
    BY <1>4, StillWork
  <2>2. ~\E p \in Tracees, m \in Names : SendsAway(p, m)
    BY SendsOn, OffFields
  <2>3. remote' = remote
    BY <1>4, <2>2, SameRemote
  <2>4. NoCommand
    BY <2>1, NoCommandBefore, ReleasesOn
  <2> QED
    BY <2>1, <2>3, <2>4 DEF AInv, Listed
<1> QED
  BY <1>1, <1>2, <1>3, <1>4

LEMMA StepPushedIt ==
    ASSUME Structured, Crossing, AInv, [MirrorNext]_mirror
    PROVE  PushedIt'
<1> USE DEF Structured
<1>1. CASE Pushes
  BY <1>1, PushesOn DEF PushedIt
<1> SUFFICES ASSUME ~Pushes, work'.stage = "pushed", NEW n \in DOMAIN work'.list
             PROVE  local'[n].v = work'.list[n] \/ Astray(n)'
  BY <1>1 DEF PushedIt
<1>2. work' = work
  <2>1. ~Lists /\ ~Fetches
    BY ListsOn, FetchesOn, OffFields
  <2> QED
    BY <2>1, StillWork
<1>3. work.stage = "pushed" /\ n \in DOMAIN work.list /\ n \in Names
  BY <1>2 DEF HandlerOK
<1>4. local[n].v = work.list[n] \/ Astray(n)
  BY <1>3 DEF AInv, PushedIt
<1>5. ASSUME local'[n] = local[n] PROVE local'[n].v = work'.list[n] \/ Astray(n)'
  BY <1>2, <1>4, <1>5, StrayedGrow DEF Astray
<1>6. CASE Undisturbed
  BY <1>5, <1>6, QuietOn
<1>7. CASE Pushed \/ Applies \/ Replaces
  BY <1>2, <1>3, <1>7, PushedOn, AppliesOn, ReplacesOn
<1>8. ASSUME NEW p \in Tracees, NEW m \in Names, SendsAway(p, m) PROVE FALSE
  BY <1>3, <1>8, SendsOn DEF Flushed
<1>9. ASSUME NEW p \in Tracees, NEW names \in SUBSET Names, WritesHere(p, names)
      PROVE  local'[n].v = work'.list[n] \/ Astray(n)'
  <2>1. CASE n \in names
    BY <1>3, <1>9, <2>1, WrittenHole
  <2>2. CASE n \notin names
    BY <1>3, <1>5, <1>9, <2>2 DEF WritesHere, Wrote
  <2> QED
    BY <2>1, <2>2
<1>10. ASSUME NEW p \in Tracees, Moves(p) PROVE local'[n].v = work'.list[n] \/ Astray(n)'
  <2>1. PICK m \in Names :
          /\ \A x \in Names \ (call[p].m \cup {m}) : local'[x] = local[x]
          /\ {m} \cup call[p].m \subseteq strayed'
    BY <1>3, <1>10, MovesOn
  <2> QED
    BY <1>3, <1>5, <2>1 DEF Astray
<1> QED
  BY <1>6, <1>7, <1>8, <1>9, <1>10, StepKinds

\* A flush begins with all that was noted, and goes past what needs no pushing.
LEMMA StepFlushing ==
    ASSUME Structured, [MirrorNext]_mirror, Flushing'
    PROVE  \/ work' = work \/ Pushes \/ Pushed \/ work'.left = candidates'
<1> USE DEF Structured
<1>1. ASSUME NEW p \in Tracees, Stopping(p) PROVE work'.left = candidates'
  <2>1. PICK op \in Ops, m \in SUBSET Names, l \in SUBSET Names, v \in {0, 1} :
          Stops(p, op, m, l, v)
    BY <1>1 DEF Stopping
  <2>2. PICK c \in SystemCall, w \in Handler : Halts(p, op, m, l, v, c, w)
    BY Zenon, <2>1, StopsOn
  <2> QED
    BY <2>2, OffFields DEF Halts, ToFlush, ToFetch, ToLet, Handler, Flushing
<1>2. CASE Applies
  <2>1. PICK w \in Handler :
          \/ ToFlush(w, candidates \ Vanished)
          \/ ToFetch(w, files', candidates \ Vanished)
          \/ ToLet(w, files', candidates \ Vanished)
    BY <1>2, AppliesOn
  <2> QED
    BY <2>1, OffFields DEF ToFlush, ToFetch, ToLet, Handler, Flushing
<1>3. CASE Refuses \/ Replaces \/ Replays \/ BeginsRemoteExec \/ Lists \/ Fetches
  BY <1>3, RefusesOn, ReplacesOn, ReplaysOn, BeginsOn, ListsOn, FetchesOn, OffFields DEF Flushing
<1>4. CASE FlushesFinal
  BY <1>4, FlushesFinalOn
<1>5. ASSUME NEW p \in Tracees,
             \/ Opens(p) \/ Uses(p) \/ Overwrites(p) \/ Moves(p) \/ ReleasesStalled(p)
             \/ Changes(p) \/ Returns(p)
      PROVE work' = work
  BY <1>5, OpensOn, UsesOn, OverwritesOn, MovesOn, ReleasesOn, ChangesOn, ReturnsOn
<1>6. CASE UNCHANGED mirror
  BY <1>6 DEF mirror
<1> QED
  BY <1>1, <1>2, <1>3, <1>4, <1>5, <1>6, MirrorSteps

LEMMA StepCleaned ==
    ASSUME Structured, Crossing, AInv, [MirrorNext]_mirror
    PROVE  Cleaned'
<1> USE DEF Structured
<1> SUFFICES ASSUME Flushing', NEW n \in candidates' \ work'.left, Unpushed(n)'
             PROVE  Astray(n)' \/ InMotion(n)' \/ n \in DOMAIN work'.list
  BY DEF Cleaned
<1>1. CASE work'.left = candidates'
  BY <1>1
<1>2. CASE Pushes
  <2>1. PICK m \in Names :
          /\ \A x \in work.left \ work'.left : x = m \/ ~Unpushed(x)
          /\ DOMAIN work'.list = {m}
    BY <1>2, PushesOn
  <2>2. UNCHANGED <<local, files, candidates, call, exposed, strayed>> /\ work.stage = "flush"
    BY <1>2, PushesOn
  <2>3. Unpushed(n)
    BY <2>2 DEF Unpushed
  <2>4. CASE n \in work.left
    BY <2>1, <2>3, <2>4
  <2>5. CASE n \notin work.left
    <3>1. Astray(n) \/ InMotion(n)
      BY <2>2, <2>3, <2>5, NoListDomain DEF AInv, Cleaned, Flushing, HandlerOK
    <3> QED
      BY <2>2, <3>1 DEF Astray, InMotion, Mover
  <2> QED
    BY <2>4, <2>5
<1>3. CASE Pushed
  <2>1. PICK m \in Names :
          /\ DOMAIN work.list = {m}
          /\ \A x \in Names \ {m} : files'[x] = files[x]
          /\ files'[m].own = local[m].v
    BY <1>3, PushedOn
  <2>2. /\ UNCHANGED <<local, candidates, exposed, strayed>> /\ work'.left = work.left
        /\ work.stage = "pushed"
    BY <1>3, PushedOn
  <2>3. n # m
    BY <2>1, <2>2 DEF Unpushed
  <2>4. Unpushed(n) /\ n \in Names
    BY <2>1, <2>2, <2>3 DEF Unpushed, MirrorTypeOK
  <2>5. Astray(n) \/ InMotion(n)
    BY <2>1, <2>2, <2>3, <2>4 DEF AInv, Cleaned, Flushing
  <2> QED
    BY <1>3, <2>2, <2>5, SupervisedOn, CrossedMotion DEF Astray
<1>4. CASE work' = work /\ ~Pushed
  <2>1. Flushing /\ work.stage # "off" /\ n \notin work.left /\ n \in Names
    BY <1>4, StepStructured DEF Flushing, MirrorTypeOK
  <2>2. ASSUME n \in candidates, Unpushed(n), InMotion(n) => InMotion(n)', local'[n] = local[n]
        PROVE  Astray(n)' \/ InMotion(n)' \/ n \in DOMAIN work'.list
    <3>1. Astray(n) \/ InMotion(n) \/ n \in DOMAIN work.list
      BY <2>1, <2>2 DEF AInv, Cleaned
    <3> QED
      BY <1>4, <2>2, <3>1, StrayedGrow DEF Astray
  <2>3. CASE Undisturbed
    <3>1. /\ UNCHANGED <<local, files>> /\ candidates' = candidates
          /\ InMotion(n) => InMotion(n)'
      BY <2>1, <2>3, QuietOn, SameMotion
    <3> QED
      BY <2>2, <3>1 DEF Unpushed
  <2>4. CASE Applies \/ Replaces
    BY <1>4, <2>1, <2>4, AppliesOn, ReplacesOn DEF Flushing
  <2>5. ASSUME NEW p \in Tracees, NEW m \in Names, SendsAway(p, m) PROVE FALSE
    BY <1>4, <2>1, <2>5, SendsOn, OffFields
  <2>6. ASSUME NEW p \in Tracees, NEW names \in SUBSET Names, WritesHere(p, names)
        PROVE  Astray(n)' \/ InMotion(n)' \/ n \in DOMAIN work'.list
    <3>1. CASE n \in names
      BY <2>1, <2>6, <3>1, WrittenHole
    <3>2. CASE n \notin names
      <4>1. local'[n] = local[n] /\ files' = files /\ candidates' = candidates
        BY <2>1, <2>6, <3>2 DEF WritesHere, Wrote
      <4>2. InMotion(n) => InMotion(n)'
        BY <2>6, WritesOf, SameMotion
      <4> QED
        BY <2>2, <4>1, <4>2 DEF Unpushed
    <3> QED
      BY <3>1, <3>2
  <2>7. ASSUME NEW p \in Tracees, Moves(p)
        PROVE  Astray(n)' \/ InMotion(n)' \/ n \in DOMAIN work'.list
    <3>1. PICK m \in Names :
            /\ call[p].n = {m}
            /\ \A x \in Names \ (call[p].m \cup {m}) : local'[x] = local[x]
            /\ {m} \cup call[p].m \subseteq strayed'
      BY <2>1, <2>7, MovesOn
    <3>2. CASE n \in {m} \cup call[p].m
      BY <3>1, <3>2 DEF Astray
    <3>3. CASE n \notin {m} \cup call[p].m
      <4>1. local'[n] = local[n] /\ files' = files /\ candidates' = candidates
        BY <2>1, <2>7, <3>1, <3>3, MovedOn
      <4>2. InMotion(n) => InMotion(n)'
        BY <2>7, <3>1, <3>3, MovedOn
      <4> QED
        BY <2>2, <4>1, <4>2 DEF Unpushed
    <3> QED
      BY <3>2, <3>3
  <2> QED
    BY <1>4, <2>3, <2>4, <2>5, <2>6, <2>7, StepKinds
<1> QED
  BY <1>1, <1>2, <1>3, <1>4, StepFlushing

\* A name that nothing has come between on agrees still.
LEMMA AgreeKept ==
    ASSUME Structured, [MirrorNext]_mirror, NEW n \in Names, Agree(n) \/ InMotion(n),
           local'[n] = local[n], files'[n] = files[n], remote'[n] = remote[n],
           n \in candidates => n \in candidates', InMotion(n) => InMotion(n)'
    PROVE  Agree(n)' \/ InMotion(n)'
  BY StrayedGrow DEF Agree, Astray, Unpushed

LEMMA StepFresh ==
    ASSUME Structured, [MirrorNext]_mirror, fresh', ~Applies
    PROVE  fresh /\ ~\E p \in Tracees : ReleasesStalled(p)
<1> USE DEF Structured
<1>1. ASSUME NEW p \in Tracees, ReleasesStalled(p) PROVE FALSE
  BY <1>1, ReleasesOn
<1>2. ASSUME NEW p \in Tracees, Stopping(p) PROVE fresh
  <2>1. PICK op \in Ops, n \in SUBSET Names, m \in SUBSET Names, v \in {0, 1} :
          Stops(p, op, n, m, v)
    BY <1>2 DEF Stopping
  <2>2. UNCHANGED <<remote, local, files, fresh, reached, exposed, strayed>>
    BY Zenon, <2>1 DEF Stops
  <2> QED
    BY Zenon, <2>2
<1>3. ASSUME NEW p \in Tracees,
             Opens(p) \/ Uses(p) \/ Overwrites(p) \/ Moves(p) \/ Changes(p) \/ Returns(p)
      PROVE  fresh
  BY <1>3, OpensOn, UsesOn, OverwritesOn, MovesOn, ChangesOn, ReturnsOn
<1>4. ASSUME \/ Pushes \/ Pushed \/ Refuses \/ Lists \/ Fetches \/ Replaces \/ Replays
           \/ BeginsRemoteExec \/ FlushesFinal \/ UNCHANGED mirror
      PROVE  fresh
  BY <1>4, PushesOn, PushedOn, RefusesOn, ListsOn, FetchesOn, ReplacesOn, ReplaysOn, BeginsOn,
     FlushesFinalOn DEF mirror
<1> QED
  BY <1>1, <1>2, <1>3, <1>4, MirrorSteps

\* A write that is looked after is of a file that is noted, and not as it is known.
LEMMA WrittenAgrees ==
    ASSUME Structured, Pending, LetWhole, NEW p \in Tracees, NEW names \in SUBSET Names,
           WritesHere(p, names), NEW n \in names
    PROVE  Agree(n)'
<1>1. CASE Astray(n)'
  BY <1>1 DEF Agree
<1>2. CASE ~Astray(n)'
  <2>1. ~call[p].crossed
    BY <1>2, WrittenHole
  <2>2. names \subseteq call[p].n /\ call[p].n \subseteq candidates
    BY <2>1 DEF WritesHere, Writer, LetWhole
  <2>3. local'[n].v = call[p].v /\ files' = files /\ candidates' = candidates
    BY DEF WritesHere, Wrote
  <2>4. call[p].v \notin Taken /\ call[p].v \in 0 .. newest
    BY DEF WritesHere, Pending
  <2>5. call[p].v > 0 /\ files[n].own # call[p].v
    <3>1. newest \in Nat
      BY DEF Structured, MirrorTypeOK
    <3>2. call[p].v # 0 /\ files[n].own # call[p].v
      BY <2>4, TakenOf
    <3> QED
      BY <2>4, <3>1, <3>2
  <2> QED
    BY <2>2, <2>3, <2>5 DEF Agree, Unpushed, Gone
<1> QED
  BY <1>1, <1>2

LEMMA StepAgreed ==
    ASSUME Structured, Pending, Crossing, LetWhole, AInv, [MirrorNext]_mirror
    PROVE  Agreed'
<1> USE DEF Structured
<1> SUFFICES ASSUME fresh', NoCommand', NEW n \in Names
             PROVE  Agree(n)' \/ InMotion(n)'
  BY DEF Agreed
<1>1. ASSUME Applies PROVE Agree(n)' \/ InMotion(n)'
  <2>1. /\ work.stage = "apply"
        /\ \A x \in Vanished : local'[x] = Nothing
        /\ \A x \in Arrived : local'[x].v = work.list[x]
        /\ \A x \in Names \ (Vanished \cup Arrived) : local'[x] = local[x]
        /\ UNCHANGED <<remote, exposed, strayed>>
    BY <1>1, AppliesOn
  <2>2. NoCommand
    BY <2>1, NoCommandBefore, ReleasesOn
  <2>3. work.list[n] = remote[n] /\ DOMAIN work.list = Names
    BY <2>1, <2>2 DEF AInv, Listed, HandlerOK
  <2>4. CASE n \in Vanished
    BY <2>1, <2>3, <2>4, NothingFields DEF Vanished, Agree, Gone
  <2>5. CASE n \in Arrived
    BY <2>1, <2>3, <2>5 DEF Agree
  <2>6. CASE n \notin Vanished \cup Arrived
    <3>1. CASE work.list[n] = Gone
      BY <2>1, <2>3, <2>6, <3>1 DEF Vanished, Agree
    <3>2. CASE work.list[n] # Gone
      <4>1. files[n].seen = remote[n] /\ local[n].v = files[n].own
        BY <2>3, <2>6, <3>2 DEF Arrived, Intact
      <4>2. CASE files[n].own = files[n].seen
        BY <2>1, <2>6, <4>1, <4>2 DEF Agree
      <4>3. CASE files[n].own # files[n].seen
        <5>1. files[n].own \in exposed \/ n \in strayed \/ InMotion(n)
          BY <4>3 DEF AInv, Books
        <5>2. InMotion(n) => InMotion(n)'
          BY <1>1, SupervisedOn, CrossedMotion
        <5> QED
          BY <2>1, <2>6, <4>1, <5>1, <5>2 DEF Agree, Astray
      <4> QED
        BY <4>2, <4>3
    <3> QED
      BY <3>1, <3>2
  <2> QED
    BY <2>4, <2>5, <2>6
<1> SUFFICES ASSUME ~Applies PROVE Agree(n)' \/ InMotion(n)'
  BY <1>1
<1>2. fresh /\ NoCommand
  BY StepFresh, NoCommandBefore
<1>3. Agree(n) \/ InMotion(n)
  BY <1>2 DEF AInv, Agreed
<1>4. CASE Pushes
  <2>1. PICK m \in Names :
          remote'[m] = local[m].v /\ \A x \in Names \ {m} : remote'[x] = remote[x]
    BY <1>4, PushesOn
  <2>2. UNCHANGED <<local, files, candidates, call>>
    BY <1>4, PushesOn
  <2>3. CASE n = m
    BY <2>1, <2>2, <2>3 DEF Agree
  <2>4. CASE n # m
    <3>1. InMotion(n) => InMotion(n)'
      BY <2>2 DEF InMotion, Mover
    <3> QED
      BY <1>3, <2>1, <2>2, <2>4, <3>1, AgreeKept
  <2> QED
    BY <2>3, <2>4
<1>5. CASE Pushed
  <2>1. PICK m \in Names :
          DOMAIN work.list = {m} /\ \A x \in Names \ {m} : files'[x] = files[x]
    BY <1>5, PushedOn
  <2>2. UNCHANGED <<local, candidates, remote>> /\ work.stage = "pushed"
    BY <1>5, PushedOn
  <2>3. InMotion(n) => InMotion(n)'
    BY <1>5, SupervisedOn, CrossedMotion
  <2>4. CASE n = m
    <3>1. work.list[n] = remote[n] /\ (local[n].v = work.list[n] \/ Astray(n))
      BY <1>2, <2>1, <2>2, <2>4 DEF AInv, Listed, PushedIt
    <3> QED
      BY <2>2, <3>1, StrayedGrow DEF Agree, Astray
  <2>5. CASE n # m
    BY <1>3, <2>1, <2>2, <2>3, <2>5, AgreeKept
  <2> QED
    BY <2>4, <2>5
<1>6. CASE Replaces
  <2>1. /\ work.stage = "replace" /\ remote' = remote
        /\ \A x \in work.n : local'[x].v = work.list[x]
        /\ \A x \in Names \ work.n : local'[x] = local[x] /\ files'[x] = files[x]
        /\ candidates \subseteq candidates'
    BY <1>6, ReplacesOn
  <2>2. CASE n \in work.n
    <3>1. work.list[n] = remote[n]
      BY <1>2, <2>1, <2>2 DEF AInv, Listed, HandlerOK
    <3> QED
      BY <2>1, <2>2, <3>1 DEF Agree
  <2>3. CASE n \notin work.n
    <3>1. InMotion(n) => InMotion(n)'
      BY <1>6, SupervisedOn, CrossedMotion
    <3> QED
      BY <1>3, <2>1, <2>3, <3>1, AgreeKept
  <2> QED
    BY <2>2, <2>3
<1>7. ASSUME NEW p \in Tracees, NEW m \in Names, SendsAway(p, m) PROVE Agree(n)' \/ InMotion(n)'
  <2>1. CASE n \in {m} \cup call[p].m
    BY <1>7, <2>1, SendsOn
  <2>2. CASE n \notin {m} \cup call[p].m
    <3>1. /\ remote'[n] = remote[n] /\ files'[n] = files[n]
          /\ n \in candidates => n \in candidates'
      BY <1>7, <2>2 DEF SendsAway, Sent
    <3>2. local' = local /\ (InMotion(n) => InMotion(n)')
      BY <1>7, SendsOn
    <3> QED
      BY <1>3, <3>1, <3>2, AgreeKept
  <2> QED
    BY <2>1, <2>2
<1>8. CASE Undisturbed /\ ~Pushes /\ ~\E p \in Tracees, m \in Names : SendsAway(p, m)
  <2>1. remote' = remote
    BY <1>8, SameRemote
  <2>2. UNCHANGED <<local, files>> /\ candidates \subseteq candidates'
    BY <1>8, QuietOn
  <2>3. InMotion(n) => InMotion(n)'
    BY <1>8, QuietOn, SameMotion
  <2> QED
    BY <1>3, <2>1, <2>2, <2>3, AgreeKept
<1>9. ASSUME NEW p \in Tracees, NEW names \in SUBSET Names, WritesHere(p, names)
      PROVE  Agree(n)' \/ InMotion(n)'
  <2>1. CASE n \in names
    BY <1>9, <2>1, WrittenAgrees
  <2>2. CASE n \notin names
    <3>1. local'[n] = local[n] /\ UNCHANGED <<files, candidates, remote>>
      BY <1>9, <2>2 DEF WritesHere, Wrote
    <3>2. InMotion(n) => InMotion(n)'
      BY <1>9, WritesOf, SameMotion
    <3> QED
      BY <1>3, <3>1, <3>2, AgreeKept
  <2> QED
    BY <2>1, <2>2
<1>10. ASSUME NEW p \in Tracees, Moves(p) PROVE Agree(n)' \/ InMotion(n)'
  <2>1. PICK m \in Names :
          /\ call[p].n = {m}
          /\ \A x \in Names \ (call[p].m \cup {m}) : local'[x] = local[x]
          /\ \/ {m} \cup call[p].m \subseteq strayed'
             \/ /\ local'[m] = Nothing /\ \A x \in call[p].m : local'[x] = local[m]
                /\ ~call[p].crossed /\ m \notin strayed /\ work.stage = "off"
    BY <1>10, MovesOn
  <2>2. Mover(p) /\ UNCHANGED <<files, remote, candidates, exposed>>
    BY <1>10, MovedOn
  <2>3. CASE n \notin {m} \cup call[p].m
    <3>1. InMotion(n) => InMotion(n)'
      BY <1>10, <2>1, <2>3, MovedOn
    <3> QED
      BY <1>3, <2>1, <2>2, <2>3, <3>1, AgreeKept
  <2>4. CASE n \in {m} \cup call[p].m /\ n \in strayed'
    BY <2>4 DEF Agree, Astray
  <2>5. CASE n \in {m} \cup call[p].m /\ n \notin strayed'
    <3>1. /\ local'[m] = Nothing /\ \A x \in call[p].m : local'[x] = local[m]
          /\ ~call[p].crossed /\ m \notin strayed /\ work.stage = "off"
      BY <2>1, <2>5
    <3>2. remote[m] = Gone /\ \A x \in call[p].m : local[m].v = remote[x] \/ Astray(m)
      BY <1>2, <2>1, <2>2, <3>1 DEF AInv, MoverAgree
    <3>3. CASE n = m /\ n \notin call[p].m
      BY <2>2, <3>1, <3>2, <3>3, NothingFields DEF Agree, Gone
    <3>4. CASE n \in call[p].m
      BY <2>2, <3>1, <3>2, <3>4 DEF Agree, Astray
    <3> QED
      BY <2>5, <3>3, <3>4
  <2> QED
    BY <2>3, <2>4, <2>5
<1> QED
  BY <1>4, <1>5, <1>6, <1>7, <1>8, <1>9, <1>10, StepKinds

LEMMA StepMoverAgree ==
    ASSUME Structured, Pending, Crossing, LetWhole, AInv, [MirrorNext]_mirror
    PROVE  MoverAgree'
<1> USE DEF Structured
<1> SUFFICES ASSUME fresh', NoCommand', work'.stage # "pushed", NEW p \in Tracees, Mover(p)',
                    ~call'[p].crossed, NEW n \in call'[p].n
             PROVE  remote'[n] = Gone /\ \A x \in call'[p].m : local'[n].v = remote'[x] \/ Astray(n)'
  BY DEF MoverAgree
<1>1. ~Pushed /\ ~Applies /\ ~Replaces
  BY SupervisedOn DEF CrossedMovers
<1>2. fresh /\ NoCommand
  BY <1>1, StepFresh, NoCommandBefore
<1>3. ~Pushes
  BY PushesOn
<1>4. work.stage # "pushed"
  <2>1. ASSUME NEW q \in Tracees, NEW m \in Names, SendsAway(q, m) PROVE work.stage # "pushed"
    BY <2>1, SendsOn DEF Flushed
  <2>2. CASE Refuses \/ Lists \/ Fetches \/ BeginsRemoteExec \/ FlushesFinal
    BY <2>2, RefusesOn, ListsOn, FetchesOn, BeginsOn, FlushesFinalOn DEF Flushed
  <2>3. ASSUME NEW q \in Tracees, Stopping(q) PROVE work.stage = "off"
    <3>1. PICK op \in Ops, ns \in SUBSET Names, m \in SUBSET Names, v \in {0, 1} :
            Stops(q, op, ns, m, v)
      BY <2>3 DEF Stopping
    <3> QED
      BY <3>1, StopsFrame
  <2>4. ASSUME NEW q \in Tracees,
               \/ Opens(q) \/ Uses(q) \/ Overwrites(q) \/ Moves(q) \/ ReleasesStalled(q)
               \/ Changes(q) \/ Returns(q)
        PROVE work' = work
    BY <2>4, OpensOn, UsesOn, OverwritesOn, MovesOn, ReleasesOn, ChangesOn, ReturnsOn
  <2>5. CASE UNCHANGED mirror
    BY <2>5 DEF mirror
  <2>6. CASE Replays
    BY <2>6, ReplaysOn DEF Flushed
  <2> QED
    BY <1>1, <1>3, <2>1, <2>2, <2>3, <2>4, <2>5, <2>6, MirrorSteps
<1>5. ASSUME Mover(p), call'[p] = call[p], remote' = remote, local'[n] = local[n]
      PROVE  remote'[n] = Gone /\ \A x \in call'[p].m : local'[n].v = remote'[x] \/ Astray(n)'
  BY <1>2, <1>4, <1>5, StrayedGrow DEF AInv, MoverAgree, Astray
<1>6. ASSUME NEW q \in Tracees, NEW m \in Names, SendsAway(q, m)
      PROVE  remote'[n] = Gone /\ \A x \in call'[p].m : local'[n].v = remote'[x] \/ Astray(n)'
  <2>1. p = q
    BY <1>6, SendsOn
  <2>2. /\ n = m /\ call'[p].m = call[p].m /\ ~call[p].crossed /\ AtHand(p) /\ ~Mover(p)
        /\ UNCHANGED <<local, exposed, strayed>> /\ Flushed("replay")
    <3>1. SendsAway(p, m)
      BY <1>6, <2>1
    <3>2. call'[p].n = {m}
      BY <3>1, SendsOn
    <3> QED
      BY <3>1, <3>2, SendsOn
  <2>3. ~InMotion(m)
    BY <2>2, AloneMover
  <2>4. remote'[m] = Gone /\ \A x \in call[p].m : remote'[x] = remote[m]
    BY <1>6, <2>1 DEF SendsAway, Sent
  <2>5. local[m].v = remote[m] \/ Astray(m)
    <3>1. Agree(m)
      BY <1>2, <2>3 DEF AInv, Agreed
    <3>2. ASSUME m \in candidates, Unpushed(m) PROVE Astray(m)
      BY <2>2, <2>3, <3>2, NoListDomain DEF AInv, Cleaned, Flushing, Flushed, HandlerOK
    <3> QED
      BY <3>1, <3>2 DEF Agree
  <2> QED
    BY <2>2, <2>4, <2>5 DEF Astray
<1>7. CASE Undisturbed /\ ~\E q \in Tracees, m \in Names : SendsAway(q, m)
  BY <1>3, <1>5, <1>7, QuietOn, SameRemote DEF SameMovers, Mover
<1>8. ASSUME NEW q \in Tracees, NEW names \in SUBSET Names, WritesHere(q, names)
      PROVE  remote'[n] = Gone /\ \A x \in call'[p].m : local'[n].v = remote'[x] \/ Astray(n)'
  <2>1. Mover(p) /\ call'[p] = call[p] /\ ~Mover(q) /\ remote' = remote
    BY <1>8, WritesOf DEF SameMovers, WritesHere, Mover
  <2>2. CASE n \in names
    <3>1. call[q].crossed
      BY <1>8, <2>1 DEF Crossing, AtHand, WritesHere, Writer
    <3>2. Astray(n)'
      BY <1>8, <2>2, <3>1, WrittenHole
    <3>3. remote[n] = Gone
      BY <1>2, <1>4, <2>1 DEF AInv, MoverAgree
    <3> QED
      BY <2>1, <3>2, <3>3
  <2>3. CASE n \notin names
    <3>1. local'[n] = local[n]
      BY <1>8, <2>1, <2>3 DEF WritesHere, Wrote, MirrorTypeOK, SystemCall
    <3> QED
      BY <1>5, <2>1, <3>1
  <2> QED
    BY <2>2, <2>3
<1>9. ASSUME NEW q \in Tracees, Moves(q) PROVE FALSE
  BY <1>9, MovedOn
<1> QED
  BY <1>1, <1>6, <1>7, <1>8, <1>9, StepKinds

LEMMA StepAInv ==
    ASSUME Structured, Pending, Crossing, LetWhole, AInv, [MirrorNext]_mirror
    PROVE  AInv'
<1>1. Books' /\ MoverBooks'
  BY StepBooks, StepMoverBooks
<1>2. Listed' /\ PushedIt' /\ Cleaned'
  BY StepListed, StepPushedIt, StepCleaned
<1>3. Agreed' /\ MoverAgree'
  BY StepAgreed, StepMoverAgree
<1> QED
  BY <1>1, <1>2, <1>3 DEF AInv

LEMMA InitAInv == MirrorInit => AInv
<1> SUFFICES ASSUME MirrorInit PROVE AInv
  OBVIOUS
<1>1. \A n \in Names : files[n].own = files[n].seen
  BY NothingFields DEF MirrorInit
<1>2. \A p \in Tracees : ~Mover(p)
  BY NoCallFields DEF MirrorInit, Mover
<1>3. work.stage = "off" /\ ~fresh
  BY OffFields DEF MirrorInit
<1> QED
  BY <1>1, <1>2, <1>3
     DEF AInv, Books, MoverBooks, Listed, PushedIt, Cleaned, Flushing, Agreed, MoverAgree

\* With no command running and no call on its way, the mirror is the target's directory.
THEOREM KeptInStep == MirrorSpec => []InStep
<1>1. EInv /\ AInv => InStep
  <2> SUFFICES ASSUME AInv, fresh, work.stage = "off", \A p \in Tracees : call[p].at = "idle",
                      NEW n \in Names
               PROVE  Agree(n)
    BY DEF InStep, Agree, Astray
  <2>1. NoCommand /\ ~InMotion(n)
    BY DEF NoCommand, InMotion, Mover
  <2> QED
    BY <2>1 DEF AInv, Agreed
<1>2. EInv /\ AInv /\ [MirrorNext]_mirror => AInv'
  BY StepAInv DEF EInv
<1> QED
  BY <1>1, <1>2, InitAInv, EditsInvariant, PTL DEF MirrorSpec
===============================================================================
