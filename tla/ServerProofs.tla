----------------------------- MODULE ServerProofs ------------------------------
(***************************************************************************)
(* Proofs about Server, for any number of conversations, turns and servers, *)
(* whatever the servers say and whenever they go.                           *)
(***************************************************************************)
EXTENDS Server, SequenceTheorems, TLAPS

-----------------------------------------------------------------------------
(* The invariant.                                                          *)

\* A conversation whose turn is past being taken is on a server.
Placed == \A s \in Sessions : doing[s] \notin {"idle", "going"} => on[s] \in Servers

\* No conversation is on a server that has not been started, and nobody knows of one.
Started ==
    /\ \A s \in Sessions : on[s] <= begun
    /\ \A v \in servers : v <= begun
    /\ \A v \in Servers : v > begun => holding[v] = {}

\* A thread is named for the conversation it was opened in.
Named ==
    /\ \A s \in Sessions : id[s] # NoThread => id[s][1] = s
    /\ \A s \in Sessions : thread[s] # NoThread => thread[s][1] = s

\* A server that is being started is nobody else's yet.
Starting ==
    \A s \in Sessions : doing[s] = "starting" =>
        /\ on[s] \notin servers /\ holding[on[s]] = {}
        /\ \A o \in Sessions \ {s} : on[o] # on[s]

\* What a reader has been handed, with what each kind of message is.
HandedTo(s) ==
    \A i \in DOMAIN box[s] :
        /\ doing[s] \in Reading
        /\ \/ box[s][i] = End /\ pump[on[s]] = "told"
           \/ box[s][i].kind \in {"answer", "refusal"} /\ box[s][i].to = Asking(s)
           \/ /\ box[s][i].kind \in {"word", "done", "failed", "idle"}
              /\ doing[s] = "reading" /\ box[s][i].of = thread[s]
           \/ box[s][i] = Note /\ doing[s] = "reading"
HasItInHand(s) == doing[s] \in Reading /\ pump[on[s]] = "told" => Contains(box[s], End)
\* Of those who are on a server, one at most has been handed what names no thread.
NotedOnce ==
    \A s, o \in Sessions :
        Contains(box[s], Note) /\ Contains(box[o], Note) /\ on[s] = on[o] => s = o

\* Nobody is told that the stream of a server that is up has ended.
ToldOfTheDead == \A v \in Servers : pump[v] = "told" => v \notin up

\* What a server has open that nobody has let go of is of the conversations that are on it.
Homes == \A v \in up \ (doomed \cup adrift) : \A t \in holding[v] : on[t[1]] = v

\* Which server is whose, and what is said on them.
Housed ==
    /\ Started /\ Named /\ Starting /\ ToldOfTheDead /\ Homes
    /\ NothingForgotten /\ OneHome
Heard == NotedOnce /\ \A s \in Sessions : HandedTo(s) /\ HasItInHand(s)
SInv == TypeOK /\ Placed /\ Housed /\ Heard

-----------------------------------------------------------------------------
(* Types.                                                                  *)

LEMMA Added == ASSUME NEW M, NEW q \in Seq(M), NEW m \in M PROVE Append(q, m) \in Seq(M)
  OBVIOUS
LEMMA Joined == ASSUME NEW M, NEW q \in Seq(M), NEW r \in Seq(M) PROVE q \o r \in Seq(M)
  OBVIOUS
LEMMA Taken ==
    ASSUME NEW M, NEW q \in Seq(M), q # <<>> PROVE Head(q) \in M /\ Tail(q) \in Seq(M)
  OBVIOUS

LEMMA Calling ==
    ASSUME TypeOK, NEW s \in Sessions, NEW what \in {"initialize", "thread", "turn"}
    PROVE Call(s, what) \in Calls
  BY DEF TypeOK, SessionsOK, Call, Calls

LEMMA Answering ==
    ASSUME NEW call \in Calls, NEW ok \in BOOLEAN PROVE Answer(call, ok) \in Messages
  BY BoundsAssumption DEF Answer, Message, Messages

LEMMA Saying ==
    ASSUME NEW kind \in {"word", "done", "failed", "idle", "cut", "want", "note", "end"},
           NEW of \in Threads \cup {NoThread}, NEW turn \in 0..Turns
    PROVE Said(kind, of, turn) \in Messages
  BY DEF Said, Message, Messages

LEMMA Signs ==
    Cut \in Messages /\ Want \in Messages /\ Note \in Messages /\ End \in Messages
  BY Saying, BoundsAssumption DEF Cut, Want, Note, End

\* The thread that is opened, as its conversation and as the server names it.
LEMMA OpenedIs == ASSUME NEW call \in Calls PROVE Opened(call) \in Threads
  BY DEF Calls, Opened, Threads
LEMMA OpensIts ==
    ASSUME TypeOK, NEW s \in Sessions
    PROVE /\ Opened(Call(s, "thread")) = IF id[s] = NoThread THEN <<s, took[s]>> ELSE id[s]
          /\ Opened(Call(s, "thread")) \in Threads
<1>1. Opened(Call(s, "thread")) = IF id[s] = NoThread THEN <<s, took[s]>> ELSE id[s]
  BY DEF Opened, Call
<1>2. QED BY <1>1 DEF Threads, TypeOK, SessionsOK

LEMMA InitTypes == Init => TypeOK
<1> SUFFICES ASSUME Init PROVE TypeOK
  OBVIOUS
<1>1. AgentOK BY BoundsAssumption DEF Init, AgentOK, Servers
<1>2. ServersOK BY BoundsAssumption DEF Init, ServersOK
<1>3. \A s \in Sessions : <<s, 0>> \in Threads BY BoundsAssumption DEF Threads
<1>4. SessionsOK
  BY <1>3, BoundsAssumption DEF Init, SessionsOK, Doings, NoServer
<1>5. QED BY <1>1, <1>2, <1>4 DEF TypeOK

\* One of a family of sets grows by an element, or by none.
LEMMA Grown ==
    ASSUME NEW D, NEW S, NEW f \in [D -> SUBSET S], NEW d \in D, NEW x \in S
    PROVE [f EXCEPT ![d] = @ \cup {x}] \in [D -> SUBSET S]
  OBVIOUS

\* The two ways a turn is taken.
TakesOne(s, v) ==
    /\ v \in Kept /\ (on[s] \in Kept => v = on[s]) /\ turns' = [turns EXCEPT ![v] = @ + 1]
    /\ on' = [on EXCEPT ![s] = v] /\ doing' = [doing EXCEPT ![s] = "holding"]
    /\ UNCHANGED <<begun, up, knew, asked, pump, box>>
TakesNew(s, v) ==
    /\ on[s] \notin Kept /\ v = begun + 1 /\ v \in Servers /\ begun' = v /\ up' = up \cup {v}
    /\ knew' = [knew EXCEPT ![v] = knows] /\ pump' = [pump EXCEPT ![v] = "reading"]
    /\ asked' = [asked EXCEPT ![v] = {Call(s, "initialize")}]
    /\ box' = [box EXCEPT ![s] = <<>>]
    /\ on' = [on EXCEPT ![s] = v] /\ doing' = [doing EXCEPT ![s] = "starting"]
    /\ UNCHANGED turns
Taking(s, v) ==
    /\ doing[s] = "going" /\ servers' = Kept /\ adrift' = adrift \cup (servers \ Kept)
    /\ TakesOne(s, v) \/ TakesNew(s, v)
    /\ UNCHANGED <<world, knows, stopped, doomed, working, wants, wire, holding>>
    /\ UNCHANGED <<took, thread, id, heard, left>>

LEMMA TakesEither ==
    ASSUME TypeOK, NEW s \in Sessions, Takes(s) PROVE \E v \in Servers : Taking(s, v)
  BY DEF TypeOK, AgentOK, Takes, Taking, TakesOne, TakesNew, Free, Kept, Goes

LEMMA StepAgent == TypeOK /\ Placed /\ [Next]_vars => AgentOK'
<1> SUFFICES ASSUME TypeOK, Placed, [Next]_vars PROVE AgentOK'
  OBVIOUS
<1> USE DEF TypeOK, AgentOK
<1>1. CASE Moved BY <1>1 DEF Moved, agent, process
<1>2. CASE Stops BY <1>2 DEF Stops, Lists, agent, process
<1>3. ASSUME NEW s \in Sessions, LetsGo(s) PROVE AgentOK'
  BY <1>3 DEF LetsGo, Lists, process
<1>4. ASSUME NEW s \in Sessions, NEW v \in Servers, Taking(s, v) PROVE AgentOK'
  <2>1. /\ UNCHANGED <<world, knows, stopped, doomed>> /\ servers' \subseteq servers
        /\ adrift' = adrift \cup (servers \ Kept)
    BY <1>4 DEF Taking, Kept
  <2>2. (up' = up /\ begun' = begun) \/ (up' = up \cup {v} /\ begun' = v)
    BY <1>4 DEF Taking, TakesOne, TakesNew
  <2>3. v \in 0..Starts BY BoundsAssumption DEF Servers
  <2>4. QED BY <2>1, <2>2, <2>3
<1>5. ASSUME NEW s \in Sessions, Joins(s) PROVE AgentOK'
  <2>1. on[s] \in Servers BY <1>5 DEF Joins, Placed
  <2>2. QED BY <1>5, <2>1 DEF Joins, process
<1>6. ASSUME NEW s \in Sessions, SetsOut(s) \/ Shares(s) \/ Leaves(s) \/ Opening(s) \/ Reads(s)
      PROVE AgentOK'
  BY <1>6 DEF SetsOut, Shares, Leaves, Opening, Reads, agent, process
<1>7. ASSUME NEW s \in Sessions, Opens(s) \/ Begins(s) PROVE AgentOK'
  BY <1>7 DEF Opens, Begins, agent
<1>8. ASSUME NEW v \in Servers, Pumps(v) \/ Tells(v) PROVE AgentOK'
  BY <1>8 DEF Pumps, Tells, agent, process
<1>9. ASSUME NEW v \in Servers, PutsDown(v) PROVE AgentOK'
  BY <1>9 DEF PutsDown, Falls, process
<1>10. ASSUME NEW v \in Servers, Server(v) PROVE AgentOK'
  BY <1>10 DEF Server, Answers, Speaks, Finishes, Wonders, Dies, Falls, agent
<1>11. CASE UNCHANGED vars BY <1>11 DEF vars, agent, process
<1>12. QED
  BY <1>1, <1>2, <1>3, <1>4, <1>5, <1>6, <1>7, <1>8, <1>9, <1>10, <1>11, TakesEither
  DEF Next, Turn, GoesOn

LEMMA GivesBackTypes ==
    ASSUME TypeOK, NEW s \in Sessions, on[s] \in Servers, Over(s)
    PROVE turns' \in [Servers -> Nat]
<1>1. turns \in [Servers -> Nat] BY DEF TypeOK, ServersOK
<1>2. (IF turns[on[s]] > 0 THEN turns[on[s]] - 1 ELSE 0) \in Nat BY <1>1
<1>3. turns' = [turns EXCEPT ![on[s]] = IF turns[on[s]] > 0 THEN turns[on[s]] - 1 ELSE 0]
  BY DEF Over
<1>4. QED BY <1>1, <1>2, <1>3

LEMMA WrittenTypes ==
    ASSUME TypeOK, NEW s \in Sessions, NEW v \in Servers,
           NEW what \in {"initialize", "thread", "turn"}, Written(s, v, Call(s, what))
    PROVE /\ asked' \in [Servers -> SUBSET Calls] /\ box' \in [Sessions -> Seq(Messages)]
          /\ pump[v] = "told" => box'[s] = <<End>>
          /\ pump[v] # "told" => box'[s] = <<>>
          /\ \A o \in Sessions \ {s} : box'[o] = box[o]
<1>1. Call(s, what) \in Calls BY Calling
<1>2. asked' = [asked EXCEPT ![v] = @ \cup {Call(s, what)}] \/ asked' = asked
  BY DEF Written
<1>3. asked' \in [Servers -> SUBSET Calls]
  <2>1. asked \in [Servers -> SUBSET Calls] BY DEF TypeOK, ServersOK
  <2>2. [asked EXCEPT ![v] = @ \cup {Call(s, what)}] \in [Servers -> SUBSET Calls]
    BY <1>1, <2>1, Grown
  <2>3. QED BY <1>2, <2>1, <2>2
<1>4. <<End>> \in Seq(Messages) /\ <<>> \in Seq(Messages) BY Signs
<1>5. box' = [box EXCEPT ![s] = IF pump[v] = "told" THEN <<End>> ELSE <<>>] BY DEF Written
<1>6. QED BY <1>3, <1>4, <1>5 DEF TypeOK, SessionsOK

LEMMA FallsTypes ==
    ASSUME TypeOK, NEW v \in Servers, Falls(v)
    PROVE /\ wire' \in [Servers -> Seq(Messages)] /\ asked' \in [Servers -> SUBSET Calls]
          /\ working' \in
                [Servers -> SUBSET ((Threads \cup {NoThread}) \X (0..Turns) \X BOOLEAN)]
          /\ up' = up \ {v} /\ UNCHANGED <<knew, wants, pump>>
<1>1. Append(wire[v], Cut) \in Seq(Messages) BY Added, Signs DEF TypeOK, ServersOK
<1>2. wire' = wire \/ wire' = [wire EXCEPT ![v] = Append(wire[v], Cut)] BY DEF Falls
<1>3. wire' \in [Servers -> Seq(Messages)] BY <1>1, <1>2 DEF TypeOK, ServersOK
<1>4. QED BY <1>3 DEF Falls, TypeOK, ServersOK

LEMMA WritesTypes ==
    ASSUME TypeOK, NEW v \in Servers, NEW q \in Seq(Messages), Writes(v, q)
    PROVE wire' \in [Servers -> Seq(Messages)] /\ wire' = [wire EXCEPT ![v] = wire[v] \o q]
<1>1. wire[v] \o q \in Seq(Messages) BY Joined DEF TypeOK, ServersOK
<1>2. QED BY <1>1 DEF Writes, TypeOK, ServersOK

LEMMA StepServers == TypeOK /\ Placed /\ [Next]_vars => ServersOK'
<1> SUFFICES ASSUME TypeOK, Placed, [Next]_vars PROVE ServersOK'
  OBVIOUS
<1> USE DEF ServersOK
<1>a. ServersOK BY DEF TypeOK
<1>1. CASE Moved \/ Stops BY <1>a, <1>1 DEF Moved, Stops, books, process, stream
<1>2. ASSUME NEW s \in Sessions, LetsGo(s) \/ SetsOut(s) PROVE ServersOK'
  BY <1>a, <1>2 DEF LetsGo, SetsOut, books, process, stream
<1>3. ASSUME NEW s \in Sessions, NEW v \in Servers, Taking(s, v) PROVE ServersOK'
  <2>1. CASE TakesOne(s, v) BY <1>a, <1>3, <2>1 DEF Taking, TakesOne
  <2>2. CASE TakesNew(s, v)
    <3>1. Call(s, "initialize") \in Calls BY Calling
    <3>2. knows \in 0..1 BY DEF TypeOK, AgentOK
    <3>3. QED BY <1>a, <1>3, <2>2, <3>1, <3>2 DEF Taking, TakesNew
  <2>3. QED BY <1>3, <2>1, <2>2 DEF Taking
<1>4. ASSUME NEW s \in Sessions, Joins(s) \/ Shares(s) PROVE ServersOK'
  <2>1. CASE Joins(s) BY <1>a, <2>1 DEF Joins, books, process, stream
  <2>2. CASE Shares(s)
    <3>1. UNCHANGED <<knew, holding, wire, pump, asked, wants, working>>
      BY <2>2 DEF Shares, process, stream
    <3>2. turns' \in [Servers -> Nat]
      <4>1. on[s] \in Servers BY <2>2 DEF Shares, Placed
      <4>2. QED BY <1>a, <2>2, <4>1 DEF Shares
    <3>3. QED BY <1>a, <3>1, <3>2
  <2>3. QED BY <1>4, <2>1, <2>2
<1>5. ASSUME NEW s \in Sessions, Opens(s) \/ Begins(s) PROVE ServersOK'
  <2>1. on[s] \in Servers BY <1>5 DEF Opens, Begins, Placed
  <2>2. UNCHANGED <<knew, working, wants, wire, pump, holding>>
    BY <1>5 DEF Opens, Begins, stream
  <2>3. /\ asked' = asked \/ \E what \in {"thread", "turn"} : Written(s, on[s], Call(s, what))
        /\ turns' = turns \/ Over(s)
    BY <1>5 DEF Opens, Begins
  <2>4. asked' \in [Servers -> SUBSET Calls] BY <1>a, <2>1, <2>3, WrittenTypes
  <2>5. turns' \in [Servers -> Nat] BY <1>a, <2>1, <2>3, GivesBackTypes
  <2>6. QED BY <1>a, <2>2, <2>4, <2>5
<1>6. ASSUME NEW s \in Sessions, Opening(s) PROVE ServersOK'
  <2>1. UNCHANGED <<knew, working, wants, wire, pump, asked>>
    BY <1>6 DEF Opening, process, stream
  <2>2. turns' = turns \/ Over(s) BY <1>6 DEF Opening
  <2>3. on[s] \in Servers /\ turns' \in [Servers -> Nat]
    BY <1>a, <1>6, <2>2, GivesBackTypes DEF Placed, Opening, Reads, Leaves
  <2>6. holding' \in [Servers -> SUBSET Threads]
    <3>1. PICK named \in Threads : named = Opened(Call(s, "thread")) BY OpensIts
    <3>2. holding' = holding \/ holding' = [holding EXCEPT ![on[s]] = @ \cup {named}]
      BY <1>6, <3>1, Zenon DEF Opening
    <3>3. holding \in [Servers -> SUBSET Threads] BY <1>a
    <3>4. [holding EXCEPT ![on[s]] = @ \cup {named}] \in [Servers -> SUBSET Threads]
      BY <2>3, <3>3, Grown
    <3>5. QED BY <3>2, <3>3, <3>4
  <2>7. QED BY <1>a, <2>1, <2>3, <2>6
<1>7. ASSUME NEW s \in Sessions, Reads(s) \/ Leaves(s) PROVE ServersOK'
  <2>1. UNCHANGED <<knew, working, wants, wire, pump, asked, holding>>
    BY <1>7 DEF Reads, Leaves, process, stream
  <2>2. turns' = turns \/ Over(s) BY <1>7 DEF Reads, Leaves
  <2>3. on[s] \in Servers /\ turns' \in [Servers -> Nat]
    BY <1>a, <1>7, <2>2, GivesBackTypes DEF Placed, Opening, Reads, Leaves
  <2>4. QED BY <1>a, <2>1, <2>3
<1>8. ASSUME NEW v \in Servers, Pumps(v) PROVE ServersOK'
  <2>1. Tail(wire[v]) \in Seq(Messages) BY <1>a, <1>8, Taken DEF Pumps
  <2>2. <<>> \in Seq(Messages) OBVIOUS
  <2>3. wire' \in [Servers -> Seq(Messages)] /\ pump' \in [Servers -> {"off", "reading", "told", "raised"}]
    BY <1>a, <1>8, <2>1, <2>2 DEF Pumps
  <2>4. QED BY <1>a, <1>8, <2>3 DEF Pumps, process, books
<1>9. ASSUME NEW v \in Servers, Tells(v) PROVE ServersOK'
  BY <1>a, <1>9 DEF Tells, process, books
<1>10. ASSUME NEW v \in Servers, PutsDown(v) \/ Dies(v) PROVE ServersOK'
  <2>1. CASE Falls(v) BY <1>a, <1>10, <2>1, FallsTypes DEF PutsDown, Dies, books
  <2>2. CASE UNCHANGED <<process, stream>>
    BY <1>a, <1>10, <2>2 DEF PutsDown, Dies, books, process, stream
  <2>3. QED BY <1>10, <2>1, <2>2 DEF PutsDown, Dies
<1>11. ASSUME NEW v \in Servers, Answers(v) PROVE ServersOK'
  <2>1. PICK call \in asked[v], ok \in BOOLEAN :
          /\ \/ Writes(v, <<Answer(call, ok)>>)
             \/ Writes(v, <<Answer(call, ok), Said("idle", Opened(call), 0)>>)
          /\ asked' = [asked EXCEPT ![v] = @ \ {call}]
          /\ working' = IF call.for = "turn" /\ ok
                        THEN [working EXCEPT ![v] = @ \cup {<<call.on, call.turn, FALSE>>}]
                        ELSE working
    BY <1>11 DEF Answers
  <2>2. call \in Calls BY <1>a
  <2>3. /\ <<Answer(call, ok)>> \in Seq(Messages)
        /\ <<Answer(call, ok), Said("idle", Opened(call), 0)>> \in Seq(Messages)
    <3>1. Answer(call, ok) \in Messages BY <2>2, Answering
    <3>2. Said("idle", Opened(call), 0) \in Messages
      BY <2>2, OpenedIs, Saying, BoundsAssumption
    <3>3. QED BY <3>1, <3>2
  <2>4. wire' \in [Servers -> Seq(Messages)] BY <2>1, <2>3, WritesTypes
  <2>5. <<call.on, call.turn, FALSE>> \in (Threads \cup {NoThread}) \X (0..Turns) \X BOOLEAN
    BY <2>2 DEF Calls
  <2>6. working' \in [Servers -> SUBSET ((Threads \cup {NoThread}) \X (0..Turns) \X BOOLEAN)]
    BY <1>a, <2>1, <2>5
  <2>7. QED BY <1>a, <1>11, <2>1, <2>4, <2>6 DEF Answers, books
<1>12. ASSUME NEW v \in Servers, Speaks(v) \/ Finishes(v) PROVE ServersOK'
  <2>1. PICK t \in working[v] :
          \/ /\ Writes(v, <<Said("word", t[1], t[2])>>)
             /\ working' = [working EXCEPT ![v] = (@ \ {t}) \cup {<<t[1], t[2], TRUE>>}]
          \/ /\ \E how \in {"done", "failed"} :
                   Writes(v, <<Said(how, t[1], t[2]), Said("idle", t[1], 0)>>)
             /\ working' = [working EXCEPT ![v] = @ \ {t}]
    BY <1>12 DEF Speaks, Finishes
  <2>2. t \in (Threads \cup {NoThread}) \X (0..Turns) \X BOOLEAN BY <1>a
  <2>3. t[1] \in Threads \cup {NoThread} /\ t[2] \in 0..Turns BY <2>2
  <2>4. \A kind \in {"word", "done", "failed"} : Said(kind, t[1], t[2]) \in Messages
    BY <2>3, Saying
  <2>5. Said("idle", t[1], 0) \in Messages BY <2>3, Saying, BoundsAssumption
  <2>6. wire' \in [Servers -> Seq(Messages)]
    <3>1. \A a, b \in Messages : <<a>> \in Seq(Messages) /\ <<a, b>> \in Seq(Messages)
      OBVIOUS
    <3>2. PICK q \in Seq(Messages) : Writes(v, q) BY <2>1, <2>4, <2>5, <3>1
    <3>3. QED BY <3>2, WritesTypes
  <2>7. <<t[1], t[2], TRUE>> \in (Threads \cup {NoThread}) \X (0..Turns) \X BOOLEAN
    BY <2>3
  <2>8. working' \in [Servers -> SUBSET ((Threads \cup {NoThread}) \X (0..Turns) \X BOOLEAN)]
    <3>1. CASE working' = [working EXCEPT ![v] = (@ \ {t}) \cup {<<t[1], t[2], TRUE>>}]
      BY <1>a, <2>7, <3>1
    <3>2. CASE working' = [working EXCEPT ![v] = @ \ {t}]
      BY <1>a, <3>2
    <3>3. QED BY <2>1, <3>1, <3>2
  <2>9. UNCHANGED <<knew, turns, holding, pump, asked, wants>>
    BY <1>12 DEF Speaks, Finishes, books
  <2>10. QED BY <1>a, <2>6, <2>8, <2>9
<1>13. ASSUME NEW v \in Servers, Wonders(v) PROVE ServersOK'
  <2>1. <<Want>> \in Seq(Messages) /\ <<Note>> \in Seq(Messages) BY Signs
  <2>2. wire' \in [Servers -> Seq(Messages)] BY <1>13, <2>1, WritesTypes DEF Wonders
  <2>3. wants' \in [Servers -> Nat] BY <1>a, <1>13 DEF Wonders
  <2>4. UNCHANGED <<knew, turns, holding, pump, asked, working>> BY <1>13 DEF Wonders, books
  <2>5. QED BY <1>a, <2>2, <2>3, <2>4
<1>14. CASE UNCHANGED vars BY <1>a, <1>14 DEF vars, process, stream, books
<1>15. QED
  BY <1>1, <1>2, <1>3, <1>4, <1>5, <1>6, <1>7, <1>8, <1>9, <1>10, <1>11, <1>12, <1>13, <1>14,
     TakesEither
  DEF Next, Turn, GoesOn, Server

\* A conversation comes to something else; nothing but its own record changes.
LEMMA GoesTypes ==
    ASSUME TypeOK, Placed, NEW s \in Sessions, NEW to \in Doings, Goes(s, to), on' = on,
           to \in {"idle", "going"} \/ on[s] \in Servers
    PROVE doing' \in [Sessions -> Doings] /\ Placed'
  BY DEF Goes, TypeOK, SessionsOK, Placed

LEMMA OverTypes ==
    ASSUME TypeOK, NEW s \in Sessions, Over(s)
    PROVE /\ box' \in [Sessions -> Seq(Messages)] /\ box' = [box EXCEPT ![s] = <<>>]
          /\ heard' \in [Sessions -> 0..Turns]
          /\ thread' \in [Sessions -> Threads \cup {NoThread}]
          /\ Goes(s, "idle")
<1>1. /\ box' = [box EXCEPT ![s] = <<>>] /\ heard' = [heard EXCEPT ![s] = 0] /\ Goes(s, "idle")
      /\ thread' = [thread EXCEPT ![s] = NoThread]
  BY DEF Over
<1>2. <<>> \in Seq(Messages) /\ 0 \in 0..Turns BY BoundsAssumption
<1>3. QED BY <1>1, <1>2 DEF TypeOK, SessionsOK

LEMMA SetsOutSessions ==
    ASSUME TypeOK, Placed, NEW s \in Sessions, SetsOut(s) PROVE SessionsOK' /\ Placed'
<1>1. world.turns[s] \in 0..Turns BY WorldsAssumption DEF TypeOK, AgentOK
<1>2. took[s] + 1 \in 0..Turns BY <1>1, BoundsAssumption DEF SetsOut, TypeOK, SessionsOK
<1>3. took' \in [Sessions -> 0..Turns] BY <1>2 DEF SetsOut, TypeOK, SessionsOK
<1>4. doing' \in [Sessions -> Doings] /\ Placed' BY GoesTypes DEF SetsOut, Doings
<1>5. QED BY <1>3, <1>4 DEF SetsOut, TypeOK, SessionsOK

LEMMA TakingSessions ==
    ASSUME TypeOK, Placed, NEW s \in Sessions, NEW v \in Servers, Taking(s, v)
    PROVE SessionsOK' /\ Placed'
<1>1. v \in 0..Starts BY BoundsAssumption DEF Servers
<1>2. /\ on' = [on EXCEPT ![s] = v]
      /\ \E to \in {"holding", "starting"} : doing' = [doing EXCEPT ![s] = to]
      /\ box' = box \/ box' = [box EXCEPT ![s] = <<>>]
      /\ UNCHANGED <<took, thread, id, heard, left>>
  BY DEF Taking, TakesOne, TakesNew
<1>3. <<>> \in Seq(Messages) OBVIOUS
<1>4. box' \in [Sessions -> Seq(Messages)] BY <1>2, <1>3 DEF TypeOK, SessionsOK
<1>5. on' \in [Sessions -> 0..Starts] /\ doing' \in [Sessions -> Doings]
  BY <1>1, <1>2 DEF TypeOK, SessionsOK, Doings
<1>6. Placed' BY <1>2 DEF TypeOK, SessionsOK, Placed
<1>7. QED BY <1>2, <1>4, <1>5, <1>6 DEF TypeOK, SessionsOK

LEMMA JoinsSessions ==
    ASSUME TypeOK, Placed, NEW s \in Sessions, Joins(s) PROVE SessionsOK' /\ Placed'
<1>1. on[s] \in Servers BY DEF Joins, Placed
<1>2. /\ \/ Goes(s, "joined") /\ on' = on
         \/ Goes(s, "idle") /\ on' = [on EXCEPT ![s] = NoServer]
      /\ box' = [box EXCEPT ![s] = <<>>] /\ UNCHANGED <<took, thread, id, heard, left>>
  BY DEF Joins
<1>3. <<>> \in Seq(Messages) /\ NoServer \in 0..Starts BY BoundsAssumption DEF NoServer
<1>4. box' \in [Sessions -> Seq(Messages)] BY <1>2, <1>3 DEF TypeOK, SessionsOK
<1>5. on' \in [Sessions -> 0..Starts] /\ doing' \in [Sessions -> Doings]
  BY <1>2, <1>3 DEF Goes, TypeOK, SessionsOK, Doings
<1>6. Placed' BY <1>1, <1>2 DEF Goes, TypeOK, SessionsOK, Placed
<1>7. QED BY <1>2, <1>4, <1>5, <1>6 DEF TypeOK, SessionsOK

LEMMA OpensSessions ==
    ASSUME TypeOK, Placed, NEW s \in Sessions, Opens(s) PROVE SessionsOK' /\ Placed'
<1>1. on[s] \in Servers /\ UNCHANGED <<took, on, id, left>> BY DEF Opens, Placed
<1>2. CASE Goes(s, "open") /\ thread' = [thread EXCEPT ![s] = id[s]] /\ UNCHANGED <<box, heard>>
  BY <1>1, <1>2, GoesTypes DEF Doings, TypeOK, SessionsOK
<1>3. CASE /\ Written(s, on[s], Call(s, "thread")) /\ Goes(s, "opening")
           /\ UNCHANGED <<thread, heard>>
  BY <1>1, <1>3, GoesTypes, WrittenTypes DEF Doings, TypeOK, SessionsOK
<1>4. CASE Over(s)
  BY <1>1, <1>4, GoesTypes, OverTypes DEF Doings, TypeOK, SessionsOK
<1>5. QED BY <1>2, <1>3, <1>4 DEF Opens

LEMMA OpeningSessions ==
    ASSUME TypeOK, Placed, NEW s \in Sessions, Opening(s) PROVE SessionsOK' /\ Placed'
<1>1. on[s] \in Servers /\ UNCHANGED <<took, on, id, left>> BY DEF Opening, Placed
<1>3. PICK named \in Threads : named = Opened(Call(s, "thread")) BY OpensIts
<1>4. \/ Over(s)
      \/ /\ Goes(s, "open") /\ thread' = [thread EXCEPT ![s] = named]
         /\ box' = [box EXCEPT ![s] = <<>>] /\ UNCHANGED heard
  BY <1>3, Zenon DEF Opening
<1>5. CASE Over(s)
  BY <1>1, <1>5, GoesTypes, OverTypes DEF Doings, TypeOK, SessionsOK
<1>6. CASE /\ Goes(s, "open") /\ thread' = [thread EXCEPT ![s] = named]
           /\ box' = [box EXCEPT ![s] = <<>>] /\ UNCHANGED heard
  <2>1. <<>> \in Seq(Messages) OBVIOUS
  <2>2. QED BY <1>1, <1>6, <2>1, GoesTypes DEF Doings, TypeOK, SessionsOK
<1>7. QED BY <1>4, <1>5, <1>6

LEMMA BeginsSessions ==
    ASSUME TypeOK, Placed, NEW s \in Sessions, Begins(s) PROVE SessionsOK' /\ Placed'
<1>1. on[s] \in Servers /\ UNCHANGED <<took, on, id, left>> BY DEF Begins, Placed
<1>2. CASE Written(s, on[s], Call(s, "turn")) /\ Goes(s, "reading") /\ UNCHANGED <<thread, heard>>
  BY <1>1, <1>2, GoesTypes, WrittenTypes DEF Doings, TypeOK, SessionsOK
<1>3. CASE Over(s)
  BY <1>1, <1>3, GoesTypes, OverTypes DEF Doings, TypeOK, SessionsOK
<1>4. QED BY <1>2, <1>3 DEF Begins

LEMMA ReadsSessions ==
    ASSUME TypeOK, Placed, NEW s \in Sessions, Reads(s) PROVE SessionsOK' /\ Placed'
<1>1. on[s] \in Servers /\ UNCHANGED <<took, on, left>> BY DEF Reads, Placed
<1>2. box[s] \in Seq(Messages) /\ box[s] # <<>> BY DEF Reads, TypeOK, SessionsOK
<1>3. Head(box[s]) \in Messages /\ Tail(box[s]) \in Seq(Messages) BY <1>2, Taken
<1>4. \/ Over(s) /\ (id' = id \/ id' = [id EXCEPT ![s] = thread[s]])
      \/ /\ box' = [box EXCEPT ![s] = Tail(box[s])]
         /\ heard' = heard \/ heard' = [heard EXCEPT ![s] = Head(box[s]).turn]
         /\ UNCHANGED <<doing, thread, id>>
  BY DEF Reads
<1>5. CASE Over(s) /\ (id' = id \/ id' = [id EXCEPT ![s] = thread[s]])
  <2>1. id' \in [Sessions -> Threads \cup {NoThread}] BY <1>5 DEF TypeOK, SessionsOK
  <2>2. QED BY <1>1, <1>5, <2>1, GoesTypes, OverTypes DEF Doings, TypeOK, SessionsOK
<1>6. CASE /\ box' = [box EXCEPT ![s] = Tail(box[s])]
           /\ heard' = heard \/ heard' = [heard EXCEPT ![s] = Head(box[s]).turn]
           /\ UNCHANGED <<doing, thread, id>>
  <2>1. Head(box[s]).turn \in 0..Turns BY <1>3 DEF Messages
  <2>2. box' \in [Sessions -> Seq(Messages)] /\ heard' \in [Sessions -> 0..Turns]
    BY <1>3, <1>6, <2>1 DEF TypeOK, SessionsOK
  <2>3. QED BY <1>1, <1>6, <2>2 DEF TypeOK, SessionsOK, Placed
<1>7. QED BY <1>4, <1>5, <1>6

LEMMA StepSessions == TypeOK /\ Placed /\ [Next]_vars => SessionsOK' /\ Placed'
<1> SUFFICES ASSUME TypeOK, Placed, [Next]_vars PROVE SessionsOK' /\ Placed'
  OBVIOUS
<1>1. ASSUME UNCHANGED session PROVE SessionsOK' /\ Placed'
  BY <1>1 DEF session, TypeOK, SessionsOK, Placed
<1>2. ASSUME NEW s \in Sessions, Shares(s) PROVE SessionsOK' /\ Placed'
  <2>1. on[s] \in Servers BY <1>2 DEF Shares, Placed
  <2>2. QED BY <1>2, <2>1, GoesTypes DEF Shares, Doings, TypeOK, SessionsOK
<1>3. ASSUME NEW s \in Sessions, Leaves(s) PROVE SessionsOK' /\ Placed'
  BY <1>3, GoesTypes, OverTypes DEF Leaves, Doings, TypeOK, SessionsOK
<1>4. ASSUME NEW v \in Servers, Pumps(v) \/ Tells(v) PROVE SessionsOK' /\ Placed'
  <2>1. PICK m \in Messages : \E to \in SUBSET Sessions :
          box' = [s \in Sessions |-> IF s \in to THEN Append(box[s], m) ELSE box[s]]
    <3>1. CASE Pumps(v)
      <4>1. Head(wire[v]) \in Messages BY <3>1, Taken DEF Pumps, TypeOK, ServersOK
      <4>2. box' = [s \in Sessions |->
                      IF s \in {o \in Sessions : o \in Readers(v) /\ Belongs(Head(wire[v]), o)}
                      THEN Append(box[s], Head(wire[v])) ELSE box[s]]
        BY <3>1 DEF Pumps
      <4>3. QED BY <4>1, <4>2
    <3>2. CASE Tells(v)
      <4>1. box' = [s \in Sessions |-> IF s \in Readers(v) THEN Append(box[s], End) ELSE box[s]]
        BY <3>2 DEF Tells
      <4>2. Readers(v) \in SUBSET Sessions BY DEF Readers
      <4>3. QED BY <4>1, <4>2, Signs
    <3>3. QED BY <1>4, <3>1, <3>2
  <2>2. \A s \in Sessions : box[s] \in Seq(Messages) /\ Append(box[s], m) \in Seq(Messages)
    BY Added DEF TypeOK, SessionsOK
  <2>3. box' \in [Sessions -> Seq(Messages)] BY <2>1, <2>2
  <2>4. UNCHANGED <<doing, took, on, thread, id, heard, left>> BY <1>4 DEF Pumps, Tells
  <2>5. QED BY <2>3, <2>4 DEF TypeOK, SessionsOK, Placed
<1>5. CASE Moved \/ Stops BY <1>1, <1>5 DEF Moved, Stops
<1>6. ASSUME NEW s \in Sessions, LetsGo(s) PROVE SessionsOK' /\ Placed'
  BY <1>1, <1>6 DEF LetsGo
<1>7. ASSUME NEW v \in Servers, PutsDown(v) \/ Server(v) PROVE SessionsOK' /\ Placed'
  BY <1>1, <1>7 DEF PutsDown, Server, Answers, Speaks, Finishes, Wonders, Dies
<1>8. CASE UNCHANGED vars BY <1>1, <1>8 DEF vars
<1>9. QED
  BY <1>2, <1>3, <1>4, <1>5, <1>6, <1>7, <1>8, TakesEither, SetsOutSessions, TakingSessions,
     JoinsSessions, OpensSessions, OpeningSessions, BeginsSessions, ReadsSessions
  DEF Next, Turn, GoesOn

LEMMA StepTypes == TypeOK /\ Placed /\ [Next]_vars => TypeOK' /\ Placed'
  BY StepAgent, StepServers, StepSessions DEF TypeOK

LEMMA InitPlaced == Init => Placed
  BY DEF Init, Placed

\* The books of the agent and of its servers are always ones the code can be keeping.
THEOREM TypeCorrect == Spec => []TypeOK
  BY InitTypes, InitPlaced, StepTypes, PTL DEF Spec

-----------------------------------------------------------------------------
(* Which server is whose.                                                  *)

LEMMA InitHoused == Init => Housed
<1> SUFFICES ASSUME Init PROVE Housed
  OBVIOUS
<1>1. Started /\ ToldOfTheDead /\ Homes /\ NothingForgotten /\ OneHome
  BY DEF Init, Started, ToldOfTheDead, Homes, NothingForgotten, OneHome, NoServer
<1>2. Named /\ Starting BY DEF Init, Named, Starting
<1>3. QED BY <1>1, <1>2 DEF Housed

\* A turn goes on where it is: no server, and nothing known of one, is changed by it.
GoesOnHere(s) ==
    /\ UNCHANGED <<servers, doomed, adrift, up, begun, holding, on, pump>>
    /\ doing[s] # "starting" /\ doing'[s] # "starting"
    /\ \A o \in Sessions \ {s} : doing'[o] = doing[o]
    /\ \A o \in Sessions : id'[o] = id[o] \/ id'[o] = thread[o]
    /\ \A o \in Sessions : thread'[o] \in {thread[o], id[o], NoThread}

LEMMA HereHoused == ASSUME Housed, NEW s \in Sessions, GoesOnHere(s) PROVE Housed'
<1> USE DEF Housed, GoesOnHere
<1>1. Started' /\ ToldOfTheDead' BY DEF Started, ToldOfTheDead
<1>2. Named' BY DEF Named
<1>3. Starting' BY DEF Starting
<1>4. Homes' BY DEF Homes
<1>5. NothingForgotten' BY DEF NothingForgotten
<1>6. OneHome' BY DEF OneHome
<1>7. QED BY <1>1, <1>2, <1>3, <1>4, <1>5, <1>6

\* The servers go, are put down, or are read: nobody's place changes.
Falling ==
    /\ UNCHANGED <<servers, adrift, begun, holding, doing, on, id, thread>>
    /\ up' \subseteq up /\ doomed \cap up' \subseteq doomed'
    /\ \A v \in Servers : pump'[v] = "told" => pump[v] = "told" \/ v \notin up

LEMMA FallingHoused == ASSUME Housed, Falling PROVE Housed'
<1> USE DEF Housed, Falling
<1>1. Started' /\ ToldOfTheDead' BY DEF Started, ToldOfTheDead
<1>2. Named' /\ Starting' BY DEF Named, Starting
<1>3. Homes' BY DEF Homes
<1>4. NothingForgotten' BY DEF NothingForgotten
<1>5. OneHome' BY DEF OneHome
<1>6. QED BY <1>1, <1>2, <1>3, <1>4, <1>5

LEMMA ListsHoused ==
    ASSUME TypeOK, Housed, Lists,
           UNCHANGED <<adrift, up, begun, holding, doing, on, id, thread, pump>>
    PROVE Housed'
<1> USE DEF Housed, Lists
<1>1. Started' /\ ToldOfTheDead' BY DEF Started, ToldOfTheDead
<1>2. Named' /\ Starting' BY DEF Named, Starting
<1>3. Homes' BY DEF Homes
<1>4. NothingForgotten' BY DEF NothingForgotten
<1>5. OneHome' BY DEF OneHome
<1>6. QED BY <1>1, <1>2, <1>3, <1>4, <1>5

\* What is open on a server that nobody has let go of, now that those that know otherwise
\* are, is of the conversations that are on it, and it is on the list that is kept.
LEMMA LeftBehind ==
    ASSUME TypeOK, Housed, NEW u \in up \ (doomed \cup adrift), NEW t \in holding[u],
           u \notin servers \ Kept
    PROVE u \in Kept /\ on[t[1]] = u
<1>1. u \in Servers /\ t[1] \in Sessions BY DEF TypeOK, AgentOK, ServersOK, Threads
<1>2. on[t[1]] = u BY DEF Housed, Homes
<1>3. u \in servers BY <1>1 DEF Housed, NothingForgotten, Starting
<1>4. QED BY <1>2, <1>3

\* Another turn on a server there is: whatever of the conversation's is open elsewhere was
\* let go of or is being put down.
LEMMA OneHoused ==
    ASSUME TypeOK, Housed, NEW s \in Sessions, NEW v \in Servers, Taking(s, v), TakesOne(s, v)
    PROVE Housed'
<1>1. /\ UNCHANGED <<doomed, up, begun, holding, id, thread, pump>>
      /\ servers' = Kept /\ adrift' = adrift \cup (servers \ Kept) /\ v \in servers
      /\ doing[s] = "going" /\ doing' = [doing EXCEPT ![s] = "holding"]
      /\ on' = [on EXCEPT ![s] = v] /\ (on[s] \in Kept => v = on[s])
  BY DEF Taking, TakesOne, Kept
<1>2. /\ \A o \in Sessions \ {s} : doing'[o] = doing[o] /\ on'[o] = on[o]
      /\ doing'[s] = "holding" /\ on'[s] = v
  BY <1>1 DEF TypeOK, SessionsOK
<1>3. (Started /\ ToldOfTheDead)'
  BY <1>1, <1>2 DEF Housed, Started, ToldOfTheDead, Kept
<1>4. Named' BY <1>1 DEF Housed, Named
<1>5. Starting' BY <1>1, <1>2 DEF Housed, Starting, Kept
<1>6. NothingForgotten' BY <1>1, <1>2 DEF Housed, NothingForgotten
<1>7. OneHome' BY <1>1 DEF Housed, OneHome
<1>8. Homes'
  <2> SUFFICES ASSUME NEW u \in up \ (doomed \cup adrift'), NEW t \in holding[u]
               PROVE on'[t[1]] = u
    BY <1>1 DEF Homes
  <2>1. t[1] \in Sessions BY DEF TypeOK, AgentOK, ServersOK, Threads
  <2>2. u \in Kept /\ on[t[1]] = u BY <1>1, LeftBehind
  <2>3. QED BY <1>1, <1>2, <2>1, <2>2
<1>9. QED BY <1>3, <1>4, <1>5, <1>6, <1>7, <1>8 DEF Housed

\* A turn on a server started for it: nothing is open there.
LEMMA NewHoused ==
    ASSUME TypeOK, Housed, NEW s \in Sessions, NEW v \in Servers, Taking(s, v), TakesNew(s, v)
    PROVE Housed'
<1>1. /\ UNCHANGED <<doomed, holding, id, thread>>
      /\ servers' = Kept /\ adrift' = adrift \cup (servers \ Kept)
      /\ v = begun + 1 /\ begun' = v /\ up' = up \cup {v} /\ on[s] \notin Kept
      /\ doing[s] = "going" /\ doing' = [doing EXCEPT ![s] = "starting"]
      /\ on' = [on EXCEPT ![s] = v] /\ pump' = [pump EXCEPT ![v] = "reading"]
  BY DEF Taking, TakesNew
<1>2. /\ \A o \in Sessions \ {s} : doing'[o] = doing[o] /\ on'[o] = on[o]
      /\ doing'[s] = "starting" /\ on'[s] = v
      /\ \A w \in Servers \ {v} : pump'[w] = pump[w]
      /\ pump'[v] = "reading"
  BY <1>1 DEF TypeOK, SessionsOK, ServersOK
<1>3. begun \in Nat /\ v > begun /\ v \in Nat /\ v # NoServer
      /\ \A o \in Sessions : on[o] \in Nat /\ on[o] <= begun /\ on[o] # v
  BY <1>1 DEF Housed, Started, TypeOK, AgentOK, SessionsOK, Servers, NoServer
<1>4. v \notin servers /\ holding[v] = {} /\ servers \subseteq Servers /\ up \subseteq Servers
      /\ \A w \in servers : w \in Nat /\ w <= begun
  BY <1>3 DEF Housed, Started, TypeOK, AgentOK, Servers
<1>5. Started'
  <2>1. \A o \in Sessions : on'[o] <= begun' BY <1>1, <1>2, <1>3
  <2>2. \A w \in servers' : w <= begun'
    <3>1. servers' \subseteq servers /\ begun' = v BY <1>1 DEF Kept
    <3>2. QED BY <1>3, <1>4, <3>1
  <2>3. \A w \in Servers : w > begun' => w > begun BY <1>1, <1>3 DEF Servers
  <2>4. \A w \in Servers : w > begun' => holding'[w] = {}
    BY <1>1, <2>3 DEF Housed, Started
  <2>5. QED BY <2>1, <2>2, <2>4 DEF Started
<1>6. Named' BY <1>1 DEF Housed, Named
<1>7. ToldOfTheDead' BY <1>1, <1>2 DEF Housed, ToldOfTheDead
<1>8. Starting'
  <2> SUFFICES ASSUME NEW o \in Sessions, doing'[o] = "starting"
               PROVE /\ on'[o] \notin servers' /\ holding'[on'[o]] = {}
                     /\ \A x \in Sessions \ {o} : on'[x] # on'[o]
    BY DEF Starting
  <2>1. CASE o = s
    BY <1>1, <1>2, <1>3, <1>4, <2>1 DEF Kept
  <2>2. CASE o # s
    <3>1. /\ on[o] \notin servers /\ holding[on[o]] = {}
          /\ \A x \in Sessions \ {o} : on[x] # on[o]
      BY <1>2, <2>2 DEF Housed, Starting
    <3>2. QED BY <1>1, <1>2, <1>3, <2>2, <3>1 DEF Kept
  <2>3. QED BY <2>1, <2>2
<1>9. NothingForgotten'
  <2> SUFFICES ASSUME NEW u \in up'
               PROVE \/ u \in servers' \/ u \in doomed' \/ u \in adrift'
                     \/ \E o \in Sessions : on'[o] = u /\ doing'[o] = "starting"
    BY DEF NothingForgotten
  <2>1. CASE u = v BY <1>2, <2>1
  <2>2. CASE u # v
    <3>1. u \in up BY <1>1, <2>2
    <3>2. \/ u \in servers \/ u \in doomed \/ u \in adrift
          \/ \E o \in Sessions : on[o] = u /\ doing[o] = "starting"
      BY <3>1 DEF Housed, NothingForgotten
    <3>3. \A o \in Sessions : doing[o] = "starting" => o # s BY <1>1
    <3>4. QED BY <1>1, <1>2, <3>2, <3>3
  <2>3. QED BY <2>1, <2>2
<1>10. OneHome'
  <2> SUFFICES ASSUME NEW u \in up', NEW w \in up', u # w, holding'[u] \cap holding'[w] # {}
               PROVE u \in adrift' \cup doomed' \/ w \in adrift' \cup doomed'
    BY DEF OneHome
  <2>1. u # v /\ w # v /\ holding[u] \cap holding[w] # {} BY <1>1, <1>4
  <2>2. u \in up /\ w \in up BY <1>1, <2>1
  <2>3. u \in adrift \cup doomed \/ w \in adrift \cup doomed
    BY <2>1, <2>2 DEF Housed, OneHome
  <2>4. QED BY <1>1, <2>3
<1>11. Homes'
  <2> SUFFICES ASSUME NEW u \in up' \ (doomed' \cup adrift'), NEW t \in holding'[u]
               PROVE on'[t[1]] = u
    BY DEF Homes
  <2>1. u \in up \ (doomed \cup adrift) /\ t \in holding[u] /\ u \notin servers \ Kept
    BY <1>1, <1>4
  <2>2. t[1] \in Sessions BY <2>1 DEF TypeOK, AgentOK, ServersOK, Threads
  <2>3. u \in Kept /\ on[t[1]] = u BY <2>1, LeftBehind
  <2>4. QED BY <1>1, <1>2, <2>2, <2>3
<1>12. QED
  BY <1>5, <1>6, <1>7, <1>8, <1>9, <1>10, <1>11 DEF Housed

\* A server that has answered is on the list; one that would not be introduced to, or went
\* first, is let go of with nothing open there.
LEMMA JoinsHoused ==
    ASSUME TypeOK, Placed, Housed, NEW s \in Sessions, Joins(s) PROVE Housed'
<1>1. /\ UNCHANGED <<doomed, up, begun, holding, id, thread, pump>>
      /\ doing[s] = "starting" /\ on[s] \in Servers
      /\ on[s] \notin servers /\ holding[on[s]] = {}
      /\ \A o \in Sessions \ {s} : on[o] # on[s]
  BY DEF Joins, process, stream, books, Placed, Housed, Starting
<1>2. (ToldOfTheDead /\ Named)'
  BY <1>1 DEF Housed, ToldOfTheDead, Named
<1>3. CASE Head(box[s]).kind = "answer"
  <2>1. /\ servers' = servers \cup {on[s]} /\ UNCHANGED <<on, adrift>>
        /\ doing' = [doing EXCEPT ![s] = "joined"]
    BY <1>3 DEF Joins, Goes
  <2>2. doing'[s] = "joined" /\ \A o \in Sessions \ {s} : doing'[o] = doing[o]
    BY <2>1 DEF TypeOK, SessionsOK
  <2>3. Started' BY <1>1, <2>1 DEF Housed, Started
  <2>4. Starting' BY <1>1, <2>1, <2>2 DEF Housed, Starting
  <2>5. (Homes /\ OneHome)' BY <1>1, <2>1 DEF Housed, Homes, OneHome
  <2>6. NothingForgotten' BY <1>1, <2>1, <2>2 DEF Housed, NothingForgotten
  <2>7. QED BY <1>2, <2>3, <2>4, <2>5, <2>6 DEF Housed
<1>4. CASE Head(box[s]).kind # "answer"
  <2>1. servers' = servers /\ on' = [on EXCEPT ![s] = NoServer]
        /\ doing' = [doing EXCEPT ![s] = "idle"] /\ adrift' = adrift \cup {on[s]}
    BY <1>4 DEF Joins, Goes
  <2>2. /\ doing'[s] = "idle" /\ on'[s] = NoServer
        /\ \A o \in Sessions \ {s} : doing'[o] = doing[o] /\ on'[o] = on[o]
    BY <2>1 DEF TypeOK, SessionsOK
  <2>3. Started' BY <1>1, <2>1, <2>2 DEF Housed, Started, NoServer, TypeOK, AgentOK
  <2>4. Starting'
    <3> SUFFICES ASSUME NEW o \in Sessions, doing'[o] = "starting"
                 PROVE /\ on'[o] \notin servers /\ holding[on'[o]] = {}
                       /\ \A x \in Sessions \ {o} : on'[x] # on'[o]
      BY <1>1, <2>1 DEF Starting
    <3>1. o # s /\ doing[o] = "starting" /\ on'[o] = on[o] BY <2>2
    <3>2. on[o] # NoServer BY <3>1 DEF Placed, Servers, NoServer
    <3>3. on[o] \notin servers /\ holding[on[o]] = {} /\ \A x \in Sessions \ {o} : on[x] # on[o]
      BY <3>1 DEF Housed, Starting
    <3>4. QED BY <2>2, <3>1, <3>2, <3>3
  <2>5. NothingForgotten' BY <1>1, <2>1, <2>2 DEF Housed, NothingForgotten
  <2>6. OneHome' BY <1>1, <2>1 DEF Housed, OneHome
  <2>7. Homes'
    <3> SUFFICES ASSUME NEW u \in up \ (doomed \cup adrift'), NEW t \in holding[u]
                 PROVE on'[t[1]] = u
      BY <1>1 DEF Homes
    <3>1. t[1] \in Sessions BY DEF TypeOK, AgentOK, ServersOK, Threads
    <3>2. on[t[1]] = u /\ u # on[s] BY <2>1 DEF Housed, Homes
    <3>3. QED BY <2>2, <3>1, <3>2
  <2>8. QED BY <1>2, <2>3, <2>4, <2>5, <2>6, <2>7 DEF Housed
<1>5. QED BY <1>3, <1>4

\* A thread is opened where its conversation is.
LEMMA OpeningHoused ==
    ASSUME TypeOK, Placed, Housed, NEW s \in Sessions, NEW named \in Threads, named[1] = s,
           doing[s] = "opening", doing' = [doing EXCEPT ![s] = "open"],
           thread' = [thread EXCEPT ![s] = named],
           holding' = [holding EXCEPT ![on[s]] = @ \cup {named}],
           UNCHANGED <<servers, doomed, adrift, up, begun, on, id, pump>>
    PROVE Housed'
<1>1. on[s] \in Servers BY DEF Placed
<1>2. /\ doing'[s] = "open" /\ \A o \in Sessions \ {s} : doing'[o] = doing[o]
      /\ thread'[s] = named /\ \A o \in Sessions \ {s} : thread'[o] = thread[o]
      /\ holding'[on[s]] = holding[on[s]] \cup {named}
      /\ \A v \in Servers \ {on[s]} : holding'[v] = holding[v]
  BY <1>1 DEF TypeOK, SessionsOK, ServersOK
<1>3. ToldOfTheDead' BY DEF Housed, ToldOfTheDead
<1>4. Started'
  <2>1. on[s] <= begun /\ begun \in Nat /\ on[s] \in Nat
    BY <1>1 DEF Housed, Started, TypeOK, AgentOK, Servers
  <2>2. QED BY <1>1, <1>2, <2>1 DEF Housed, Started
<1>5. Named' BY <1>2 DEF Housed, Named
<1>6. Starting'
  <2> SUFFICES ASSUME NEW o \in Sessions, doing'[o] = "starting"
               PROVE /\ on[o] \notin servers /\ holding'[on[o]] = {}
                     /\ \A x \in Sessions \ {o} : on[x] # on[o]
    BY DEF Starting
  <2>1. o # s BY <1>2
  <2>2. doing[o] = "starting" BY <1>2, <2>1
  <2>3. on[o] \in Servers BY <2>2 DEF Placed
  <2>4. on[o] \notin servers /\ holding[on[o]] = {} /\ \A x \in Sessions \ {o} : on[x] # on[o]
    BY <2>2 DEF Housed, Starting
  <2>5. QED BY <1>2, <2>1, <2>3, <2>4
<1>7. Homes'
  <2> SUFFICES ASSUME NEW u \in up \ (doomed \cup adrift), NEW t \in holding'[u]
               PROVE on[t[1]] = u
    BY DEF Homes
  <2>1. u \in Servers BY DEF TypeOK, AgentOK
  <2>2. t \in holding[u] \/ (u = on[s] /\ t = named) BY <1>2, <2>1
  <2>3. QED BY <2>2 DEF Housed, Homes
<1>8. NothingForgotten'
  <2>1. \A o \in Sessions : doing[o] = "starting" => doing'[o] = "starting" BY <1>2
  <2>2. QED BY <2>1 DEF Housed, NothingForgotten
<1>9. OneHome'
  <2>1. \A w \in up : w # on[s] /\ named \in holding[w] => w \in doomed \cup adrift
    BY DEF Housed, Homes
  <2>2. up \subseteq Servers BY DEF TypeOK, AgentOK
  <2>3. QED BY <1>1, <1>2, <2>1, <2>2 DEF Housed, OneHome
<1>10. QED BY <1>3, <1>4, <1>5, <1>6, <1>7, <1>8, <1>9 DEF Housed

LEMMA StepHoused ==
    ASSUME TypeOK, Placed, Housed, [Next]_vars PROVE Housed'
<1> USE DEF process, stream, books, session, agent
<1>1. ASSUME Falling PROVE Housed' BY <1>1, FallingHoused
<1>2. ASSUME NEW s \in Sessions, GoesOnHere(s) PROVE Housed' BY <1>2, HereHoused
<1>3. CASE Moved BY <1>1, <1>3 DEF Moved, Falling
<1>4. CASE Stops
  <2>1. CASE Lists BY <1>4, <2>1, ListsHoused DEF Stops
  <2>2. CASE UNCHANGED <<servers, doomed>> BY <1>1, <1>4, <2>2 DEF Stops, Falling
  <2>3. QED BY <1>4, <2>1, <2>2 DEF Stops
<1>5. ASSUME NEW s \in Sessions, LetsGo(s) PROVE Housed' BY <1>5, ListsHoused DEF LetsGo
<1>6. ASSUME NEW s \in Sessions, NEW v \in Servers, Taking(s, v) PROVE Housed'
  BY <1>6, OneHoused, NewHoused DEF Taking
<1>7. ASSUME NEW s \in Sessions, Joins(s) PROVE Housed' BY <1>7, JoinsHoused
<1>8. ASSUME NEW s \in Sessions, SetsOut(s) \/ Shares(s) PROVE Housed'
  BY <1>2, <1>8 DEF SetsOut, Shares, Goes, GoesOnHere, TypeOK, SessionsOK
<1>9. ASSUME NEW s \in Sessions, Over(s), doing[s] # "starting",
             UNCHANGED <<servers, doomed, adrift, up, begun, holding, on, pump>>,
             id' = id \/ id' = [id EXCEPT ![s] = thread[s]]
      PROVE Housed'
  BY <1>2, <1>9 DEF Over, Goes, GoesOnHere, TypeOK, SessionsOK
<1>10. ASSUME NEW s \in Sessions, Reads(s) \/ Leaves(s) PROVE Housed'
  <2>1. CASE Over(s) BY <1>9, <1>10, <2>1 DEF Reads, Leaves
  <2>2. CASE UNCHANGED <<doing, thread, id>>
    BY <1>2, <1>10, <2>2 DEF Reads, Leaves, GoesOnHere, TypeOK, SessionsOK
  <2>3. QED BY <1>10, <2>1, <2>2 DEF Reads, Leaves
<1>11. ASSUME NEW s \in Sessions, Opens(s) \/ Begins(s) PROVE Housed'
  <2>1. CASE Over(s) BY <1>9, <1>11, <2>1 DEF Opens, Begins
  <2>2. CASE /\ \E to \in {"open", "opening", "reading"} : Goes(s, to)
             /\ thread' = thread \/ thread' = [thread EXCEPT ![s] = id[s]]
    BY <1>2, <1>11, <2>2 DEF Opens, Begins, Goes, GoesOnHere, TypeOK, SessionsOK
  <2>3. QED BY <1>11, <2>1, <2>2 DEF Opens, Begins
<1>12. ASSUME NEW s \in Sessions, Opening(s) PROVE Housed'
  <2>1. CASE Head(box[s]).kind # "answer"
    BY <1>9, <1>12, <2>1, Zenon DEF Opening
  <2>2. CASE Head(box[s]).kind = "answer"
    <3>1. Opened(Call(s, "thread")) = IF id[s] = NoThread THEN <<s, took[s]>> ELSE id[s]
      BY DEF Opened, Call
    <3>2. PICK named \in Threads : named = Opened(Call(s, "thread"))
      BY <3>1 DEF Threads, TypeOK, SessionsOK
    <3>3. named[1] = s BY <3>1, <3>2 DEF Housed, Named
    <3>4. /\ Goes(s, "open") /\ thread' = [thread EXCEPT ![s] = named]
          /\ holding' = [holding EXCEPT ![on[s]] = @ \cup {named}]
      BY <1>12, <2>2, <3>2, Zenon DEF Opening
    <3>5. QED BY <1>12, <3>3, <3>4, OpeningHoused DEF Opening, Goes
  <2>3. QED BY <2>1, <2>2
<1>13. ASSUME NEW v \in Servers, Pumps(v) \/ Tells(v) PROVE Housed'
  BY <1>1, <1>13 DEF Pumps, Tells, Falling, TypeOK, ServersOK
<1>14. ASSUME NEW v \in Servers, PutsDown(v) \/ Dies(v) PROVE Housed'
  <2>1. CASE Falls(v) BY <1>1, <1>14, <2>1 DEF PutsDown, Dies, Falls, Falling
  <2>2. CASE v \notin up /\ PutsDown(v)
    BY <1>1, <2>2 DEF PutsDown, Falling
  <2>3. QED BY <1>14, <2>1, <2>2 DEF PutsDown, Dies
<1>15. ASSUME NEW v \in Servers, Answers(v) \/ Speaks(v) \/ Finishes(v) \/ Wonders(v) PROVE Housed'
  BY <1>1, <1>15 DEF Answers, Speaks, Finishes, Wonders, Falling
<1>16. CASE UNCHANGED vars BY <1>1, <1>16 DEF vars, Falling
<1>17. QED
  BY <1>3, <1>4, <1>5, <1>6, <1>7, <1>8, <1>10, <1>11, <1>12, <1>13, <1>14, <1>15, <1>16,
     TakesEither
  DEF Next, Turn, GoesOn, Server

-----------------------------------------------------------------------------
(* What is said on them.                                                   *)

LEMMA InitHeard == Init => Heard
<1> SUFFICES ASSUME Init PROVE Heard
  OBVIOUS
<1>1. \A s \in Sessions : doing[s] = "idle" /\ box[s] = <<>> BY DEF Init
<1>2. NotedOnce BY <1>1 DEF NotedOnce, Contains
<1>3. QED BY <1>1, <1>2 DEF Heard, HandedTo, HasItInHand, Reading

LEMMA AddedItems ==
    ASSUME NEW M, NEW q \in Seq(M), NEW m \in M
    PROVE /\ \A i \in DOMAIN Append(q, m) :
               Append(q, m)[i] = m \/ (i \in DOMAIN q /\ Append(q, m)[i] = q[i])
          /\ Contains(Append(q, m), m)
          /\ \A x : Contains(q, x) => Contains(Append(q, m), x)
  BY DEF Contains
LEMMA JoinedItems ==
    ASSUME NEW M, NEW q \in Seq(M), NEW r \in Seq(M), NEW i \in DOMAIN (q \o r)
    PROVE \/ i \in DOMAIN q /\ (q \o r)[i] = q[i]
          \/ i - Len(q) \in DOMAIN r /\ (q \o r)[i] = r[i - Len(q)]
  OBVIOUS
LEMMA TakenItems ==
    ASSUME NEW M, NEW q \in Seq(M), q # <<>>
    PROVE /\ 1 \in DOMAIN q /\ Head(q) = q[1]
          /\ \A i \in DOMAIN Tail(q) : i + 1 \in DOMAIN q /\ Tail(q)[i] = q[i + 1]
          /\ \A x : Contains(q, x) /\ Head(q) # x => Contains(Tail(q), x)
<1>1. 1 \in DOMAIN q /\ Head(q) = q[1]
      /\ \A i \in DOMAIN Tail(q) : i + 1 \in DOMAIN q /\ Tail(q)[i] = q[i + 1]
  OBVIOUS
<1>2. ASSUME NEW x, NEW i \in 1..Len(q), q[i] = x, Head(q) # x PROVE Contains(Tail(q), x)
  <2>1. i - 1 \in 1..Len(Tail(q)) /\ Tail(q)[i - 1] = x BY <1>1, <1>2
  <2>2. QED BY <2>1 DEF Contains
<1>3. QED BY <1>1, <1>2 DEF Contains

\* A conversation that nothing happens to has in hand what it had.
Untouched(s) ==
    /\ doing'[s] = doing[s] /\ box'[s] = box[s] /\ took'[s] = took[s] /\ on'[s] = on[s]
    /\ thread'[s] = thread[s] /\ id'[s] = id[s]
    /\ doing[s] \in Reading => pump'[on[s]] = pump[on[s]]

LEMMA UntouchedHeard ==
    ASSUME NEW s \in Sessions, HandedTo(s), HasItInHand(s), Untouched(s)
    PROVE HandedTo(s)' /\ HasItInHand(s)'
<1>1. Asking(s)' = Asking(s) BY DEF Untouched, Asking, Call
<1>2. QED BY <1>1 DEF Untouched, HandedTo, HasItInHand

\* One that is not reading has nothing in hand.
LEMMA Idle ==
    ASSUME TypeOK, NEW s \in Sessions, HandedTo(s), doing[s] \notin Reading
    PROVE box[s] = <<>>
<1>1. box[s] \in Seq(Messages) BY DEF TypeOK, SessionsOK
<1>2. 1 \notin DOMAIN box[s] BY DEF HandedTo
<1>3. QED BY <1>1, <1>2, TakenItems

LEMMA EmptiedHeard ==
    ASSUME NEW s \in Sessions, box'[s] = <<>>,
           doing'[s] \notin Reading \/ pump'[on'[s]] # "told"
    PROVE HandedTo(s)' /\ HasItInHand(s)'
  BY DEF HandedTo, HasItInHand

LEMMA ToldHeard ==
    ASSUME NEW s \in Sessions, box'[s] = <<End>>, doing'[s] \in Reading, pump'[on'[s]] = "told"
    PROVE HandedTo(s)' /\ HasItInHand(s)'
<1>1. <<End>>[1] = End /\ 1 \in 1..Len(<<End>>) OBVIOUS
<1>2. HandedTo(s)' BY DEF HandedTo
<1>3. HasItInHand(s)' BY <1>1 DEF HasItInHand, Contains
<1>4. QED BY <1>2, <1>3

\* A call is written: what comes of the reader of its answer.
LEMMA WrittenHeard ==
    ASSUME TypeOK, NEW s \in Sessions, NEW what \in {"thread", "turn"}, on[s] \in Servers,
           Written(s, on[s], Call(s, what)), doing'[s] \in Reading, UNCHANGED <<on, pump>>
    PROVE HandedTo(s)' /\ HasItInHand(s)'
<1>1. CASE pump[on[s]] = "told"
  <2>1. box'[s] = <<End>> BY <1>1, WrittenTypes
  <2>2. QED BY <1>1, <2>1, ToldHeard
<1>2. CASE pump[on[s]] # "told"
  <2>1. box'[s] = <<>> BY <1>2, WrittenTypes
  <2>2. QED BY <1>2, <2>1, EmptiedHeard
<1>3. QED BY <1>1, <1>2

\* The words of its turn are taken out one by one, and the end of the stream ends it.
LEMMA ReadsHeard ==
    ASSUME TypeOK, NEW s \in Sessions, HandedTo(s), HasItInHand(s), box[s] # <<>>,
           box' = [box EXCEPT ![s] = Tail(box[s])], Head(box[s]).kind # "end",
           UNCHANGED <<doing, took, on, thread, id, pump>>
    PROVE HandedTo(s)' /\ HasItInHand(s)'
<1>1. box[s] \in Seq(Messages) /\ box'[s] = Tail(box[s]) BY DEF TypeOK, SessionsOK
<1>2. Asking(s)' = Asking(s) BY DEF Asking, Call
<1>3. \A i \in DOMAIN Tail(box[s]) : i + 1 \in DOMAIN box[s] /\ Tail(box[s])[i] = box[s][i + 1]
  BY <1>1, TakenItems
<1>4. HandedTo(s)' BY <1>1, <1>2, <1>3 DEF HandedTo
<1>5. Head(box[s]) # End BY DEF End, Said, Message
<1>6. Contains(box[s], End) => Contains(Tail(box[s]), End) BY <1>1, <1>5, TakenItems
<1>7. QED BY <1>1, <1>4, <1>6 DEF HasItInHand

\* A message is handed to a reader it belongs to.
LEMMA PumpsHeard ==
    ASSUME TypeOK, Placed, Heard, NEW v \in Servers, Pumps(v), NEW s \in Sessions
    PROVE HandedTo(s)' /\ HasItInHand(s)'
<1>1. HandedTo(s) /\ HasItInHand(s) BY DEF Heard
<1>2. UNCHANGED <<doing, took, on, thread, id>> BY DEF Pumps
<1>3. pump' = pump \/ pump' = [pump EXCEPT ![v] = "raised"] BY DEF Pumps
<1>4. /\ pump[v] = "reading" /\ pump'[v] # "told"
      /\ \A w \in Servers : w # v => pump'[w] = pump[w]
  BY <1>3 DEF Pumps, TypeOK, ServersOK
<1>5. PICK m \in Messages : m = Head(wire[v]) /\ wire[v] # <<>>
  BY Taken DEF Pumps, TypeOK, ServersOK
<1>6. box'[s] = IF s \in Readers(v) /\ Belongs(m, s) THEN Append(box[s], m) ELSE box[s]
  BY <1>5 DEF Pumps
<1>7. doing[s] \in Reading => on[s] = v \/ pump'[on[s]] = pump[on[s]]
  BY <1>4 DEF Placed, Reading
<1>8. CASE s \notin Readers(v)
  <2>1. Untouched(s) BY <1>2, <1>6, <1>7, <1>8 DEF Untouched, Readers
  <2>2. QED BY <1>1, <2>1, UntouchedHeard
<1>9. CASE s \in Readers(v)
  <2>1. doing[s] \in Reading /\ on[s] = v BY <1>9 DEF Readers
  <2>2. HasItInHand(s)' BY <1>2, <1>4, <2>1 DEF HasItInHand
  <2>3. Asking(s)' = Asking(s) BY <1>2 DEF Asking, Call
  <2>4. End # Note /\ Note.kind = "note" /\ End.kind = "end" BY DEF End, Note, Said, Message
  <2>6. box[s] \in Seq(Messages) BY DEF TypeOK, SessionsOK
  <2>7. \A i \in DOMAIN box'[s] :
          \/ box'[s][i] = m /\ Belongs(m, s)
          \/ i \in DOMAIN box[s] /\ box'[s][i] = box[s][i]
    BY <1>6, <2>6, AddedItems
  <2>8. \A i \in DOMAIN box[s] : ~(box[s][i] = End /\ pump[on[s]] = "told")
    BY <1>4, <2>1
  <2>9. HandedTo(s)'
    BY <1>1, <1>2, <2>1, <2>3, <2>7, <2>8 DEF HandedTo, Belongs, Listening
  <2>10. QED BY <2>2, <2>9
<1>10. QED BY <1>8, <1>9

\* Every reader is told of the end.
LEMMA TellsHeard ==
    ASSUME TypeOK, Heard, NEW v \in Servers, Tells(v), NEW s \in Sessions
    PROVE HandedTo(s)' /\ HasItInHand(s)'
<1>1. HandedTo(s) /\ HasItInHand(s) BY DEF Heard
<1>2. UNCHANGED <<doing, took, on, thread, id>> /\ pump' = [pump EXCEPT ![v] = "told"]
      /\ pump[v] = "reading"
      /\ box'[s] = IF s \in Readers(v) THEN Append(box[s], End) ELSE box[s]
  BY DEF Tells
<1>3. CASE s \notin Readers(v)
  <2>1. Untouched(s) BY <1>2, <1>3 DEF Untouched, Readers
  <2>2. QED BY <1>1, <2>1, UntouchedHeard
<1>4. CASE s \in Readers(v)
  <2>1. doing[s] \in Reading /\ on[s] = v BY <1>4 DEF Readers
  <2>2. pump'[on'[s]] = "told" BY <1>2, <2>1 DEF TypeOK, ServersOK
  <2>3. Asking(s)' = Asking(s) BY <1>2 DEF Asking, Call
  <2>4. box[s] \in Seq(Messages) /\ End \in Messages BY Signs DEF TypeOK, SessionsOK
  <2>5. /\ Contains(box'[s], End)
        /\ \A i \in DOMAIN box'[s] :
             box'[s][i] = End \/ (i \in DOMAIN box[s] /\ box'[s][i] = box[s][i])
    BY <1>2, <1>4, <2>4, AddedItems
  <2>6. HandedTo(s)' BY <1>1, <1>2, <2>1, <2>2, <2>3, <2>5 DEF HandedTo
  <2>7. QED BY <2>5, <2>6 DEF HasItInHand
<1>5. QED BY <1>3, <1>4

\* What its own turn does to what a conversation has in hand.
LEMMA TurnHeard ==
    ASSUME TypeOK, Placed, Heard, NEW s \in Sessions, Turn(s)
    PROVE HandedTo(s)' /\ HasItInHand(s)'
<1> USE DEF stream, session, process
<1>1. box[s] \in Seq(Messages) BY DEF TypeOK, SessionsOK
<1>2. HandedTo(s) /\ HasItInHand(s) BY DEF Heard
<1>3. ASSUME NEW to \in Doings, Goes(s, to) PROVE doing'[s] = to
  BY <1>3 DEF Goes, TypeOK, SessionsOK
<1>4. CASE SetsOut(s) \/ Shares(s)
  <2>1. box[s] = <<>> /\ box' = box BY <1>2, <1>4, Idle DEF SetsOut, Shares, Reading
  <2>2. doing'[s] \notin Reading BY <1>3, <1>4 DEF SetsOut, Shares, Doings, Reading
  <2>3. QED BY <2>1, <2>2, EmptiedHeard
<1>5. ASSUME NEW v \in Servers, Taking(s, v) PROVE HandedTo(s)' /\ HasItInHand(s)'
  <2>1. box[s] = <<>> BY <1>2, <1>5, Idle DEF Taking, Reading
  <2>2. box'[s] = <<>> BY <1>5, <2>1 DEF Taking, TakesOne, TakesNew, TypeOK, SessionsOK
  <2>3. doing'[s] = "holding" \/ pump'[on'[s]] = "reading"
    BY <1>5 DEF Taking, TakesOne, TakesNew, TypeOK, SessionsOK, ServersOK
  <2>4. QED BY <2>2, <2>3, EmptiedHeard DEF Reading
<1>6. ASSUME Over(s) PROVE HandedTo(s)' /\ HasItInHand(s)'
  <2>1. box'[s] = <<>> /\ doing'[s] = "idle"
    BY <1>3, <1>6, OverTypes DEF Doings, TypeOK, SessionsOK
  <2>2. QED BY <2>1, EmptiedHeard DEF Reading
<1>7. CASE Joins(s)
  <2>1. box'[s] = <<>> /\ doing'[s] \notin Reading
    BY <1>7 DEF Joins, Goes, TypeOK, SessionsOK, Reading
  <2>2. QED BY <2>1, EmptiedHeard
<1>8. CASE Opens(s)
  <2>1. on[s] \in Servers /\ UNCHANGED <<on, pump>> BY <1>8 DEF Opens, Placed
  <2>2. CASE Goes(s, "open") /\ UNCHANGED box
    <3>1. doing'[s] = "open" BY <1>3, <2>2 DEF Doings
    <3>2. box[s] = <<>> BY <1>2, <1>8, Idle DEF Opens, Reading
    <3>3. QED BY <2>2, <3>1, <3>2, EmptiedHeard DEF Reading
  <2>3. CASE Written(s, on[s], Call(s, "thread")) /\ Goes(s, "opening")
    <3>1. doing'[s] = "opening" BY <1>3, <2>3 DEF Doings
    <3>2. QED BY <2>1, <2>3, <3>1, WrittenHeard DEF Reading
  <2>4. QED BY <1>6, <1>8, <2>2, <2>3 DEF Opens
<1>9. CASE Begins(s)
  <2>1. on[s] \in Servers /\ UNCHANGED <<on, pump>> BY <1>9 DEF Begins, Placed
  <2>2. CASE Written(s, on[s], Call(s, "turn")) /\ Goes(s, "reading")
    <3>1. doing'[s] = "reading" BY <1>3, <2>2 DEF Doings
    <3>2. QED BY <2>1, <2>2, <3>1, WrittenHeard DEF Reading
  <2>3. QED BY <1>6, <1>9, <2>2 DEF Begins
<1>10. CASE Opening(s)
  <2>1. Over(s) \/ (Goes(s, "open") /\ box' = [box EXCEPT ![s] = <<>>])
    BY <1>10, Zenon DEF Opening
  <2>2. CASE Goes(s, "open") /\ box' = [box EXCEPT ![s] = <<>>]
    <3>1. doing'[s] = "open" /\ box'[s] = <<>> BY <1>3, <2>2 DEF Doings, TypeOK, SessionsOK
    <3>2. QED BY <3>1, EmptiedHeard DEF Reading
  <2>3. QED BY <1>6, <2>1, <2>2
<1>11. CASE Reads(s)
  <2>1. \/ Over(s)
        \/ /\ box' = [box EXCEPT ![s] = Tail(box[s])] /\ Head(box[s]).kind # "end"
           /\ UNCHANGED <<doing, thread, id>>
    BY <1>11 DEF Reads
  <2>2. box[s] # <<>> /\ UNCHANGED <<took, on, pump>> BY <1>11 DEF Reads
  <2>3. QED BY <1>2, <1>6, <2>1, <2>2, ReadsHeard
<1>12. CASE Leaves(s) BY <1>6, <1>12 DEF Leaves
<1>13. QED
  BY <1>4, <1>5, <1>7, <1>8, <1>9, <1>10, <1>11, <1>12, TakesEither DEF Turn, GoesOn

\* Nor does it touch anybody else: nobody is on a server that is only now started.
LEMMA TurnUntouched ==
    ASSUME TypeOK, Placed, Housed, NEW s \in Sessions, Turn(s), NEW o \in Sessions \ {s}
    PROVE Untouched(o)
<1> USE DEF stream, session, process
<1>1. ASSUME NEW v \in Servers, Taking(s, v) PROVE Untouched(o)
  <2>1. /\ \E to \in Doings : doing' = [doing EXCEPT ![s] = to]
        /\ box' = box \/ box' = [box EXCEPT ![s] = <<>>]
        /\ on' = [on EXCEPT ![s] = v] /\ UNCHANGED <<took, thread, id>>
    BY <1>1 DEF Taking, TakesOne, TakesNew, Doings
  <2>2. pump' = pump \/ (v = begun + 1 /\ pump' = [pump EXCEPT ![v] = "reading"])
    BY <1>1 DEF Taking, TakesOne, TakesNew
  <2>3. on[o] <= begun /\ on[o] \in Nat /\ begun \in Nat
    BY DEF Housed, Started, TypeOK, SessionsOK, AgentOK
  <2>4. doing[o] \in Reading => on[o] \in Servers BY DEF Placed, Reading
  <2>5. doing[o] \in Reading => pump'[on[o]] = pump[on[o]]
    BY <2>2, <2>3, <2>4 DEF TypeOK, ServersOK
  <2>6. QED BY <2>1, <2>5 DEF Untouched, TypeOK, SessionsOK
<1>2. ASSUME UNCHANGED pump, UNCHANGED on \/ on' = [on EXCEPT ![s] = NoServer],
             UNCHANGED doing \/ \E to \in Doings : Goes(s, to),
             UNCHANGED box \/ \E q : box' = [box EXCEPT ![s] = q],
             UNCHANGED took \/ took' = [took EXCEPT ![s] = @ + 1],
             UNCHANGED id \/ \E t : id' = [id EXCEPT ![s] = t],
             UNCHANGED thread \/ \E t : thread' = [thread EXCEPT ![s] = t]
      PROVE Untouched(o)
  BY <1>2 DEF Untouched, Goes, TypeOK, SessionsOK
<1>3. CASE SetsOut(s) \/ Shares(s) BY <1>2, <1>3 DEF SetsOut, Shares, Doings
<1>4. CASE Joins(s) BY <1>2, <1>4 DEF Joins, Doings
<1>5. CASE Opens(s) \/ Begins(s)
  BY <1>2, <1>5 DEF Opens, Begins, Written, Over, Doings
<1>6. CASE Opening(s) BY <1>2, <1>6 DEF Opening, Over, Doings
<1>7. CASE Reads(s) \/ Leaves(s) BY <1>2, <1>7 DEF Reads, Leaves, Over, Doings
<1>8. QED BY <1>1, <1>3, <1>4, <1>5, <1>6, <1>7, TakesEither DEF Turn, GoesOn

\* What names no thread is only ever in the hands of one that reads a turn.
LEMMA NotesAreRead ==
    ASSUME NEW s \in Sessions, HandedTo(s), Contains(box[s], Note) PROVE doing[s] = "reading"
<1>1. PICK i \in 1..Len(box[s]) : box[s][i] = Note BY DEF Contains
<1>2. Note # End /\ Note.kind = "note" BY DEF Note, End, Said, Message
<1>3. i \in DOMAIN box[s] BY <1>1
<1>4. QED BY <1>1, <1>2, <1>3 DEF HandedTo

\* Its own turn hands a conversation none.
Unnoted(s) == Contains(box'[s], Note) => Contains(box[s], Note) /\ on'[s] = on[s]

LEMMA TurnUnnoted ==
    ASSUME TypeOK, Placed, Heard, NEW s \in Sessions, Turn(s) PROVE Unnoted(s)
<1> USE DEF Unnoted, stream, session, process
<1>1. box[s] \in Seq(Messages) /\ HandedTo(s) BY DEF TypeOK, SessionsOK, Heard
<1>2. ASSUME box'[s] = <<>> \/ box'[s] = <<End>> PROVE Unnoted(s)
  BY <1>2 DEF Contains, Note, End, Said, Message
<1>3. CASE SetsOut(s) \/ Shares(s) BY <1>3 DEF SetsOut, Shares
<1>4. ASSUME NEW v \in Servers, Taking(s, v) PROVE Unnoted(s)
  <2>1. box[s] = <<>> BY <1>1, <1>4, Idle DEF Taking, Reading
  <2>2. box'[s] = <<>> BY <1>4, <2>1 DEF Taking, TakesOne, TakesNew, TypeOK, SessionsOK
  <2>3. QED BY <1>2, <2>2
<1>5. CASE Over(s) BY <1>2, <1>5, OverTypes
<1>6. CASE Joins(s) BY <1>2, <1>6 DEF Joins, TypeOK, SessionsOK
<1>7. CASE Opens(s) \/ Begins(s)
  <2>1. \/ Over(s) \/ UNCHANGED <<box, on>>
        \/ \E what \in {"thread", "turn"} : Written(s, on[s], Call(s, what))
    BY <1>7 DEF Opens, Begins
  <2>2. ASSUME NEW what \in {"thread", "turn"}, Written(s, on[s], Call(s, what))
        PROVE box'[s] = <<>> \/ box'[s] = <<End>>
    BY <2>2 DEF Written, TypeOK, SessionsOK
  <2>3. QED BY <1>2, <1>5, <2>1, <2>2
<1>8. CASE Opening(s)
  <2>1. Over(s) \/ box' = [box EXCEPT ![s] = <<>>] BY <1>8, Zenon DEF Opening
  <2>2. QED BY <1>2, <1>5, <2>1 DEF TypeOK, SessionsOK
<1>9. CASE Reads(s)
  <2>1. Over(s) \/ box' = [box EXCEPT ![s] = Tail(box[s])] BY <1>9 DEF Reads
  <2>2. box[s] # <<>> /\ UNCHANGED on BY <1>9 DEF Reads
  <2>3. CASE box' = [box EXCEPT ![s] = Tail(box[s])]
    <3>1. box'[s] = Tail(box[s]) BY <2>3 DEF TypeOK, SessionsOK
    <3>2. \A i \in DOMAIN Tail(box[s]) : i + 1 \in DOMAIN box[s] /\ Tail(box[s])[i] = box[s][i + 1]
      BY <1>1, <2>2, TakenItems
    <3>3. Contains(Tail(box[s]), Note) => Contains(box[s], Note) BY <1>1, <3>2 DEF Contains
    <3>4. QED BY <2>2, <3>1, <3>3
  <2>4. QED BY <1>5, <2>1, <2>3
<1>10. CASE Leaves(s) BY <1>5, <1>10 DEF Leaves
<1>11. QED
  BY <1>3, <1>4, <1>6, <1>7, <1>8, <1>9, <1>10, TakesEither DEF Turn, GoesOn

\* A message that names no thread is handed to the one turn reading, or to nobody.
LEMMA PumpsNoted == ASSUME TypeOK, Heard, NEW v \in Servers, Pumps(v) PROVE NotedOnce'
<1>1. PICK m \in Messages : m = Head(wire[v]) /\ wire[v] # <<>>
  BY Taken DEF Pumps, TypeOK, ServersOK
<1>2. UNCHANGED on
      /\ \A x \in Sessions :
           box'[x] = IF x \in Readers(v) /\ Belongs(m, x) THEN Append(box[x], m) ELSE box[x]
  BY <1>1 DEF Pumps
<1>3. ASSUME NEW x \in Sessions, Contains(box'[x], Note), ~Contains(box[x], Note)
      PROVE Listening(on[x]) = {x}
  <2>1. x \in Readers(v) /\ Belongs(m, x) /\ box'[x] = Append(box[x], m) BY <1>2, <1>3
  <2>2. PICK i \in 1..Len(Append(box[x], m)) : Append(box[x], m)[i] = Note
    BY <1>3, <2>1 DEF Contains
  <2>3. i \in DOMAIN Append(box[x], m) /\ box[x] \in Seq(Messages)
    BY <2>2 DEF TypeOK, SessionsOK
  <2>4. Append(box[x], m)[i] = m \/ (i \in 1..Len(box[x]) /\ Append(box[x], m)[i] = box[x][i])
    BY <2>3, AddedItems
  <2>5. m = Note BY <1>3, <2>2, <2>4 DEF Contains
  <2>6. QED BY <2>1, <2>5 DEF Belongs, Note, Said, Message
<1>4. ASSUME NEW x \in Sessions, Contains(box'[x], Note) PROVE x \in Listening(on[x])
  <2>1. CASE Contains(box[x], Note) BY <2>1, NotesAreRead DEF Heard, Listening
  <2>2. QED BY <1>3, <1>4, <2>1
<1>5. QED BY <1>2, <1>3, <1>4 DEF Heard, NotedOnce

LEMMA StepNoted ==
    ASSUME TypeOK, Placed, Housed, Heard, [Next]_vars PROVE NotedOnce'
<1>1. ASSUME \A s \in Sessions : Unnoted(s) PROVE NotedOnce'
  BY <1>1 DEF Heard, NotedOnce, Unnoted
<1>2. ASSUME NEW s \in Sessions, Turn(s) PROVE NotedOnce'
  <2>1. \A o \in Sessions \ {s} : Unnoted(o) BY <1>2, TurnUntouched DEF Untouched, Unnoted
  <2>2. QED BY <1>1, <1>2, <2>1, TurnUnnoted
<1>3. ASSUME NEW v \in Servers, Tells(v) PROVE NotedOnce'
  <2>1. ASSUME NEW s \in Sessions PROVE Unnoted(s)
    <3>1. on' = on /\ (box'[s] = Append(box[s], End) \/ box'[s] = box[s]) BY <1>3 DEF Tells
    <3>2. box[s] \in Seq(Messages) /\ End # Note
      BY DEF TypeOK, SessionsOK, End, Note, Said, Message
    <3>3. ASSUME box'[s] = Append(box[s], End), Contains(box'[s], Note)
          PROVE Contains(box[s], Note)
      <4>1. PICK i \in 1..Len(Append(box[s], End)) : Append(box[s], End)[i] = Note
        BY <3>3 DEF Contains
      <4>2. i \in 1..Len(box[s]) /\ box[s][i] = Note BY <3>2, <4>1
      <4>3. QED BY <4>2 DEF Contains
    <3>4. QED BY <3>1, <3>3 DEF Unnoted
  <2>2. QED BY <1>1, <2>1
<1>4. ASSUME UNCHANGED session PROVE NotedOnce' BY <1>1, <1>4 DEF session, Unnoted
<1>5. ASSUME NEW v \in Servers, PutsDown(v) \/ Server(v) PROVE NotedOnce'
  BY <1>4, <1>5 DEF PutsDown, Server, Answers, Speaks, Finishes, Wonders, Dies
<1>6. CASE Moved \/ Stops \/ UNCHANGED vars \/ \E o \in Sessions : LetsGo(o)
  BY <1>4, <1>6 DEF Moved, Stops, LetsGo, vars
<1>7. QED BY <1>2, <1>3, <1>5, <1>6, PumpsNoted DEF Next

LEMMA StepHeard == ASSUME TypeOK, Placed, Housed, Heard, [Next]_vars PROVE Heard'
<1>1. ASSUME UNCHANGED <<session, pump>> PROVE \A s \in Sessions : Untouched(s)
  BY <1>1 DEF session, Untouched
<1>2. ASSUME NEW s \in Sessions PROVE HandedTo(s)' /\ HasItInHand(s)'
  <2>1. HandedTo(s) /\ HasItInHand(s) BY DEF Heard
  <2>2. ASSUME NEW o \in Sessions, Turn(o) PROVE HandedTo(s)' /\ HasItInHand(s)'
    <3>1. CASE o = s BY <2>2, <3>1, TurnHeard
    <3>2. CASE o # s BY <2>1, <2>2, <3>2, TurnUntouched, UntouchedHeard
    <3>3. QED BY <3>1, <3>2
  <2>3. ASSUME NEW v \in Servers, Pumps(v) \/ Tells(v) PROVE HandedTo(s)' /\ HasItInHand(s)'
    BY <2>3, PumpsHeard, TellsHeard
  <2>4. CASE UNCHANGED <<session, pump>> BY <1>1, <2>1, <2>4, UntouchedHeard
  <2>5. CASE Moved \/ Stops \/ UNCHANGED vars \/ \E o \in Sessions : LetsGo(o)
    BY <2>4, <2>5 DEF Moved, Stops, LetsGo, vars, stream
  <2>6. ASSUME NEW v \in Servers, PutsDown(v) \/ Server(v) PROVE UNCHANGED <<session, pump>>
    BY <2>6 DEF PutsDown, Server, Answers, Speaks, Finishes, Wonders, Dies, Falls, stream
  <2>7. QED BY <2>2, <2>3, <2>4, <2>5, <2>6 DEF Next
<1>3. QED BY <1>2, StepNoted DEF Heard

-----------------------------------------------------------------------------

LEMMA Inductive == Spec => []SInv
<1>1. Init => SInv BY InitTypes, InitPlaced, InitHoused, InitHeard DEF SInv
<1>2. SInv /\ [Next]_vars => SInv' BY StepTypes, StepHoused, StepHeard DEF SInv
<1>3. QED BY <1>1, <1>2, PTL DEF Spec

\* Every server of the agent's that is up is on its list, is being put down, or is being
\* introduced to it, but for those it let go of: for what they knew, or for refusing it.
THEOREM NoneIsForgotten == Spec => []NothingForgotten
<1>1. SInv => NothingForgotten BY DEF SInv, Housed
<1>2. QED BY <1>1, Inductive, PTL

\* A thread is open on two servers at once only while one of them is put down, or where one
\* was let go of: however often the account goes and comes back.
THEOREM AtOneHome == Spec => []OneHome
<1>1. SInv => OneHome BY DEF SInv, Housed
<1>2. QED BY <1>1, Inductive, PTL

\* Nobody is handed an answer to another's call or words of another's thread, and what names
\* no thread is not handed to two turns at once.
THEOREM RoutedRight == Spec => []Routed
<1>1. SInv => Routed BY DEF SInv, Heard, HandedTo, NotedOnce, Routed
<1>2. QED BY <1>1, Inductive, PTL

\* Nobody waits on a stream that has ended, whenever they came to read it.
THEOREM EverybodyIsTold == Spec => []NobodyLeftWaiting
<1>1. SInv => NobodyLeftWaiting BY DEF SInv, Heard, HasItInHand, NobodyLeftWaiting
<1>2. QED BY <1>1, Inductive, PTL

-----------------------------------------------------------------------------
(* A turn and its own words.  What there is still to read of a turn is what *)
(* its reader has in hand and what the server wrote that nobody has read:  *)
(* no item of it that ends the turn is followed by words of it, and none   *)
(* is there while the server has the turn in hand.  Of a conversation none *)
(* of whose turns was left, nothing is anywhere once its turn is over.     *)

\* What a server says in a turn of a conversation's, and that a thread of its is idle.
Ours(m, s) == m.of # NoThread /\ m.of[1] = s
Spoken(m, s) == m.kind \in {"word", "done", "failed"} /\ Ours(m, s)
Idled(m, s) == m.kind = "idle" /\ Ours(m, s)

\* The item of what there is to read that ends the turn, as Reads has it.
Ends(p, i, s, call, h) ==
    \/ p[i].kind = "refusal" /\ p[i].to = call
    \/ p[i].kind = "failed" /\ Ours(p[i], s)
    \/ Idled(p[i], s) /\ (h # 0 \/ \E g \in DOMAIN p : g < i /\ Spoken(p[g], s))
Unspoken(p, s) == \A i \in DOMAIN p : ~Spoken(p[i], s)
Unended(p, s, call, h) == \A i \in DOMAIN p : ~Ends(p, i, s, call, h)
Ordered(p, s, call, k, h) ==
    /\ \A i \in DOMAIN p : Spoken(p[i], s) => p[i].turn = k
    /\ \A i, j \in DOMAIN p : Ends(p, i, s, call, h) /\ i < j => ~Spoken(p[j], s)

\* What a turn of a conversation was asked for, or is run as, on a server.
CallsOf(s, v) == {c \in asked[v] : c.by = s /\ c.for = "turn"}
RunsOf(s, v) == {t \in working[v] : t[1] # NoThread /\ t[1][1] = s}
Quiet(s, v) == CallsOf(s, v) = {} /\ RunsOf(s, v) = {} /\ Unspoken(wire[v], s)

\* The server has the turn in hand, and has said nothing of it yet.
Busy(s) == CallsOf(s, on[s]) # {} \/ RunsOf(s, on[s]) # {}
Waiting(s) == CallsOf(s, on[s]) # {} \/ \E t \in RunsOf(s, on[s]) : ~t[3]

\* A turn is run once and in its own name, and nothing is said of it once it has ended.
InHand(s) ==
    /\ \A c \in CallsOf(s, on[s]) : c = Asking(s)
    /\ CallsOf(s, on[s]) # {} => RunsOf(s, on[s]) = {}
    /\ \A t, u \in RunsOf(s, on[s]) : t = u /\ t[2] = took[s]
Pipe(s) == box[s] \o wire[on[s]]
Told(s) ==
    /\ Ordered(Pipe(s), s, Asking(s), took[s], heard[s])
    /\ Busy(s) => Unended(Pipe(s), s, Asking(s), heard[s])
    /\ Waiting(s) => heard[s] = 0 /\ Unspoken(Pipe(s), s)
Owned(s) ==
    /\ \A v \in Servers : (doing[s] = "reading" /\ on[s] = v) \/ Quiet(s, v)
    /\ heard[s] \in {0, took[s]}
    /\ doing[s] = "reading" => InHand(s) /\ Told(s)

\* Nothing is asked of a server that has gone, and a stream that has ended is empty.
Shut ==
    \A v \in Servers :
        /\ v \notin up => asked[v] = {} /\ working[v] = {}
        /\ pump[v] = "told" => wire[v] = <<>>
\* A turn that is asked for has a thread, and words are heard of one that was.
Underway ==
    \A s \in Sessions :
        /\ doing[s] \in {"open", "reading"} => thread[s] # NoThread
        /\ doing[s] # "reading" => heard[s] = 0
\* A thread and a turn are asked for once in each turn, and the turn of a thread of its own.
Current(c) ==
    /\ c.for \in {"thread", "turn"} =>
         (c.on # NoThread => c.on[1] = c.by) /\ c.turn <= took[c.by]
    /\ c.for = "turn" /\ c.turn = took[c.by] => doing[c.by] \in {"reading", "idle"}
    /\ c.for = "thread" /\ c.turn = took[c.by] =>
         doing[c.by] \in {"opening", "open", "reading", "idle"}
Replying ==
    \A v \in Servers :
        /\ \A c \in asked[v] : Current(c)
        /\ \A i \in DOMAIN wire[v] : Current(wire[v][i].to)
\* A server that was asked for a thread, and has not said anything to it, is waited for.
SoughtBy(c, v) ==
    /\ doing[c.by] = "opening" /\ on[c.by] = v /\ c = Asking(c.by)
    /\ \A i \in DOMAIN box[c.by] : box[c.by][i].to # c
    /\ \A i \in DOMAIN wire[v] : wire[v][i].to # c
Sought == \A v \in Servers : \A c \in asked[v] : c.for = "thread" => SoughtBy(c, v)
OInv ==
    /\ Shut /\ Underway /\ Replying /\ Sought
    /\ \A s \in Sessions : ~left[s] => Owned(s)

LEMMA InitOwned == Init => OInv
<1> SUFFICES ASSUME Init PROVE OInv
  OBVIOUS
<1>1. \A v \in Servers : asked[v] = {} /\ working[v] = {} /\ wire[v] = <<>> BY DEF Init
<1>2. \A s \in Sessions : doing[s] = "idle" /\ heard[s] = 0 BY DEF Init
<1>3. Shut /\ Underway /\ Replying /\ Sought
  BY <1>1, <1>2 DEF Shut, Underway, Replying, Sought
<1>4. \A s \in Sessions : Owned(s) BY <1>1, <1>2 DEF Owned, Quiet, CallsOf, RunsOf, Unspoken
<1>5. QED BY <1>3, <1>4 DEF OInv

\* What holds of what there is to read still holds of what there is to read after a step.
Follows(p, q, s, call, k, h) ==
    /\ Ordered(p, s, call, k, h) => Ordered(q, s, call, k, h)
    /\ Unended(p, s, call, h) => Unended(q, s, call, h)
    /\ Unspoken(p, s) => Unspoken(q, s)

\* Where items are dropped from it.
LEMMA Dropped ==
    ASSUME NEW p \in Seq(Messages), NEW q \in Seq(Messages), NEW f \in [DOMAIN q -> DOMAIN p],
           \A i \in DOMAIN q : q[i] = p[f[i]],
           \A i, j \in DOMAIN q : i < j => f[i] < f[j],
           NEW s, NEW call, NEW k, NEW h
    PROVE Follows(p, q, s, call, k, h)
<1>1. ASSUME NEW i \in DOMAIN q, Ends(q, i, s, call, h) PROVE Ends(p, f[i], s, call, h)
  BY <1>1 DEF Ends
<1>2. Ordered(p, s, call, k, h) => Ordered(q, s, call, k, h) BY <1>1 DEF Ordered
<1>3. Unended(p, s, call, h) => Unended(q, s, call, h) BY <1>1 DEF Unended
<1>4. Unspoken(p, s) => Unspoken(q, s) BY DEF Unspoken
<1>5. QED BY <1>2, <1>3, <1>4 DEF Follows

\* Where something is added to it that is no word of the turn.
LEMMA Extended ==
    ASSUME NEW p \in Seq(Messages), NEW m \in Messages,
           NEW s, NEW call, NEW k, NEW h, ~Spoken(m, s)
    PROVE /\ Ordered(p, s, call, k, h) => Ordered(Append(p, m), s, call, k, h)
          /\ Unspoken(p, s) => Unspoken(Append(p, m), s)
          /\ ~Idled(m, s) /\ ~(m.kind = "refusal" /\ m.to = call)
             => Follows(p, Append(p, m), s, call, k, h)
<1> DEFINE q == Append(p, m)
<1>1. \A i \in DOMAIN q : \/ i \in DOMAIN p /\ q[i] = p[i]
                          \/ i = Len(p) + 1 /\ q[i] = m
  OBVIOUS
<1>2. \A i \in DOMAIN p : i \in DOMAIN q /\ q[i] = p[i] /\ i < Len(p) + 1 /\ i \in Int
  OBVIOUS
<1>3. ASSUME NEW i \in DOMAIN p, Ends(q, i, s, call, h) PROVE Ends(p, i, s, call, h)
  <2>1. q[i] = p[i] BY <1>2
  <2>2. \A g \in DOMAIN q : g < i => g \in DOMAIN p /\ q[g] = p[g]
    BY <1>1, <1>2
  <2>3. QED BY <1>3, <2>1, <2>2 DEF Ends
<1>4. Unspoken(p, s) => Unspoken(q, s) BY <1>1 DEF Unspoken
<1>5. ASSUME Ordered(p, s, call, k, h) PROVE Ordered(q, s, call, k, h)
  <2>1. \A i \in DOMAIN q : Spoken(q[i], s) => q[i].turn = k BY <1>1, <1>5 DEF Ordered
  <2>2. ASSUME NEW i \in DOMAIN q, NEW j \in DOMAIN q, Ends(q, i, s, call, h), i < j,
               Spoken(q[j], s)
        PROVE FALSE
    <3>1. j \in DOMAIN p /\ q[j] = p[j] BY <1>1, <2>2
    <3>2. i \in DOMAIN p BY <1>1, <1>2, <2>2, <3>1
    <3>3. QED BY <1>3, <1>5, <2>2, <3>1, <3>2 DEF Ordered
  <2>3. QED BY <2>1, <2>2 DEF Ordered
<1>6. ASSUME ~Idled(m, s), ~(m.kind = "refusal" /\ m.to = call), Unended(p, s, call, h)
      PROVE Unended(q, s, call, h)
  <2>1. ~(m.kind = "failed" /\ Ours(m, s)) BY DEF Spoken
  <2>2. QED BY <1>1, <1>3, <1>6, <2>1 DEF Unended, Ends
<1>7. QED BY <1>4, <1>5, <1>6 DEF Follows

\* Where a word of the turn is added to what does not end it.
LEMMA SpokenOn ==
    ASSUME NEW p \in Seq(Messages), NEW m \in Messages,
           NEW s, NEW call, NEW k, NEW h, Spoken(m, s), m.turn = k,
           Ordered(p, s, call, k, h), Unended(p, s, call, h)
    PROVE /\ Ordered(Append(p, m), s, call, k, h)
          /\ m.kind # "failed" => Unended(Append(p, m), s, call, h)
<1> DEFINE q == Append(p, m)
<1>1. \A i \in DOMAIN q : \/ i \in DOMAIN p /\ q[i] = p[i]
                          \/ i = Len(p) + 1 /\ q[i] = m
  OBVIOUS
<1>2. \A i \in DOMAIN p : i \in DOMAIN q /\ q[i] = p[i] /\ i < Len(p) + 1 /\ i \in Int
  OBVIOUS
<1>3. ASSUME NEW i \in DOMAIN p PROVE ~Ends(q, i, s, call, h)
  <2>1. q[i] = p[i] BY <1>2
  <2>2. \A g \in DOMAIN q : g < i => g \in DOMAIN p /\ q[g] = p[g]
    BY <1>1, <1>2
  <2>3. QED BY <2>1, <2>2 DEF Ends, Unended
<1>4. \A i, j \in DOMAIN q : i < j => i \in DOMAIN p BY <1>1, <1>2
<1>5. Ordered(q, s, call, k, h) BY <1>1, <1>3, <1>4 DEF Ordered
<1>6. ASSUME m.kind # "failed" PROVE Unended(q, s, call, h)
  <2>1. m.kind # "refusal" /\ ~Idled(m, s) BY DEF Spoken, Idled
  <2>2. QED BY <1>1, <1>3, <1>6, <2>1 DEF Unended, Ends
<1>7. QED BY <1>5, <1>6

\* Where its first item is read, and does not end the turn.
LEMMA ReadOn ==
    ASSUME NEW p \in Seq(Messages), p # <<>>, NEW s, NEW call, NEW k, NEW h,
           ~Ends(p, 1, s, call, h), Head(p).kind \in {"word", "done"} => Spoken(Head(p), s),
           NEW g, g = IF Head(p).kind \in {"word", "done"} THEN Head(p).turn ELSE h,
           Ordered(p, s, call, k, h)
    PROVE /\ g \in {h, k} /\ Ordered(Tail(p), s, call, k, g)
          /\ Unended(p, s, call, h) => Unended(Tail(p), s, call, g)
          /\ Unspoken(p, s) => g = h /\ Unspoken(Tail(p), s)
<1> DEFINE q == Tail(p)
<1>1. /\ 1 \in DOMAIN p /\ Head(p) = p[1]
      /\ \A i \in DOMAIN q : i + 1 \in DOMAIN p /\ q[i] = p[i + 1] /\ i \in Int /\ 1 < i + 1
  OBVIOUS
<1>2. g \in {h, k} BY <1>1 DEF Ordered
<1>3. g = h \/ Spoken(p[1], s) BY <1>1
<1>4. ASSUME NEW i \in DOMAIN q, Ends(q, i, s, call, g) PROVE Ends(p, i + 1, s, call, h)
  <2>1. CASE g = h
    <3>1. \A j \in DOMAIN q : j < i => j + 1 \in DOMAIN p /\ j + 1 < i + 1 /\ p[j + 1] = q[j]
      BY <1>1
    <3>2. QED BY <1>1, <1>4, <2>1, <3>1 DEF Ends
  <2>2. CASE Spoken(p[1], s) BY <1>1, <1>4, <2>2 DEF Ends
  <2>3. QED BY <1>3, <2>1, <2>2
<1>5. Ordered(q, s, call, k, g)
  <2>1. \A i, j \in DOMAIN q : i < j => i + 1 < j + 1 BY <1>1
  <2>2. QED BY <1>1, <1>4, <2>1 DEF Ordered
<1>6. Unended(p, s, call, h) => Unended(q, s, call, g) BY <1>1, <1>4 DEF Unended
<1>7. Unspoken(p, s) => g = h /\ Unspoken(q, s) BY <1>1, <1>3 DEF Unspoken
<1>8. QED BY <1>2, <1>5, <1>6, <1>7

-----------------------------------------------------------------------------
(* What is asked, and when.                                                *)

LEMMA StepShut == ASSUME TypeOK, Placed, ToldOfTheDead, Shut, [Next]_vars PROVE Shut'
<1> USE DEF Shut, stream, process
<1>1. ASSUME UNCHANGED <<working, wire>>, NEW u \in Servers, NEW q, u \in up',
             asked' = asked \/ asked' = [asked EXCEPT ![u] = q],
             up \subseteq up', pump' = pump \/ pump' = [pump EXCEPT ![u] = "reading"]
      PROVE Shut'
  BY <1>1 DEF TypeOK, ServersOK
<1>2. ASSUME UNCHANGED <<up, asked, working, pump, wire>> PROVE Shut' BY <1>2
<1>3. ASSUME NEW u \in Servers, Falls(u), u \in up PROVE Shut'
  <2>1. pump[u] # "told" /\ pump' = pump BY <1>3 DEF ToldOfTheDead, Falls
  <2>2. up' = up \ {u} /\ asked'[u] = {} /\ working'[u] = {}
        /\ \A w \in Servers \ {u} : asked'[w] = asked[w] /\ working'[w] = working[w]
                                    /\ wire'[w] = wire[w]
    BY <1>3 DEF Falls, TypeOK, ServersOK
  <2>3. QED BY <2>1, <2>2
<1>4. ASSUME NEW u \in Servers, NEW q, Writes(u, q), UNCHANGED <<up, pump>>,
             \A w \in Servers \ {u} : asked'[w] = asked[w] /\ working'[w] = working[w]
      PROVE Shut'
  <2>1. \A w \in Servers \ {u} : wire'[w] = wire[w] BY <1>4 DEF Writes, TypeOK, ServersOK
  <2>2. u \in up BY <1>4 DEF Writes
  <2>3. QED BY <1>4, <2>1, <2>2 DEF ToldOfTheDead
<1>5. ASSUME NEW s \in Sessions, NEW v \in Servers, Taking(s, v) PROVE Shut'
  <2>1. CASE TakesOne(s, v) BY <1>2, <1>5, <2>1 DEF Taking, TakesOne
  <2>2. CASE TakesNew(s, v)
    <3>1. /\ UNCHANGED <<working, wire>> /\ v \in up' /\ up \subseteq up'
          /\ asked' = [asked EXCEPT ![v] = {Call(s, "initialize")}]
          /\ pump' = [pump EXCEPT ![v] = "reading"]
      BY <1>5, <2>2 DEF Taking, TakesNew
    <3>2. QED BY <1>1, <3>1
  <2>3. QED BY <1>5, <2>1, <2>2 DEF Taking
<1>6. ASSUME NEW s \in Sessions, Opens(s) \/ Begins(s) PROVE Shut'
  <2>1. UNCHANGED <<up, working, pump, wire>> /\ on[s] \in Servers
    BY <1>6 DEF Opens, Begins, Placed
  <2>2. asked' = asked \/ (on[s] \in up /\ \E q : asked' = [asked EXCEPT ![on[s]] = q])
    BY <1>6 DEF Opens, Begins, Written
  <2>3. QED BY <1>1, <1>2, <2>1, <2>2
<1>7. ASSUME NEW s \in Sessions, Turn(s) \/ LetsGo(s) PROVE Shut'
  <2>1. CASE Takes(s) BY <1>5, <2>1, TakesEither
  <2>2. CASE SetsOut(s) \/ Joins(s) \/ Shares(s) \/ Opening(s) \/ Reads(s) \/ Leaves(s)
    BY <1>2, <2>2 DEF SetsOut, Joins, Shares, Opening, Reads, Leaves
  <2>3. CASE LetsGo(s) BY <1>2, <2>3 DEF LetsGo
  <2>4. QED BY <1>6, <1>7, <2>1, <2>2, <2>3 DEF Turn, GoesOn
<1>8. ASSUME NEW v \in Servers, PutsDown(v) \/ Dies(v) PROVE Shut'
  BY <1>2, <1>3, <1>8 DEF PutsDown, Dies
<1>9. ASSUME NEW v \in Servers, Answers(v) \/ Speaks(v) \/ Finishes(v) \/ Wonders(v) PROVE Shut'
  <2>1. \A w \in Servers \ {v} : asked'[w] = asked[w] /\ working'[w] = working[w]
    BY <1>9 DEF Answers, Speaks, Finishes, Wonders, TypeOK, ServersOK
  <2>2. UNCHANGED <<up, pump>> /\ \E q : Writes(v, q)
    BY <1>9 DEF Answers, Speaks, Finishes, Wonders
  <2>3. QED BY <1>4, <2>1, <2>2
<1>10. ASSUME NEW v \in Servers, Pumps(v) PROVE Shut'
  <2>1. /\ UNCHANGED <<up, asked, working>> /\ pump'[v] # "told"
        /\ \A w \in Servers \ {v} : wire'[w] = wire[w] /\ pump'[w] = pump[w]
    BY <1>10 DEF Pumps, TypeOK, ServersOK
  <2>2. QED BY <2>1
<1>11. ASSUME NEW v \in Servers, Tells(v) PROVE Shut'
  <2>1. /\ UNCHANGED <<up, asked, working, wire>> /\ wire[v] = <<>>
        /\ \A w \in Servers \ {v} : pump'[w] = pump[w]
    BY <1>11 DEF Tells, TypeOK, ServersOK
  <2>2. QED BY <2>1
<1>12. CASE Moved \/ Stops \/ UNCHANGED vars BY <1>2, <1>12 DEF Moved, Stops, vars
<1>13. QED BY <1>7, <1>8, <1>9, <1>10, <1>11, <1>12 DEF Next, Server

LEMMA NoThreadIsNone == NoThread \notin Threads
  BY DEF NoThread, Threads

LEMMA StepUnderway == ASSUME TypeOK, Placed, Underway, [Next]_vars PROVE Underway'
<1> USE DEF Underway, session
<1>1. ASSUME UNCHANGED <<doing, thread, heard>> PROVE Underway' BY <1>1
<1>2. ASSUME NEW s \in Sessions, NEW to \in Doings, Goes(s, to),
             to \in {"open", "reading"} => thread'[s] # NoThread,
             to # "reading" => heard'[s] = 0,
             \A o \in Sessions \ {s} : thread'[o] = thread[o] /\ heard'[o] = heard[o]
      PROVE Underway'
  BY <1>2 DEF Goes, TypeOK, SessionsOK
<1>3. ASSUME NEW s \in Sessions, Over(s) PROVE Underway'
  <2>1. /\ heard'[s] = 0
        /\ \A o \in Sessions \ {s} : thread'[o] = thread[o] /\ heard'[o] = heard[o]
    BY <1>3 DEF Over, TypeOK, SessionsOK
  <2>2. Goes(s, "idle") /\ "idle" \in Doings BY <1>3 DEF Over, Doings
  <2>3. QED BY <1>2, <2>1, <2>2
<1>4. ASSUME NEW s \in Sessions, NEW v \in Servers, Taking(s, v) PROVE Underway'
  <2>1. UNCHANGED <<thread, heard>> /\ heard[s] = 0 BY <1>4 DEF Taking
  <2>2. Goes(s, "holding") \/ Goes(s, "starting") BY <1>4 DEF Taking, TakesOne, TakesNew, Goes
  <2>3. QED BY <1>2, <2>1, <2>2 DEF Doings
<1>5. ASSUME NEW s \in Sessions, SetsOut(s) \/ Joins(s) \/ Shares(s) PROVE Underway'
  <2>1. UNCHANGED <<thread, heard>> /\ heard[s] = 0 BY <1>5 DEF SetsOut, Joins, Shares
  <2>2. Goes(s, "going") \/ Goes(s, "joined") \/ Goes(s, "idle") \/ Goes(s, "holding")
    BY <1>5 DEF SetsOut, Joins, Shares
  <2>3. QED BY <1>2, <2>1, <2>2 DEF Doings
<1>6. ASSUME NEW s \in Sessions, Opens(s) PROVE Underway'
  <2>1. heard[s] = 0 BY <1>6 DEF Opens
  <2>2. CASE Over(s) BY <1>3, <2>2
  <2>3. CASE id[s] \in holding[on[s]] /\ Goes(s, "open")
             /\ thread' = [thread EXCEPT ![s] = id[s]] /\ UNCHANGED heard
    <3>1. on[s] \in Servers BY <1>6 DEF Opens, Placed
    <3>2. id[s] # NoThread BY <2>3, <3>1, NoThreadIsNone DEF TypeOK, ServersOK
    <3>3. thread'[s] = id[s] /\ \A o \in Sessions \ {s} : thread'[o] = thread[o]
      BY <2>3 DEF TypeOK, SessionsOK
    <3>4. QED BY <1>2, <2>1, <2>3, <3>2, <3>3 DEF Doings
  <2>4. CASE Goes(s, "opening") /\ UNCHANGED <<thread, heard>>
    BY <1>2, <2>1, <2>4 DEF Doings
  <2>5. QED BY <1>6, <2>2, <2>3, <2>4 DEF Opens
<1>7. ASSUME NEW s \in Sessions, Opening(s) PROVE Underway'
  <2>1. heard[s] = 0 BY <1>7 DEF Opening
  <2>2. CASE Over(s) BY <1>3, <2>2
  <2>3. CASE /\ Goes(s, "open") /\ UNCHANGED heard
             /\ thread' = [thread EXCEPT ![s] = Opened(Call(s, "thread"))]
    <3>1. Opened(Call(s, "thread")) # NoThread BY OpensIts, NoThreadIsNone
    <3>2. thread'[s] # NoThread /\ \A o \in Sessions \ {s} : thread'[o] = thread[o]
      BY <2>3, <3>1 DEF TypeOK, SessionsOK
    <3>3. QED BY <1>2, <2>1, <2>3, <3>2 DEF Doings
  <2>4. QED BY <1>7, <2>2, <2>3 DEF Opening
<1>8. ASSUME NEW s \in Sessions, Begins(s) PROVE Underway'
  <2>1. thread[s] # NoThread BY <1>8 DEF Begins
  <2>2. Over(s) \/ (Goes(s, "reading") /\ UNCHANGED <<thread, heard>>) BY <1>8 DEF Begins
  <2>3. QED BY <1>2, <1>3, <2>1, <2>2 DEF Doings
<1>9. ASSUME NEW s \in Sessions, Reads(s) \/ Leaves(s) PROVE Underway'
  <2>1. CASE Over(s) BY <1>3, <2>1
  <2>2. CASE UNCHANGED <<doing, thread>> /\ doing[s] = "reading" /\ \E h : heard' = [heard EXCEPT ![s] = h]
    BY <2>2 DEF TypeOK, SessionsOK
  <2>3. QED BY <1>9, <2>1, <2>2 DEF Reads, Leaves, TypeOK, SessionsOK
<1>10. ASSUME NEW s \in Sessions, Turn(s) PROVE Underway'
  BY <1>4, <1>5, <1>6, <1>7, <1>8, <1>9, <1>10, TakesEither DEF Turn, GoesOn
<1>11. CASE Moved \/ Stops \/ UNCHANGED vars \/ \E s \in Sessions : LetsGo(s)
  BY <1>1, <1>11 DEF Moved, Stops, LetsGo, vars
<1>12. ASSUME NEW v \in Servers, Pumps(v) \/ Tells(v) \/ PutsDown(v) \/ Server(v) PROVE Underway'
  BY <1>1, <1>12 DEF Pumps, Tells, PutsDown, Server, Answers, Speaks, Finishes, Wonders, Dies
<1>13. QED BY <1>10, <1>11, <1>12 DEF Next

\* A conversation's turns are counted up, and one that has been asked for is read until it is
\* over.
Advances(s) ==
    \/ /\ took'[s] = took[s]
       /\ doing[s] \in {"reading", "idle"} => doing'[s] \in {"reading", "idle"}
       /\ doing[s] \in {"opening", "open"} => doing'[s] \in {"opening", "open", "reading", "idle"}
    \/ took'[s] = took[s] + 1

LEMMA StepAdvances == ASSUME TypeOK, [Next]_vars, NEW o \in Sessions PROVE Advances(o)
<1> USE DEF Advances, session
<1>1. ASSUME UNCHANGED <<doing, took>> PROVE Advances(o) BY <1>1
<1>2. ASSUME NEW s \in Sessions, NEW to \in Doings, Goes(s, to), UNCHANGED took,
             doing[s] \in {"reading", "idle"} => to \in {"reading", "idle"},
             doing[s] \in {"opening", "open"} => to \in {"opening", "open", "reading", "idle"}
      PROVE Advances(o)
  BY <1>2 DEF Goes, TypeOK, SessionsOK
<1>3. ASSUME NEW s \in Sessions, SetsOut(s) PROVE Advances(o)
  BY <1>3 DEF SetsOut, Goes, TypeOK, SessionsOK
<1>4. ASSUME NEW s \in Sessions, NEW v \in Servers, Taking(s, v) PROVE Advances(o)
  <2>1. doing[s] = "going" /\ UNCHANGED took BY <1>4 DEF Taking
  <2>2. Goes(s, "holding") \/ Goes(s, "starting") BY <1>4 DEF Taking, TakesOne, TakesNew, Goes
  <2>3. QED BY <1>2, <2>1, <2>2 DEF Doings
<1>5. ASSUME NEW s \in Sessions, Joins(s) \/ Shares(s) \/ Opens(s) \/ Opening(s) PROVE Advances(o)
  <2>1. doing[s] \notin {"reading", "idle"} /\ UNCHANGED took
    BY <1>5 DEF Joins, Shares, Opens, Opening
  <2>2. \E to \in Doings : Goes(s, to) /\ (doing[s] \in {"opening", "open"} => to \in {"open", "idle"})
    BY <1>5 DEF Joins, Shares, Opens, Opening, Over, Doings
  <2>3. QED BY <1>2, <2>1, <2>2
<1>6. ASSUME NEW s \in Sessions, Begins(s) \/ Reads(s) \/ Leaves(s) PROVE Advances(o)
  <2>1. UNCHANGED took BY <1>6 DEF Begins, Reads, Leaves
  <2>2. UNCHANGED doing \/ Goes(s, "reading") \/ Goes(s, "idle")
    BY <1>6 DEF Begins, Reads, Leaves, Over
  <2>3. QED BY <1>1, <1>2, <2>1, <2>2 DEF Doings
<1>7. ASSUME NEW s \in Sessions, Turn(s) PROVE Advances(o)
  BY <1>3, <1>4, <1>5, <1>6, <1>7, TakesEither DEF Turn, GoesOn
<1>8. CASE Moved \/ Stops \/ UNCHANGED vars \/ \E s \in Sessions : LetsGo(s)
  BY <1>1, <1>8 DEF Moved, Stops, LetsGo, vars
<1>9. ASSUME NEW v \in Servers, Pumps(v) \/ Tells(v) \/ PutsDown(v) \/ Server(v) PROVE Advances(o)
  BY <1>1, <1>9 DEF Pumps, Tells, PutsDown, Server, Answers, Speaks, Finishes, Wonders, Dies
<1>10. QED BY <1>7, <1>8, <1>9 DEF Next

LEMMA StaysCurrent ==
    ASSUME TypeOK, [Next]_vars, NEW c \in Calls \cup {Nobody}, Current(c) PROVE Current(c)'
<1>1. CASE c = Nobody BY <1>1 DEF Current, Nobody
<1>2. CASE c \in Calls
  <2>1. c.by \in Sessions /\ c.turn \in 0..Turns BY <1>2 DEF Calls
  <2>2. took[c.by] \in 0..Turns BY <2>1 DEF TypeOK, SessionsOK
  <2>3. Advances(c.by) BY <2>1, StepAdvances
  <2>4. QED BY <2>1, <2>2, <2>3, BoundsAssumption DEF Current, Advances
<1>3. QED BY <1>1, <1>2


LEMMA StepReplying ==
    ASSUME TypeOK, Placed, Named, Replying, [Next]_vars, TypeOK' PROVE Replying'
<1> USE DEF stream, process
<1>1. /\ asked \in [Servers -> SUBSET Calls] /\ wire \in [Servers -> Seq(Messages)]
      /\ asked' \in [Servers -> SUBSET Calls] /\ wire' \in [Servers -> Seq(Messages)]
  BY DEF TypeOK, ServersOK
<1>2. ASSUME NEW v \in Servers, NEW c \in asked[v] PROVE Current(c)'
  BY <1>1, StaysCurrent DEF Replying
<1>3. ASSUME NEW v \in Servers, NEW i \in DOMAIN wire[v], NEW c, c = wire[v][i].to
      PROVE Current(c)'
  <2>1. wire[v][i] \in Messages BY <1>1
  <2>2. c \in Calls \cup {Nobody} BY <1>3, <2>1 DEF Messages
  <2>3. Current(c) BY <1>3 DEF Replying
  <2>4. QED BY <2>2, <2>3, StaysCurrent
<1>4. ASSUME \A v \in Servers : \A c \in asked'[v] : c \in asked[v] \/ Current(c)',
             \A v \in Servers : \A i \in DOMAIN wire'[v] :
                 \/ \E j \in DOMAIN wire[v] : wire'[v][i] = wire[v][j]
                 \/ wire'[v][i].to = Nobody
                 \/ \E c \in asked[v] : wire'[v][i].to = c
      PROVE Replying'
  <2>1. ASSUME NEW v \in Servers, NEW c \in asked'[v] PROVE Current(c)' BY <1>2, <1>4, <2>1
  <2>2. ASSUME NEW v \in Servers, NEW i \in DOMAIN wire'[v], NEW c, c = wire'[v][i].to
        PROVE Current(c)'
    <3>1. CASE c = Nobody BY <3>1 DEF Current, Nobody
    <3>2. QED BY <1>2, <1>3, <1>4, <2>2, <3>1
  <2>3. QED BY <2>1, <2>2 DEF Replying, Current
<1>5. ASSUME wire' = wire, \A v \in Servers : \A c \in asked'[v] : c \in asked[v] \/ Current(c)'
      PROVE Replying'
  BY <1>4, <1>5
<1>6. ASSUME NEW s \in Sessions, NEW v \in Servers, Taking(s, v) PROVE Replying'
  <2>1. wire' = wire BY <1>6 DEF Taking
  <2>2. asked' = asked \/ asked' = [asked EXCEPT ![v] = {Call(s, "initialize")}]
    BY <1>6 DEF Taking, TakesOne, TakesNew
  <2>3. Current(Call(s, "initialize"))' BY DEF Current, Call
  <2>4. \A c : c = Call(s, "initialize") => Current(c)' BY DEF Current, Call
  <2>5. QED BY <1>1, <1>5, <2>1, <2>2, <2>4
<1>7. ASSUME NEW s \in Sessions, Opens(s) \/ Begins(s) PROVE Replying'
  <2>1. wire' = wire /\ UNCHANGED took BY <1>7 DEF Opens, Begins
  <2>2. \/ asked' = asked
        \/ \E c \in {Call(s, "thread"), Call(s, "turn")} :
             /\ asked' = [asked EXCEPT ![on[s]] = @ \cup {c}]
             /\ c.for = "turn" => Goes(s, "reading")
             /\ c.for = "thread" => Goes(s, "opening")
    BY <1>7 DEF Opens, Begins, Written, Call
  <2>3. ASSUME NEW c \in {Call(s, "thread"), Call(s, "turn")},
               c.for = "turn" => Goes(s, "reading"), c.for = "thread" => Goes(s, "opening")
        PROVE Current(c)'
    <3>1. /\ c.by = s /\ c.turn = took[s] /\ c.for \in {"thread", "turn"}
          /\ c.on = IF c.for = "turn" THEN thread[s] ELSE id[s]
      BY DEF Call
    <3>2. doing'[s] = IF c.for = "turn" THEN "reading" ELSE "opening"
      BY <2>3, <3>1 DEF Goes, TypeOK, SessionsOK
    <3>3. took'[s] = took[s] /\ took[s] \in Nat BY <2>1, BoundsAssumption DEF TypeOK, SessionsOK
    <3>4. c.on # NoThread => c.on[1] = s BY <3>1 DEF Named
    <3>5. QED BY <3>1, <3>2, <3>3, <3>4 DEF Current
  <2>4. QED
    <3>1. CASE asked' = asked BY <1>5, <2>1, <3>1
    <3>2. ASSUME NEW c \in {Call(s, "thread"), Call(s, "turn")},
                 asked' = [asked EXCEPT ![on[s]] = @ \cup {c}], Current(c)'
          PROVE Replying'
      <4>1. \A v \in Servers : \A d \in asked'[v] : d \in asked[v] \/ d = c BY <1>1, <3>2
      <4>2. \A d : d = c => Current(d)' BY <3>2 DEF Current
      <4>3. QED BY <1>5, <2>1, <4>1, <4>2
    <3>3. QED BY <2>2, <2>3, <3>1, <3>2
<1>8. ASSUME NEW s \in Sessions, Turn(s) \/ LetsGo(s) PROVE Replying'
  <2>1. CASE Takes(s) BY <1>6, <2>1, TakesEither
  <2>2. CASE SetsOut(s) \/ Joins(s) \/ Shares(s) \/ Opening(s) \/ Reads(s) \/ Leaves(s) \/ LetsGo(s)
    BY <1>5, <2>2 DEF SetsOut, Joins, Shares, Opening, Reads, Leaves, LetsGo
  <2>3. QED BY <1>7, <1>8, <2>1, <2>2 DEF Turn, GoesOn
<1>9. ASSUME NEW v \in Servers, Falls(v) PROVE Replying'
  <2>1. \A w \in Servers : asked'[w] \subseteq asked[w] BY <1>1, <1>9 DEF Falls
  <2>2. wire' = wire \/ wire' = [wire EXCEPT ![v] = Append(wire[v], Cut)] BY <1>9 DEF Falls
  <2>3. \A i \in DOMAIN Append(wire[v], Cut) :
           \/ i \in DOMAIN wire[v] /\ Append(wire[v], Cut)[i] = wire[v][i]
           \/ Append(wire[v], Cut)[i] = Cut
    BY <1>1, Signs, AddedItems
  <2>4. Cut.to = Nobody BY DEF Cut, Said, Message
  <2>5. \A w \in Servers : \A i \in DOMAIN wire'[w] :
           (\E j \in DOMAIN wire[w] : wire'[w][i] = wire[w][j]) \/ wire'[w][i] = Cut
    BY <1>1, <2>2, <2>3
  <2>6. QED BY <1>4, <2>1, <2>4, <2>5
<1>10. ASSUME NEW v \in Servers, PutsDown(v) \/ Dies(v) PROVE Replying'
  BY <1>5, <1>9, <1>10 DEF PutsDown, Dies
<1>11. ASSUME NEW v \in Servers, NEW q \in Seq(Messages), Writes(v, q),
              \A w \in Servers : asked'[w] \subseteq asked[w],
              \A i \in DOMAIN q : q[i].to = Nobody \/ q[i].to \in asked[v]
       PROVE Replying'
  <2>1. wire' = [wire EXCEPT ![v] = wire[v] \o q] BY <1>11, WritesTypes
  <2>2. \A i \in DOMAIN (wire[v] \o q) :
           \/ i \in DOMAIN wire[v] /\ (wire[v] \o q)[i] = wire[v][i]
           \/ \E j \in DOMAIN q : (wire[v] \o q)[i] = q[j]
    BY <1>1, JoinedItems
  <2>3. QED BY <1>1, <1>4, <1>11, <2>1, <2>2
<1>12. ASSUME NEW v \in Servers, Answers(v) PROVE Replying'
  <2>1. PICK call \in asked[v], ok \in BOOLEAN :
          /\ \/ Writes(v, <<Answer(call, ok)>>)
             \/ Writes(v, <<Answer(call, ok), Said("idle", Opened(call), 0)>>)
          /\ asked' = [asked EXCEPT ![v] = @ \ {call}]
    BY <1>12 DEF Answers
  <2>2. call \in Calls BY <1>1
  <2>3. PICK q \in Seq(Messages) :
          Writes(v, q) /\ \A i \in DOMAIN q : q[i].to = Nobody \/ q[i].to = call
    <3>1. PICK m \in Messages, n \in Messages :
            m = Answer(call, ok) /\ n = Said("idle", Opened(call), 0)
      BY <2>2, Answering, OpenedIs, Saying, BoundsAssumption
    <3>2. m.to = call /\ n.to = Nobody BY <3>1 DEF Answer, Said, Message
    <3>3. <<m>> \in Seq(Messages) /\ <<m, n>> \in Seq(Messages) OBVIOUS
    <3>4. /\ \A i \in DOMAIN <<m>> : <<m>>[i] = m
          /\ \A i \in DOMAIN <<m, n>> : <<m, n>>[i] = m \/ <<m, n>>[i] = n
      OBVIOUS
    <3>5. Writes(v, <<m>>) \/ Writes(v, <<m, n>>) BY <2>1, <3>1
    <3>6. QED BY <3>2, <3>3, <3>4, <3>5
  <2>5. \A w \in Servers : asked'[w] \subseteq asked[w] BY <1>1, <2>1
  <2>6. QED BY <1>11, <2>1, <2>3, <2>5
<1>13. ASSUME NEW v \in Servers, Speaks(v) \/ Finishes(v) PROVE Replying'
  <2>1. PICK t \in (Threads \cup {NoThread}) \X (0..Turns) \X BOOLEAN :
          \/ Writes(v, <<Said("word", t[1], t[2])>>)
          \/ \E how \in {"done", "failed"} :
               Writes(v, <<Said(how, t[1], t[2]), Said("idle", t[1], 0)>>)
    BY <1>13 DEF Speaks, Finishes, TypeOK, ServersOK
  <2>2. \A kind \in {"word", "done", "failed"} :
          Said(kind, t[1], t[2]) \in Messages /\ Said(kind, t[1], t[2]).to = Nobody
    BY Saying DEF Said, Message
  <2>3. Said("idle", t[1], 0) \in Messages /\ Said("idle", t[1], 0).to = Nobody
    BY Saying, BoundsAssumption DEF Said, Message
  <2>4. \A a, b \in Messages : <<a>> \in Seq(Messages) /\ <<a, b>> \in Seq(Messages)
    OBVIOUS
  <2>5. \A a, b : /\ \A i \in DOMAIN <<a>> : <<a>>[i] = a
                  /\ \A i \in DOMAIN <<a, b>> : <<a, b>>[i] = a \/ <<a, b>>[i] = b
    OBVIOUS
  <2>6. asked' = asked BY <1>13 DEF Speaks, Finishes
  <2>7. CASE Writes(v, <<Said("word", t[1], t[2])>>)
    <3>1. <<Said("word", t[1], t[2])>> \in Seq(Messages) BY <2>2, <2>4
    <3>2. \A i \in DOMAIN <<Said("word", t[1], t[2])>> :
             <<Said("word", t[1], t[2])>>[i].to = Nobody
      BY <2>2, <2>5
    <3>3. QED BY <1>11, <2>6, <2>7, <3>1, <3>2
  <2>8. ASSUME NEW how \in {"done", "failed"},
               Writes(v, <<Said(how, t[1], t[2]), Said("idle", t[1], 0)>>)
        PROVE Replying'
    <3>1. <<Said(how, t[1], t[2]), Said("idle", t[1], 0)>> \in Seq(Messages)
      BY <2>2, <2>3, <2>4
    <3>2. \A i \in DOMAIN <<Said(how, t[1], t[2]), Said("idle", t[1], 0)>> :
             <<Said(how, t[1], t[2]), Said("idle", t[1], 0)>>[i].to = Nobody
      BY <2>2, <2>3, <2>5
    <3>3. QED BY <1>11, <2>6, <2>8, <3>1, <3>2
  <2>9. QED BY <2>1, <2>7, <2>8
<1>14. ASSUME NEW v \in Servers, Wonders(v) PROVE Replying'
  <2>1. asked' = asked /\ \E m \in {Want, Note} : Writes(v, <<m>>) BY <1>14 DEF Wonders
  <2>2. ASSUME NEW m \in {Want, Note}
        PROVE <<m>> \in Seq(Messages) /\ \A i \in DOMAIN <<m>> : <<m>>[i].to = Nobody
    BY Signs DEF Want, Note, Said, Message
  <2>3. QED BY <1>11, <2>1, <2>2
<1>15. ASSUME NEW v \in Servers, Pumps(v) PROVE Replying'
  <2>1. wire' = [wire EXCEPT ![v] = Tail(wire[v])] \/ wire' = [wire EXCEPT ![v] = <<>>]
    BY <1>15 DEF Pumps
  <2>2. wire[v] \in Seq(Messages) /\ wire[v] # <<>> /\ asked' = asked
    BY <1>1, <1>15 DEF Pumps
  <2>3. \A i \in DOMAIN Tail(wire[v]) : i + 1 \in DOMAIN wire[v] /\ Tail(wire[v])[i] = wire[v][i + 1]
    BY <2>2, TakenItems
  <2>4. ASSUME NEW i \in DOMAIN wire'[v] PROVE \E j \in DOMAIN wire[v] : wire'[v][i] = wire[v][j]
    <3>1. wire'[v] = Tail(wire[v]) \/ wire'[v] = <<>> BY <1>1, <2>1
    <3>2. CASE wire'[v] = <<>>
      <4>1. i \in DOMAIN <<>> BY <2>4, <3>2
      <4>2. QED BY <4>1
    <3>3. CASE wire'[v] = Tail(wire[v])
      <4>1. i \in DOMAIN Tail(wire[v]) /\ wire'[v][i] = Tail(wire[v])[i] BY <2>4, <3>3
      <4>2. QED BY <2>3, <4>1
    <3>4. QED BY <3>1, <3>2, <3>3
  <2>5. \A w \in Servers \ {v} : wire'[w] = wire[w] BY <1>1, <2>1
  <2>6. QED BY <1>4, <2>2, <2>4, <2>5
<1>16. CASE Moved \/ Stops \/ UNCHANGED vars BY <1>5, <1>16 DEF Moved, Stops, vars
<1>17. ASSUME NEW v \in Servers, Tells(v) PROVE Replying' BY <1>5, <1>17 DEF Tells
<1>18. QED BY <1>8, <1>10, <1>12, <1>13, <1>14, <1>15, <1>16, <1>17 DEF Next, Server

\* What was asked for is still asked for after a step that says nothing to it.
SoughtStill(c, v) ==
    /\ doing'[c.by] = doing[c.by] /\ on'[c.by] = on[c.by] /\ Asking(c.by)' = Asking(c.by)
    /\ \A i \in DOMAIN box'[c.by] :
         box'[c.by][i].to # c \/ \E j \in DOMAIN box[c.by] : box'[c.by][i] = box[c.by][j]
    /\ \A i \in DOMAIN wire'[v] :
         wire'[v][i].to # c \/ \E j \in DOMAIN wire[v] : wire'[v][i] = wire[v][j]
LEMMA StaysSought ==
    ASSUME NEW c, NEW v \in Servers, SoughtBy(c, v), SoughtStill(c, v) PROVE SoughtBy(c, v)'
<1>1. c = Asking(c.by)' BY DEF SoughtBy, SoughtStill
<1>2. (doing[c.by] = "opening" /\ on[c.by] = v)' BY DEF SoughtBy, SoughtStill
<1>3. \A i \in DOMAIN box'[c.by] : box'[c.by][i].to # c BY DEF SoughtBy, SoughtStill
<1>4. \A i \in DOMAIN wire'[v] : wire'[v][i].to # c BY DEF SoughtBy, SoughtStill
<1>5. QED BY <1>1, <1>2, <1>3, <1>4 DEF SoughtBy

\* A conversation that goes on from waiting for its thread has nothing asked for any more.
LEMMA OpeningAnswered ==
    ASSUME TypeOK, Placed, Heard, ToldOfTheDead, Shut, Sought, NEW s \in Sessions, Opening(s)
    PROVE \A v \in Servers : \A c \in asked[v] : c.for = "thread" => c.by # s
<1>1. doing[s] = "opening" /\ box[s] # <<>> /\ on[s] \in Servers BY DEF Opening, Placed
<1>2. 1 \in DOMAIN box[s] BY <1>1 DEF TypeOK, SessionsOK
<1>3. End.to = Nobody BY DEF End, Said, Message
<1>4. \/ box[s][1] = End /\ pump[on[s]] = "told"
      \/ box[s][1].to = Asking(s)
  BY <1>1, <1>2 DEF Heard, HandedTo
<1>5. SUFFICES ASSUME NEW v \in Servers, NEW c \in asked[v], c.for = "thread", c.by = s
               PROVE FALSE
  OBVIOUS
<1>6. on[s] = v /\ c = Asking(s) /\ \A i \in DOMAIN box[s] : box[s][i].to # c
  BY <1>5 DEF Sought, SoughtBy
<1>7. CASE box[s][1] = End /\ pump[on[s]] = "told"
  BY <1>1, <1>5, <1>6, <1>7 DEF ToldOfTheDead, Shut
<1>8. CASE box[s][1].to = Asking(s) BY <1>2, <1>6, <1>8
<1>9. QED BY <1>4, <1>7, <1>8

LEMMA StepSought ==
    ASSUME TypeOK, Placed, Housed, Heard, ToldOfTheDead, Shut, Replying, Sought, [Next]_vars,
           TypeOK'
    PROVE Sought'
<1> USE DEF stream, process
<1>1. /\ asked \in [Servers -> SUBSET Calls] /\ wire \in [Servers -> Seq(Messages)]
      /\ box \in [Sessions -> Seq(Messages)]
      /\ asked' \in [Servers -> SUBSET Calls] /\ wire' \in [Servers -> Seq(Messages)]
      /\ \A c \in Calls : c.by \in Sessions /\ c # Nobody
  BY DEF TypeOK, ServersOK, SessionsOK, Calls, Nobody
<1>2. ASSUME \A v \in Servers : \A c \in asked'[v] : c.for = "thread" =>
                 \/ c \in asked[v] /\ SoughtStill(c, v)
                 \/ SoughtBy(c, v)'
      PROVE Sought'
  BY <1>2, StaysSought DEF Sought
<1>3. ASSUME UNCHANGED session,
             \A v \in Servers : \A c \in asked'[v] : c \in asked[v] /\
                 \A i \in DOMAIN wire'[v] :
                     wire'[v][i].to # c \/ \E j \in DOMAIN wire[v] : wire'[v][i] = wire[v][j]
      PROVE Sought'
  BY <1>2, <1>3 DEF session, SoughtStill, Asking, Call
<1>4. ASSUME NEW s \in Sessions, Turn(s) PROVE Sought'
  <2>1. /\ UNCHANGED wire
        /\ \A o \in Sessions \ {s} : Untouched(o)
    BY <1>4, TurnUntouched
    DEF Turn, GoesOn, SetsOut, Takes, Joins, Shares, Opens, Opening, Begins, Reads, Leaves
  <2>2. ASSUME NEW v \in Servers, NEW c \in asked[v], c.by # s PROVE SoughtStill(c, v)
    <3>1. c.by \in Sessions BY <1>1
    <3>2. Untouched(c.by) BY <2>1, <2>2, <3>1
    <3>3. QED BY <2>1, <3>2 DEF Untouched, SoughtStill, Asking, Call
  <2>3. \A v \in Servers : \A c \in asked[v] : c.for = "thread" => c.by # s
    <3>1. CASE Opening(s) BY <3>1, OpeningAnswered
    <3>2. CASE doing[s] # "opening" BY <3>2 DEF Sought, SoughtBy
    <3>3. QED
      BY <1>4, <3>1, <3>2
      DEF Turn, GoesOn, SetsOut, Takes, Joins, Shares, Opens, Begins, Reads, Leaves
  <2>4. ASSUME \A v \in Servers : \A c \in asked'[v] : c \in asked[v] \/ c.for # "thread"
        PROVE Sought'
    BY <1>2, <2>2, <2>3, <2>4
  <2>5. CASE Takes(s)
    <3>1. PICK v \in Servers : Taking(s, v) BY <2>5, TakesEither
    <3>2. asked' = asked \/ asked' = [asked EXCEPT ![v] = {Call(s, "initialize")}]
      BY <3>1 DEF Taking, TakesOne, TakesNew
    <3>3. \A c : c = Call(s, "initialize") => c.for # "thread" BY DEF Call
    <3>4. QED BY <1>1, <2>4, <3>2, <3>3
  <2>6. CASE Begins(s)
    <3>1. asked' = asked \/ asked' = [asked EXCEPT ![on[s]] = @ \cup {Call(s, "turn")}]
      BY <2>6 DEF Begins, Written
    <3>2. \A c : c = Call(s, "turn") => c.for # "thread" BY DEF Call
    <3>3. on[s] \in Servers BY <2>6 DEF Begins, Placed
    <3>4. \A v \in Servers : \A c \in asked'[v] : c \in asked[v] \/ c = Call(s, "turn")
      <4>1. CASE asked' = asked BY <4>1
      <4>2. CASE asked' = [asked EXCEPT ![on[s]] = @ \cup {Call(s, "turn")}]
        <5>1. \A v \in Servers : asked'[v] \subseteq asked[v] \cup {Call(s, "turn")}
          BY <1>1, <3>3, <4>2
        <5>2. QED BY <5>1
      <4>3. QED BY <3>1, <4>1, <4>2
    <3>5. QED BY <2>4, <3>2, <3>4
  <2>7. CASE Opens(s)
    <3>1. on[s] \in Servers /\ doing[s] = "holding" /\ UNCHANGED <<on, took, id, wire>>
      BY <2>7 DEF Opens, Placed
    <3>2. CASE asked' = asked BY <2>4, <3>2
    <3>3. CASE Written(s, on[s], Call(s, "thread")) /\ Goes(s, "opening")
      <4>1. PICK d \in Calls : d = Call(s, "thread") BY Calling
      <4>2. d.by = s /\ d.for = "thread" /\ d.turn = took[s] BY <4>1 DEF Call
      <4>3. doing'[s] = "opening" /\ (box'[s] = <<>> \/ box'[s] = <<End>>)
        BY <3>3 DEF Goes, Written, TypeOK, SessionsOK
      <4>4. Asking(s)' = d BY <3>1, <4>1, <4>3 DEF Asking, Call
      <4>5. \A i \in DOMAIN box'[s] : box'[s][i].to # d
        <5>1. \A i \in DOMAIN <<End>> : <<End>>[i].to = Nobody BY DEF End, Said, Message
        <5>2. \A i \in DOMAIN <<>> : FALSE OBVIOUS
        <5>3. QED BY <1>1, <4>3, <5>1, <5>2
      <4>6. \A i \in DOMAIN wire[on[s]] : wire[on[s]][i].to # d
        <5>1. ~Current(d) BY <3>1, <4>2 DEF Current
        <5>2. QED BY <3>1, <5>1 DEF Replying
      <4>7. SoughtBy(d, on[s])' BY <3>1, <4>2, <4>3, <4>4, <4>5, <4>6 DEF SoughtBy
      <4>8. asked' = asked \/ asked' = [asked EXCEPT ![on[s]] = @ \cup {d}]
        BY <3>3, <4>1 DEF Written
      <4>9. \A v \in Servers : \A c \in asked'[v] : c \in asked[v] \/ (c = d /\ v = on[s])
        BY <1>1, <4>8
      <4>10. ASSUME NEW v \in Servers, NEW c \in asked'[v], c.for = "thread"
             PROVE (c \in asked[v] /\ SoughtStill(c, v)) \/ SoughtBy(c, v)'
        <5>1. CASE c \in asked[v] BY <2>2, <2>3, <4>10, <5>1
        <5>2. CASE c = d /\ v = on[s]
          <6>1. SoughtBy(d, v)' BY <3>1, <4>2, <4>3, <4>4, <4>5, <4>6, <5>2 DEF SoughtBy
          <6>2. QED BY <5>2, <6>1 DEF SoughtBy
        <5>3. QED BY <4>9, <5>1, <5>2
      <4>11. QED BY <1>2, <4>10
    <3>4. QED BY <2>7, <3>2, <3>3 DEF Opens
  <2>8. CASE SetsOut(s) \/ Joins(s) \/ Shares(s) \/ Opening(s) \/ Reads(s) \/ Leaves(s)
    BY <2>4, <2>8 DEF SetsOut, Joins, Shares, Opening, Reads, Leaves
  <2>9. QED BY <1>4, <2>5, <2>6, <2>7, <2>8 DEF Turn, GoesOn
<1>5. ASSUME NEW v \in Servers, Falls(v), UNCHANGED session PROVE Sought'
  <2>1. \A w \in Servers : asked'[w] \subseteq asked[w] /\ (w # v => wire'[w] = wire[w])
    BY <1>1, <1>5 DEF Falls
  <2>2. asked'[v] = {} BY <1>1, <1>5 DEF Falls
  <2>3. QED BY <1>1, <1>3, <1>5, <2>1, <2>2
<1>6. ASSUME NEW v \in Servers, NEW q \in Seq(Messages), Writes(v, q), UNCHANGED session,
             \A w \in Servers : asked'[w] \subseteq asked[w],
             \A i \in DOMAIN q : q[i].to \notin asked'[v]
      PROVE Sought'
  <2>1. wire' = [wire EXCEPT ![v] = wire[v] \o q] BY <1>6, WritesTypes
  <2>2. \A i \in DOMAIN (wire[v] \o q) :
           \/ i \in DOMAIN wire[v] /\ (wire[v] \o q)[i] = wire[v][i]
           \/ \E j \in DOMAIN q : (wire[v] \o q)[i] = q[j]
    BY <1>1, JoinedItems
  <2>3. ASSUME NEW w \in Servers, NEW c \in asked'[w], NEW i \in DOMAIN wire'[w]
        PROVE wire'[w][i].to # c \/ \E j \in DOMAIN wire[w] : wire'[w][i] = wire[w][j]
    BY <1>1, <1>6, <2>1, <2>2, <2>3
  <2>4. QED BY <1>3, <1>6, <2>3
<1>7. ASSUME NEW v \in Servers, Answers(v) PROVE Sought'
  <2>1. PICK call \in asked[v], ok \in BOOLEAN :
          /\ \/ Writes(v, <<Answer(call, ok)>>)
             \/ Writes(v, <<Answer(call, ok), Said("idle", Opened(call), 0)>>)
          /\ asked' = [asked EXCEPT ![v] = @ \ {call}]
    BY <1>7 DEF Answers
  <2>2. call \in Calls BY <1>1
  <2>3. PICK q \in Seq(Messages) :
          Writes(v, q) /\ \A i \in DOMAIN q : q[i].to = Nobody \/ q[i].to = call
    <3>1. PICK m \in Messages, n \in Messages :
            m = Answer(call, ok) /\ n = Said("idle", Opened(call), 0)
      BY <2>2, Answering, OpenedIs, Saying, BoundsAssumption
    <3>2. m.to = call /\ n.to = Nobody BY <3>1 DEF Answer, Said, Message
    <3>3. <<m>> \in Seq(Messages) /\ <<m, n>> \in Seq(Messages) OBVIOUS
    <3>4. /\ \A i \in DOMAIN <<m>> : <<m>>[i] = m
          /\ \A i \in DOMAIN <<m, n>> : <<m, n>>[i] = m \/ <<m, n>>[i] = n
      OBVIOUS
    <3>5. Writes(v, <<m>>) \/ Writes(v, <<m, n>>) BY <2>1, <3>1
    <3>6. QED BY <3>2, <3>3, <3>4, <3>5
  <2>4. asked'[v] = asked[v] \ {call} /\ \A w \in Servers : asked'[w] \subseteq asked[w]
    BY <1>1, <2>1
  <2>5. \A i \in DOMAIN q : q[i].to \notin asked'[v] BY <1>1, <2>3, <2>4
  <2>6. UNCHANGED session BY <1>7 DEF Answers
  <2>7. QED BY <1>6, <2>3, <2>4, <2>5, <2>6
<1>8. ASSUME NEW v \in Servers, Speaks(v) \/ Finishes(v) \/ Wonders(v) PROVE Sought'
  <2>1. UNCHANGED <<session, asked>> BY <1>8 DEF Speaks, Finishes, Wonders
  <2>2. PICK m \in Messages, n \in Messages :
          m.to = Nobody /\ n.to = Nobody /\ (Writes(v, <<m>>) \/ Writes(v, <<m, n>>))
    <3>1. CASE Wonders(v)
      <4>1. Want.to = Nobody /\ Note.to = Nobody BY DEF Want, Note, Said, Message
      <4>2. QED BY <3>1, <4>1, Signs DEF Wonders
    <3>2. CASE Speaks(v) \/ Finishes(v)
      <4>1. PICK t \in (Threads \cup {NoThread}) \X (0..Turns) \X BOOLEAN :
              \/ Writes(v, <<Said("word", t[1], t[2])>>)
              \/ \E how \in {"done", "failed"} :
                   Writes(v, <<Said(how, t[1], t[2]), Said("idle", t[1], 0)>>)
        BY <3>2 DEF Speaks, Finishes, TypeOK, ServersOK
      <4>2. \A kind \in {"word", "done", "failed"} :
              Said(kind, t[1], t[2]) \in Messages /\ Said(kind, t[1], t[2]).to = Nobody
        BY Saying DEF Said, Message
      <4>3. Said("idle", t[1], 0) \in Messages /\ Said("idle", t[1], 0).to = Nobody
        BY Saying, BoundsAssumption DEF Said, Message
      <4>4. QED BY <4>1, <4>2, <4>3
    <3>3. QED BY <1>8, <3>1, <3>2
  <2>3. <<m>> \in Seq(Messages) /\ <<m, n>> \in Seq(Messages) OBVIOUS
  <2>4. /\ \A i \in DOMAIN <<m>> : <<m>>[i] = m
        /\ \A i \in DOMAIN <<m, n>> : <<m, n>>[i] = m \/ <<m, n>>[i] = n
    OBVIOUS
  <2>5. Nobody \notin asked'[v] BY <1>1
  <2>6. PICK q \in Seq(Messages) : Writes(v, q) /\ \A i \in DOMAIN q : q[i].to = Nobody
    BY <2>2, <2>3, <2>4
  <2>7. \A w \in Servers : asked'[w] \subseteq asked[w] BY <2>1
  <2>8. \A i \in DOMAIN q : q[i].to \notin asked'[v] BY <2>5, <2>6
  <2>9. QED BY <1>6, <2>1, <2>6, <2>7, <2>8
<1>9. ASSUME NEW v \in Servers, Pumps(v) \/ Tells(v) PROVE Sought'
  <2>1. UNCHANGED <<asked, doing, took, on, thread, id>> BY <1>9 DEF Pumps, Tells
  <2>2. \A w \in Servers : \A i \in DOMAIN wire'[w] :
          \E j \in DOMAIN wire[w] : wire'[w][i] = wire[w][j]
    <3>1. CASE wire' = wire BY <3>1
    <3>2. CASE wire[v] # <<>> /\ wire' = [wire EXCEPT ![v] = Tail(wire[v])]
      <4>1. \A i \in DOMAIN Tail(wire[v]) :
              i + 1 \in DOMAIN wire[v] /\ Tail(wire[v])[i] = wire[v][i + 1]
        BY <1>1, <3>2, TakenItems
      <4>2. wire'[v] = Tail(wire[v]) /\ \A w \in Servers : w # v => wire'[w] = wire[w]
        BY <1>1, <3>2
      <4>3. QED BY <4>1, <4>2
    <3>3. CASE wire' = [wire EXCEPT ![v] = <<>>]
      <4>1. wire'[v] = <<>> /\ \A w \in Servers : w # v => wire'[w] = wire[w]
        BY <1>1, <3>3
      <4>2. QED BY <4>1
    <3>4. QED BY <1>9, <3>1, <3>2, <3>3 DEF Pumps, Tells
  <2>3. ASSUME NEW w \in Servers, NEW c \in asked[w], c.for = "thread" PROVE SoughtStill(c, w)
    <3>1. SoughtBy(c, w) BY <2>3 DEF Sought
    <3>2. PICK s \in Sessions : s = c.by BY <1>1
    <3>3. Asking(s)' = Asking(s) /\ doing'[s] = doing[s] /\ on'[s] = on[s]
      BY <2>1 DEF Asking, Call
    <3>4. \A i \in DOMAIN box'[s] :
            box'[s][i].to # c \/ \E j \in DOMAIN box[s] : box'[s][i] = box[s][j]
      <4>1. CASE box'[s] = box[s] BY <4>1
      <4>2. CASE Pumps(v) /\ s \in Readers(v) /\ box'[s] = Append(box[s], Head(wire[v]))
        <5>1. w = v /\ wire[v] # <<>> BY <3>1, <3>2, <4>2 DEF SoughtBy, Readers, Pumps
        <5>2. PICK m \in Messages : m = Head(wire[v]) BY <1>1, <5>1, Taken
        <5>3. 1 \in DOMAIN wire[v] /\ m = wire[v][1] BY <1>1, <5>1, <5>2, TakenItems
        <5>4. m.to # c BY <3>1, <5>1, <5>3 DEF SoughtBy
        <5>5. \A i \in DOMAIN Append(box[s], m) :
                Append(box[s], m)[i] = m
                \/ (i \in DOMAIN box[s] /\ Append(box[s], m)[i] = box[s][i])
          BY <1>1, AddedItems
        <5>6. QED BY <4>2, <5>2, <5>4, <5>5
      <4>3. CASE box'[s] = Append(box[s], End)
        <5>1. PICK m \in Messages : m = End BY Signs
        <5>2. m.to = Nobody BY <5>1 DEF End, Said, Message
        <5>3. \A i \in DOMAIN Append(box[s], m) :
                Append(box[s], m)[i] = m
                \/ (i \in DOMAIN box[s] /\ Append(box[s], m)[i] = box[s][i])
          BY <1>1, AddedItems
        <5>4. QED BY <1>1, <4>3, <5>1, <5>2, <5>3
      <4>4. QED BY <1>9, <4>1, <4>2, <4>3 DEF Pumps, Tells
    <3>5. QED BY <2>2, <3>2, <3>3, <3>4 DEF SoughtStill
  <2>4. QED BY <1>2, <2>1, <2>3
<1>10. ASSUME UNCHANGED <<session, asked, wire>> PROVE Sought' BY <1>3, <1>10
<1>11. CASE Moved \/ Stops \/ UNCHANGED vars \/ \E s \in Sessions : LetsGo(s)
  BY <1>10, <1>11 DEF Moved, Stops, LetsGo, vars
<1>12. ASSUME NEW v \in Servers, PutsDown(v) \/ Dies(v) PROVE Sought'
  BY <1>5, <1>10, <1>12 DEF PutsDown, Dies
<1>13. QED BY <1>4, <1>7, <1>8, <1>9, <1>11, <1>12 DEF Next, Server

-----------------------------------------------------------------------------
(* What there is to read of a turn.                                        *)

LEMMA Appended ==
    ASSUME NEW M, NEW a \in Seq(M), NEW b \in Seq(M), NEW m \in M
    PROVE /\ b \o <<m>> = Append(b, m) /\ a \o Append(b, m) = Append(a \o b, m)
          /\ Append(b, m) \in Seq(M) /\ a \o b \in Seq(M)
<1>1. <<m>> \in Seq(M) OBVIOUS
<1>2. /\ b \o <<m>> = Append(b, m) /\ (a \o b) \o <<m>> = Append(a \o b, m)
      /\ Append(b, m) \in Seq(M) /\ a \o b \in Seq(M)
  BY AppendIsConcat, AppendProperties, ConcatProperties
<1>3. a \o Append(b, m) = Append(a \o b, m) BY <1>1, <1>2, ConcatAssociative
<1>4. QED BY <1>2, <1>3
LEMMA AppendedBoth ==
    ASSUME NEW M, NEW b \in Seq(M), NEW m \in M, NEW n \in M
    PROVE b \o <<m, n>> = Append(Append(b, m), n)
<1> DEFINE p == b \o <<m, n>>
           q == Append(Append(b, m), n)
<1>1. <<m, n>> \in Seq(M) /\ Len(<<m, n>>) = 2 /\ <<m, n>>[1] = m /\ <<m, n>>[2] = n
      /\ Len(b) \in Nat
  OBVIOUS
<1>2. /\ p \in Seq(M) /\ Len(p) = Len(b) + 2
      /\ \A i \in 1..(Len(b) + 2) : p[i] = IF i <= Len(b) THEN b[i] ELSE <<m, n>>[i - Len(b)]
  BY <1>1, ConcatProperties
<1>3. /\ q \in Seq(M) /\ Len(q) = Len(b) + 2
      /\ \A i \in 1..Len(b) : q[i] = b[i]
      /\ q[Len(b) + 1] = m /\ q[Len(b) + 2] = n
  BY <1>1, AppendProperties
<1> HIDE DEF p, q
<1>4. ASSUME NEW i \in 1..Len(p) PROVE p[i] = q[i]
  <2>1. i \in 1..Len(b) \/ i = Len(b) + 1 \/ i = Len(b) + 2 BY <1>1, <1>2
  <2>2. CASE i \in 1..Len(b) BY <1>1, <1>2, <1>3, <2>2
  <2>3. CASE i = Len(b) + 1
    <3>1. i - Len(b) = 1 /\ ~(i <= Len(b)) BY <1>1, <2>3
    <3>2. QED BY <1>1, <1>2, <1>3, <2>3, <3>1
  <2>4. CASE i = Len(b) + 2
    <3>1. i - Len(b) = 2 /\ ~(i <= Len(b)) BY <1>1, <2>4
    <3>2. QED BY <1>1, <1>2, <1>3, <2>4, <3>1
  <2>5. QED BY <2>1, <2>2, <2>3, <2>4
<1>5. p = q BY <1>2, <1>3, <1>4, SeqEqual
<1>6. QED BY <1>5 DEF p, q

\* The first item of one queue is put at the end of the queue before it, or let go of.
LEMMA Moving ==
    ASSUME NEW M, NEW a \in Seq(M), NEW b \in Seq(M), b # <<>>
    PROVE Append(a, Head(b)) \o Tail(b) = a \o b
<1>1. Head(b) \in M /\ Tail(b) \in Seq(M) /\ <<Head(b)>> \in Seq(M) BY HeadTailProperties
<1>2. <<Head(b)>> \o Tail(b) = b OBVIOUS
<1>3. Append(a, Head(b)) = a \o <<Head(b)>> BY <1>1, AppendIsConcat
<1>4. QED BY <1>1, <1>2, <1>3, ConcatAssociative
LEMMA TailOfJoined ==
    ASSUME NEW M, NEW a \in Seq(M), NEW b \in Seq(M), a # <<>>
    PROVE a \o b # <<>> /\ Head(a \o b) = Head(a) /\ (a \o b)[1] = Head(a)
          /\ Tail(a \o b) = Tail(a) \o b
<1>1. PICK p : p = a \o b OBVIOUS
<1>2. /\ p \in Seq(M) /\ Len(p) = Len(a) + Len(b)
      /\ \A i \in 1..(Len(a) + Len(b)) : p[i] = IF i <= Len(a) THEN a[i] ELSE b[i - Len(a)]
      /\ Len(a) \in Nat /\ Len(b) \in Nat /\ Len(a) > 0
  BY <1>1, ConcatProperties, EmptySeq, LenProperties
<1>3. p # <<>> /\ p[1] = a[1] /\ Head(p) = p[1] /\ Head(a) = a[1] BY <1>2
<1>4. PICK t : t = Tail(a) OBVIOUS
<1>a. t \in Seq(M) /\ Len(t) = Len(a) - 1 /\ \A i \in 1..Len(t) : t[i] = a[i + 1]
  BY <1>4, HeadTailProperties
<1>5. PICK q : q = t \o b OBVIOUS
<1>b. /\ q \in Seq(M) /\ Len(q) = Len(t) + Len(b)
      /\ \A i \in 1..(Len(t) + Len(b)) : q[i] = IF i <= Len(t) THEN t[i] ELSE b[i - Len(t)]
  BY <1>a, <1>5, ConcatProperties
<1>6. PICK r : r = Tail(p) OBVIOUS
<1>c. r \in Seq(M) /\ Len(r) = Len(p) - 1 /\ \A i \in 1..Len(r) : r[i] = p[i + 1]
  BY <1>2, <1>3, <1>6, HeadTailProperties
<1>7. Len(q) = Len(r) BY <1>2, <1>a, <1>b, <1>c
<1>8. ASSUME NEW i \in 1..Len(q) PROVE q[i] = r[i]
  <2>1. r[i] = p[i + 1] /\ i + 1 \in 1..(Len(a) + Len(b))
    BY <1>2, <1>a, <1>b, <1>c, <1>7
  <2>2. CASE i <= Len(t)
    BY <1>2, <1>a, <1>b, <2>1, <2>2
  <2>3. CASE ~(i <= Len(t))
    <3>1. ~(i + 1 <= Len(a)) /\ (i + 1) - Len(a) = i - Len(t) BY <1>2, <1>a, <2>3
    <3>2. QED BY <1>2, <1>b, <2>1, <2>3, <3>1
  <2>4. QED BY <2>2, <2>3
<1>9. q = r BY <1>7, <1>8, <1>b, <1>c, SeqEqual
<1>10. QED BY <1>1, <1>3, <1>4, <1>5, <1>6, <1>9
LEMMA LettingGo ==
    ASSUME NEW a \in Seq(Messages), NEW b \in Seq(Messages), b # <<>>,
           NEW s, NEW call, NEW k, NEW h
    PROVE Follows(a \o b, a \o Tail(b), s, call, k, h)
<1> DEFINE q == a \o Tail(b)
           f == [i \in DOMAIN q |-> IF i <= Len(a) THEN i ELSE i + 1]
<1>1. a \o b \in Seq(Messages) /\ q \in Seq(Messages) OBVIOUS
<1>2. f \in [DOMAIN q -> DOMAIN (a \o b)] /\ \A i \in DOMAIN q : q[i] = (a \o b)[f[i]]
  <2>1. Tail(b) \in Seq(Messages) /\ Len(Tail(b)) = Len(b) - 1 /\ Len(b) \in Nat /\ Len(a) \in Nat
        /\ \A i \in 1..Len(Tail(b)) : Tail(b)[i] = b[i + 1]
    BY HeadTailProperties, LenProperties
  <2>2. DOMAIN q = 1..(Len(a) + Len(b) - 1) /\ DOMAIN (a \o b) = 1..(Len(a) + Len(b))
    BY <1>1, <2>1, ConcatProperties, LenProperties
  <2>3. f \in [DOMAIN q -> DOMAIN (a \o b)] BY <2>1, <2>2
  <2>4. ASSUME NEW i \in DOMAIN q PROVE q[i] = (a \o b)[f[i]]
    <3>1. i \in 1..(Len(a) + Len(Tail(b))) /\ i \in 1..(Len(a) + Len(b)) BY <2>1, <2>2
    <3>2. q[i] = IF i <= Len(a) THEN a[i] ELSE Tail(b)[i - Len(a)]
      BY <2>1, <3>1, ConcatProperties
    <3>3. CASE i <= Len(a)
      BY <3>1, <3>2, <3>3, ConcatProperties
    <3>4. CASE ~(i <= Len(a))
      <4>1. i + 1 \in 1..(Len(a) + Len(b)) /\ ~(i + 1 <= Len(a)) /\ i - Len(a) \in 1..Len(Tail(b))
            /\ (i + 1) - Len(a) = (i - Len(a)) + 1
        BY <2>1, <2>2, <3>1, <3>4
      <4>2. (a \o b)[i + 1] = b[(i + 1) - Len(a)] BY <4>1, ConcatProperties
      <4>3. QED BY <2>1, <3>2, <3>4, <4>1, <4>2
    <3>5. QED BY <3>3, <3>4
  <2>5. QED BY <2>3, <2>4
<1>3. \A i, j \in DOMAIN q : i < j => f[i] < f[j] OBVIOUS
<1> HIDE DEF q, f
<1>4. Follows(a \o b, q, s, call, k, h) BY <1>1, <1>2, <1>3, Dropped
<1>5. QED BY <1>4 DEF q
LEMMA Emptying ==
    ASSUME NEW a \in Seq(Messages), NEW b \in Seq(Messages), NEW s, NEW call, NEW k, NEW h
    PROVE Follows(a \o b, a \o <<>>, s, call, k, h)
<1> DEFINE q == a \o <<>>
           f == [i \in DOMAIN q |-> i]
<1>1. a \o b \in Seq(Messages) /\ q \in Seq(Messages) OBVIOUS
<1>2. f \in [DOMAIN q -> DOMAIN (a \o b)] /\ \A i \in DOMAIN q : q[i] = (a \o b)[f[i]] OBVIOUS
<1>3. \A i, j \in DOMAIN q : i < j => f[i] < f[j] OBVIOUS
<1> HIDE DEF q, f
<1>4. Follows(a \o b, q, s, call, k, h) BY <1>1, <1>2, <1>3, Dropped
<1>5. QED BY <1>4 DEF q

LEMMA Same == ASSUME NEW p, NEW s, NEW call, NEW k, NEW h PROVE Follows(p, p, s, call, k, h)
  BY DEF Follows

-----------------------------------------------------------------------------
(* A conversation whose own turn takes no step.                            *)

Still(s) ==
    /\ doing'[s] = doing[s] /\ took'[s] = took[s] /\ on'[s] = on[s]
    /\ thread'[s] = thread[s] /\ heard'[s] = heard[s]

LEMMA Carried ==
    ASSUME NEW s \in Sessions, Owned(s), Still(s), doing[s] = "reading" => on[s] \in Servers,
           \A v \in Servers : CallsOf(s, v)' \subseteq CallsOf(s, v),
           \A v \in Servers : RunsOf(s, v)' \subseteq RunsOf(s, v),
           \A v \in Servers : Unspoken(wire[v], s) => Unspoken(wire'[v], s),
           doing[s] = "reading" =>
               Follows(Pipe(s), box'[s] \o wire'[on[s]], s, Asking(s), took[s], heard[s])
    PROVE Owned(s)'
<1>1. doing[s] = "reading" => Asking(s)' = Asking(s) BY DEF Still, Asking, Call
<1>2. \A v \in Servers : (doing[s] = "reading" /\ on[s] = v) \/ Quiet(s, v)' BY DEF Owned, Quiet
<1>3. heard'[s] \in {0, took'[s]} BY DEF Owned, Still
<1>4. ASSUME doing[s] = "reading" PROVE InHand(s)' /\ Told(s)'
  <2>1. on[s] \in Servers /\ on'[s] = on[s] BY <1>4 DEF Still
  <2>2. CallsOf(s, on[s])' \subseteq CallsOf(s, on[s])
    <3>1. ASSUME NEW v \in Servers, v = on[s] PROVE CallsOf(s, v)' \subseteq CallsOf(s, v) OBVIOUS
    <3>2. {c \in asked'[on[s]] : c.by = s /\ c.for = "turn"} \subseteq CallsOf(s, on[s])
      BY <2>1, <3>1 DEF CallsOf
    <3>3. QED BY <2>1, <3>2 DEF CallsOf
  <2>3. RunsOf(s, on[s])' \subseteq RunsOf(s, on[s])
    <3>1. ASSUME NEW v \in Servers, v = on[s] PROVE RunsOf(s, v)' \subseteq RunsOf(s, v) OBVIOUS
    <3>2. {t \in working'[on[s]] : t[1] # NoThread /\ t[1][1] = s} \subseteq RunsOf(s, on[s])
      BY <2>1, <3>1 DEF RunsOf
    <3>3. QED BY <2>1, <3>2 DEF RunsOf
  <2>4. InHand(s) /\ Told(s) BY <1>4 DEF Owned
  <2>5. took'[s] = took[s] /\ heard'[s] = heard[s] BY DEF Still
  <2>6. InHand(s)' BY <1>1, <1>4, <2>2, <2>3, <2>4, <2>5 DEF InHand
  <2>7. Busy(s)' => Busy(s) BY <2>2, <2>3 DEF Busy
  <2>8. Waiting(s)' => Waiting(s) BY <2>2, <2>3 DEF Waiting
  <2>9. Pipe(s)' = box'[s] \o wire'[on[s]] BY <2>1 DEF Pipe
  <2>10. Told(s)' BY <1>1, <1>4, <2>4, <2>5, <2>7, <2>8, <2>9 DEF Told, Follows
  <2>11. QED BY <2>6, <2>10
<1>5. QED BY <1>2, <1>3, <1>4 DEF Owned, Still

\* Where what it has asked, is run and has to read stays as it is.
LEMMA NotAsked ==
    ASSUME NEW s \in Sessions, Owned(s), Still(s), doing[s] = "reading" => on[s] \in Servers,
           \A v \in Servers : CallsOf(s, v)' \subseteq CallsOf(s, v),
           UNCHANGED <<working, wire>>, box'[s] = box[s]
    PROVE Owned(s)'
<1>1. \A v \in Servers : RunsOf(s, v)' \subseteq RunsOf(s, v) BY DEF RunsOf
<1>2. Pipe(s) = box'[s] \o wire'[on[s]] BY DEF Pipe
<1>3. Follows(Pipe(s), box'[s] \o wire'[on[s]], s, Asking(s), took[s], heard[s]) BY <1>2, Same
<1>4. QED BY <1>1, <1>3, Carried

\* A call that is not for a turn of its is nothing to it.
LEMMA Uncalled ==
    ASSUME TypeOK, NEW s, NEW u \in Servers, NEW c, c.by # s \/ c.for # "turn",
           \/ asked' = asked
           \/ asked' = [asked EXCEPT ![u] = asked[u] \cup {c}] \/ asked' = [asked EXCEPT ![u] = {c}],
           NEW v \in Servers
    PROVE CallsOf(s, v)' \subseteq CallsOf(s, v)
<1>1. asked'[v] \subseteq asked[v] \cup {c} BY DEF TypeOK, ServersOK
<1>2. QED BY <1>1 DEF CallsOf

\* Nobody's turn but its own asks for it.
LEMMA TurnElsewhere ==
    ASSUME TypeOK, Placed, NEW o \in Sessions, Turn(o), NEW s,
           s # o \/ ~Begins(o), NEW v \in Servers
    PROVE CallsOf(s, v)' \subseteq CallsOf(s, v)
<1> USE DEF process
<1>1. CASE asked' = asked BY <1>1 DEF CallsOf
<1>2. CASE Takes(o)
  <2>1. PICK u \in Servers : Taking(o, u) BY <1>2, TakesEither
  <2>2. asked' = asked \/ asked' = [asked EXCEPT ![u] = {Call(o, "initialize")}]
    BY <2>1 DEF Taking, TakesOne, TakesNew
  <2>3. Call(o, "initialize").for # "turn" BY DEF Call
  <2>4. QED BY <2>2, <2>3, Uncalled
<1>3. CASE Opens(o)
  <2>1. on[o] \in Servers BY <1>3 DEF Opens, Placed
  <2>2. asked' = asked \/ asked' = [asked EXCEPT ![on[o]] = asked[on[o]] \cup {Call(o, "thread")}]
    BY <1>3 DEF Opens, Written
  <2>3. Call(o, "thread").for # "turn" BY DEF Call
  <2>4. QED BY <2>1, <2>2, <2>3, Uncalled
<1>4. CASE Begins(o)
  <2>1. on[o] \in Servers BY <1>4 DEF Begins, Placed
  <2>2. asked' = asked \/ asked' = [asked EXCEPT ![on[o]] = asked[on[o]] \cup {Call(o, "turn")}]
    BY <1>4 DEF Begins, Written
  <2>3. Call(o, "turn").by = o BY DEF Call
  <2>4. QED BY <1>4, <2>1, <2>2, <2>3, Uncalled
<1>5. QED
  BY <1>1, <1>2, <1>3, <1>4 DEF Turn, GoesOn, SetsOut, Joins, Shares, Opening, Reads, Leaves

\* What is no word of a conversation's turn, nor ends it.
Foreign(m, s) ==
    /\ ~Spoken(m, s)
    /\ doing[s] = "reading" => ~Idled(m, s) /\ ~(m.kind = "refusal" /\ m.to = Asking(s))

LEMMA ForeignFollows ==
    ASSUME NEW a \in Seq(Messages), NEW b \in Seq(Messages), NEW m \in Messages, NEW s,
           doing[s] = "reading", Foreign(m, s), NEW k, NEW h
    PROVE Follows(a \o b, a \o Append(b, m), s, Asking(s), k, h)
<1>1. a \o b \in Seq(Messages) /\ a \o Append(b, m) = Append(a \o b, m) BY Appended
<1>2. QED BY <1>1, Extended DEF Foreign

LEMMA FollowsOn ==
    ASSUME NEW p, NEW q, NEW r, NEW s, NEW call, NEW k, NEW h,
           Follows(p, q, s, call, k, h), Follows(q, r, s, call, k, h)
    PROVE Follows(p, r, s, call, k, h)
  BY DEF Follows

\* What a server writes that is nothing to a conversation.
LEMMA WritesOwned ==
    ASSUME TypeOK, Placed, NEW s \in Sessions, Owned(s), UNCHANGED session,
           NEW v \in Servers, NEW m \in Messages, NEW n \in Messages,
           \/ wire' = wire \/ wire' = [wire EXCEPT ![v] = Append(wire[v], m)]
           \/ wire' = [wire EXCEPT ![v] = Append(Append(wire[v], m), n)],
           Foreign(m, s), Foreign(n, s),
           \A w \in Servers : CallsOf(s, w)' \subseteq CallsOf(s, w),
           \A w \in Servers : RunsOf(s, w)' \subseteq RunsOf(s, w)
    PROVE Owned(s)'
<1>1. Still(s) /\ box'[s] = box[s] BY DEF session, Still
<1>2. doing[s] = "reading" => on[s] \in Servers BY DEF Placed
<1>3. box[s] \in Seq(Messages) BY DEF TypeOK, SessionsOK
<1>4. ASSUME NEW w \in Servers
      PROVE /\ wire[w] \in Seq(Messages) /\ Append(wire[w], m) \in Seq(Messages)
            /\ \/ wire'[w] = wire[w] \/ wire'[w] = Append(wire[w], m)
               \/ wire'[w] = Append(Append(wire[w], m), n)
  BY Added DEF TypeOK, ServersOK
<1>5. ASSUME NEW w \in Servers, Unspoken(wire[w], s) PROVE Unspoken(wire'[w], s)
  <2>1. Unspoken(Append(wire[w], m), s) BY <1>4, <1>5, Extended DEF Foreign
  <2>2. Unspoken(Append(Append(wire[w], m), n), s) BY <1>4, <2>1, Extended DEF Foreign
  <2>3. QED BY <1>4, <1>5, <2>1, <2>2
<1>6. ASSUME doing[s] = "reading"
      PROVE Follows(Pipe(s), box'[s] \o wire'[on[s]], s, Asking(s), took[s], heard[s])
  <2>1. PICK a \in Seq(Messages), b \in Seq(Messages) :
          a = box[s] /\ b = wire[on[s]] /\ Append(b, m) \in Seq(Messages)
          /\ (wire'[on[s]] = b \/ wire'[on[s]] = Append(b, m) \/ wire'[on[s]] = Append(Append(b, m), n))
    BY <1>2, <1>3, <1>4, <1>6
  <2>2. Follows(a \o b, a \o b, s, Asking(s), took[s], heard[s]) BY Same
  <2>3. Follows(a \o b, a \o Append(b, m), s, Asking(s), took[s], heard[s])
    BY <1>6, ForeignFollows
  <2>4. Follows(a \o Append(b, m), a \o Append(Append(b, m), n), s, Asking(s), took[s], heard[s])
    BY <1>6, <2>1, ForeignFollows
  <2>5. Follows(a \o b, a \o Append(Append(b, m), n), s, Asking(s), took[s], heard[s])
    BY <2>3, <2>4, FollowsOn
  <2>6. QED BY <1>1, <2>1, <2>2, <2>3, <2>5 DEF Pipe
<1>7. QED BY <1>1, <1>2, <1>5, <1>6, Carried

LEMMA ForeignSigns ==
    ASSUME NEW s, NEW m \in {Cut, Want, Note} PROVE Foreign(m, s)
<1>1. m.kind \in {"cut", "want", "note"} BY DEF Cut, Want, Note, Said, Message
<1>2. QED BY <1>1 DEF Foreign, Spoken, Idled

LEMMA FallsOwned ==
    ASSUME TypeOK, Placed, NEW s \in Sessions, Owned(s), UNCHANGED session,
           NEW v \in Servers, Falls(v)
    PROVE Owned(s)'
<1>1. wire' = wire \/ wire' = [wire EXCEPT ![v] = Append(wire[v], Cut)] BY DEF Falls
<1>2. \A w \in Servers : CallsOf(s, w)' \subseteq CallsOf(s, w)
  BY DEF Falls, CallsOf, TypeOK, ServersOK
<1>3. \A w \in Servers : RunsOf(s, w)' \subseteq RunsOf(s, w)
  BY DEF Falls, RunsOf, TypeOK, ServersOK
<1>4. Cut \in Messages /\ Foreign(Cut, s) BY Signs, ForeignSigns
<1>5. QED BY <1>1, <1>2, <1>3, <1>4, WritesOwned

LEMMA WondersOwned ==
    ASSUME TypeOK, Placed, NEW s \in Sessions, Owned(s), NEW v \in Servers, Wonders(v)
    PROVE Owned(s)'
<1>1. PICK m \in {Want, Note} : Writes(v, <<m>>) BY DEF Wonders
<1>2. UNCHANGED <<session, asked, working>> BY DEF Wonders
<1>3. wire[v] \in Seq(Messages) /\ m \in Messages /\ Foreign(m, s)
  BY Signs, ForeignSigns DEF TypeOK, ServersOK
<1>4. wire' = [wire EXCEPT ![v] = wire[v] \o <<m>>] BY <1>1 DEF Writes
<1>5. wire[v] \o <<m>> = Append(wire[v], m) BY <1>3, AppendIsConcat
<1>6. wire' = [wire EXCEPT ![v] = Append(wire[v], m)] BY <1>4, <1>5
<1>7. \A w \in Servers : CallsOf(s, w)' \subseteq CallsOf(s, w) BY <1>2 DEF CallsOf
<1>8. \A w \in Servers : RunsOf(s, w)' \subseteq RunsOf(s, w) BY <1>2 DEF RunsOf
<1>9. QED BY <1>2, <1>3, <1>6, <1>7, <1>8, WritesOwned

\* A server that says something of a conversation's turn is the one it is read on.
LEMMA HasInHand ==
    ASSUME NEW s \in Sessions, Owned(s), NEW v \in Servers,
           CallsOf(s, v) # {} \/ RunsOf(s, v) # {}
    PROVE doing[s] = "reading" /\ on[s] = v /\ InHand(s) /\ Told(s) /\ Busy(s)
  BY DEF Owned, Quiet, Busy

\* What is said of a turn leaves it read where it was, if its pipe is as it should be.
LEMMA StillOwned ==
    ASSUME NEW s \in Sessions, Owned(s), UNCHANGED session, doing[s] = "reading",
           NEW v \in Servers, on[s] = v,
           \A w \in Servers \ {v} :
               asked'[w] = asked[w] /\ working'[w] = working[w] /\ wire'[w] = wire[w],
           InHand(s)', Told(s)'
    PROVE Owned(s)'
<1>1. \A w \in Servers : w = v \/ Quiet(s, w)' BY DEF Owned, Quiet, CallsOf, RunsOf
<1>2. UNCHANGED <<doing, on, took, heard>> BY DEF session
<1>3. QED BY <1>1, <1>2 DEF Owned

LEMMA SpeaksOwned ==
    ASSUME TypeOK, Placed, NEW s \in Sessions, Owned(s), NEW v \in Servers, Speaks(v)
    PROVE Owned(s)'
<1>1. PICK t \in working[v] :
        /\ ~t[3] /\ Writes(v, <<Said("word", t[1], t[2])>>)
        /\ working' = [working EXCEPT ![v] = (@ \ {t}) \cup {<<t[1], t[2], TRUE>>}]
  BY DEF Speaks
<1>2. UNCHANGED <<session, asked>> BY DEF Speaks
<1>3. /\ box[s] \in Seq(Messages) /\ wire[v] \in Seq(Messages)
      /\ t \in (Threads \cup {NoThread}) \X (0..Turns) \X BOOLEAN
  BY DEF TypeOK, ServersOK, SessionsOK
<1>4. PICK m \in Messages : m = Said("word", t[1], t[2]) BY <1>3, Saying
<1>5. /\ wire'[v] = Append(wire[v], m) /\ wire' = [wire EXCEPT ![v] = Append(wire[v], m)]
      /\ \A w \in Servers \ {v} : wire'[w] = wire[w]
  <2>1. wire' = [wire EXCEPT ![v] = wire[v] \o <<m>>] BY <1>1, <1>4 DEF Writes
  <2>2. wire[v] \o <<m>> = Append(wire[v], m) BY <1>3, AppendIsConcat
  <2>3. QED BY <2>1, <2>2 DEF TypeOK, ServersOK
<1>6. m.kind = "word" /\ m.of = t[1] /\ m.turn = t[2] BY <1>4 DEF Said, Message
<1>7. \A w \in Servers : CallsOf(s, w)' = CallsOf(s, w) BY <1>2 DEF CallsOf
<1>8. PICK u : /\ u[1] = t[1] /\ u[2] = t[2] /\ u[3] = TRUE
               /\ working'[v] = (working[v] \ {t}) \cup {u}
               /\ \A w \in Servers \ {v} : working'[w] = working[w]
  <2>1. PICK u : u = <<t[1], t[2], TRUE>> OBVIOUS
  <2>2. u[1] = t[1] /\ u[2] = t[2] /\ u[3] = TRUE BY <2>1
  <2>3. /\ working'[v] = (working[v] \ {t}) \cup {u}
        /\ \A w \in Servers \ {v} : working'[w] = working[w]
    BY <1>1, <2>1 DEF TypeOK, ServersOK
  <2>4. QED BY <2>2, <2>3
<1>9. CASE t \notin RunsOf(s, v)
  <2>1. ~Ours(m, s) BY <1>6, <1>9 DEF Ours, RunsOf
  <2>2. Foreign(m, s) BY <1>6, <2>1 DEF Foreign, Spoken, Idled
  <2>3. \A w \in Servers : RunsOf(s, w)' \subseteq RunsOf(s, w)
    <3>1. RunsOf(s, v)' \subseteq RunsOf(s, v) BY <1>8, <1>9 DEF RunsOf
    <3>2. QED BY <1>8, <3>1 DEF RunsOf
  <2>4. QED BY <1>2, <1>5, <1>7, <2>2, <2>3, WritesOwned
<1>10. CASE t \in RunsOf(s, v)
  <2>1. doing[s] = "reading" /\ on[s] = v /\ InHand(s) /\ Told(s) /\ Busy(s)
    BY <1>10, HasInHand
  <2>2. CallsOf(s, v) = {} /\ RunsOf(s, v) = {t} /\ t[2] = took[s] BY <1>10, <2>1 DEF InHand
  <2>3. RunsOf(s, v)' = {u}
    <3>1. u[1] # NoThread /\ u[1][1] = s BY <1>8, <1>10 DEF RunsOf
    <3>2. \A x \in working[v] : x[1] # NoThread /\ x[1][1] = s => x = t BY <2>2 DEF RunsOf
    <3>3. QED BY <1>8, <3>1, <3>2 DEF RunsOf
  <2>4. UNCHANGED <<doing, on, took, heard, box, thread>> BY <1>2 DEF session
  <2>5. InHand(s)' BY <1>7, <1>8, <2>1, <2>2, <2>3, <2>4 DEF InHand
  <2>6. ~Waiting(s)'
    <3>1. \A x \in RunsOf(s, v)' : x[3] = TRUE BY <1>8, <2>3
    <3>2. QED BY <1>7, <2>1, <2>2, <2>4, <3>1 DEF Waiting
  <2>7. Asking(s)' = Asking(s) BY <2>1, <2>4 DEF Asking, Call
  <2>8. Spoken(m, s) /\ m.turn = took[s] /\ m.kind # "failed"
    BY <1>6, <1>10, <2>2 DEF Spoken, Ours, RunsOf
  <2>9. Pipe(s) \in Seq(Messages) /\ Pipe(s)' = Append(Pipe(s), m)
    <3>1. \A a, b \in Seq(Messages) : a \o b \in Seq(Messages) /\ a \o Append(b, m) = Append(a \o b, m)
      BY Appended
    <3>2. Pipe(s)' = box[s] \o Append(wire[v], m) BY <1>5, <2>1, <2>4 DEF Pipe
    <3>3. QED BY <1>3, <2>1, <3>1, <3>2 DEF Pipe
  <2>10. PICK p \in Seq(Messages) : p = Pipe(s) /\ Pipe(s)' = Append(p, m) BY <2>9
  <2>11. /\ Ordered(p, s, Asking(s), took[s], heard[s])
         /\ Unended(p, s, Asking(s), heard[s])
    BY <2>1, <2>10 DEF Told
  <2>12. /\ Ordered(Append(p, m), s, Asking(s), took[s], heard[s])
         /\ Unended(Append(p, m), s, Asking(s), heard[s])
    BY <2>8, <2>11, SpokenOn
  <2>13. Told(s)' BY <2>4, <2>6, <2>7, <2>10, <2>12 DEF Told
  <2>14. \A w \in Servers \ {v} :
           asked'[w] = asked[w] /\ working'[w] = working[w] /\ wire'[w] = wire[w]
    BY <1>2, <1>5, <1>8
  <2>15. QED BY <1>2, <2>1, <2>5, <2>13, <2>14, StillOwned
<1>11. QED BY <1>9, <1>10

LEMMA FinishesOwned ==
    ASSUME TypeOK, Placed, NEW s \in Sessions, Owned(s), NEW v \in Servers, Finishes(v)
    PROVE Owned(s)'
<1>1. PICK t \in working[v], how \in {"done", "failed"} :
        /\ Writes(v, <<Said(how, t[1], t[2]), Said("idle", t[1], 0)>>)
        /\ working' = [working EXCEPT ![v] = @ \ {t}]
  BY DEF Finishes
<1>2. UNCHANGED <<session, asked>> BY DEF Finishes
<1>3. /\ box[s] \in Seq(Messages) /\ wire[v] \in Seq(Messages)
      /\ t \in (Threads \cup {NoThread}) \X (0..Turns) \X BOOLEAN
  BY DEF TypeOK, ServersOK, SessionsOK
<1>4. PICK m \in Messages, n \in Messages : m = Said(how, t[1], t[2]) /\ n = Said("idle", t[1], 0)
  <2>1. t[1] \in Threads \cup {NoThread} /\ t[2] \in 0..Turns /\ 0 \in 0..Turns
    BY <1>3, BoundsAssumption
  <2>2. Said(how, t[1], t[2]) \in Messages BY <2>1, Saying
  <2>3. Said("idle", t[1], 0) \in Messages BY <2>1, Saying
  <2>4. QED BY <2>2, <2>3
<1>5. /\ wire'[v] = Append(Append(wire[v], m), n)
      /\ wire' = [wire EXCEPT ![v] = Append(Append(wire[v], m), n)]
      /\ \A w \in Servers \ {v} : wire'[w] = wire[w]
  <2>1. wire' = [wire EXCEPT ![v] = wire[v] \o <<m, n>>] BY <1>1, <1>4 DEF Writes
  <2>2. wire[v] \o <<m, n>> = Append(Append(wire[v], m), n) BY <1>3, AppendedBoth
  <2>3. QED BY <2>1, <2>2 DEF TypeOK, ServersOK
<1>6. /\ m.kind \in {"done", "failed"} /\ m.of = t[1] /\ m.turn = t[2]
      /\ n.kind = "idle" /\ n.of = t[1]
  BY <1>4 DEF Said, Message
<1>7. \A w \in Servers : CallsOf(s, w)' = CallsOf(s, w) BY <1>2 DEF CallsOf
<1>8. /\ working'[v] = working[v] \ {t}
      /\ \A w \in Servers \ {v} : working'[w] = working[w]
  BY <1>1 DEF TypeOK, ServersOK
<1>9. CASE t \notin RunsOf(s, v)
  <2>1. ~Ours(m, s) /\ ~Ours(n, s) BY <1>6, <1>9 DEF Ours, RunsOf
  <2>2. Foreign(m, s) /\ Foreign(n, s) BY <1>6, <2>1 DEF Foreign, Spoken, Idled
  <2>3. \A w \in Servers : RunsOf(s, w)' \subseteq RunsOf(s, w) BY <1>8 DEF RunsOf
  <2>4. QED BY <1>2, <1>5, <1>7, <2>2, <2>3, WritesOwned
<1>10. CASE t \in RunsOf(s, v)
  <2>1. doing[s] = "reading" /\ on[s] = v /\ InHand(s) /\ Told(s) /\ Busy(s)
    BY <1>10, HasInHand
  <2>2. CallsOf(s, v) = {} /\ RunsOf(s, v) = {t} /\ t[2] = took[s] BY <1>10, <2>1 DEF InHand
  <2>3. RunsOf(s, v)' = {} BY <1>8, <2>2 DEF RunsOf
  <2>4. UNCHANGED <<doing, on, took, heard, box, thread>> BY <1>2 DEF session
  <2>5. InHand(s)' /\ ~Busy(s)' /\ ~Waiting(s)'
    BY <1>7, <2>1, <2>2, <2>3, <2>4 DEF InHand, Busy, Waiting
  <2>6. Asking(s)' = Asking(s) BY <2>1, <2>4 DEF Asking, Call
  <2>7. Spoken(m, s) /\ m.turn = took[s] /\ ~Spoken(n, s)
    BY <1>6, <1>10, <2>2 DEF Spoken, Ours, RunsOf
  <2>8. Pipe(s) \in Seq(Messages) /\ Pipe(s)' = Append(Append(Pipe(s), m), n)
    <3>1. \A a, b \in Seq(Messages) :
             /\ a \o b \in Seq(Messages) /\ Append(b, m) \in Seq(Messages)
             /\ a \o Append(b, m) = Append(a \o b, m) /\ a \o Append(b, n) = Append(a \o b, n)
      BY Appended
    <3>2. Pipe(s)' = box[s] \o Append(Append(wire[v], m), n) BY <1>5, <2>1, <2>4 DEF Pipe
    <3>3. PICK a \in Seq(Messages), b \in Seq(Messages) : a = box[s] /\ b = wire[v] BY <1>3
    <3>4. a \o Append(Append(b, m), n) = Append(a \o Append(b, m), n) BY <3>1
    <3>5. a \o Append(b, m) = Append(a \o b, m) /\ a \o b \in Seq(Messages) BY <3>1
    <3>6. QED BY <2>1, <3>2, <3>3, <3>4, <3>5 DEF Pipe
  <2>9. PICK p \in Seq(Messages) :
          p = Pipe(s) /\ Pipe(s)' = Append(Append(p, m), n) /\ Append(p, m) \in Seq(Messages)
    BY <2>8, Added
  <2>10. /\ Ordered(p, s, Asking(s), took[s], heard[s])
         /\ Unended(p, s, Asking(s), heard[s])
    BY <2>1, <2>9 DEF Told
  <2>11. Ordered(Append(p, m), s, Asking(s), took[s], heard[s]) BY <2>7, <2>10, SpokenOn
  <2>12. Ordered(Append(Append(p, m), n), s, Asking(s), took[s], heard[s])
    BY <2>7, <2>9, <2>11, Extended
  <2>13. Told(s)' BY <2>4, <2>5, <2>6, <2>9, <2>12 DEF Told
  <2>14. \A w \in Servers \ {v} :
           asked'[w] = asked[w] /\ working'[w] = working[w] /\ wire'[w] = wire[w]
    BY <1>2, <1>5, <1>8
  <2>15. QED BY <1>2, <2>1, <2>5, <2>13, <2>14, StillOwned
<1>11. QED BY <1>9, <1>10

LEMMA AnswersOwned ==
    ASSUME TypeOK, Placed, Replying, Sought, NEW s \in Sessions, Owned(s), NEW v \in Servers,
           Answers(v)
    PROVE Owned(s)'
<1>1. PICK call \in asked[v], ok \in BOOLEAN :
        /\ \/ Writes(v, <<Answer(call, ok)>>)
           \/ /\ call.for = "thread"
              /\ Writes(v, <<Answer(call, ok), Said("idle", Opened(call), 0)>>)
        /\ asked' = [asked EXCEPT ![v] = @ \ {call}]
        /\ working' = IF call.for = "turn" /\ ok
                      THEN [working EXCEPT ![v] = @ \cup {<<call.on, call.turn, FALSE>>}]
                      ELSE working
  BY DEF Answers
<1>2. UNCHANGED session BY DEF Answers
<1>3. /\ box[s] \in Seq(Messages) /\ wire[v] \in Seq(Messages) /\ call \in Calls
  BY DEF TypeOK, ServersOK, SessionsOK
<1>4. PICK m \in Messages, n \in Messages :
        m = Answer(call, ok) /\ n = Said("idle", Opened(call), 0)
  BY <1>3, Answering, OpenedIs, Saying, BoundsAssumption
<1>5. /\ \A w \in Servers \ {v} : wire'[w] = wire[w]
      /\ \/ wire'[v] = Append(wire[v], m) /\ wire' = [wire EXCEPT ![v] = Append(wire[v], m)]
         \/ /\ call.for = "thread" /\ wire'[v] = Append(Append(wire[v], m), n)
            /\ wire' = [wire EXCEPT ![v] = Append(Append(wire[v], m), n)]
  <2>1. \/ wire' = [wire EXCEPT ![v] = wire[v] \o <<m>>]
        \/ call.for = "thread" /\ wire' = [wire EXCEPT ![v] = wire[v] \o <<m, n>>]
    BY <1>1, <1>4 DEF Writes
  <2>2. wire[v] \o <<m>> = Append(wire[v], m) BY <1>3, AppendIsConcat
  <2>3. wire[v] \o <<m, n>> = Append(Append(wire[v], m), n) BY <1>3, AppendedBoth
  <2>4. QED BY <2>1, <2>2, <2>3 DEF TypeOK, ServersOK
<1>6. m.kind \in {"answer", "refusal"} /\ m.to = call /\ (ok => m.kind = "answer")
  BY <1>4 DEF Answer, Message
<1>7. ~Spoken(m, s) /\ ~Idled(m, s) BY <1>6 DEF Spoken, Idled
<1>8. PICK u : u[1] = call.on /\ u[2] = call.turn /\ u[3] = FALSE
               /\ working'[v] = (IF call.for = "turn" /\ ok THEN working[v] \cup {u} ELSE working[v])
  <2>1. PICK u : u = <<call.on, call.turn, FALSE>> OBVIOUS
  <2>2. u[1] = call.on /\ u[2] = call.turn /\ u[3] = FALSE BY <2>1
  <2>3. working'[v] = IF call.for = "turn" /\ ok THEN working[v] \cup {u} ELSE working[v]
    BY <1>1, <2>1 DEF TypeOK, ServersOK
  <2>4. QED BY <2>2, <2>3
<1>9. /\ asked'[v] = asked[v] \ {call}
      /\ \A w \in Servers \ {v} : asked'[w] = asked[w] /\ working'[w] = working[w]
  BY <1>1 DEF TypeOK, ServersOK
<1>10. CASE call \notin CallsOf(s, v)
  <2>1. doing[s] = "reading" => call # Asking(s)
    <3>1. doing[s] = "reading" => Asking(s).by = s /\ Asking(s).for = "turn"
      BY DEF Asking, Call
    <3>2. QED BY <1>10, <3>1 DEF CallsOf
  <2>2. Foreign(m, s) BY <1>6, <1>7, <2>1 DEF Foreign
  <2>a. call.for = "thread" => Foreign(n, s)
    <3>1. n.kind = "idle" /\ n.of = Opened(call) BY <1>4 DEF Said, Message
    <3>2. call.for = "thread" => Opened(call)[1] = call.by
      BY DEF Replying, Current, Opened
    <3>3. call.for = "thread" => doing[call.by] = "opening" BY DEF Sought, SoughtBy
    <3>4. QED BY <3>1, <3>2, <3>3 DEF Foreign, Spoken, Idled, Ours
  <2>3. \A w \in Servers : CallsOf(s, w)' \subseteq CallsOf(s, w) BY <1>9 DEF CallsOf
  <2>4. call.for = "turn" /\ call.on # NoThread => call.on[1] # s
    BY <1>10 DEF Replying, Current, CallsOf
  <2>5. RunsOf(s, v)' \subseteq RunsOf(s, v) BY <1>8, <2>4 DEF RunsOf
  <2>6. \A w \in Servers : RunsOf(s, w)' \subseteq RunsOf(s, w) BY <1>9, <2>5 DEF RunsOf
  <2>7. CASE call.for = "thread" BY <1>2, <1>5, <2>2, <2>a, <2>3, <2>6, <2>7, WritesOwned
  <2>8. CASE call.for # "thread" BY <1>2, <1>5, <2>2, <2>3, <2>6, <2>8, WritesOwned
  <2>9. QED BY <2>7, <2>8
<1>11. CASE call \in CallsOf(s, v)
  <2>1. doing[s] = "reading" /\ on[s] = v /\ InHand(s) /\ Told(s) /\ Busy(s) /\ Waiting(s)
    BY <1>11, HasInHand DEF Waiting
  <2>2. CallsOf(s, v) = {call} /\ RunsOf(s, v) = {} /\ call = Asking(s)
    BY <1>11, <2>1 DEF InHand
  <2>a. wire'[v] = Append(wire[v], m) BY <1>5, <1>11 DEF CallsOf
  <2>3. call.for = "turn" /\ call.turn = took[s] BY <2>1, <2>2 DEF Asking, Call
  <2>4. CallsOf(s, v)' = {} BY <1>9, <2>2 DEF CallsOf
  <2>5. \A x \in RunsOf(s, v)' : x = u /\ ok BY <1>8, <2>2 DEF RunsOf
  <2>6. UNCHANGED <<doing, on, took, heard, box, thread>> BY <1>2 DEF session
  <2>7. Asking(s)' = Asking(s) BY <2>1, <2>6 DEF Asking, Call
  <2>8. InHand(s)' BY <1>8, <2>1, <2>3, <2>4, <2>5, <2>6 DEF InHand
  <2>9. (Busy(s)' \/ Waiting(s)') => ok
    BY <2>1, <2>4, <2>5, <2>6 DEF Busy, Waiting
  <2>10. Pipe(s) \in Seq(Messages) /\ Pipe(s)' = Append(Pipe(s), m)
    <3>1. \A a, b \in Seq(Messages) : a \o b \in Seq(Messages) /\ a \o Append(b, m) = Append(a \o b, m)
      BY Appended
    <3>2. Pipe(s)' = box[s] \o Append(wire[v], m) BY <2>a, <2>1, <2>6 DEF Pipe
    <3>3. QED BY <1>3, <2>1, <3>1, <3>2 DEF Pipe
  <2>11. PICK p \in Seq(Messages) : p = Pipe(s) /\ Pipe(s)' = Append(p, m) BY <2>10
  <2>12. /\ Ordered(p, s, Asking(s), took[s], heard[s])
         /\ Unended(p, s, Asking(s), heard[s]) /\ heard[s] = 0 /\ Unspoken(p, s)
    BY <2>1, <2>11 DEF Told
  <2>13. /\ Ordered(Append(p, m), s, Asking(s), took[s], heard[s]) /\ Unspoken(Append(p, m), s)
         /\ ok => Unended(Append(p, m), s, Asking(s), heard[s])
    <3>1. ok => ~(m.kind = "refusal" /\ m.to = Asking(s)) BY <1>6
    <3>2. QED BY <1>7, <2>12, <3>1, Extended DEF Follows
  <2>14. Told(s)' BY <2>6, <2>7, <2>9, <2>11, <2>12, <2>13 DEF Told
  <2>15. \A w \in Servers \ {v} :
           asked'[w] = asked[w] /\ working'[w] = working[w] /\ wire'[w] = wire[w]
    BY <1>5, <1>9
  <2>16. QED BY <1>2, <2>1, <2>8, <2>14, <2>15, StillOwned
<1>12. QED BY <1>10, <1>11

LEMMA PumpsOwned ==
    ASSUME TypeOK, Placed, NEW s \in Sessions, Owned(s), NEW v \in Servers, Pumps(v)
    PROVE Owned(s)'
<1>1. UNCHANGED <<doing, took, on, thread, heard, asked, working>> BY DEF Pumps, process
<1>2. Still(s) BY <1>1 DEF Still
<1>3. doing[s] = "reading" => on[s] \in Servers BY DEF Placed
<1>4. PICK b \in Seq(Messages) : b = wire[v] /\ b # <<>> BY DEF Pumps, TypeOK, ServersOK
<1>5. Head(b) \in Messages /\ Tail(b) \in Seq(Messages) BY <1>4, HeadTailProperties
<1>6. PICK m \in Messages : m = Head(b) BY <1>5
<1>7. PICK a \in Seq(Messages) : a = box[s] BY DEF TypeOK, SessionsOK
<1>8. /\ \A w \in Servers \ {v} : wire'[w] = wire[w]
      /\ \/ wire'[v] = Tail(b)
         \/ wire'[v] = <<>> /\ m \in {Cut, Want}
  <2>1. \/ wire' = [wire EXCEPT ![v] = Tail(b)]
        \/ wire' = [wire EXCEPT ![v] = <<>>] /\ m \in {Cut, Want}
    BY <1>4, <1>6 DEF Pumps
  <2>2. QED BY <2>1 DEF TypeOK, ServersOK
<1>9. box'[s] = IF s \in Readers(v) /\ Belongs(m, s) THEN Append(a, m) ELSE a
  BY <1>4, <1>6, <1>7 DEF Pumps
<1>10. \A w \in Servers : CallsOf(s, w)' \subseteq CallsOf(s, w) BY <1>1 DEF CallsOf
<1>11. \A w \in Servers : RunsOf(s, w)' \subseteq RunsOf(s, w) BY <1>1 DEF RunsOf
<1>12. \A w \in Servers : Unspoken(wire[w], s) => Unspoken(wire'[w], s)
  <2>1. Unspoken(b, s) => Unspoken(Tail(b), s)
    <3>1. \A i \in DOMAIN Tail(b) : i + 1 \in DOMAIN b /\ Tail(b)[i] = b[i + 1]
      BY <1>4, TakenItems
    <3>2. QED BY <3>1 DEF Unspoken
  <2>2. Unspoken(<<>>, s) BY DEF Unspoken
  <2>3. QED BY <1>4, <1>8, <2>1, <2>2
<1>13. ASSUME doing[s] = "reading"
       PROVE Follows(Pipe(s), box'[s] \o wire'[on[s]], s, Asking(s), took[s], heard[s])
  <2>1. CASE on[s] # v
    <3>1. box'[s] = a /\ wire'[on[s]] = wire[on[s]] BY <1>3, <1>8, <1>9, <1>13, <2>1 DEF Readers
    <3>2. QED BY <1>7, <3>1, Same DEF Pipe
  <2>2. CASE on[s] = v
    <3>1. Pipe(s) = a \o b /\ s \in Readers(v)
      BY <1>4, <1>7, <1>13, <2>2 DEF Pipe, Readers, Reading
    <3>2. CASE wire'[v] = <<>> /\ m \in {Cut, Want}
      <4>1. m.kind \in {"cut", "want"} /\ Note.kind = "note"
        BY <3>2 DEF Cut, Want, Note, Said, Message
      <4>2. box'[s] = a BY <1>9, <4>1 DEF Belongs
      <4>3. Follows(a \o b, a \o <<>>, s, Asking(s), took[s], heard[s]) BY Emptying
      <4>4. QED BY <2>2, <3>1, <3>2, <4>2, <4>3
    <3>3. CASE wire'[v] = Tail(b) /\ Belongs(m, s)
      <4>1. Append(a, m) \o Tail(b) = a \o b BY <1>4, <1>6, Moving
      <4>2. QED BY <1>9, <2>2, <3>1, <3>3, <4>1, Same
    <3>4. CASE wire'[v] = Tail(b) /\ ~Belongs(m, s)
      <4>1. Follows(a \o b, a \o Tail(b), s, Asking(s), took[s], heard[s]) BY <1>4, LettingGo
      <4>2. QED BY <1>9, <2>2, <3>1, <3>4, <4>1
    <3>5. QED BY <1>8, <3>2, <3>3, <3>4
  <2>3. QED BY <2>1, <2>2
<1>14. QED BY <1>2, <1>3, <1>10, <1>11, <1>12, <1>13, Carried

LEMMA TellsOwned ==
    ASSUME TypeOK, Placed, NEW s \in Sessions, Owned(s), NEW v \in Servers, Tells(v)
    PROVE Owned(s)'
<1>1. UNCHANGED <<doing, took, on, thread, heard, asked, working, wire>> BY DEF Tells, process
<1>2. Still(s) BY <1>1 DEF Still
<1>3. doing[s] = "reading" => on[s] \in Servers BY DEF Placed
<1>4. PICK a \in Seq(Messages) : a = box[s] BY DEF TypeOK, SessionsOK
<1>5. \A w \in Servers : CallsOf(s, w)' \subseteq CallsOf(s, w) BY <1>1 DEF CallsOf
<1>6. \A w \in Servers : RunsOf(s, w)' \subseteq RunsOf(s, w) BY <1>1 DEF RunsOf
<1>7. \A w \in Servers : Unspoken(wire[w], s) => Unspoken(wire'[w], s) BY <1>1
<1>8. ASSUME doing[s] = "reading"
      PROVE Follows(Pipe(s), box'[s] \o wire'[on[s]], s, Asking(s), took[s], heard[s])
  <2>1. box'[s] = IF s \in Readers(v) THEN Append(a, End) ELSE a BY <1>4 DEF Tells
  <2>2. CASE s \notin Readers(v) BY <1>1, <1>4, <2>1, <2>2, Same DEF Pipe
  <2>3. CASE s \in Readers(v)
    <3>1. on[s] = v /\ wire[v] = <<>> BY <2>3 DEF Readers, Tells
    <3>2. PICK m \in Messages : m = End BY Signs
    <3>3. Append(a, m) \in Seq(Messages) BY Added
    <3>4. a \o <<>> = a /\ Append(a, m) \o <<>> = Append(a, m) BY <3>3, ConcatEmptySeq
    <3>5. m.kind = "end" BY <3>2 DEF End, Said, Message
    <3>6. Follows(a, Append(a, m), s, Asking(s), took[s], heard[s])
      BY <3>5, Extended DEF Spoken, Idled
    <3>7. QED BY <1>1, <1>4, <2>1, <2>3, <3>1, <3>2, <3>4, <3>6 DEF Pipe
  <2>4. QED BY <2>2, <2>3
<1>9. QED BY <1>2, <1>3, <1>5, <1>6, <1>7, <1>8, Carried

-----------------------------------------------------------------------------
(* A conversation's own turn.                                              *)

LEMMA NotReading ==
    ASSUME NEW s \in Sessions, \A v \in Servers : Quiet(s, v), doing'[s] # "reading",
           heard'[s] = 0, UNCHANGED <<wire, working>>,
           \A v \in Servers : CallsOf(s, v)' \subseteq CallsOf(s, v)
    PROVE Owned(s)'
<1>1. \A v \in Servers : Quiet(s, v)' BY DEF Quiet, RunsOf
<1>2. QED BY <1>1 DEF Owned

LEMMA OverEnds ==
    ASSUME TypeOK, NEW s \in Sessions, Over(s) PROVE doing'[s] = "idle" /\ heard'[s] = 0
  BY DEF Over, Goes, TypeOK, SessionsOK

\* What there is to read as a turn is asked for is nothing of that turn.
LEMMA FreshPipe ==
    ASSUME NEW p, NEW s, NEW call, NEW k, Unspoken(p, s),
           \A i \in DOMAIN p : ~(p[i].kind = "refusal" /\ p[i].to = call)
    PROVE Ordered(p, s, call, k, 0) /\ Unended(p, s, call, 0)
<1>1. \A i \in DOMAIN p : ~Ends(p, i, s, call, 0) BY DEF Ends, Unspoken, Spoken
<1>2. QED BY <1>1 DEF Ordered, Unended, Unspoken

LEMMA BeginsOwned ==
    ASSUME TypeOK, Placed, Underway, Replying, Shut, ToldOfTheDead, TypeOK',
           NEW s \in Sessions, Owned(s), Begins(s)
    PROVE Owned(s)'
<1>1. UNCHANGED <<working, wire, on, took, pump>> /\ doing[s] = "open" /\ on[s] \in Servers
  BY DEF Begins, stream, Placed
<1>2. \A v \in Servers : Quiet(s, v) BY <1>1 DEF Owned
<1>3. CASE Over(s) /\ UNCHANGED asked
  <2>1. \A v \in Servers : CallsOf(s, v)' \subseteq CallsOf(s, v) BY <1>3 DEF CallsOf
  <2>2. QED BY <1>1, <1>2, <1>3, <2>1, OverEnds, NotReading
<1>4. CASE Written(s, on[s], Call(s, "turn")) /\ Goes(s, "reading") /\ UNCHANGED <<thread, heard>>
  <2>1. doing'[s] = "reading" BY <1>4 DEF Goes, TypeOK, SessionsOK
  <2>2. heard'[s] = 0 BY <1>1, <1>4 DEF Underway
  <2>3. PICK call \in Calls : call = Call(s, "turn") BY Calling
  <2>4. Asking(s)' = call BY <1>1, <1>4, <2>1, <2>3 DEF Asking, Call
  <2>5. call.by = s /\ call.for = "turn" /\ call.turn = took[s] BY <2>3 DEF Call
  <2>6. /\ asked'[on[s]] \subseteq asked[on[s]] \cup {call}
        /\ \A v \in Servers : v # on[s] => asked'[v] = asked[v]
    BY <1>1, <1>4, <2>3 DEF Written, TypeOK, ServersOK
  <2>7. CallsOf(s, on[s])' \subseteq {call}
    <3>1. CallsOf(s, on[s]) = {} BY <1>1, <1>2 DEF Quiet
    <3>2. QED BY <1>1, <2>6, <3>1 DEF CallsOf
  <2>8. RunsOf(s, on[s])' = {} BY <1>1, <1>2 DEF Quiet, RunsOf
  <2>9. InHand(s)' BY <1>1, <2>4, <2>7, <2>8 DEF InHand
  <2>10. PICK b \in Seq(Messages) : b = wire[on[s]] BY <1>1 DEF TypeOK, ServersOK
  <2>11. ASSUME NEW i \in DOMAIN b PROVE ~(b[i].kind = "refusal" /\ b[i].to = call)
    <3>1. SUFFICES ASSUME b[i].kind = "refusal", b[i].to = call PROVE FALSE
      OBVIOUS
    <3>2. Current(call) BY <1>1, <2>10, <2>11, <3>1 DEF Replying
    <3>3. QED BY <1>1, <2>5, <3>2 DEF Current
  <2>12. Unspoken(b, s) BY <1>1, <1>2, <2>10 DEF Quiet
  <2>13. box'[s] = <<>> \/ (box'[s] = <<End>> /\ b = <<>>)
    BY <1>1, <1>4, <2>10, WrittenTypes DEF Shut
  <2>14. /\ Unspoken(Pipe(s)', s)
         /\ Ordered(Pipe(s)', s, call, took[s], 0) /\ Unended(Pipe(s)', s, call, 0)
    <3>1. CASE box'[s] = <<>>
      <4>1. Pipe(s)' = b BY <1>1, <2>10, <3>1, ConcatEmptySeq DEF Pipe
      <4>2. QED BY <2>11, <2>12, <4>1, FreshPipe
    <3>2. CASE box'[s] = <<End>> /\ b = <<>>
      <4>1. <<End>> \in Seq(Messages) BY Signs
      <4>2. Pipe(s)' = <<End>> BY <1>1, <2>10, <3>2, <4>1, ConcatEmptySeq DEF Pipe
      <4>3. \A i \in DOMAIN <<End>> : <<End>>[i].kind = "end" BY DEF End, Said, Message
      <4>4. Unspoken(<<End>>, s) BY <4>3 DEF Unspoken, Spoken
      <4>5. \A i \in DOMAIN <<End>> : ~(<<End>>[i].kind = "refusal" /\ <<End>>[i].to = call)
        BY <4>3
      <4>6. QED BY <4>2, <4>4, <4>5, FreshPipe
    <3>3. QED BY <2>13, <3>1, <3>2
  <2>15. Told(s)' BY <1>1, <2>2, <2>4, <2>14 DEF Told
  <2>16. \A v \in Servers : v # on[s] => Quiet(s, v)'
    BY <1>1, <1>2, <2>6 DEF Quiet, CallsOf, RunsOf
  <2>17. QED BY <1>1, <2>1, <2>2, <2>9, <2>15, <2>16 DEF Owned
<1>5. QED BY <1>3, <1>4 DEF Begins

\* What a reader is handed of a turn is the turn's, whoever it is said to be of.
LEMMA HandedOurs ==
    ASSUME NEW s \in Sessions, HandedTo(s), Named, Underway, doing[s] = "reading",
           NEW i \in DOMAIN box[s]
    PROVE /\ box[s][i].kind = "refusal" => box[s][i].to = Asking(s)
          /\ box[s][i].kind \in {"word", "done", "failed", "idle"} => Ours(box[s][i], s)
          /\ box[s][i].kind = "end" => pump[on[s]] = "told"
<1>1. End.kind = "end" /\ Note.kind = "note" BY DEF End, Note, Said, Message
<1>2. thread[s] # NoThread /\ thread[s][1] = s BY DEF Named, Underway
<1>3. QED BY <1>1, <1>2 DEF HandedTo, Ours

\* Where the first item of its pipe ends the turn, nothing of it is left.
LEMMA NothingLeft ==
    ASSUME TypeOK, Placed, NEW s \in Sessions, Owned(s), doing[s] = "reading", box[s] # <<>>,
           Ends(Pipe(s), 1, s, Asking(s), heard[s])
    PROVE \A v \in Servers : Quiet(s, v)
<1>1. InHand(s) /\ Told(s) /\ on[s] \in Servers BY DEF Owned, Placed
<1>2. PICK a \in Seq(Messages), b \in Seq(Messages) : a = box[s] /\ b = wire[on[s]]
  BY <1>1 DEF TypeOK, SessionsOK, ServersOK
<1>3. Len(a) \in Nat /\ Len(b) \in Nat /\ Len(a) > 0 /\ DOMAIN b = 1..Len(b)
  BY <1>2, EmptySeq, LenProperties
<1>4. PICK p \in Seq(Messages) :
        /\ p = Pipe(s) /\ Len(p) = Len(a) + Len(b)
        /\ \A i \in 1..(Len(a) + Len(b)) : p[i] = IF i <= Len(a) THEN a[i] ELSE b[i - Len(a)]
  <2>1. /\ a \o b \in Seq(Messages) /\ Len(a \o b) = Len(a) + Len(b)
        /\ \A i \in 1..(Len(a) + Len(b)) :
             (a \o b)[i] = IF i <= Len(a) THEN a[i] ELSE b[i - Len(a)]
    BY ConcatProperties
  <2>2. QED BY <1>2, <2>1 DEF Pipe
<1>5. DOMAIN p = 1..(Len(a) + Len(b)) BY <1>4
<1>6. 1 \in DOMAIN p BY <1>3, <1>5
<1>7. CallsOf(s, on[s]) = {} /\ RunsOf(s, on[s]) = {}
  BY <1>1, <1>4, <1>6 DEF Told, Unended, Busy
<1>8. ASSUME NEW j \in DOMAIN b PROVE ~Spoken(b[j], s)
  <2>1. Len(a) + j \in 1..(Len(a) + Len(b)) /\ ~(Len(a) + j <= Len(a)) /\ 1 < Len(a) + j
        /\ (Len(a) + j) - Len(a) = j
    BY <1>3
  <2>2. p[Len(a) + j] = b[j] BY <1>4, <2>1
  <2>3. Len(a) + j \in DOMAIN p BY <1>5, <2>1
  <2>4. Ordered(p, s, Asking(s), took[s], heard[s]) /\ Ends(p, 1, s, Asking(s), heard[s])
    BY <1>1, <1>4 DEF Told
  <2>5. QED BY <1>6, <2>1, <2>2, <2>3, <2>4 DEF Ordered
<1>9. Unspoken(b, s) BY <1>8 DEF Unspoken
<1>10. QED BY <1>2, <1>7, <1>9 DEF Owned, Quiet

LEMMA ReadsOwned ==
    ASSUME TypeOK, Placed, Named, ToldOfTheDead, Underway, Shut, NEW s \in Sessions,
           HandedTo(s), Owned(s), Reads(s)
    PROVE /\ Owned(s)'
          /\ doing'[s] = "idle" /\ Head(box[s]).kind = "idle" => heard[s] = took[s]
<1>1. UNCHANGED <<asked, working, wire, on, took>> /\ doing[s] = "reading" /\ box[s] # <<>>
      /\ on[s] \in Servers
  BY DEF Reads, stream, process, Placed
<1>2. InHand(s) /\ Told(s) BY <1>1 DEF Owned
<1>3. PICK a \in Seq(Messages), b \in Seq(Messages) : a = box[s] /\ b = wire[on[s]]
  BY <1>1 DEF TypeOK, SessionsOK, ServersOK
<1>4. PICK m \in Messages : m = Head(a) /\ m = a[1] /\ 1 \in DOMAIN a /\ Tail(a) \in Seq(Messages)
  BY <1>1, <1>3, HeadTailProperties, TakenItems
<1>5. PICK p \in Seq(Messages) : p = a \o b /\ p = Pipe(s)
  BY <1>3, ConcatProperties DEF Pipe
<1>6. p # <<>> /\ Head(p) = m /\ p[1] = m /\ Tail(p) = Tail(a) \o b
  <2>1. /\ a \o b # <<>> /\ Head(a \o b) = Head(a) /\ (a \o b)[1] = Head(a)
        /\ Tail(a \o b) = Tail(a) \o b
    <3>1. \A x, y \in Seq(Messages) : x # <<>> =>
             /\ x \o y # <<>> /\ Head(x \o y) = Head(x) /\ (x \o y)[1] = Head(x)
             /\ Tail(x \o y) = Tail(x) \o y
      BY TailOfJoined
    <3>2. QED BY <1>1, <1>3, <3>1
  <2>2. QED BY <1>4, <1>5, <2>1
<1>7. /\ m.kind = "refusal" => m.to = Asking(s)
      /\ m.kind \in {"word", "done", "failed", "idle"} => Ours(m, s)
      /\ m.kind = "end" => pump[on[s]] = "told"
  BY <1>1, <1>3, <1>4, HandedOurs
<1>8. \A v \in Servers : CallsOf(s, v)' = CallsOf(s, v) /\ RunsOf(s, v)' = RunsOf(s, v)
  BY <1>1 DEF CallsOf, RunsOf
<1>9. CASE m.kind \in {"refusal", "failed", "end"} \/ (m.kind = "idle" /\ heard[s] # 0)
  <2>1. Over(s) BY <1>3, <1>4, <1>9 DEF Reads
  <2>2. \A v \in Servers : Quiet(s, v)
    <3>1. CASE m.kind = "end"
      <4>1. wire[on[s]] = <<>> /\ asked[on[s]] = {} /\ working[on[s]] = {}
        BY <1>1, <1>7, <3>1 DEF Shut, ToldOfTheDead
      <4>2. QED BY <4>1 DEF Owned, Quiet, CallsOf, RunsOf, Unspoken
    <3>2. CASE m.kind # "end"
      <4>1. Ends(p, 1, s, Asking(s), heard[s]) BY <1>6, <1>7, <1>9, <3>2 DEF Ends, Idled
      <4>2. QED BY <1>1, <1>5, <4>1, NothingLeft
    <3>3. QED BY <3>1, <3>2
  <2>3. Owned(s)' BY <1>1, <1>8, <2>1, <2>2, OverEnds, NotReading
  <2>4. m.kind = "idle" => heard[s] = took[s] BY <1>9 DEF Owned
  <2>5. QED BY <1>3, <1>4, <2>3, <2>4
<1>10. CASE ~(m.kind \in {"refusal", "failed", "end"} \/ (m.kind = "idle" /\ heard[s] # 0))
  <2>1. /\ box' = [box EXCEPT ![s] = Tail(@)] /\ UNCHANGED <<doing, thread>>
        /\ heard' = IF m.kind \in {"word", "done"} THEN [heard EXCEPT ![s] = m.turn] ELSE heard
    BY <1>3, <1>4, <1>10 DEF Reads
  <2>2. box'[s] = Tail(a) BY <1>3, <2>1 DEF TypeOK, SessionsOK
  <2>3. heard'[s] = IF m.kind \in {"word", "done"} THEN m.turn ELSE heard[s]
    BY <2>1 DEF TypeOK, SessionsOK
  <2>4. doing'[s] = "reading" BY <1>1, <2>1
  <2>5. Asking(s)' = Asking(s) BY <1>1, <2>1 DEF Asking, Call
  <2>6. Pipe(s)' = Tail(p) BY <1>1, <1>3, <1>6, <2>2 DEF Pipe
  <2>7. ~Ends(p, 1, s, Asking(s), heard[s])
    <3>1. \A g \in DOMAIN p : ~(g < 1) BY LenProperties
    <3>2. QED BY <1>6, <1>10, <3>1 DEF Ends, Idled
  <2>8. m.kind \in {"word", "done"} => Spoken(m, s) BY <1>7 DEF Spoken
  <2>9. PICK g : g = heard'[s] /\ g = IF m.kind \in {"word", "done"} THEN m.turn ELSE heard[s]
    BY <2>3
  <2>10. Ordered(p, s, Asking(s), took[s], heard[s]) BY <1>2, <1>5 DEF Told
  <2>11. /\ g \in {heard[s], took[s]} /\ Ordered(Tail(p), s, Asking(s), took[s], g)
         /\ Unended(p, s, Asking(s), heard[s]) => Unended(Tail(p), s, Asking(s), g)
         /\ Unspoken(p, s) => g = heard[s] /\ Unspoken(Tail(p), s)
    BY <1>6, <2>7, <2>8, <2>9, <2>10, ReadOn
  <2>12. /\ Busy(s)' = Busy(s) /\ Waiting(s)' = Waiting(s)
    BY <1>1, <1>8 DEF Busy, Waiting
  <2>13. Told(s)' BY <1>1, <1>2, <1>5, <2>5, <2>6, <2>9, <2>11, <2>12 DEF Told
  <2>14. InHand(s)' BY <1>1, <1>2, <1>8, <2>5 DEF InHand
  <2>15. \A v \in Servers : v = on[s] \/ Quiet(s, v)' BY <1>1, <1>8 DEF Owned, Quiet
  <2>16. heard'[s] \in {0, took'[s]} BY <1>1, <2>9, <2>11 DEF Owned
  <2>17. Owned(s)' BY <1>1, <2>4, <2>13, <2>14, <2>15, <2>16 DEF Owned
  <2>18. QED BY <2>4, <2>17
<1>11. QED BY <1>9, <1>10

LEMMA TurnOwned ==
    ASSUME SInv, OInv, TypeOK', NEW s \in Sessions, ~left[s], ~left'[s], Turn(s)
    PROVE Owned(s)'
<1> USE DEF stream, process
<1>1. /\ TypeOK /\ Placed /\ Named /\ ToldOfTheDead /\ HandedTo(s)
      /\ Underway /\ Replying /\ Shut /\ Owned(s)
  BY DEF SInv, Housed, Heard, OInv
<1>2. CASE Begins(s) BY <1>1, <1>2, BeginsOwned
<1>3. CASE Reads(s) BY <1>1, <1>3, ReadsOwned
<1>4. CASE Leaves(s)
  <2>1. left'[s] = TRUE BY <1>1, <1>4 DEF Leaves, TypeOK, SessionsOK
  <2>2. QED BY <2>1
<1>5. CASE SetsOut(s) \/ Takes(s) \/ Joins(s) \/ Shares(s) \/ Opens(s) \/ Opening(s)
  <2>1. doing[s] # "reading" /\ UNCHANGED <<wire, working>>
    BY <1>5 DEF SetsOut, Takes, Joins, Shares, Opens, Opening
  <2>2. \A v \in Servers : Quiet(s, v) BY <1>1, <2>1 DEF Owned
  <2>3. ~Begins(s)
    BY <1>5 DEF SetsOut, Takes, Joins, Shares, Opens, Opening, Begins
  <2>4. \A v \in Servers : CallsOf(s, v)' \subseteq CallsOf(s, v)
    BY <1>1, <2>3, TurnElsewhere
  <2>5. heard[s] = 0 BY <1>1, <2>1 DEF Underway
  <2>6. doing'[s] # "reading" /\ heard'[s] = 0
    <3>1. CASE Over(s) BY <1>1, <3>1, OverEnds
    <3>2. CASE UNCHANGED heard /\ \E to \in Doings \ {"reading"} : Goes(s, to)
      BY <1>1, <2>5, <3>2 DEF Goes, TypeOK, SessionsOK
    <3>3. CASE SetsOut(s) \/ Joins(s) \/ Shares(s)
      BY <3>2, <3>3 DEF SetsOut, Joins, Shares, Doings
    <3>4. CASE Takes(s) BY <3>2, <3>4 DEF Takes, Doings
    <3>5. CASE Opens(s) BY <3>1, <3>2, <3>5 DEF Opens, Doings
    <3>6. CASE Opening(s) BY <3>1, <3>2, <3>6 DEF Opening, Doings
    <3>7. QED BY <1>5, <3>3, <3>4, <3>5, <3>6
  <2>7. QED BY <2>1, <2>2, <2>4, <2>6, NotReading
<1>6. QED BY <1>2, <1>3, <1>4, <1>5 DEF Turn, GoesOn

LEMMA TurnLeaves ==
    ASSUME TypeOK, [Next]_vars, NEW s \in Sessions, left[s] PROVE left'[s]
<1> USE DEF session
<1>1. ASSUME NEW o \in Sessions, Turn(o) \/ LetsGo(o)
      PROVE left' = left \/ left' = [left EXCEPT ![o] = TRUE]
  BY <1>1
  DEF Turn, GoesOn, SetsOut, Takes, Joins, Shares, Opens, Opening, Begins, Reads, Leaves, LetsGo
<1>2. ASSUME NEW v \in Servers, Pumps(v) \/ Tells(v) \/ PutsDown(v) \/ Server(v)
      PROVE left' = left
  BY <1>2 DEF Server, Pumps, Tells, PutsDown, Answers, Speaks, Finishes, Wonders, Dies
<1>3. CASE Moved \/ Stops \/ UNCHANGED vars BY <1>3 DEF Moved, Stops, vars
<1>4. QED BY <1>1, <1>2, <1>3 DEF Next, TypeOK, SessionsOK

LEMMA StepOwned == ASSUME SInv, OInv, TypeOK', [Next]_vars PROVE OInv'
<1> USE DEF stream, process
<1>1. /\ TypeOK /\ Placed /\ Housed /\ Heard /\ Named /\ ToldOfTheDead
      /\ Underway /\ Replying /\ Sought /\ Shut
  BY DEF SInv, Housed, OInv
<1>2. Shut' /\ Underway' /\ Replying' /\ Sought'
  BY <1>1, StepShut, StepUnderway, StepReplying, StepSought
<1>3. ASSUME NEW s \in Sessions, ~left'[s] PROVE Owned(s)'
  <2>1. ~left[s] BY <1>1, <1>3, TurnLeaves
  <2>2. Owned(s) BY <2>1 DEF OInv
  <2>3. doing[s] = "reading" => on[s] \in Servers BY <1>1 DEF Placed
  <2>4. ASSUME UNCHANGED <<session, asked, working, wire>> PROVE Owned(s)'
    <3>1. Still(s) /\ box'[s] = box[s] BY <2>4 DEF session, Still
    <3>2. \A v \in Servers : CallsOf(s, v)' \subseteq CallsOf(s, v) BY <2>4 DEF CallsOf
    <3>3. QED BY <2>2, <2>3, <2>4, <3>1, <3>2, NotAsked
  <2>5. ASSUME NEW o \in Sessions, Turn(o) PROVE Owned(s)'
    <3>1. CASE o = s BY <1>3, <2>1, <2>5, <3>1, TurnOwned
    <3>2. CASE o # s
      <4>1. Untouched(s) BY <1>1, <2>5, <3>2, TurnUntouched
      <4>2. UNCHANGED <<working, wire>> /\ heard'[s] = heard[s]
        BY <1>1, <2>5, <3>2
        DEF Turn, GoesOn, SetsOut, Takes, Joins, Shares, Opens, Opening, Begins, Reads, Leaves, Over,
            TypeOK, SessionsOK
      <4>3. Still(s) /\ box'[s] = box[s] BY <4>1, <4>2 DEF Untouched, Still
      <4>4. \A v \in Servers : CallsOf(s, v)' \subseteq CallsOf(s, v)
        BY <1>1, <2>5, <3>2, TurnElsewhere
      <4>5. QED BY <2>2, <2>3, <4>2, <4>3, <4>4, NotAsked
    <3>3. QED BY <3>1, <3>2
  <2>6. CASE Moved \/ Stops \/ UNCHANGED vars \/ \E o \in Sessions : LetsGo(o)
    BY <2>4, <2>6 DEF Moved, Stops, LetsGo, vars
  <2>7. ASSUME NEW v \in Servers, Pumps(v) \/ Tells(v) PROVE Owned(s)'
    BY <1>1, <2>2, <2>7, PumpsOwned, TellsOwned
  <2>8. ASSUME NEW v \in Servers, PutsDown(v) \/ Server(v) PROVE Owned(s)'
    <3>1. CASE UNCHANGED session /\ Falls(v) BY <1>1, <2>2, <3>1, FallsOwned
    <3>2. CASE PutsDown(v) BY <2>4, <3>1, <3>2 DEF PutsDown
    <3>3. CASE Dies(v) BY <3>1, <3>3 DEF Dies
    <3>4. CASE Answers(v) BY <1>1, <2>2, <3>4, AnswersOwned
    <3>5. CASE Speaks(v) \/ Finishes(v) \/ Wonders(v)
      BY <1>1, <2>2, <3>5, SpeaksOwned, FinishesOwned, WondersOwned
    <3>6. QED BY <2>8, <3>2, <3>3, <3>4, <3>5 DEF Server
  <2>9. QED BY <2>5, <2>6, <2>7, <2>8 DEF Next
<1>4. QED BY <1>2, <1>3 DEF OInv

\* A turn that ends as its thread falls idle ends with words of its own, where no turn of the
\* conversation was left: what an earlier turn of it said, or was still saying, is not taken
\* for the later one's.
THEOREM InItsOwnWords == Spec => OwnWords
<1>1. Init => SInv /\ OInv
  BY InitTypes, InitPlaced, InitHoused, InitHeard, InitOwned DEF SInv
<1>2. SInv /\ OInv /\ [Next]_vars => (SInv /\ OInv)'
  BY StepTypes, StepHoused, StepHeard, StepOwned DEF SInv
<1>3. SInv /\ OInv /\ [Next]_vars
      => [\A s \in Sessions : Answered(s) /\ ~left[s] => heard[s] = took[s]]_vars
  <2>1. ASSUME SInv, OInv, NEW s \in Sessions, Answered(s), ~left[s] PROVE heard[s] = took[s]
    <3>1. /\ TypeOK /\ Placed /\ Named /\ ToldOfTheDead /\ HandedTo(s)
          /\ Underway /\ Replying /\ Shut /\ Owned(s)
      BY <2>1 DEF SInv, Housed, Heard, OInv
    <3>2. Reads(s) /\ doing'[s] = "idle" /\ Head(box[s]).kind = "idle"
      BY <2>1 DEF Answered
    <3>3. QED BY <3>1, <3>2, ReadsOwned
  <2>2. QED BY <2>1
<1>4. QED BY <1>1, <1>2, <1>3, PTL DEF Spec, OwnWords
=============================================================================
