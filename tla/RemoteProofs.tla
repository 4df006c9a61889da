------------------------------ MODULE RemoteProofs -----------------------------
(***************************************************************************)
(* Proofs about Remote, for any number of requests of each kind over one   *)
(* connection, wherever it breaks.                                         *)
(***************************************************************************)
EXTENDS Remote, TLAPS

Stages == {"never", "idle", "registered", "opened", "fed", "waiting", "done", "raised"}

-----------------------------------------------------------------------------
(* A command's end is told once.                                           *)

TTypes ==
    /\ stage \in [Reqs -> Stages] /\ told \in [Execs -> Nat] /\ pending \subseteq Reqs
    /\ failing \in [{"reader", "closer"} -> SUBSET Reqs]
    /\ reader \in {"reading", "found", "ending"} /\ closer \in {"idle", "joining", "joined", "left"}
    /\ found \in Reqs \cup {None} /\ (found # None <=> reader = "found")

\* Nobody is told of what nobody has asked for.
NothingUnasked ==
    \A e \in Execs : stage[e] = "idle" =>
        /\ told[e] = 0 /\ e \notin pending /\ e # found
        /\ \A t \in {"reader", "closer"} : e \notin failing[t]

\* close fails what is left only after it has waited for the reader.
CloseWaits ==
    /\ closer \in {"idle", "joining"} => failing["closer"] = {}
    /\ closer = "joined" => reader = "ending" /\ failing["reader"] = {}

\* Who is to tell of a command: nobody yet, the reader answering or failing it, or close.
OneTeller ==
    closer # "left" => \A e \in Execs :
        /\ told[e] <= 1
        /\ e \in pending => told[e] = 0 /\ e \notin failing["reader"] /\ e \notin failing["closer"]
        /\ e \in failing["reader"] => told[e] = 0 /\ e \notin failing["closer"]
        /\ e \in failing["closer"] => told[e] = 0
        /\ found = e => e \in pending

TInv == TTypes /\ NothingUnasked /\ CloseWaits /\ OneTeller

LEMMA InitTInv == Init => TInv
<1> SUFFICES ASSUME Init PROVE TInv
  OBVIOUS
<1>1. TTypes
  BY DEF Init, TTypes, Stages
<1>2. \A e \in Execs : told[e] = 0 /\ e \notin pending /\ e # found
  BY NoneAssumption DEF Init, Reqs
<1>3. failing["reader"] = {} /\ failing["closer"] = {} /\ closer = "idle"
  BY DEF Init
<1>4. QED
  BY <1>1, <1>2, <1>3 DEF TInv, NothingUnasked, CloseWaits, OneTeller

\* Whoever asks moves on with one request, and may give up the place of what is not a command.
Moves(r, x) ==
    /\ stage' = [stage EXCEPT ![r] = x] /\ x \in Stages \ {"never", "idle"}
    /\ \/ pending' = pending
       \/ stage[r] = "idle" /\ pending' = pending \cup {r}
       \/ r \notin Execs /\ pending' = pending \ {r}
    /\ UNCHANGED <<client, handled>>

LEMMA CallerMoves ==
    ASSUME NEW r \in Reqs, Caller(r) PROVE \E x \in Stages : Moves(r, x)
<1>1. CASE Registers(r)
  BY <1>1 DEF Registers, Moves, Stages, target, work
<1>2. CASE Asks(r)
  BY <1>2 DEF Asks, Moves, Stages, target, work
<1>3. CASE Feeds(r)
  BY <1>3, KindsAssumption DEF Feeds, Moves, Stages, target, work
<1>4. CASE SourceFails(r)
  BY <1>4, KindsAssumption DEF SourceFails, Moves, Stages, target, work
<1>5. CASE EndsInput(r)
  BY <1>5 DEF EndsInput, Moves, Stages, target, work
<1>6. CASE Wakes(r)
  BY <1>6 DEF Wakes, Moves, Stages, target, work
<1>7. CASE TimesOut(r)
  BY <1>7 DEF TimesOut, Moves, Stages, target, work
<1>8. QED
  BY <1>1, <1>2, <1>3, <1>4, <1>5, <1>6, <1>7 DEF Caller

LEMMA MovesTInv ==
    ASSUME TInv, NEW r \in Reqs, NEW x \in Stages, Moves(r, x) PROVE TInv'
<1>1. /\ UNCHANGED <<closed, reader, found, closer, failing, settled, told>>
      /\ pending' \subseteq Reqs /\ stage' \in [Reqs -> Stages]
  BY DEF Moves, client, TInv, TTypes
<1>2. \A e \in Execs : stage'[e] = "idle" => stage[e] = "idle" /\ (e \in pending' => e \in pending)
  BY DEF Moves, TInv, TTypes, Reqs
<1>3. \A e \in Execs : e \in pending' => e \in pending \/ stage[e] = "idle"
  BY DEF Moves
<1>4. \A e \in Execs : e \in pending => e \in pending'
  BY DEF Moves
<1>5. TTypes' BY <1>1 DEF TInv, TTypes
<1>6. NothingUnasked' BY <1>1, <1>2 DEF TInv, NothingUnasked
<1>7. CloseWaits' BY <1>1 DEF TInv, CloseWaits
<1>8. OneTeller'
  BY <1>1, <1>3, <1>4 DEF TInv, OneTeller, NothingUnasked
<1>9. QED BY <1>5, <1>6, <1>7, <1>8 DEF TInv

LEMMA ReceivesTInv == ASSUME TInv, Receives PROVE TInv'
<1> USE DEF TInv
<1>1. found' \in Reqs \cup {None} /\ (found' # None <=> reader' = "found")
  BY NoneAssumption DEF Receives, TTypes
<1>2. /\ UNCHANGED <<stage, pending, closer, failing, told>>
      /\ reader = "reading" /\ reader' \in {"reading", "found"}
      /\ found' # None => found' \in pending
  BY DEF Receives, TTypes
<1>3. TTypes' BY <1>1, <1>2 DEF TTypes
<1>4. \A e \in Execs : e # None BY NoneAssumption DEF Reqs
<1>5. CloseWaits' BY <1>2 DEF CloseWaits
<1>6. NothingUnasked' BY <1>2, <1>4 DEF NothingUnasked
<1>7. OneTeller' BY <1>2, <1>4 DEF OneTeller
<1>8. QED BY <1>3, <1>5, <1>6, <1>7

LEMMA AnswersTInv == ASSUME TInv, Answers PROVE TInv'
<1> USE DEF TInv
<1>1. /\ UNCHANGED <<stage, closer, failing>> /\ pending' = pending \ {found}
      /\ reader = "found" /\ reader' = "reading" /\ found' = None
  BY DEF Answers
<1>2. told' = [e \in Execs |-> IF e = found THEN told[e] + 1 ELSE told[e]]
  BY DEF Answers, Completes
<1>3. \A e \in Execs : told'[e] = IF e = found THEN told[e] + 1 ELSE told[e]
  BY <1>2
<1>4. told' \in [Execs -> Nat] BY <1>2 DEF TTypes
<1>5. TTypes' BY <1>1, <1>4 DEF TTypes
<1>6. closer # "joined" BY <1>1 DEF CloseWaits
<1>7. CloseWaits' BY <1>1, <1>6 DEF CloseWaits
<1>8. \A e \in Execs : e # None BY NoneAssumption DEF Reqs
<1>9. OneTeller'
  BY <1>1, <1>3, <1>8 DEF OneTeller, TTypes
<1>10. NothingUnasked'
  <2> SUFFICES ASSUME NEW e \in Execs, stage[e] = "idle"
               PROVE told'[e] = 0 /\ e \notin pending'
                     /\ \A t \in {"reader", "closer"} : e \notin failing[t]
    BY <1>1, <1>8 DEF NothingUnasked
  <2>1. e # found
    BY DEF NothingUnasked
  <2>2. QED BY <2>1, <1>1, <1>3 DEF NothingUnasked
<1>11. QED BY <1>5, <1>7, <1>9, <1>10

LEMMA NoticesTInv == ASSUME TInv, Notices PROVE TInv'
<1> USE DEF TInv
<1>1. /\ UNCHANGED <<stage, told, found, closer>> /\ pending' = {}
      /\ reader = "reading" /\ reader' = "ending" /\ found = None
      /\ failing' = [failing EXCEPT !["reader"] = pending]
  BY DEF Notices, TTypes
<1>2. failing'["reader"] = pending /\ failing'["closer"] = failing["closer"]
  BY <1>1 DEF TTypes
<1>3. failing' \in [{"reader", "closer"} -> SUBSET Reqs] BY <1>1 DEF TTypes
<1>4. TTypes' BY <1>1, <1>3 DEF TTypes
<1>5. NothingUnasked' BY <1>1, <1>2 DEF NothingUnasked
<1>6. CloseWaits' BY <1>1, <1>2 DEF CloseWaits
<1>7. \A e \in Execs : e # None BY NoneAssumption DEF Reqs
<1>8. OneTeller' BY <1>1, <1>2, <1>7 DEF OneTeller
<1>9. QED BY <1>4, <1>5, <1>6, <1>8

LEMMA FailsTInv ==
    ASSUME TInv, NEW t \in {"reader", "closer"}, NEW r \in Reqs, Fails(t, r) PROVE TInv'
<1> USE DEF TInv
<1>1. /\ UNCHANGED <<stage, pending, reader, found, closer>> /\ r \in failing[t]
      /\ failing' = [failing EXCEPT ![t] = @ \ {r}]
  BY DEF Fails
<1>2. told' = [e \in Execs |-> IF e = r THEN told[e] + 1 ELSE told[e]]
  BY DEF Fails, Completes
<1>3. \A e \in Execs : told'[e] = IF e = r THEN told[e] + 1 ELSE told[e]
  BY <1>2
<1>4. told' \in [Execs -> Nat] BY <1>2 DEF TTypes
<1>5. /\ failing' \in [{"reader", "closer"} -> SUBSET Reqs]
      /\ failing'[t] = failing[t] \ {r}
      /\ \A u \in {"reader", "closer"} \ {t} : failing'[u] = failing[u]
  BY <1>1 DEF TTypes
<1>6. TTypes' BY <1>1, <1>4, <1>5 DEF TTypes
<1>7. r \in Execs => stage[r] # "idle" BY <1>1 DEF NothingUnasked
<1>8. NothingUnasked' BY <1>1, <1>3, <1>5, <1>7 DEF NothingUnasked
<1>9. closer = "joined" => failing["reader"] = {} BY DEF CloseWaits
<1>10. CloseWaits' BY <1>1, <1>5 DEF CloseWaits
<1>11. OneTeller'
  <2> SUFFICES ASSUME closer # "left", NEW e \in Execs
               PROVE (/\ told[e] <= 1
                      /\ e \in pending => told[e] = 0 /\ e \notin failing["reader"]
                                          /\ e \notin failing["closer"]
                      /\ e \in failing["reader"] => told[e] = 0 /\ e \notin failing["closer"]
                      /\ e \in failing["closer"] => told[e] = 0
                      /\ found = e => e \in pending)'
    BY <1>1 DEF OneTeller
  <2>1. /\ told[e] <= 1
        /\ e \in pending => told[e] = 0 /\ e \notin failing["reader"] /\ e \notin failing["closer"]
        /\ e \in failing["reader"] => told[e] = 0 /\ e \notin failing["closer"]
        /\ e \in failing["closer"] => told[e] = 0
        /\ found = e => e \in pending
    BY DEF OneTeller
  <2>2. CASE e # r
    BY <2>1, <2>2, <1>1, <1>3, <1>5
  <2>3. CASE e = r
    <3>1. told'[e] = 1 /\ e \notin pending' BY <2>1, <2>3, <1>1, <1>3
    <3>2. \A u \in {"reader", "closer"} : e \notin failing'[u]
      BY <2>1, <2>3, <1>1, <1>5
    <3>3. QED BY <3>1, <3>2, <2>1, <1>1
  <2>4. QED BY <2>2, <2>3
<1>12. QED BY <1>6, <1>8, <1>10, <1>11

LEMMA ClosesTInv == ASSUME TInv, Closes PROVE TInv'
<1>1. /\ UNCHANGED <<stage, told, found, pending, reader, failing>>
      /\ closer = "idle" /\ closer' = "joining"
  BY DEF Closes
<1>2. TTypes' BY <1>1 DEF TInv, TTypes
<1>3. NothingUnasked' BY <1>1 DEF TInv, NothingUnasked
<1>4. CloseWaits' BY <1>1 DEF TInv, CloseWaits
<1>5. OneTeller' BY <1>1 DEF TInv, OneTeller
<1>6. QED BY <1>2, <1>3, <1>4, <1>5 DEF TInv

LEMMA JoinsTInv == ASSUME TInv, Joins PROVE TInv'
<1> USE DEF TInv
<1>1. /\ UNCHANGED <<stage, told, found, reader>> /\ pending' = {} /\ closer = "joining"
      /\ failing' = [failing EXCEPT !["closer"] = pending]
      /\ closer' = IF reader = "ending" /\ failing["reader"] = {} THEN "joined" ELSE "left"
  BY DEF Joins
<1>2. failing'["closer"] = pending /\ failing'["reader"] = failing["reader"]
  BY <1>1 DEF TTypes
<1>3. failing' \in [{"reader", "closer"} -> SUBSET Reqs] BY <1>1 DEF TTypes
<1>4. TTypes' BY <1>1, <1>3 DEF TTypes
<1>5. NothingUnasked' BY <1>1, <1>2 DEF NothingUnasked
<1>6. CloseWaits' BY <1>1, <1>2 DEF CloseWaits
<1>7. closer' # "left" => reader = "ending" /\ found = None BY <1>1 DEF TTypes
<1>8. \A e \in Execs : e # None BY NoneAssumption DEF Reqs
<1>9. OneTeller' BY <1>1, <1>2, <1>7, <1>8 DEF OneTeller
<1>10. QED BY <1>4, <1>5, <1>6, <1>9

\* What the target and the line do changes nothing of this.
LEMMA TargetApart ==
    Target \/ Loses => UNCHANGED <<stage, pending, client>>
<1>1. ASSUME NEW frame, Takes(frame) PROVE UNCHANGED <<stage, pending, client>>
  BY <1>1 DEF Takes
<1>2. ASSUME NEW r, Serves(r) \/ Opens(r) \/ TakesIn(r) \/ Finishes(r) \/ Starts(r) \/ HearsEnd(r)
      PROVE UNCHANGED <<stage, pending, client>>
  BY <1>1, <1>2, Zenon DEF Serves, Opens, TakesIn, Finishes, Starts, HearsEnd
<1>3. ASSUME NEW r, NEW t, ShutsWrite(t, r) \/ ShutsExec(t, r)
      PROVE UNCHANGED <<stage, pending, client>>
  BY <1>3 DEF ShutsWrite, ShutsExec
<1>4. ASSUME NEW e, Spawns(e) \/ Exits(e) \/ Forks(e) \/ Tells(e) \/ Reaps(e)
      PROVE UNCHANGED <<stage, pending, client>>
  BY <1>4 DEF Spawns, Exits, Forks, Tells, Reaps
<1>5. LoopEnds \/ LoopIsOver \/ Leaves \/ Left \/ Loses => UNCHANGED <<stage, pending, client>>
  BY DEF LoopEnds, LoopIsOver, Leaves, Left, Loses
<1>6. QED
  BY <1>2, <1>3, <1>4, <1>5, Zenon DEF Target

LEMMA StepTInv == TInv /\ [Next]_vars => TInv'
<1> SUFFICES ASSUME TInv, [Next]_vars PROVE TInv'
  OBVIOUS
<1>1. ASSUME UNCHANGED <<stage, pending, client>> PROVE TInv'
  BY <1>1 DEF TInv, TTypes, NothingUnasked, CloseWaits, OneTeller, client
<1>2. CASE \E r \in Reqs : Caller(r)
  <2>1. PICK r \in Reqs : Caller(r) BY <1>2
  <2>2. PICK x \in Stages : Moves(r, x) BY <2>1, CallerMoves
  <2>3. QED BY <2>2, MovesTInv
<1>3. CASE Reader
  BY <1>3, ReceivesTInv, AnswersTInv, NoticesTInv, FailsTInv DEF Reader
<1>4. CASE Closer
  BY <1>4, ClosesTInv, JoinsTInv, FailsTInv DEF Closer
<1>5. CASE Target \/ Loses
  BY <1>5, <1>1, TargetApart
<1>6. CASE UNCHANGED vars
  BY <1>6, <1>1 DEF vars
<1>7. QED
  BY <1>2, <1>3, <1>4, <1>5, <1>6 DEF Next

\* A command's end is told to whoever waits for it once, unless close gave up waiting for the
\* thread that tells it: answers, the end of the connection and close pass each other freely.
THEOREM ToldOnlyOnce == Spec => []ToldOnce
<1>1. TInv => ToldOnce
  BY DEF TInv, TTypes, OneTeller, ToldOnce
<1>2. QED
  BY <1>1, InitTInv, StepTInv, PTL DEF Spec

-----------------------------------------------------------------------------
(* Whoever asked is answered once, and with nothing the target has not done. *)

Begun == {r \in Reqs : stage[r] \notin {"never", "idle"}}
Frames == [req : Begun, kind : {"req", "chunk", "end"}]

ATypes ==
    /\ stage \in [Reqs -> Stages]
    /\ settled \in [Reqs -> {"none", "result", "error"}]
    /\ cmd \in [Execs -> {"none", "starting", "running", "over", "killed"}]

\* What is at the target, or on its way there, has been begun here.
KnownOnlyIfBegun ==
    /\ up \in Seq(Frames)
    /\ handled \subseteq Begun /\ sinks \subseteq Begun
    /\ shutting \in [{"loop", "listener"} -> SUBSET Begun]
    /\ \A e \in Execs : cmd[e] # "none" => e \in Begun

\* What is on its way back, or has come back, is what the target has done.
HeardOnlyIfHandled ==
    /\ down \in Seq(handled)
    /\ reader = "found" => found \in handled
    /\ \A r \in Reqs : settled[r] = "result" => r \in handled

AInv == ATypes /\ KnownOnlyIfBegun /\ HeardOnlyIfHandled

\* A sequence of some of them is one of more of them.
LEMMA SeqGrows == ASSUME NEW S, NEW T, S \subseteq T, NEW s \in Seq(S) PROVE s \in Seq(T)
<1>1. Len(s) \in Nat /\ s \in [1..Len(s) -> S]
  OBVIOUS
<1>2. s \in [1..Len(s) -> T]
  BY <1>1
<1>3. QED
  BY <1>1, <1>2

LEMMA InitAInv == Init => AInv
<1> SUFFICES ASSUME Init PROVE AInv
  OBVIOUS
<1>1. ATypes BY DEF Init, ATypes, Stages
<1>2. KnownOnlyIfBegun BY DEF Init, KnownOnlyIfBegun
<1>3. HeardOnlyIfHandled BY DEF Init, HeardOnlyIfHandled
<1>4. QED BY <1>1, <1>2, <1>3 DEF AInv

\* Whoever asks: one request goes on, and no more than a frame for it is sent.
Goes(r, x) ==
    /\ stage' = [stage EXCEPT ![r] = x] /\ x \in Stages \ {"never", "idle"}
    /\ \/ up' = up
       \/ \E kind \in {"req", "chunk", "end"} : up' = Append(up, Frame(r, kind))
    /\ UNCHANGED <<settled, reader, found, down, handled, sinks, shutting, cmd>>

LEMMA CallerGoes == ASSUME NEW r \in Reqs, Caller(r) PROVE \E x \in Stages : Goes(r, x)
<1> USE DEF Goes, Stages, client, target, work, wire, Sends, CannotSend
<1>1. CASE Registers(r) BY <1>1 DEF Registers
<1>2. CASE Asks(r) BY <1>2 DEF Asks
<1>3. CASE Feeds(r) BY <1>3 DEF Feeds
<1>4. CASE SourceFails(r) BY <1>4 DEF SourceFails
<1>5. CASE EndsInput(r) BY <1>5 DEF EndsInput
<1>6. CASE Wakes(r) BY <1>6 DEF Wakes
<1>7. CASE TimesOut(r) BY <1>7 DEF TimesOut
<1>8. QED BY <1>1, <1>2, <1>3, <1>4, <1>5, <1>6, <1>7 DEF Caller

LEMMA GoesAInv ==
    ASSUME AInv, NEW r \in Reqs, NEW x \in Stages, Goes(r, x) PROVE AInv'
<1>1. /\ stage' = [stage EXCEPT ![r] = x] /\ x \notin {"never", "idle"}
      /\ UNCHANGED <<settled, reader, found, down, handled, sinks, shutting, cmd>>
  BY DEF Goes
<1>2. ATypes' BY <1>1 DEF AInv, ATypes
<1>3. Begun' = Begun \cup {r} BY <1>1 DEF AInv, ATypes, Begun
<1>4. Frames \subseteq Frames' /\ \A kind \in {"req", "chunk", "end"} : Frame(r, kind) \in Frames'
  BY <1>3 DEF Frames, Frame
<1>5. up \in Seq(Frames') BY <1>4, SeqGrows DEF AInv, KnownOnlyIfBegun
<1>6. up' \in Seq(Frames') BY <1>4, <1>5 DEF Goes
<1>7. KnownOnlyIfBegun' BY <1>1, <1>3, <1>6 DEF AInv, KnownOnlyIfBegun
<1>8. HeardOnlyIfHandled' BY <1>1 DEF AInv, HeardOnlyIfHandled
<1>9. QED BY <1>2, <1>7, <1>8 DEF AInv

\* The reader and close: nothing is heard that was not on its way.
LEMMA ReaderAInv == ASSUME AInv, Reader \/ Closer PROVE AInv'
<1>1. UNCHANGED <<stage, up, handled, sinks, shutting, cmd>>
  BY DEF Reader, Closer, Receives, Answers, Notices, Fails, Closes, Joins, wire, target, work
<1>2. settled' \in [Reqs -> {"none", "result", "error"}]
      /\ HeardOnlyIfHandled'
  <2> USE DEF AInv, ATypes, HeardOnlyIfHandled
  <2>1. CASE Receives
    <3>1. down' \in Seq(handled) /\ Head(down) \in handled BY <2>1 DEF Receives
    <3>2. QED BY <1>1, <2>1, <3>1 DEF Receives
  <2>2. ASSUME NEW r, NEW what \in {"result", "error"}, Completes(r, what),
               what = "result" => r \in handled
        PROVE settled' \in [Reqs -> {"none", "result", "error"}]
              /\ \A q \in Reqs : settled'[q] = "result" => q \in handled
    BY <2>2 DEF Completes
  <2>3. CASE Answers
    <3>1. found \in handled BY <2>3 DEF Answers
    <3>2. QED BY <1>1, <2>2, <2>3, <3>1 DEF Answers
  <2>4. CASE Notices BY <1>1, <2>4 DEF Notices
  <2>5. ASSUME NEW t, NEW r, Fails(t, r)
        PROVE settled' \in [Reqs -> {"none", "result", "error"}] /\ HeardOnlyIfHandled'
    <3>1. Completes(r, "error") /\ UNCHANGED <<reader, found, down>> BY <2>5 DEF Fails
    <3>2. QED BY <1>1, <2>2, <3>1
  <2>6. CASE Closes BY <1>1, <2>6 DEF Closes
  <2>7. CASE Joins BY <1>1, <2>7 DEF Joins
  <2>8. QED BY <2>1, <2>3, <2>4, <2>5, <2>6, <2>7 DEF Reader, Closer
<1>3. ATypes' BY <1>1, <1>2 DEF AInv, ATypes
<1>4. KnownOnlyIfBegun' BY <1>1 DEF AInv, KnownOnlyIfBegun, Frames, Begun
<1>5. QED BY <1>2, <1>3, <1>4 DEF AInv

\* The target: at most one request done, of those that have been begun.
Does(r) ==
    /\ UNCHANGED <<stage, settled, reader, found>>
    /\ up' \in Seq(Frames)
    /\ \/ UNCHANGED <<handled, down>>
       \/ handled' = handled \cup {r} /\ down' \in {down, Append(down, r)}
    /\ sinks' \subseteq sinks \cup {r}
    /\ shutting' \in [{"loop", "listener"} -> SUBSET Begun]
    /\ cmd' \in [Execs -> {"none", "starting", "running", "over", "killed"}]
    /\ \A e \in Execs : cmd'[e] # "none" => cmd[e] # "none" \/ e = r

LEMMA TakesBegun ==
    ASSUME AInv, NEW r, NEW kind, Takes(Frame(r, kind))
    PROVE r \in Begun /\ up' \in Seq(Frames)
<1>1. up \in Seq(Frames) /\ up # <<>> /\ up' = Tail(up) /\ Frame(r, kind) = Head(up)
  BY DEF Takes, AInv, KnownOnlyIfBegun
<1>2. Frame(r, kind) \in Frames /\ up' \in Seq(Frames)
  BY <1>1
<1>3. Frame(r, kind).req \in Begun
  BY <1>2 DEF Frames
<1>4. QED BY <1>2, <1>3 DEF Frame

LEMMA TakingDoes ==
    ASSUME AInv, NEW r \in Reqs,
           Serves(r) \/ Opens(r) \/ TakesIn(r) \/ Finishes(r) \/ Starts(r) \/ HearsEnd(r)
    PROVE r \in Begun /\ Does(r)
<1>1. PICK kind \in {"req", "chunk", "end"} : Takes(Frame(r, kind))
  BY DEF Serves, Opens, TakesIn, Finishes, Starts, HearsEnd
<1>2. r \in Begun /\ up' \in Seq(Frames) BY <1>1, TakesBegun
<1>3. UNCHANGED <<stage, settled, reader, found, shutting>> BY <1>1 DEF Takes, client
<1>4. /\ \/ UNCHANGED <<handled, down>>
         \/ handled' = handled \cup {r} /\ down' \in {down, Append(down, r)}
      /\ sinks' \subseteq sinks \cup {r}
  BY DEF Serves, Opens, TakesIn, Finishes, Starts, HearsEnd, Replies
<1>5. cmd' = cmd \/ cmd' = [cmd EXCEPT ![r] = "starting"]
  BY DEF Serves, Opens, TakesIn, Finishes, Starts, HearsEnd
<1>6. /\ cmd' \in [Execs -> {"none", "starting", "running", "over", "killed"}]
      /\ \A e \in Execs : cmd'[e] # "none" => cmd[e] # "none" \/ e = r
  BY <1>5 DEF AInv, ATypes
<1>7. QED BY <1>2, <1>3, <1>4, <1>6 DEF Does, AInv, KnownOnlyIfBegun

\* A session with threads of its own, and its command.
Works(e) == Spawns(e) \/ Exits(e) \/ Tells(e) \/ Reaps(e)

LEMMA WorkingDoes == ASSUME AInv, NEW e \in Execs, Works(e) PROVE e \in Begun /\ Does(e)
<1> USE DEF Works, Spawns, Exits, Tells, Reaps
<1>1. e \in Begun BY DEF AInv, KnownOnlyIfBegun
<1>2. UNCHANGED <<stage, settled, reader, found, shutting, up>>
  BY DEF client, wire
<1>3. /\ \/ UNCHANGED <<handled, down>>
         \/ handled' = handled \cup {e} /\ down' \in {down, Append(down, e)}
      /\ sinks' \subseteq sinks \cup {e}
  BY DEF Replies, work
<1>4. cmd' = cmd \/ cmd' = [cmd EXCEPT ![e] = "running"] \/ cmd' = [cmd EXCEPT ![e] = "over"]
  BY DEF work
<1>5. /\ cmd' \in [Execs -> {"none", "starting", "running", "over", "killed"}]
      /\ \A f \in Execs : cmd'[f] # "none" => cmd[f] # "none" \/ f = e
  BY <1>4 DEF AInv, ATypes
<1>6. QED BY <1>1, <1>2, <1>3, <1>5 DEF Does, AInv, KnownOnlyIfBegun

LEMMA ShuttingDoes ==
    ASSUME AInv, NEW r \in Reqs, NEW t \in {"loop", "listener"},
           ShutsWrite(t, r) \/ ShutsExec(t, r)
    PROVE r \in Begun /\ Does(r)
<1>1. r \in shutting[t] /\ shutting' = [shutting EXCEPT ![t] = @ \ {r}]
  BY DEF ShutsWrite, ShutsExec
<1>2. r \in Begun /\ shutting' \in [{"loop", "listener"} -> SUBSET Begun]
  BY <1>1 DEF AInv, KnownOnlyIfBegun
<1>3. UNCHANGED <<stage, settled, reader, found, sinks, up>>
  BY DEF ShutsWrite, ShutsExec, client, wire
<1>4. \/ UNCHANGED <<handled, down>>
      \/ handled' = handled \cup {r} /\ down' \in {down, Append(down, r)}
  BY DEF ShutsWrite, ShutsExec, Replies, work
<1>5. cmd' = cmd \/ cmd' = [cmd EXCEPT ![r] = "killed"]
  BY DEF ShutsWrite, ShutsExec
<1>6. /\ cmd' \in [Execs -> {"none", "starting", "running", "over", "killed"}]
      /\ \A e \in Execs : cmd'[e] # "none" => cmd[e] # "none" \/ e = r
  BY <1>5 DEF AInv, ATypes
<1>7. QED BY <1>2, <1>3, <1>4, <1>6 DEF Does, AInv, KnownOnlyIfBegun

LEMMA DoesAInv == ASSUME AInv, NEW r \in Begun, Does(r) PROVE AInv'
<1>1. UNCHANGED <<stage, settled, reader, found>> BY DEF Does
<1>2. Begun' = Begun /\ Frames' = Frames BY <1>1 DEF Begun, Frames
<1>3. ATypes' BY <1>1 DEF AInv, ATypes, Does
<1>4. KnownOnlyIfBegun' BY <1>2 DEF AInv, KnownOnlyIfBegun, Does
<1>5. handled \subseteq handled' BY DEF Does
<1>6. down' \in Seq(handled')
  <2>1. down \in Seq(handled') BY <1>5, SeqGrows DEF AInv, HeardOnlyIfHandled
  <2>2. CASE UNCHANGED <<handled, down>> BY <2>1, <2>2
  <2>3. CASE handled' = handled \cup {r} /\ down' \in {down, Append(down, r)}
    <3>1. r \in handled' BY <2>3
    <3>2. Append(down, r) \in Seq(handled') BY <2>1, <3>1
    <3>3. QED BY <2>1, <2>3, <3>2
  <2>4. QED BY <2>2, <2>3 DEF Does
<1>7. HeardOnlyIfHandled' BY <1>1, <1>5, <1>6 DEF AInv, HeardOnlyIfHandled
<1>8. QED BY <1>3, <1>4, <1>7 DEF AInv

\* Ends of the loop, of the listener and of the line, and what a command starts of its own, which
\* do nothing that was asked for.
Ends == LoopEnds \/ LoopIsOver \/ Leaves \/ Left \/ Loses \/ \E e \in Execs : Forks(e)

LEMMA EndsAInv == ASSUME AInv, Ends PROVE AInv' /\ UNCHANGED <<stage, handled>>
<1>1. /\ UNCHANGED <<stage, settled, reader, found, up, down, handled, cmd>>
      /\ sinks' \subseteq sinks
  BY DEF Ends, LoopEnds, LoopIsOver, Leaves, Left, Loses, Forks, client, wire, target, work
<1>2. \/ shutting' = shutting
      \/ \E t \in {"loop", "listener"} : shutting' = [shutting EXCEPT ![t] = sinks]
  BY DEF Ends, LoopEnds, LoopIsOver, Leaves, Left, Loses, Forks, target
<1>3. shutting' \in [{"loop", "listener"} -> SUBSET Begun]
  BY <1>2 DEF AInv, KnownOnlyIfBegun
<1>4. Begun' = Begun /\ Frames' = Frames BY <1>1 DEF Begun, Frames
<1>5. ATypes' BY <1>1 DEF AInv, ATypes
<1>6. KnownOnlyIfBegun' BY <1>1, <1>3, <1>4 DEF AInv, KnownOnlyIfBegun
<1>7. HeardOnlyIfHandled' BY <1>1 DEF AInv, HeardOnlyIfHandled
<1>8. QED BY <1>1, <1>5, <1>6, <1>7 DEF AInv

-----------------------------------------------------------------------------
(* Each step as a step of Exchange, or none of its.                        *)

\* What a stage is for whoever asked.
Meaning(x) == CASE x \in {"never", "idle"} -> "none"
                [] x = "done" -> "answered"
                [] x = "raised" -> "failed"
                [] OTHER -> "asked"

LEMMA OutcomeIsMeaning ==
    Outcome \in [Reqs -> {"none", "asked", "answered", "failed"}]
    /\ \A r \in Reqs : Outcome[r] = Meaning(stage[r])
  BY DEF Outcome, Meaning

LEMMA OutcomeMoves ==
    ASSUME stage \in [Reqs -> Stages], NEW r \in Reqs, NEW x \in Stages,
           stage' = [stage EXCEPT ![r] = x]
    PROVE Outcome' = [Outcome EXCEPT ![r] = Meaning(x)]
<1>1. Outcome' = [q \in Reqs |-> Meaning(stage'[q])] BY DEF Outcome, Meaning
<1>2. \A q \in Reqs : stage'[q] = IF q = r THEN x ELSE stage[q] OBVIOUS
<1>3. [Outcome EXCEPT ![r] = Meaning(x)]
        = [q \in Reqs |-> IF q = r THEN Meaning(x) ELSE Outcome[q]]
  BY DEF Outcome
<1>4. QED BY <1>1, <1>2, <1>3, OutcomeIsMeaning

\* Whoever asks goes from one stage to another as far as an asker may.
LEMMA CallerStages ==
    ASSUME AInv, NEW r \in Reqs, Caller(r)
    PROVE \E x \in Stages :
              /\ stage' = [stage EXCEPT ![r] = x] /\ UNCHANGED handled
              /\ \/ Meaning(stage[r]) = "none" /\ Meaning(x) \in {"asked", "failed"}
                 \/ Meaning(stage[r]) = "asked" /\ Meaning(x) \in {"asked", "failed"}
                 \/ Meaning(stage[r]) = "asked" /\ Meaning(x) = "answered" /\ r \in handled
<1> USE DEF Meaning, Stages, target, work
<1>1. CASE Registers(r) BY <1>1 DEF Registers
<1>2. CASE Asks(r) BY <1>2 DEF Asks
<1>3. CASE Feeds(r) BY <1>3 DEF Feeds
<1>4. CASE SourceFails(r) BY <1>4 DEF SourceFails
<1>5. CASE EndsInput(r) BY <1>5 DEF EndsInput
<1>6. CASE Wakes(r)
  <2>1. settled[r] = "error" \/ (settled[r] = "result" /\ r \in handled)
    BY <1>6 DEF Wakes, AInv, ATypes, HeardOnlyIfHandled
  <2>2. QED BY <1>6, <2>1 DEF Wakes
<1>7. CASE TimesOut(r) BY <1>7 DEF TimesOut
<1>8. QED BY <1>1, <1>2, <1>3, <1>4, <1>5, <1>6, <1>7 DEF Caller

LEMMA CallerRefines ==
    ASSUME AInv, NEW r \in Reqs, Caller(r) PROVE [Asked!Next]_(Asked!vars)
<1>1. PICK x \in Stages :
          /\ stage' = [stage EXCEPT ![r] = x] /\ UNCHANGED handled
          /\ \/ Meaning(stage[r]) = "none" /\ Meaning(x) \in {"asked", "failed"}
             \/ Meaning(stage[r]) = "asked" /\ Meaning(x) \in {"asked", "failed"}
             \/ Meaning(stage[r]) = "asked" /\ Meaning(x) = "answered" /\ r \in handled
  BY CallerStages
<1>2. Outcome' = [Outcome EXCEPT ![r] = Meaning(x)]
  BY <1>1, OutcomeMoves DEF AInv, ATypes
<1>3. Outcome[r] = Meaning(stage[r]) /\ Outcome \in [Reqs -> {"none", "asked", "answered", "failed"}]
  BY OutcomeIsMeaning
<1>4. CASE Meaning(x) = "asked" /\ Meaning(stage[r]) = "asked"
  BY <1>1, <1>2, <1>3, <1>4 DEF Asked!vars
<1>5. CASE Meaning(x) = "asked" /\ Meaning(stage[r]) = "none"
  BY <1>1, <1>2, <1>3, <1>5 DEF Asked!Next, Asked!Asks
<1>6. CASE Meaning(x) = "failed"
  BY <1>1, <1>2, <1>3, <1>6 DEF Asked!Next, Asked!Failed
<1>7. CASE Meaning(x) = "answered"
  BY <1>1, <1>2, <1>3, <1>7 DEF Asked!Next, Asked!Answered
<1>8. QED BY <1>1, <1>4, <1>5, <1>6, <1>7

LEMMA StaysRefines ==
    ASSUME UNCHANGED <<stage, handled>> PROVE [Asked!Next]_(Asked!vars)
  BY DEF Asked!vars, Outcome

LEMMA DoesRefines ==
    ASSUME AInv, NEW r \in Begun, Does(r) PROVE [Asked!Next]_(Asked!vars)
<1>1. stage' = stage /\ Outcome' = Outcome BY DEF Does, Outcome
<1>2. CASE handled' = handled BY <1>1, <1>2, StaysRefines
<1>3. CASE handled' = handled \cup {r} /\ r \notin handled
  <2>1. r \in Reqs /\ Outcome[r] # "none" BY OutcomeIsMeaning DEF Begun, Meaning
  <2>2. Asked!Handles(r) BY <1>1, <1>3, <2>1 DEF Asked!Handles
  <2>3. QED BY <2>1, <2>2 DEF Asked!Next
<1>4. QED BY <1>2, <1>3 DEF Does

LEMMA StepAInv == AInv /\ [Next]_vars => AInv' /\ [Asked!Next]_(Asked!vars)
<1> SUFFICES ASSUME AInv, [Next]_vars PROVE AInv' /\ [Asked!Next]_(Asked!vars)
  OBVIOUS
<1>1. CASE \E r \in Reqs : Caller(r)
  <2>1. PICK r \in Reqs : Caller(r) BY <1>1
  <2>2. PICK x \in Stages : Goes(r, x) BY <2>1, CallerGoes
  <2>3. QED BY <2>1, <2>2, GoesAInv, CallerRefines
<1>2. CASE Reader \/ Closer
  <2>1. UNCHANGED <<stage, handled>>
    BY <1>2 DEF Reader, Closer, Receives, Answers, Notices, Fails, Closes, Joins, target, work
  <2>2. QED BY <1>2, <2>1, ReaderAInv, StaysRefines
<1>3. CASE Ends BY <1>3, EndsAInv, StaysRefines
<1>4. ASSUME NEW r \in Begun, Does(r) PROVE AInv' /\ [Asked!Next]_(Asked!vars)
  BY <1>4, DoesAInv, DoesRefines
<1>5. CASE \E r \in Reqs : \/ Serves(r) \/ Opens(r) \/ TakesIn(r) \/ Finishes(r)
                           \/ Starts(r) \/ HearsEnd(r)
  BY <1>4, <1>5, TakingDoes
<1>6. CASE \E e \in Execs : Works(e)
  BY <1>4, <1>6, WorkingDoes
<1>7. CASE \E r \in Reqs, t \in {"loop", "listener"} : ShutsWrite(t, r) \/ ShutsExec(t, r)
  BY <1>4, <1>7, ShuttingDoes
<1>8. CASE UNCHANGED vars
  <2>1. AInv'
    BY <1>8 DEF AInv, ATypes, KnownOnlyIfBegun, HeardOnlyIfHandled, Begun, Frames, vars,
                client, wire, target, work
  <2>2. UNCHANGED <<stage, handled>> BY <1>8 DEF vars, target, work
  <2>3. QED BY <2>1, <2>2, StaysRefines
<1>9. QED
  BY <1>1, <1>2, <1>3, <1>5, <1>6, <1>7, <1>8, Zenon DEF Next, Target, Ends, Works

\* The connection, wherever it breaks, gives each of those who asked one answer or one
\* failure, and an answer only to what the target has done.
THEOREM AnsweredOnlyOnce == Spec => AnsweredOnce
<1>1. Init => Asked!Init
  BY DEF Init, Asked!Init, Outcome
<1>2. QED
  BY <1>1, InitAInv, StepAInv, PTL DEF Spec, AnsweredOnce, Asked!Spec

-----------------------------------------------------------------------------
(* A connection that is over has left nothing of what it was asked for.     *)

\* What may still be running, or half written, is on somebody's list to be shut down.
NTypes ==
    /\ cmd \in [Execs -> {"none", "starting", "running", "over", "killed"}]
    /\ shutting \in [{"loop", "listener"} -> SUBSET (Writes \cup Execs)]
    /\ serving \in {"serving", "closing", "over"}
    /\ sinks \subseteq Writes \cup Execs /\ temp \subseteq Writes /\ group \subseteq Execs

\* The commands that are not over, but for those let go of before they had started.
Unended == {e \in Execs : cmd[e] \in {"starting", "running"} /\ e \notin unstarted}

\* Where the loop keeps what it has to shut down: its sinks, and then what it took from them.
Keeping ==
    leaving \in {"never", "no"} =>
        /\ shutting["listener"] = {}
        /\ serving = "serving" => temp \subseteq sinks /\ Unended \subseteq sinks
        /\ serving = "closing" => temp \subseteq shutting["loop"] /\ Unended \subseteq shutting["loop"]
        /\ serving = "over" => temp = {} /\ Unended = {}

\* A command is killed with what it has started.
WithItsGroup == \A e \in group : cmd[e] # "killed"

NInv == NTypes /\ Keeping /\ WithItsGroup

LEMMA InitNInv == Init => NInv
  BY DEF Init, NInv, NTypes, Keeping, Unended, WithItsGroup

LEMMA TakingNInv ==
    ASSUME NInv, NEW r \in Reqs,
           Serves(r) \/ Opens(r) \/ TakesIn(r) \/ Finishes(r) \/ Starts(r) \/ HearsEnd(r)
    PROVE NInv'
<1>1. PICK kind \in {"req", "chunk", "end"} : Takes(Frame(r, kind))
  BY DEF Serves, Opens, TakesIn, Finishes, Starts, HearsEnd
<1>2. serving = "serving" /\ UNCHANGED <<serving, leaving, shutting, group, unstarted>>
  BY <1>1 DEF Takes
<1>3. CASE Serves(r) \/ HearsEnd(r)
  BY <1>2, <1>3 DEF Serves, HearsEnd, NInv, NTypes, Keeping, Unended, WithItsGroup
<1>4. CASE Opens(r) \/ TakesIn(r) \/ Finishes(r)
  <2>1. r \notin Execs /\ cmd' = cmd
    BY <1>4, KindsAssumption DEF Opens, TakesIn, Finishes
  <2>2. r \in Writes /\ temp' \subseteq Writes /\ sinks' \subseteq Writes \cup Execs
    BY <1>4 DEF Opens, TakesIn, Finishes, NInv, NTypes
  <2>3. /\ temp \subseteq sinks => temp' \subseteq sinks'
        /\ \A e \in Execs : e \in sinks => e \in sinks'
    BY <1>4, <2>1, <2>2 DEF Opens, TakesIn, Finishes
  <2>4. Unended' = Unended
    BY <1>2, <2>1 DEF Unended
  <2>5. NTypes' BY <1>2, <2>1, <2>2 DEF NInv, NTypes
  <2>6. Unended \subseteq Execs BY DEF Unended
  <2>7. Keeping' BY <1>2, <2>3, <2>4, <2>6 DEF NInv, Keeping
  <2>8. WithItsGroup' BY <1>2, <2>1 DEF NInv, WithItsGroup
  <2>9. QED BY <2>5, <2>7, <2>8 DEF NInv
<1>5. CASE Starts(r)
  BY <1>2, <1>5 DEF Starts, NInv, NTypes, Keeping, Unended, WithItsGroup
<1>6. QED BY <1>3, <1>4, <1>5

LEMMA WorkingNInv == ASSUME NInv, NEW e \in Execs, Works(e) PROVE NInv'
<1>1. /\ UNCHANGED <<serving, leaving, shutting, temp, group, unstarted>>
      /\ \/ sinks' = sinks /\ cmd' = [cmd EXCEPT ![e] = "running"] /\ cmd[e] = "starting"
         \/ sinks' = sinks /\ cmd' = [cmd EXCEPT ![e] = "over"]
         \/ sinks' = sinks /\ cmd' = cmd
         \/ sinks' = sinks \ {e} /\ cmd' = cmd /\ cmd[e] \in {"over", "killed"}
  BY DEF Works, Spawns, Exits, Tells, Reaps, work
<1>2. NTypes' BY <1>1 DEF NInv, NTypes
<1>3. /\ Unended' \subseteq Unended
      /\ sinks' = sinks \/ (sinks' = sinks \ {e} /\ e \notin Unended')
  BY <1>1 DEF NInv, NTypes, Unended
<1>4. e \notin temp BY KindsAssumption DEF NInv, NTypes
<1>5. Keeping'
  <2>1. CASE sinks' = sinks BY <1>1, <1>3, <2>1 DEF NInv, Keeping
  <2>2. CASE sinks' = sinks \ {e} /\ e \notin Unended'
    BY <1>1, <1>3, <1>4, <2>2 DEF NInv, Keeping
  <2>3. QED BY <1>3, <2>1, <2>2
<1>6. WithItsGroup'
  <2>1. \A f \in Execs : cmd'[f] = "killed" => cmd[f] = "killed"
    BY <1>1 DEF NInv, NTypes
  <2>2. QED BY <1>1, <2>1 DEF NInv, NTypes, WithItsGroup
<1>7. QED BY <1>2, <1>5, <1>6 DEF NInv

LEMMA ShuttingNInv ==
    ASSUME NInv, NEW r \in Reqs, NEW t \in {"loop", "listener"},
           ShutsWrite(t, r) \/ ShutsExec(t, r)
    PROVE NInv'
<1>1. /\ UNCHANGED <<serving, leaving, sinks>> /\ r \in shutting[t]
      /\ shutting' = [shutting EXCEPT ![t] = @ \ {r}]
  BY DEF ShutsWrite, ShutsExec
<1>2. /\ shutting' \in [{"loop", "listener"} -> SUBSET (Writes \cup Execs)]
      /\ \A u \in {"loop", "listener"} :
           shutting'[u] = IF u = t THEN shutting[u] \ {r} ELSE shutting[u]
  BY <1>1 DEF NInv, NTypes
<1>3. /\ temp' \subseteq temp \ {r} /\ group' \subseteq group
      /\ cmd' \in [Execs -> {"none", "starting", "running", "over", "killed"}]
      /\ Unended' \subseteq Unended \ {r} /\ WithItsGroup'
  <2>1. CASE ShutsWrite(t, r)
    BY <2>1, KindsAssumption DEF ShutsWrite, NInv, NTypes, Unended, WithItsGroup
  <2>2. CASE ShutsExec(t, r)
    <3>1. r \in Execs /\ temp' = temp /\ r \notin temp
      BY <2>2, KindsAssumption DEF ShutsExec, NInv, NTypes
    <3>2. CASE /\ cmd[r] = "starting" /\ unstarted' = unstarted \cup {r} /\ cmd' = cmd
               /\ group' = group
      BY <3>1, <3>2 DEF NInv, NTypes, Unended, WithItsGroup
    <3>3. CASE unstarted' = unstarted /\ cmd[r] \in {"over", "killed"} /\ UNCHANGED <<cmd, group>>
      BY <3>1, <3>3 DEF NInv, NTypes, Unended, WithItsGroup
    <3>4. CASE /\ unstarted' = unstarted /\ cmd' = [cmd EXCEPT ![r] = "killed"]
               /\ group' = group \ {r}
      <4>1. \A e \in Execs : cmd'[e] = IF e = r THEN "killed" ELSE cmd[e]
        BY <3>1, <3>4 DEF NInv, NTypes
      <4>2. Unended' \subseteq Unended \ {r}
        BY <3>4, <4>1 DEF Unended
      <4>3. WithItsGroup'
        BY <3>4, <4>1 DEF NInv, NTypes, WithItsGroup
      <4>4. QED BY <3>1, <3>4, <4>2, <4>3 DEF NInv, NTypes
    <3>5. QED BY <2>2, <3>2, <3>3, <3>4 DEF ShutsExec
  <2>3. QED BY <2>1, <2>2
<1>4. NTypes' BY <1>1, <1>2, <1>3 DEF NInv, NTypes
<1>5. Keeping' BY <1>1, <1>2, <1>3 DEF NInv, NTypes, Keeping
<1>6. QED BY <1>3, <1>4, <1>5 DEF NInv

LEMMA EndsNInv == ASSUME NInv, Ends PROVE NInv'
<1> USE DEF NInv, NTypes, Keeping, Unended, WithItsGroup
<1>1. CASE LoopEnds BY <1>1 DEF LoopEnds, work
<1>2. CASE LoopIsOver BY <1>2 DEF LoopIsOver, work
<1>3. CASE Leaves BY <1>3 DEF Leaves, work
<1>4. CASE Left BY <1>4 DEF Left, work
<1>5. CASE Loses BY <1>5 DEF Loses, target, work
<1>6. ASSUME NEW e \in Execs, Forks(e) PROVE NInv' BY <1>6 DEF Forks
<1>7. QED BY <1>1, <1>2, <1>3, <1>4, <1>5, <1>6 DEF Ends

LEMMA StepNInv == NInv /\ [Next]_vars => NInv'
<1> SUFFICES ASSUME NInv, [Next]_vars PROVE NInv'
  OBVIOUS
<1>1. ASSUME UNCHANGED target PROVE NInv'
  BY <1>1 DEF NInv, NTypes, Keeping, Unended, WithItsGroup, target, work
<1>2. CASE \E r \in Reqs : Caller(r)
  BY <1>1, <1>2 DEF Caller, Registers, Asks, Feeds, SourceFails, EndsInput, Wakes, TimesOut
<1>3. CASE Reader \/ Closer
  BY <1>1, <1>3 DEF Reader, Closer, Receives, Answers, Notices, Fails, Closes, Joins
<1>4. CASE Ends BY <1>4, EndsNInv
<1>5. CASE \E r \in Reqs : \/ Serves(r) \/ Opens(r) \/ TakesIn(r) \/ Finishes(r)
                           \/ Starts(r) \/ HearsEnd(r)
  BY <1>5, TakingNInv
<1>6. CASE \E e \in Execs : Works(e)
  BY <1>6, WorkingNInv
<1>7. CASE \E r \in Reqs, t \in {"loop", "listener"} : ShutsWrite(t, r) \/ ShutsExec(t, r)
  BY <1>7, ShuttingNInv
<1>8. CASE UNCHANGED vars BY <1>1, <1>8 DEF vars
<1>9. QED
  BY <1>2, <1>3, <1>4, <1>5, <1>6, <1>7, <1>8, Zenon DEF Next, Target, Ends, Works

\* A connection whose own loop ended has left no command running at the target, nothing a command
\* that was killed had started and no file half written, whatever was asked for and wherever it
\* broke, but for the commands that took too long in starting to be killed (Server.close).
THEOREM LeavesNothing == Spec => []NothingLeft
<1>1. NInv => NothingLeft
  BY DEF NInv, NTypes, Keeping, Unended, WithItsGroup, NothingLeft
<1>2. QED
  BY <1>1, InitNInv, StepNInv, PTL DEF Spec

-----------------------------------------------------------------------------
(* Types.  What the invariants above leave open of them is one value each.  *)

Ones ==
    /\ closed \in BOOLEAN /\ shut \in BOOLEAN /\ link \in {"up", "down"}
    /\ leaving \in {"never", "no", "closing", "gone"}
    /\ ended \subseteq Execs /\ unstarted \subseteq Execs

LEMMA InitOnes == Init => Ones
  BY WorldsAssumption DEF Init, Ones

LEMMA StepOnes == Ones /\ [Next]_vars => Ones'
<1> SUFFICES ASSUME Ones, [Next]_vars PROVE Ones'
  OBVIOUS
<1> USE DEF Ones
<1>1. CASE \E r \in Reqs : Caller(r)
  BY <1>1 DEF Caller, Registers, Asks, Feeds, SourceFails, EndsInput, Wakes, TimesOut, client,
              wire, target, work, Sends, CannotSend
<1>2. CASE Reader \/ Closer
  BY <1>2 DEF Reader, Closer, Receives, Answers, Notices, Fails, Closes, Joins, client, wire,
              target, work
<1>3. CASE Ends
  BY <1>3 DEF Ends, LoopEnds, LoopIsOver, Leaves, Left, Loses, Forks, client, wire, target, work
<1>4. CASE \E r \in Reqs : \/ Serves(r) \/ Opens(r) \/ TakesIn(r) \/ Finishes(r)
                           \/ Starts(r) \/ HearsEnd(r)
  <2>1. PICK r \in Reqs : \/ Serves(r) \/ Opens(r) \/ TakesIn(r) \/ Finishes(r)
                          \/ Starts(r) \/ HearsEnd(r)
    BY <1>4
  <2>2. PICK kind \in {"req", "chunk", "end"} : Takes(Frame(r, kind))
    BY <2>1 DEF Serves, Opens, TakesIn, Finishes, Starts, HearsEnd
  <2>3. UNCHANGED <<closed, shut, link, leaving, unstarted>>
    BY <2>2 DEF Takes, client
  <2>4. ended' \subseteq Execs
    BY <2>1 DEF Serves, Opens, TakesIn, Finishes, Starts, HearsEnd
  <2>5. QED BY <2>3, <2>4
<1>5. CASE \E e \in Execs : Works(e)
  BY <1>5 DEF Works, Spawns, Exits, Tells, Reaps, client, wire, work
<1>6. CASE \E r \in Reqs, t \in {"loop", "listener"} : ShutsWrite(t, r) \/ ShutsExec(t, r)
  BY <1>6 DEF ShutsWrite, ShutsExec, client, wire
<1>7. CASE UNCHANGED vars BY <1>7 DEF vars, client, wire, target, work
<1>8. QED
  BY <1>1, <1>2, <1>3, <1>4, <1>5, <1>6, <1>7, Zenon DEF Next, Target, Ends, Works

\* The state of a connection is always one the two programs can be in.
THEOREM TypeCorrect == Spec => []TypeOK
<1>1. ASSUME TInv, AInv, NInv, Ones PROVE TypeOK
  <2>1. Begun \subseteq Reqs /\ handled \subseteq Reqs
    BY <1>1 DEF Begun, AInv, KnownOnlyIfBegun
  <2>2. Frames \subseteq [req : Reqs, kind : {"req", "chunk", "end"}]
    BY <2>1 DEF Frames
  <2>3. up \in Seq([req : Reqs, kind : {"req", "chunk", "end"}])
    BY <1>1, <2>2, SeqGrows DEF AInv, KnownOnlyIfBegun
  <2>4. down \in Seq(Reqs)
    BY <1>1, <2>1, SeqGrows DEF AInv, HeardOnlyIfHandled
  <2>5. QED
    BY <1>1, <2>1, <2>3, <2>4
    DEF TypeOK, TInv, TTypes, AInv, ATypes, NInv, NTypes, Ones, Stages
<1>2. QED
  BY <1>1, InitTInv, StepTInv, InitAInv, StepAInv, InitNInv, StepNInv, InitOnes, StepOnes, PTL
  DEF Spec
=============================================================================
