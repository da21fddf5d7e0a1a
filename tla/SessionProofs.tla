--------------------------- MODULE SessionProofs ----------------------------
(***************************************************************************)
(* What the application can rely on, for any nodes, calls and answers: the *)
(* two ends of a connection stay in step, and a cluster is what Session    *)
(* says.                                                                   *)
(*                                                                         *)
(* A call reads its own answer and leaves nothing behind provided that the *)
(* library keeps to the conditions of Disciplined.  Each of them is        *)
(* needed: dropping one makes TLC find a run that breaks AnswersMatch.     *)
(***************************************************************************)
EXTENDS ClientProofs

-----------------------------------------------------------------------------
(* Client keeps its connections in step *)

\* Memory never runs out, who_master is never answered with an error, and
\* every call that is used disconnects when its command is not written whole.
Disciplined ==
    /\ ~AllocFails
    /\ ~WhoMasterErrors
    /\ \A c \in Calls : Shape[c].closes

Clean(n) == greeted[n] /\ wire[n] = <<>> /\ unread[n] = <<>>

\* A connection on which nothing is under way.
Quiet(n) ==
    /\ conn[n] = "closed" => wire[n] = <<>> /\ unread[n] = <<>>
    /\ conn[n] # "closed" => Clean(n)

\* An exchange: the server has still to take the command, or what is in the
\* buffer is what the client will read, or the connection was cut before that.
Exchange(n) ==
    /\ greeted[n]
    /\ \/ wire[n] = <<Command>> /\ unread[n] = <<>> /\ expect = <<Code(Command)>>
       \/ wire[n] = <<>> /\ unread[n] = expect
       \/ conn[n] = "gone" /\ wire[n] = <<>> /\ unread[n] = <<>>

SyncInv ==
    /\ \A n \in Nodes :
           /\ ~(n = cur /\ pc \in {"prologue", "read"}) => Quiet(n)
           /\ n = cur /\ pc = "prologue" => wire[n] = <<>> /\ unread[n] = <<>>
           /\ n = cur /\ pc = "read" => Exchange(n)
    /\ pc = "write" => expect = <<Code(Command)>>

-----------------------------------------------------------------------------
(* Every step keeps it *)

LEMMA InitSync == Init => SyncInv
BY NodesAssumption DEF Init, SyncInv, Quiet

\* Whatever ends the work on a connection that is quiet again.
LEMMA LeaveSync ==
    ASSUME \A n \in Nodes : Quiet(n)', pc' \in {"idle", "connect"}
    PROVE  SyncInv'
BY DEF SyncInv

LEMMA FailLeaves ==
    ASSUME NEW r, Fail(r)
    PROVE  pc' \in {"idle", "connect"}
BY DEF Fail, NextNode, Visit, Return

LEMMA DisconnectQuiet ==
    ASSUME IInv, SyncInv, cur \in Nodes, Disconnect(cur)
    PROVE  \A n \in Nodes : Quiet(n)'
BY DEF IInv, StateOK, SyncInv, Disconnect, Quiet, Clean

\* Where no exchange is under way all connections are quiet.
LEMMA OutsideQuiet ==
    ASSUME SyncInv, pc \notin {"prologue", "read"}
    PROVE  \A n \in Nodes : Quiet(n)
BY DEF SyncInv

\* So are they when the whole answer was read.
LEMMA AnsweredQuiet ==
    ASSUME IInv, SyncInv, Answered
    PROVE  \A n \in Nodes : Quiet(n)
<1> SUFFICES ASSUME NEW n \in Nodes PROVE Quiet(n)
  OBVIOUS
<1>1. CASE n = cur
  <2>1. Exchange(n) /\ expect = <<>> /\ conn[n] # "closed"
    BY <1>1 DEF SyncInv, Answered, IInv, OpenInv
  <2>2. wire[n] = <<>> /\ unread[n] = <<>> /\ greeted[n]
    BY <2>1 DEF Exchange
  <2>3. QED BY <2>1, <2>2 DEF Quiet, Clean
<1>2. CASE n # cur
  BY <1>2 DEF SyncInv
<1>3. QED BY <1>1, <1>2

LEMMA UnchangedQuiet ==
    ASSUME \A n \in Nodes : Quiet(n), UNCHANGED links
    PROVE  \A n \in Nodes : Quiet(n)'
BY DEF Quiet, Clean, links

\* A read keeps the buffer and what is awaited equal.
LEMMA TakeSync ==
    ASSUME Disciplined, IInv, SyncInv, NEW kinds, NEW v, Take(kinds, v), ReadOn(v)
    PROVE  SyncInv'
<1>1. cur \in Nodes /\ pc = "read" /\ unread[cur] # <<>> /\ expect # <<>>
  BY DEF Take, IInv, CallInv
<1>2. Exchange(cur)
  BY <1>1 DEF SyncInv
<1>3. CASE wire[cur] = <<>> /\ unread[cur] = expect
  <2>1. expect \in Seq(Wanted) /\ Expected \in FieldsOf(CallNames)
    BY <1>1 DEF IInv, ControlOK, Expected, Wanted
  <2>2. v \in Nat
    BY TakeType DEF IInv
  <2>3. Expected = Code("who_master") => v = 0
    BY <1>3 DEF Take, Sendable, Arrives, Expected, Disciplined
  <2>4. Reads(Expected, v) = Follows(Expected, v)
    BY <2>1, <2>2, <2>3, ReadsFollows
  <2>5. unread' = [unread EXCEPT ![cur] = Follows(Head(unread[cur]), v) \o Tail(unread[cur])]
    BY DEF Take
  <2>6. expect' = Reads(Expected, v) \o Tail(expect)
    BY DEF ReadOn
  <2>7. unread'[cur] = expect'
    BY <1>1, <1>3, <2>4, <2>5, <2>6 DEF IInv, StateOK, Expected
  <2>8. \A n \in Nodes \ {cur} : unread'[n] = unread[n]
    BY <2>5 DEF IInv, StateOK
  <2>9. UNCHANGED <<conn, greeted, wire, pc, cur, call>>
    BY DEF Take, ReadOn
  <2>10. Exchange(cur)'
    BY <1>2, <1>3, <2>7, <2>9 DEF Exchange
  <2>11. \A n \in Nodes \ {cur} : Quiet(n)'
    BY <2>8, <2>9 DEF SyncInv, Quiet, Clean
  <2>12. QED BY <1>1, <2>9, <2>10, <2>11 DEF SyncInv
<1>4. QED BY <1>1, <1>2, <1>3 DEF Exchange

LEMMA ServerStepSync ==
    ASSUME IInv, SyncInv, ServerStep
    PROVE  SyncInv'
<1> SUFFICES ASSUME NEW m \in Nodes,
                    Answer(m) \/ AnswerTorn(m) \/ ChangeBelief(m) \/ Crash(m) \/ Restart(m)
             PROVE  SyncInv'
  BY DEF ServerStep
<1>1. UNCHANGED <<pc, call, cur, expect, greeted>>
  BY DEF Answer, AnswerTorn, ChangeBelief, Crash, Restart, control, links
<1>2. Command' = Command
  BY <1>1 DEF Command
<1>3. CASE wire[m] # <<>> /\ (Answer(m) \/ AnswerTorn(m))
  <2>1. m = cur /\ pc = "read" /\ conn[m] # "closed" /\ Exchange(m)
    <3>1. conn[m] = "live" /\ greeted[m]
      BY <1>3 DEF Answer, AnswerTorn
    <3>2. ~Quiet(m)
      BY <1>3, <3>1 DEF Quiet, Clean
    <3>3. QED BY <1>3, <3>1, <3>2 DEF SyncInv
  <2>2. wire[m] = <<Command>> /\ unread[m] = <<>> /\ expect = <<Code(Command)>>
    BY <1>3, <2>1 DEF Exchange
  <2>3. Answer(m)
    BY <1>3, <2>2 DEF AnswerTorn
  <2>4. Head(wire[m]) = Command /\ Tail(wire[m]) = <<>>
    BY <2>2
  <2>5. unread' = [unread EXCEPT ![m] = <<Code(Command)>>] /\ conn' = conn
    BY <2>2, <2>3, <2>4 DEF Answer
  <2>6. wire' = [wire EXCEPT ![m] = <<>>]
    BY <2>3, <2>4 DEF Answer
  <2>7. Exchange(m)'
    BY <1>1, <2>1, <2>2, <2>5, <2>6 DEF Exchange, IInv, StateOK
  <2>8. \A n \in Nodes \ {m} : Quiet(n)'
    BY <1>1, <2>1, <2>5, <2>6 DEF SyncInv, Quiet, Clean, IInv, StateOK
  <2>9. QED BY <1>1, <2>1, <2>7, <2>8 DEF SyncInv
<1>4. CASE ChangeBelief(m) \/ Restart(m)
  <2>1. UNCHANGED <<conn, wire, unread>>
    BY <1>4 DEF ChangeBelief, Restart, links
  <2>2. QED BY <1>1, <1>2, <2>1 DEF SyncInv, Quiet, Clean, Exchange
<1>5. CASE Crash(m)
  <2>1. /\ conn' = [conn EXCEPT ![m] = IF conn[m] = "live" THEN "gone" ELSE conn[m]]
        /\ wire' = [wire EXCEPT ![m] = <<>>]
        /\ unread' = unread
    BY <1>5 DEF Crash
  <2>2. \A n \in Nodes :
            /\ conn'[n] = "closed" <=> conn[n] = "closed"
            /\ conn[n] = "gone" => conn'[n] = "gone"
            /\ wire'[n] \in {wire[n], <<>>}
            /\ n # m => wire'[n] = wire[n]
    BY <2>1 DEF IInv, StateOK
  <2>3. ASSUME NEW n \in Nodes, Quiet(n) PROVE Quiet(n)'
    BY <1>1, <2>1, <2>2, <2>3 DEF Quiet, Clean
  <2>4. ASSUME NEW n \in Nodes, Exchange(n), n = cur, pc = "read" PROVE Exchange(n)'
    <3>1. CASE n # m \/ wire[n] = <<>>
      BY <1>1, <1>2, <2>1, <2>2, <2>4, <3>1 DEF Exchange
    <3>2. CASE n = m /\ wire[n] # <<>>
      <4>1. wire[n] = <<Command>> /\ unread[n] = <<>> /\ expect = <<Code(Command)>>
        BY <2>4, <3>2 DEF Exchange
      <4>2. conn[n] # "closed"
        BY <2>4 DEF IInv, OpenInv
      <4>3. conn'[n] = "gone" /\ wire'[n] = <<>> /\ unread'[n] = <<>>
        BY <2>1, <3>2, <4>1, <4>2 DEF IInv, StateOK
      <4>4. QED BY <1>1, <2>4, <4>3 DEF Exchange
    <3>3. QED BY <3>1, <3>2
  <2>5. QED BY <1>1, <1>2, <2>1, <2>2, <2>3, <2>4 DEF SyncInv
<1>6. QED BY <1>3, <1>4, <1>5 DEF Answer, AnswerTorn

LEMMA AppStepSync ==
    ASSUME IInv, SyncInv, AppStep
    PROVE  SyncInv'
<1>1. pc = "idle" /\ pc' \in {"idle", "connect", "build"} /\ UNCHANGED links
  BY DEF AppStep, AddNode, StartConnectMaster, StartCall, Visit, Return, links
<1>2. \A n \in Nodes : Quiet(n)'
  BY <1>1, OutsideQuiet, UnchangedQuiet
<1>3. QED BY <1>1, <1>2 DEF SyncInv

\* The commands that are used disconnect when a write fails.
LEMMA CommandCloses ==
    ASSUME Disciplined, call \in Calls \union {"connect_master"}
    PROVE  Shape[Command].closes
<1>1. CASE call = "connect_master"
  <2>1. Command = "who_master" BY <1>1 DEF Command
  <2>2. Shape["who_master"].closes = TRUE
    BY DEF Shape, WhoMaster, Plain
  <2>3. QED BY <2>1, <2>2
<1>2. CASE call # "connect_master"
  BY <1>2 DEF Command, Disciplined
<1>3. QED BY <1>1, <1>2

LEMMA ClientStepSync ==
    ASSUME Disciplined, IInv, SyncInv, ClientStep
    PROVE  SyncInv'
<1>1. pc # "idle" /\ cur \in Nodes /\ call \in Calls \union {"connect_master"}
  BY ClientStepInCall DEF IInv, CallInv
<1>2. CASE AlreadyConnected
  <2>1. \A n \in Nodes : Quiet(n)'
    BY <1>2, OutsideQuiet, UnchangedQuiet DEF AlreadyConnected
  <2>2. QED BY <1>2, <2>1 DEF AlreadyConnected, SyncInv
<1>3. CASE Connect
  <2>1. /\ pc = "connect" /\ pc' = "prologue" /\ conn[cur] = "closed"
        /\ conn' = [conn EXCEPT ![cur] = "live"]
        /\ UNCHANGED <<greeted, wire, unread, cur>>
    BY <1>3 DEF Connect
  <2>2. \A n \in Nodes : Quiet(n)
    BY <2>1, OutsideQuiet
  <2>3. wire[cur] = <<>> /\ unread[cur] = <<>>
    BY <1>1, <2>1, <2>2 DEF Quiet
  <2>4. \A n \in Nodes \ {cur} : Quiet(n)'
    BY <2>1, <2>2 DEF Quiet, Clean, IInv, StateOK
  <2>5. QED BY <1>1, <2>1, <2>3, <2>4 DEF SyncInv
<1>4. CASE WritePrologue
  <2>1. /\ pc = "prologue" /\ pc' = "build" /\ cur' = cur
        /\ greeted' = [greeted EXCEPT ![cur] = TRUE]
        /\ UNCHANGED <<conn, wire, unread>>
    BY <1>4 DEF WritePrologue
  <2>2. conn[cur] # "closed" /\ wire[cur] = <<>> /\ unread[cur] = <<>>
    BY <1>1, <2>1 DEF SyncInv, IInv, OpenInv
  <2>3. Quiet(cur)'
    BY <1>1, <2>1, <2>2 DEF Quiet, Clean, IInv, StateOK
  <2>4. \A n \in Nodes \ {cur} : Quiet(n)'
    BY <2>1 DEF SyncInv, Quiet, Clean, IInv, StateOK
  <2>5. QED BY <1>1, <2>1, <2>3, <2>4 DEF SyncInv
<1>5. CASE Build
  <2>1. \A n \in Nodes : Quiet(n)'
    BY <1>5, OutsideQuiet, UnchangedQuiet DEF Build
  <2>2. expect' = <<Code(Command)>> /\ Command' = Command /\ pc' = "write"
    BY <1>5 DEF Build, Command
  <2>3. (expect = <<Code(Command)>>)'
    BY <2>2
  <2>4. QED BY <2>1, <2>2, <2>3 DEF SyncInv
<1>6. CASE Write
  <2>1. /\ pc = "write" /\ UNCHANGED <<conn, greeted, unread, call, cur, expect>>
        /\ expect = <<Code(Command)>> /\ Command' = Command
    BY <1>6 DEF Write, Command, SyncInv
  <2>2. \A n \in Nodes : Quiet(n)
    BY <2>1, OutsideQuiet
  <2>3. CASE left = 1
    <3>1. wire' = Sent(Command) /\ pc' = "read"
      BY <1>6, <2>3 DEF Write
    <3>2. Clean(cur) /\ conn[cur] \in {"live", "gone"}
      BY <1>1, <2>1, <2>2 DEF Quiet, IInv, OpenInv, StateOK
    <3>3. Append(wire[cur], Command) = <<Command>>
      BY <3>2 DEF Clean
    <3>4. Exchange(cur)'
      BY <1>1, <2>1, <3>1, <3>2, <3>3 DEF Sent, Exchange, Clean, IInv, StateOK
    <3>5. \A n \in Nodes \ {cur} : Quiet(n)'
      BY <2>1, <2>2, <3>1 DEF Sent, Quiet, Clean, IInv, StateOK
    <3>6. QED BY <1>1, <2>1, <3>1, <3>4, <3>5 DEF SyncInv
  <2>4. CASE left # 1
    <3>1. UNCHANGED <<wire, pc>>
      BY <1>6, <2>4 DEF Write
    <3>2. \A n \in Nodes : Quiet(n)'
      BY <2>1, <2>2, <3>1, UnchangedQuiet DEF links
    <3>3. QED BY <2>1, <3>1, <3>2 DEF SyncInv
  <2>5. QED BY <2>3, <2>4
<1>7. CASE PrologueFails \/ WriteFails \/ ReadFails
  <2>1. Disconnect(cur)
    BY <1>1, <1>7, CommandCloses DEF PrologueFails, WriteFails, ReadFails
  <2>2. pc' \in {"idle", "connect"}
    BY <1>7, FailLeaves DEF PrologueFails, WriteFails, ReadFails
  <2>3. QED BY <1>1, <2>1, <2>2, DisconnectQuiet, LeaveSync
<1>8. CASE ConnectFails
  <2>1. \A n \in Nodes : Quiet(n)'
    BY <1>8, OutsideQuiet, UnchangedQuiet DEF ConnectFails
  <2>2. QED BY <1>8, <2>1, FailLeaves, LeaveSync DEF ConnectFails
<1>9. CASE ReadRc \/ ReadFixed \/ ReadOption \/ ReadLength \/ ReadMessage
           \/ ReadBytes \/ ReadCount
  <2>1. \E kinds, v : Take(kinds, v) /\ ReadOn(v)
    BY <1>9 DEF ReadRc, ReadFixed, ReadOption, ReadLength, ReadMessage,
                ReadBytes, ReadCount
  <2>2. QED BY <2>1, TakeSync
<1>10. CASE ReturnAnswer \/ WhoMasterRefused \/ IsMaster \/ ProbeUnknown
            \/ ProbeOther \/ VerifyOther
  <2>1. Answered /\ UNCHANGED links
    BY <1>10 DEF ReturnAnswer, WhoMasterRefused, Learns, IsMaster, ProbeUnknown,
                 ProbeOther, VerifyOther
  <2>2. pc' \in {"idle", "connect"}
    BY <1>10 DEF ReturnAnswer, WhoMasterRefused, IsMaster, ProbeUnknown,
                 ProbeOther, VerifyOther, Fail, NextNode, Visit, Return
  <2>3. QED BY <2>1, <2>2, AnsweredQuiet, UnchangedQuiet, LeaveSync
<1>11. ~(PrologueNoMemory \/ BuildNoMemory \/ KeysNoMemory \/ StringNoMemory
         \/ ListNoMemory \/ PrependNoMemory \/ OwnedNoMemory)
  BY DEF Disciplined, PrologueNoMemory, BuildNoMemory, KeysNoMemory, StringNoMemory,
         ListNoMemory, PrependNoMemory, OwnedNoMemory
<1>12. QED
  BY <1>2, <1>3, <1>4, <1>5, <1>6, <1>7, <1>8, <1>9, <1>10, <1>11 DEF ClientStep

LEMMA StutterSync ==
    ASSUME SyncInv, UNCHANGED vars
    PROVE  SyncInv'
BY DEF SyncInv, Quiet, Clean, Exchange, Command, vars, links, control

LEMMA InStep ==
    ASSUME IInv, SyncInv
    PROVE  AnswersMatch
BY DEF IInv, CallInv, SyncInv, Exchange, AnswersMatch, Arrives, Expected, Open

-----------------------------------------------------------------------------
(* Theorems about the connections *)

\* Without failures of memory, errors of who_master, and hello and version, every
\* connection is quiet or in the one exchange that the call in progress expects,
\* whatever crashes and times out.
THEOREM SyncInvariant ==
    ASSUME Disciplined
    PROVE  Spec => []SyncInv
<1>1. Init => SyncInv
  BY InitSync
<1>2. IInv /\ SyncInv /\ [Next]_vars => SyncInv'
  BY ClientStepSync, AppStepSync, ServerStepSync, StutterSync DEF Next
<1>3. QED BY <1>1, <1>2, Invariant, PTL DEF Spec

\* What a disciplined client reads next is the next field of the answer to the
\* command of this very call (READ_* of arakoon-protocol.h).
THEOREM Synchronised ==
    ASSUME Disciplined
    PROVE  Spec => []AnswersMatch
<1>1. IInv /\ SyncInv => AnswersMatch
  BY InStep
<1>2. QED BY <1>1, Invariant, SyncInvariant, PTL

\* Between its calls every open connection of a disciplined client can take the
\* next command.
THEOREM IdleClean ==
    ASSUME Disciplined
    PROVE  Spec => []IdleLinksClean
<1>1. SyncInv => IdleLinksClean
  BY DEF SyncInv, Quiet, Clean, IdleLinksClean, Open
<1>2. QED BY <1>1, SyncInvariant, PTL

-----------------------------------------------------------------------------
(* The message of the call *)

\* An ordinary call began on a quiet connection.  What it holds for a message, and
\* the bytes of a message that it awaits, belong to the answer to its command.
ToldInv ==
    call \in Calls =>
        /\ quiet
        /\ lastError # "none" => told = Field("message", call)
        /\ pc = "read" /\ rc = "SERVER" =>
               \/ expect = <<Field("message", call)>>
               \/ /\ expect \in {<<Field("bytes", call)>>, <<>>}
                  /\ told = Field("message", call)

\* A sequence of one field, or none, followed by nothing.
LEMMA NothingFollows ==
    /\ \A x : <<x>> \o <<>> = <<x>>
    /\ <<>> \o <<>> = <<>>
OBVIOUS

LEMMA NoCallTold ==
    ASSUME call' \in {NULL, "connect_master"}
    PROVE  ToldInv'
<1>1. NULL \notin Calls /\ "connect_master" \notin Calls
  BY NodesAssumption, CallsAssumption, CallNamesAre
<1>2. QED BY <1>1 DEF ToldInv

LEMMA AppStepTold ==
    ASSUME IInv, SyncInv, AppStep
    PROVE  ToldInv'
<1>1. pc = "idle" /\ call = NULL
  BY DEF AppStep, AddNode, StartConnectMaster, StartCall, IInv, CallInv
<1>2. CASE (\E n \in Nodes : AddNode(n)) \/ StartConnectMaster
  <2>1. call' \in {NULL, "connect_master"}
    BY <1>1, <1>2 DEF AddNode, StartConnectMaster, Return, Visit
  <2>2. QED BY <2>1, NoCallTold
<1>3. ASSUME NEW c \in Calls, StartCall(c) PROVE ToldInv'
  <2>1. CASE UsableMaster
    <3>1. /\ quiet' = (wire[master] = <<>> /\ unread[master] = <<>>)
          /\ pc' = "build" /\ lastError' = "none"
      BY <1>3, <2>1 DEF StartCall, ResetLastError
    <3>2. master \in Nodes /\ conn[master] # "closed"
      BY <2>1 DEF UsableMaster, IInv, StateOK
    <3>3. wire[master] = <<>> /\ unread[master] = <<>>
      BY <1>1, <3>2, OutsideQuiet DEF Quiet, Clean
    <3>4. QED BY <3>1, <3>3 DEF ToldInv
  <2>2. CASE ~UsableMaster
    BY <1>3, <2>2, NoCallTold DEF StartCall, Return
  <2>3. QED BY <2>1, <2>2
<1>4. QED BY <1>2, <1>3 DEF AppStep

\* A code that is not zero is followed by the message of the same answer.
LEMMA ReadRcTold ==
    ASSUME Disciplined, IInv, SyncInv, ErrorInv, ToldInv, ReadRc
    PROVE  ToldInv'
<1>1. PICK v \in {0, 1} : /\ Take({"rc"}, v) /\ ReadOn(v) /\ UNCHANGED lastError
                          /\ rc' = IF v = 0 THEN "OK" ELSE "SERVER"
  BY DEF ReadRc
<1>2. expect = <<Code(Command)>>
  BY ReadRcKeepsKinds
<1>3. Expected = Code(Command) /\ Tail(expect) = <<>> /\ Expected.kind = "rc"
  BY <1>2 DEF Expected, Code, Field
<1>4. UNCHANGED <<pc, call, quiet, told>>
  BY <1>1, <1>3 DEF ReadOn
<1>5. CASE v = 0
  BY <1>1, <1>4, <1>5 DEF ToldInv
<1>6. CASE v # 0 /\ call \in Calls
  <2>1. Command = call /\ call \in CallNames
    BY <1>6, CallsAssumption, CallNamesAre DEF Command
  <2>2. Arrives = Code(call)
    BY <1>1, <1>3, <2>1, InStep DEF AnswersMatch, Take, Open
  <2>3. call # "who_master"
    BY <1>1, <1>6, <2>2 DEF Take, Sendable, Disciplined
  <2>4. Reads(Expected, v) = <<Field("message", call)>>
    BY <1>3, <1>6, <2>1, <2>3, MessageRead DEF Reads, Follows, Code, Field
  <2>5. expect' = <<Field("message", call)>>
    BY <1>1, <1>3, <2>4, NothingFollows, Zenon DEF ReadOn
  <2>6. QED BY <1>1, <1>4, <2>5 DEF ToldInv
<1>7. CASE call \notin Calls
  BY <1>4, <1>7 DEF ToldInv
<1>8. QED BY <1>5, <1>6, <1>7

\* The other fields: those of a result say nothing about the message.
LEMMA ReadTold ==
    ASSUME Disciplined, IInv, SyncInv, ErrorInv, ToldInv,
           ReadFixed \/ ReadOption \/ ReadLength \/ ReadMessage \/ ReadBytes \/ ReadCount
    PROVE  ToldInv'
<1>1. PICK kinds, v : Take(kinds, v) /\ ReadOn(v)
  BY DEF ReadFixed, ReadOption, ReadLength, ReadMessage, ReadBytes, ReadCount
<1>2. /\ UNCHANGED <<pc, call, quiet, rc>> /\ pc = "read" /\ expect # <<>>
      /\ told' = IF Expected.kind = "message" THEN Arrives ELSE told
      /\ expect' = Reads(Expected, v) \o Tail(expect)
  BY <1>1 DEF ReadFixed, ReadOption, ReadLength, ReadMessage, ReadBytes, ReadCount,
              ReadOn, Take
<1> SUFFICES ASSUME call \in Calls PROVE ToldInv'
  BY <1>2 DEF ToldInv
<1>3. CASE rc = "OK"
  <2>1. UNCHANGED lastError /\ lastError = "none"
    BY <1>3, StoredAfterCode
       DEF ErrorInv, ReadFixed, ReadOption, ReadLength, ReadCount
  <2>2. QED BY <1>2, <1>3, <2>1 DEF ToldInv
<1>4. CASE rc = "SERVER"
  <2>1. CASE expect = <<Field("message", call)>>
    <3>1. Expected = Field("message", call) /\ Tail(expect) = <<>>
      BY <2>1 DEF Expected
    <3>2. Arrives = Field("message", call)
      BY <1>1, <3>1, InStep DEF AnswersMatch, Take, Open
    <3>3. told' = Field("message", call)
      BY <1>2, <3>1, <3>2 DEF Field
    <3>4. Reads(Expected, v) \in {<<Field("bytes", call)>>, <<>>}
      BY <3>1 DEF Reads, Follows, Field
    <3>5. expect' \in {<<Field("bytes", call)>>, <<>>}
      BY <1>2, <3>1, <3>4, NothingFollows
    <3>6. QED BY <1>2, <3>3, <3>5 DEF ToldInv
  <2>2. CASE expect = <<Field("bytes", call)>> /\ told = Field("message", call)
    <3>1. Expected = Field("bytes", call) /\ Tail(expect) = <<>>
      BY <2>2 DEF Expected
    <3>2. Reads(Expected, v) = <<>>
      BY <3>1 DEF Reads, Follows, Field
    <3>3. told' = Field("message", call) /\ expect' = <<>>
      BY <1>2, <2>2, <3>1, <3>2 DEF Field
    <3>4. QED BY <1>2, <3>3 DEF ToldInv
  <2>3. QED BY <1>2, <1>4, <2>1, <2>2 DEF ToldInv
<1>5. QED BY <1>2, <1>3, <1>4 DEF ErrorInv, ReadInv

LEMMA ToldInvKept ==
    ASSUME Disciplined, IInv, SyncInv, ErrorInv, ToldInv, [Next]_vars
    PROVE  ToldInv'
<1>1. CASE ServerStep \/ UNCHANGED vars
  <2>1. UNCHANGED <<call, quiet, lastError, told, pc, rc, expect>>
    BY <1>1 DEF ServerStep, vars, control, Answer, AnswerTorn, ChangeBelief, Crash, Restart
  <2>2. QED BY <2>1 DEF ToldInv
<1>2. CASE AppStep
  BY <1>2, AppStepTold
<1>3. CASE AlreadyConnected \/ Connect \/ WritePrologue \/ Build \/ Write
  <2>1. UNCHANGED <<call, quiet, lastError, told, rc>> /\ rc = "OK"
    BY <1>3 DEF AlreadyConnected, Connect, WritePrologue, Build, Write, ErrorInv
  <2>2. QED BY <2>1 DEF ToldInv
<1>4. CASE ConnectFails \/ PrologueFails \/ WriteFails \/ ReadFails \/ ReturnAnswer
           \/ WhoMasterRefused \/ IsMaster \/ ProbeUnknown \/ ProbeOther \/ VerifyOther
  <2>1. call' \in {NULL, "connect_master"}
    BY <1>4 DEF ConnectFails, PrologueFails, WriteFails, ReadFails, ReturnAnswer,
                WhoMasterRefused, IsMaster, ProbeUnknown, ProbeOther, VerifyOther,
                Fail, NextNode, Visit, Return
  <2>2. QED BY <2>1, NoCallTold
<1>5. ~(PrologueNoMemory \/ BuildNoMemory \/ KeysNoMemory \/ StringNoMemory
         \/ ListNoMemory \/ PrependNoMemory \/ OwnedNoMemory)
  BY DEF Disciplined, PrologueNoMemory, BuildNoMemory, KeysNoMemory, StringNoMemory,
         ListNoMemory, PrependNoMemory, OwnedNoMemory
<1>6. QED
  BY <1>1, <1>2, <1>3, <1>4, <1>5, ReadRcTold, ReadTold DEF Next, ClientStep

\* The message that last_error holds when a call of a disciplined client returns is
\* the one of the server's answer to this call's command, read in this call on a
\* connection that carried nothing else (_arakoon_cluster_reset_last_error,
\* HANDLE_ERROR), whatever crashes and times out.
THEOREM ErrorIsOfThisCall ==
    ASSUME Disciplined
    PROVE  Spec => ErrorOfThisCall
<1> DEFINE Good == OrdinaryCall /\ pc' = "idle" /\ lastError' # "none" =>
                       rc' = "SERVER" /\ quiet /\ told = Field("message", call)
<1>1. Init => ErrorInv /\ ToldInv
  BY NodesAssumption, CallsAssumption DEF Init, ErrorInv, ToldInv
<1>2. IInv /\ SyncInv /\ ErrorInv /\ ToldInv /\ [Next]_vars => (ErrorInv /\ ToldInv)'
  BY ErrorInvKept, ToldInvKept
<1>3. IInv /\ ErrorInv /\ ToldInv /\ [Next]_vars => [Good]_vars
  <2>1. ASSUME IInv, ErrorInv, ToldInv, [Next]_vars, call \in Calls, pc' = "idle",
               lastError' # "none"
        PROVE  rc' = "SERVER" /\ quiet /\ told = Field("message", call)
    <3>1. rc' = "SERVER" /\ lastError # "none"
      BY <2>1, ErrorHasCode
    <3>2. QED BY <2>1, <3>1 DEF ToldInv
  <2>2. QED BY <2>1 DEF OrdinaryCall
<1>4. QED
  BY <1>1, <1>2, <1>3, Invariant, SyncInvariant, PTL DEF Spec, ErrorOfThisCall

-----------------------------------------------------------------------------
(* Client implements Session *)

Usable == master # NULL /\ Open(master)

Shown == IF pc = "idle" THEN rc ELSE "none"

\* The variables of the session do not move.
Unseen == UNCHANGED <<call, Usable, Shown>>

LEMMA UnseenStutters == Unseen => UNCHANGED Abstract!vars
BY Zenon DEF Unseen, Usable, Shown, Abstract!vars

LEMMA InitMaps == Init => Abstract!Init
BY DEF Init, Abstract!Init

\* An open connection may lose its peer, and stays open.
LEMMA ServerStepMaps ==
    ASSUME IInv, ServerStep
    PROVE  UNCHANGED Abstract!vars
<1>1. UNCHANGED <<call, pc, rc, master>>
  BY DEF ServerStep, Answer, AnswerTorn, ChangeBelief, Crash, Restart, control, links
<1>2. \A n \in Nodes : (conn'[n] # "closed") = (conn[n] # "closed")
  BY DEF ServerStep, Answer, AnswerTorn, ChangeBelief, Crash, Restart, control, links,
         IInv, StateOK
<1>3. Unseen
  BY <1>1, <1>2, Zenon DEF Unseen, Usable, Shown, Open, IInv, StateOK
<1>4. QED
  BY <1>3, UnseenStutters

LEMMA AppStepMaps ==
    ASSUME IInv, AppStep
    PROVE  Abstract!Next
<1>1. pc = "idle" /\ call = NULL /\ UNCHANGED <<master, conn>>
  BY DEF AppStep, AddNode, StartConnectMaster, StartCall, links, IInv, CallInv
<1>2. UNCHANGED Usable
  BY <1>1 DEF Usable, Open
<1>3. CASE \E n \in Nodes : AddNode(n)
  <2>1. pc' = "idle" /\ call' = call /\ rc' \in {"OK", "EINVAL"}
    BY <1>1, <1>3 DEF AddNode
  <2>2. Abstract!AddNode
    BY <1>1, <1>2, <2>1 DEF Abstract!AddNode, Usable
  <2>3. QED
    BY <2>2 DEF Abstract!Next
<1>4. CASE StartConnectMaster /\ nodes = NULL
  <2>1. pc' = "idle" /\ call' = NULL /\ rc' = "NETWORK_ERROR"
    BY <1>4 DEF StartConnectMaster, Return
  <2>2. Abstract!ConnectNowhere
    BY <1>1, <1>2, <2>1 DEF Abstract!ConnectNowhere, Usable
  <2>3. QED
    BY <2>2 DEF Abstract!Next
<1>5. CASE StartConnectMaster /\ nodes # NULL
  <2>1. pc' = "connect" /\ call' = "connect_master"
    BY <1>5 DEF StartConnectMaster, Visit
  <2>2. Abstract!BeginConnect
    BY <1>1, <1>2, <2>1 DEF Abstract!BeginConnect, Usable
  <2>3. QED
    BY <2>2 DEF Abstract!Next
<1>6. ASSUME NEW c \in Calls, StartCall(c) PROVE Abstract!Next
  <2>1. CASE UsableMaster
    <3>1. pc' = "build" /\ call' = c
      BY <1>6, <2>1 DEF StartCall
    <3>2. Abstract!Begin(c)
      BY <1>1, <1>2, <2>1, <3>1 DEF Abstract!Begin, Usable, UsableMaster, Open
    <3>3. QED
      BY <3>2 DEF Abstract!Next
  <2>2. CASE ~UsableMaster
    <3>1. pc' = "idle" /\ call' = NULL /\ rc' = "NOT_CONNECTED"
      BY <1>6, <2>2 DEF StartCall, Return
    <3>2. Abstract!Refuse
      BY <1>1, <1>2, <2>2, <3>1 DEF Abstract!Refuse, Usable, UsableMaster, Open
    <3>3. QED
      BY <3>2 DEF Abstract!Next
  <2>3. QED
    BY <2>1, <2>2
<1>7. QED
  BY <1>3, <1>4, <1>5, <1>6 DEF AppStep

-----------------------------------------------------------------------------
(* The steps of a call *)

\* An ordinary call returns with an outcome that the session allows, ...
LEMMA Ends ==
    ASSUME NEW c \in Calls, call = c, Return(rc'),
           Abstract!Outcome(rc', Usable') \in Abstract!Outcomes(c)
    PROVE  Abstract!Next
<1>1. call' = NULL /\ Shown' = rc'
  BY DEF Return, Shown
<1>2. Abstract!End(Abstract!Outcomes(c))
  BY <1>1 DEF Abstract!End, Abstract!Outcome, Shown, Usable
<1>3. QED
  BY <1>2 DEF Abstract!Finish, Abstract!Next

\* ... and until then the master and its connection stay.
LEMMA OrdinaryStepMaps ==
    ASSUME IInv, ClientStep, call \in Calls
    PROVE  Abstract!Next \/ UNCHANGED Abstract!vars
<1>1. /\ call # "connect_master" /\ call # NULL /\ pc # "idle"
      /\ phase = "none" /\ cur = master /\ master \in Nodes
      /\ pc \notin {"connect", "prologue"} /\ conn[master] # "closed"
      /\ rc \in {"OK", "SERVER"} /\ Command = call
  BY NodesAssumption, CallsAssumption, CallNamesAre
     DEF IInv, CallInv, ControlOK, OpenInv, Command
<1>2. Usable
  BY <1>1, NodesAssumption DEF Usable, Open
<1>3. \A r : Fail(r) <=> Return(r)
  BY <1>1 DEF Fail
<1>4. ASSUME UNCHANGED <<call, master, conn>>, pc' # "idle"
      PROVE  UNCHANGED Abstract!vars
  BY <1>1, <1>4, UnseenStutters DEF Unseen, Usable, Shown, Open
<1>5. ASSUME NEW r, Return(r), UNCHANGED <<master, conn>>, r \in {"OK", "SERVER", "ENOMEM"}
      PROVE  Abstract!Next
  <2>1. rc' = r /\ Usable' = TRUE
    BY <1>2, <1>5 DEF Return, Usable, Open
  <2>2. Abstract!Outcome(r, TRUE) \in Abstract!Outcomes(call)
    BY <1>5 DEF Abstract!Outcomes
  <2>3. QED
    BY <1>5, <2>1, <2>2, Ends
<1>6. ASSUME NEW r, Return(r), Disconnect(cur), UNCHANGED master, r \in {"SERVER", "IO"}
      PROVE  Abstract!Next
  <2>1. rc' = r /\ Usable' = FALSE
    BY <1>1, <1>6 DEF Return, Usable, Open, Disconnect, IInv, StateOK
  <2>2. Abstract!Outcome(r, FALSE) \in Abstract!Outcomes(call)
    BY <1>6 DEF Abstract!Outcomes
  <2>3. QED
    BY <1>6, <2>1, <2>2, Ends
<1>7. CASE WriteFails
  <2>1. Return("IO") /\ UNCHANGED master
    BY <1>3, <1>7 DEF WriteFails
  <2>2. CASE Shape[call].closes
    BY <1>1, <1>6, <1>7, <2>1, <2>2 DEF WriteFails
  <2>3. CASE ~Shape[call].closes
    <3>1. Usable' = TRUE /\ rc' = "IO"
      BY <1>1, <1>2, <1>7, <2>1, <2>3 DEF WriteFails, Return, Usable, Open
    <3>2. Abstract!Outcome("IO", TRUE) \in Abstract!Outcomes(call)
      BY <2>3 DEF Abstract!Outcomes
    <3>3. QED
      BY <2>1, <3>1, <3>2, Ends
  <2>4. QED
    BY <2>2, <2>3
<1>8. CASE ReadFails
  BY <1>1, <1>3, <1>6, <1>8 DEF ReadFails, ReadFailure
<1>9. CASE BuildNoMemory \/ StringNoMemory \/ ListNoMemory \/ PrependNoMemory
           \/ OwnedNoMemory \/ ReturnAnswer
  <2>1. UNCHANGED <<master, conn>>
    BY <1>9 DEF BuildNoMemory, StringNoMemory, ListNoMemory, PrependNoMemory, Take,
                OwnedNoMemory, ReturnAnswer, links
  <2>2. \E r \in {"OK", "SERVER", "ENOMEM"} : Return(r)
    BY <1>1, <1>3, <1>9
       DEF BuildNoMemory, StringNoMemory, ListNoMemory, PrependNoMemory,
           OwnedNoMemory, ReturnAnswer, ReadFailure
  <2>3. QED
    BY <1>5, <2>1, <2>2
<1>10. CASE Build \/ Write \/ KeysNoMemory \/ ReadRc \/ ReadFixed \/ ReadOption
            \/ ReadLength \/ ReadMessage \/ ReadBytes \/ ReadCount
  <2>1. UNCHANGED <<call, master, conn>> /\ pc' # "idle"
    BY <1>1, <1>10 DEF Build, Write, KeysNoMemory, ReadRc, ReadFixed, ReadOption,
       ReadLength, ReadMessage, ReadBytes, ReadCount, Take, ReadOn, links
  <2>2. QED
    BY <1>4, <2>1
<1>11. QED
  BY <1>1, <1>7, <1>8, <1>9, <1>10
     DEF ClientStep, AlreadyConnected, Connect, ConnectFails, PrologueNoMemory,
         WritePrologue, PrologueFails, WhoMasterRefused, IsMaster, ProbeUnknown,
         ProbeOther, VerifyOther, Learns

-----------------------------------------------------------------------------
(* The steps of connect_master *)

\* Each step of connect_master goes on with it, or returns one of its results.
LEMMA GoesOn ==
    ASSUME ClientStep, call = "connect_master"
    PROVE  \/ call' = "connect_master" /\ pc # "idle" /\ pc' # "idle"
           \/ \E r \in Abstract!ConnectErrors \union {"OK"} : Return(r)
<1>1. \A r : Fail(r) => \/ call' = "connect_master" /\ pc' # "idle"
                        \/ Return("NETWORK_ERROR") \/ Return(r)
  BY DEF Fail, NextNode, Visit
<1>2. CASE ConnectFails \/ PrologueNoMemory \/ PrologueFails \/ BuildNoMemory
           \/ WriteFails \/ ReadFails \/ StringNoMemory \/ ListNoMemory
           \/ PrependNoMemory \/ OwnedNoMemory \/ WhoMasterRefused
  <2>1. pc # "idle"
    BY <1>2 DEF ConnectFails, PrologueNoMemory, PrologueFails, BuildNoMemory,
       WriteFails, ReadFails, StringNoMemory, ListNoMemory, PrependNoMemory, Take,
       OwnedNoMemory, WhoMasterRefused, Answered
  <2>2. \E r \in {"IO", "ENOMEM", "SERVER"} : Fail(r)
    BY <1>2 DEF ConnectFails, PrologueNoMemory, PrologueFails, BuildNoMemory,
       WriteFails, ReadFails, StringNoMemory, ListNoMemory, PrependNoMemory,
       OwnedNoMemory, WhoMasterRefused, ReadFailure
  <2>3. QED
    BY <1>1, <2>1, <2>2 DEF Abstract!ConnectErrors
<1>3. CASE ReturnAnswer
  BY <1>3 DEF ReturnAnswer
<1>4. CASE IsMaster \/ ProbeUnknown \/ ProbeOther \/ VerifyOther
  BY <1>4 DEF IsMaster, ProbeUnknown, ProbeOther, VerifyOther, NextNode, Visit, Learns,
              Answered, Abstract!ConnectErrors
<1>5. CASE AlreadyConnected \/ Connect \/ WritePrologue \/ Build \/ Write
           \/ KeysNoMemory \/ ReadRc \/ ReadFixed \/ ReadOption \/ ReadLength \/ ReadMessage \/ ReadBytes
           \/ ReadCount
  BY <1>5 DEF AlreadyConnected, Connect, WritePrologue, Build, Write, KeysNoMemory, ReadRc,
              ReadFixed, ReadOption, ReadLength, ReadMessage, ReadBytes, ReadCount, Take, ReadOn
<1>6. QED
  BY <1>2, <1>3, <1>4, <1>5 DEF ClientStep

LEMMA ConnectMasterStepMaps ==
    ASSUME IInv, ClientStep, call = "connect_master"
    PROVE  Abstract!Next
<1>1. CASE call' = "connect_master" /\ pc # "idle" /\ pc' # "idle"
  <2>1. Usable' \in BOOLEAN
    BY Zenon DEF Usable
  <2>2. Abstract!ConnectOn
    BY <1>1, <2>1 DEF Abstract!ConnectOn, Usable
  <2>3. QED
    BY <2>2 DEF Abstract!Next
<1>2. ASSUME NEW r \in Abstract!ConnectErrors \union {"OK"}, Return(r)
      PROVE  Abstract!Next
  <2>1. call' = NULL /\ pc' = "idle" /\ rc' = r
    BY <1>2 DEF Return
  <2>2. Usable' \in BOOLEAN
    BY Zenon DEF Usable
  <2>3. r = "OK" => Usable' = TRUE
    BY <2>1, MasterClaimedStep DEF Next, Usable, UsableMaster, Open
  <2>4. Abstract!Outcome(r, Usable') \in Abstract!ConnectOutcomes
    BY <2>2, <2>3 DEF Abstract!ConnectOutcomes, Abstract!Outcome
  <2>5. Abstract!FinishConnect
    BY <2>1, <2>4 DEF Abstract!FinishConnect, Abstract!End, Abstract!Outcome, Usable
  <2>6. QED
    BY <2>5 DEF Abstract!Next
<1>3. QED
  BY <1>1, <1>2, GoesOn

\* The initial states are initial states of a session, and every step is a step
\* of the session or changes nothing of it.
THEOREM Implements == Spec => ImplementsSession
<1>1. IInv /\ [Next]_vars => [Abstract!Next]_Abstract!vars
  <2> SUFFICES ASSUME IInv, [Next]_vars
               PROVE  [Abstract!Next]_Abstract!vars
    OBVIOUS
  <2>1. CASE ClientStep
    <3>1. call \in Calls \/ call = "connect_master"
      BY <2>1 DEF IInv, CallInv, ClientStep,
         AlreadyConnected, Connect, ConnectFails, PrologueNoMemory, WritePrologue,
         PrologueFails, Build, BuildNoMemory, Write, KeysNoMemory, WriteFails, ReadRc,
         ReadFixed, ReadOption, ReadLength, ReadMessage, ReadBytes, ReadCount, ReadFails,
         StringNoMemory, ListNoMemory, PrependNoMemory, Take, Answered,
         ReturnAnswer, OwnedNoMemory, WhoMasterRefused, Learns, IsMaster,
         ProbeUnknown, ProbeOther, VerifyOther
    <3>2. QED
      BY <2>1, <3>1, OrdinaryStepMaps, ConnectMasterStepMaps
  <2>2. CASE AppStep
    BY <2>2, AppStepMaps
  <2>3. CASE ServerStep
    BY <2>3, ServerStepMaps
  <2>4. CASE UNCHANGED vars
    <3>1. Unseen
      BY <2>4 DEF vars, control, links, Unseen, Usable, Shown, Open
    <3>2. QED
      BY <3>1, UnseenStutters
  <2>5. QED
    BY <2>1, <2>2, <2>3, <2>4 DEF Next
<1>2. QED
  BY <1>1, InitMaps, Invariant, PTL DEF Spec, ImplementsSession, Abstract!Spec

=============================================================================
