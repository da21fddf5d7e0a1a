---------------------------- MODULE ClientProofs ----------------------------
(***************************************************************************)
(* What holds of Client for every value of its constants: any number of    *)
(* nodes, any calls, any sizes of answers.                                 *)
(***************************************************************************)
EXTENDS Client, SequenceTheorems, DataLemmas

-----------------------------------------------------------------------------
(* The shapes of the calls and the fields of their answers *)

LEMMA CallNamesAre ==
    CallNames = {"hello", "who_master", "expect_progress_possible", "exists", "get",
                 "set", "multi_get", "delete", "range", "range_entries", "prefix",
                 "test_and_set", "sequence", "synced_sequence", "assert",
                 "assert_exists", "rev_range_entries", "delete_prefix", "version",
                 "user_function"}
BY DEF CallNames, Shape

LEMMA TornIsNoCall == Torn \notin CallNames
BY CallNamesAre DEF Torn

-----------------------------------------------------------------------------
(* What the answers are made of *)

Replies == {<<>>, <<"bool">>, <<"uint32">>, <<"string">>, <<"option">>, <<"list">>,
            <<"pairs">>, <<"int32", "int32", "int32", "string">>}

PlainShapes == {ExpectProgressPossible, Exists, Get, Set, Delete, RangeOfKeys,
                RangeEntries, Prefix, TestAndSet, SequenceImpl, AssertValue,
                AssertExists, RevRangeEntries, DeletePrefix, UserFunction}

ShapeOK(s) ==
    /\ s.writes \subseteq Nat \ {0}
    /\ s.closes \in BOOLEAN
    /\ s.reply \in Seq(ResultKinds)

LEMMA ShapeIs ==
    ASSUME NEW c \in CallNames
    PROVE  \/ Shape[c] \in PlainShapes \union {Hello, MultiGet, Version}
           \/ c = "who_master" /\ Shape[c] = WhoMaster
BY CallNamesAre DEF Shape, PlainShapes

LEMMA PlainShapesArePlain ==
    \A s \in PlainShapes : \E r \in Replies : s = Plain(r)
BY DEF PlainShapes, Replies, ExpectProgressPossible, Exists, Get, Set, Delete,
       RangeOfKeys, RangeHelper, RangeEntries, Prefix, TestAndSet, SequenceImpl,
       AssertValue, AssertExists, RevRangeEntries, DeletePrefix, UserFunction

LEMMA RepliesType == \A r \in Replies : r \in Seq(ResultKinds)
<1>1. /\ <<>> \in Seq(ResultKinds)
      /\ <<"bool">> \in Seq(ResultKinds)
      /\ <<"uint32">> \in Seq(ResultKinds)
      /\ <<"string">> \in Seq(ResultKinds)
      /\ <<"option">> \in Seq(ResultKinds)
      /\ <<"list">> \in Seq(ResultKinds)
      /\ <<"pairs">> \in Seq(ResultKinds)
      /\ <<"int32", "int32", "int32", "string">> \in Seq(ResultKinds)
  BY DEF ResultKinds
<1>2. QED BY <1>1, Zenon DEF Replies

\* Every command takes at least one write, and every answer is a sequence of results.
LEMMA ShapeType ==
    ASSUME NEW c \in CallNames
    PROVE  ShapeOK(Shape[c])
<1>1. \A r \in Replies : ShapeOK(Plain(r))
  BY RepliesType DEF ShapeOK, Plain
<1>2. \A s \in PlainShapes : ShapeOK(s)
  BY <1>1, PlainShapesArePlain, Zenon
<1>3. ShapeOK(Hello) /\ ShapeOK(WhoMaster) /\ ShapeOK(Version)
  BY DEF ShapeOK, Hello, WhoMaster, Version, Plain, ResultKinds
<1>4. ShapeOK(MultiGet)
  BY MaxKeysAssumption DEF ShapeOK, MultiGet, Plain, ResultKinds
<1>5. QED BY <1>2, <1>3, <1>4, ShapeIs, Zenon

\* who_master alone leaves the message of an error unread.
LEMMA MessageRead ==
    ASSUME NEW c \in CallNames, c # "who_master"
    PROVE  Shape[c].message
<1>1. \A r : Plain(r).message = TRUE
  BY DEF Plain
<1>2. \A s \in PlainShapes : s.message = TRUE
  BY <1>1, PlainShapesArePlain, Zenon
<1>3. \A s \in {Hello, MultiGet, Version} : s.message = TRUE
  BY DEF Hello, MultiGet, Version, Plain
<1>4. QED BY <1>2, <1>3, ShapeIs, Zenon

-----------------------------------------------------------------------------
(* Sequences of fields *)

LEMMA IntoSeq ==
    ASSUME NEW S, NEW n \in Nat, NEW f \in [1 .. n -> S]
    PROVE  f \in Seq(S)
<1>1. f \in UNION {[1 .. m -> S] : m \in Nat} OBVIOUS
<1>2. QED BY <1>1, SeqDef, Zenon

FieldsOf(C) == [kind : Kinds, of : C]

LEMMA FieldType ==
    ASSUME NEW C, NEW c \in C, NEW k \in Kinds
    PROVE  Field(k, c) \in FieldsOf(C)
BY DEF Field, FieldsOf

LEMMA PayloadType ==
    ASSUME NEW C \in SUBSET Commands, NEW c \in C
    PROVE  Payload(c) \in Seq(FieldsOf(C))
<1>1. CASE c = Torn
  BY <1>1 DEF Payload
<1>2. CASE c # Torn
  <2> DEFINE reply == Shape[c].reply
  <2>1. c \in CallNames BY <1>2 DEF Commands
  <2>2. reply \in Seq(ResultKinds) BY <2>1, ShapeType DEF ShapeOK
  <2>3. Payload(c) = [i \in 1 .. Len(reply) |-> Field(reply[i], c)]
    BY <1>2 DEF Payload
  <2> HIDE DEF reply
  <2>4. \A i \in 1 .. Len(reply) : reply[i] \in Kinds
    BY <2>2 DEF Kinds
  <2>5. Payload(c) \in [1 .. Len(reply) -> FieldsOf(C)]
    BY <2>3, <2>4, FieldType
  <2>6. QED BY <2>2, <2>5, IntoSeq
<1>3. QED BY <1>1, <1>2

LEMMA StringsType ==
    ASSUME NEW C, NEW c \in C, NEW n \in Nat
    PROVE  Strings(n, c) \in Seq(FieldsOf(C))
<1>1. Field("string", c) \in FieldsOf(C)
  BY FieldType DEF Kinds, ResultKinds
<1>2. Strings(n, c) \in [1 .. n -> FieldsOf(C)]
  BY <1>1 DEF Strings
<1>3. QED BY <1>2, IntoSeq

LEMMA FollowsType ==
    ASSUME NEW C \in SUBSET Commands, NEW f \in FieldsOf(C), NEW v \in Nat
    PROVE  Follows(f, v) \in Seq(FieldsOf(C))
<1>1. f.of \in C BY DEF FieldsOf
<1>2. /\ <<>> \in Seq(FieldsOf(C))
      /\ <<Field("message", f.of)>> \in Seq(FieldsOf(C))
      /\ <<Field("bytes", f.of)>> \in Seq(FieldsOf(C))
      /\ <<Field("string", f.of)>> \in Seq(FieldsOf(C))
  BY <1>1, FieldType DEF Kinds, ResultKinds
<1>3. Payload(f.of) \in Seq(FieldsOf(C)) BY <1>1, PayloadType
<1>4. /\ Strings(v, f.of) \in Seq(FieldsOf(C))
      /\ Strings(2 * v, f.of) \in Seq(FieldsOf(C))
  BY <1>1, StringsType
<1>5. QED BY <1>2, <1>3, <1>4 DEF Follows

LEMMA ReadsType ==
    ASSUME NEW f \in FieldsOf(CallNames), NEW v \in Nat
    PROVE  Reads(f, v) \in Seq(FieldsOf(CallNames))
BY FollowsType DEF Reads, Commands

LEMMA ReadsFollows ==
    ASSUME NEW f \in FieldsOf(CallNames), NEW v \in Nat,
           f = Code("who_master") => v = 0
    PROVE  Reads(f, v) = Follows(f, v)
<1>1. f = Field(f.kind, f.of) /\ f.of \in CallNames BY DEF FieldsOf, Field
<1>2. CASE f.kind = "rc" /\ v # 0
  BY <1>1, <1>2, MessageRead DEF Reads, Code
<1>3. CASE ~(f.kind = "rc" /\ v # 0)
  BY <1>3 DEF Reads
<1>4. QED BY <1>2, <1>3

-----------------------------------------------------------------------------
(* The invariant *)

Wanted == FieldsOf(CallNames)

\* The parts of TypeOK: what outlives a call, and the call in progress.
StateOK ==
    /\ nodes \in Nodes \union {NULL}
    /\ next \in [Nodes -> Nodes \union {NULL}]
    /\ attached \subseteq Nodes
    /\ conn \in [Nodes -> {"closed", "live", "gone"}]
    /\ greeted \in [Nodes -> BOOLEAN]
    /\ wire \in [Nodes -> Seq(Commands)]
    /\ unread \in [Nodes -> Seq(FieldsOf(Commands))]
    /\ up \in [Nodes -> BOOLEAN]
    /\ belief \in [Nodes -> Names \union {NULL}]
    /\ master \in Nodes \union {NULL}
    /\ lastError \in {"none", "heap", "zero"}

ControlOK ==
    /\ pc \in {"idle", "connect", "prologue", "build", "write", "read"}
    /\ call \in Calls \union {"connect_master", NULL}
    /\ cur \in Nodes \union {NULL}
    /\ phase \in {"none", "probe", "verify"}
    /\ left \in Nat
    /\ expect \in Seq(Wanted)
    /\ named \in Names \union {NULL}
    /\ claimed \subseteq Nodes
    /\ told \in FieldsOf(Commands) \union {NULL}
    /\ quiet \in BOOLEAN
    /\ rc \in Results

\* Where a call can be, and what it knows there.
CallInv ==
    /\ pc = "idle" => call = NULL /\ phase = "none"
    /\ pc # "idle" => /\ cur \in Nodes
                      /\ call \in Calls \union {"connect_master"}
                      /\ rc \in {"OK", "SERVER"}
    /\ pc \in {"connect", "prologue"} => call = "connect_master"
    /\ pc = "write" => left > 0
    /\ call \in Calls => phase = "none" /\ cur = master
    /\ call = "connect_master" /\ named = cur => cur \in claimed

\* A call that is past the connect talks on an open connection.
OpenInv == pc \in {"prologue", "build", "write", "read"} => conn[cur] # "closed"

IInv == StateOK /\ ControlOK /\ CallInv /\ OpenInv

LEMMA TypeOKParts == TypeOK <=> StateOK /\ ControlOK
BY DEF TypeOK, StateOK, ControlOK, Wanted, Fields, FieldsOf

-----------------------------------------------------------------------------
(***************************************************************************)
(* The ways a call goes on: it returns, turns to another node, or fails.   *)
(***************************************************************************)
CallKept == ControlOK' /\ CallInv' /\ OpenInv'

LEMMA ReturnKeeps ==
    ASSUME NEW r \in Results, Return(r)
    PROVE  CallKept
BY NodesAssumption, CallsAssumption
   DEF Return, CallKept, ControlOK, CallInv, OpenInv, Wanted

LEMMA VisitKeeps ==
    ASSUME ControlOK, NEW n \in Nodes, NEW p \in {"probe", "verify"}, Visit(n, p)
    PROVE  CallKept
<1>1. "connect_master" \notin Calls
  BY CallsAssumption, CallNamesAre
<1>2. QED
  BY <1>1, NodesAssumption
     DEF Visit, CallKept, ControlOK, CallInv, OpenInv, Wanted, Results

LEMMA NextNodeKeeps ==
    ASSUME StateOK, ControlOK, cur \in Nodes, NextNode
    PROVE  CallKept
<1>1. CASE next[cur] # NULL
  <2>1. next[cur] \in Nodes BY <1>1 DEF StateOK
  <2>2. Visit(next[cur], "probe") BY <1>1 DEF NextNode
  <2>3. QED BY <2>1, <2>2, VisitKeeps
<1>2. CASE next[cur] = NULL
  BY <1>2, ReturnKeeps DEF NextNode, Results
<1>3. QED BY <1>1, <1>2

LEMMA FailKeeps ==
    ASSUME StateOK, ControlOK, cur \in Nodes, NEW r \in Results, Fail(r)
    PROVE  CallKept
BY NextNodeKeeps, ReturnKeeps DEF Fail

LEMMA DisconnectKeeps ==
    ASSUME StateOK, NEW n \in Nodes, Disconnect(n)
    PROVE  /\ conn' \in [Nodes -> {"closed", "live", "gone"}]
           /\ greeted' \in [Nodes -> BOOLEAN]
           /\ wire' \in [Nodes -> Seq(Commands)]
           /\ unread' \in [Nodes -> Seq(FieldsOf(Commands))]
BY DEF StateOK, Disconnect

LEMMA ReadFailureType ==
    ASSUME NEW r \in Results
    PROVE  ReadFailure(r) \in Results
BY DEF ReadFailure, Results

LEMMA CommandType ==
    ASSUME call \in Calls \union {"connect_master"}
    PROVE  Command \in CallNames
BY CallsAssumption, CallNamesAre DEF Command

-----------------------------------------------------------------------------
(* A read *)

\* What a successful read leaves in the buffer and to be read.
LEMMA TakeType ==
    ASSUME StateOK, ControlOK, CallInv, NEW kinds, NEW v, Take(kinds, v)
    PROVE  /\ v \in Nat
           /\ unread' \in [Nodes -> Seq(FieldsOf(Commands))]
           /\ Reads(Expected, v) \o Tail(expect) \in Seq(Wanted)
           /\ Arrives \in FieldsOf(Commands)
<1>1. cur \in Nodes /\ expect \in Seq(Wanted) /\ expect # <<>>
  BY DEF Take, CallInv, ControlOK
<1>2. v \in Nat
  BY MaxItemsAssumption DEF Take, Values
<1>3. Expected \in Wanted /\ Tail(expect) \in Seq(Wanted)
  BY <1>1 DEF Expected
<1>4. Reads(Expected, v) \in Seq(Wanted)
  BY <1>2, <1>3, ReadsType DEF Wanted
<1>5. unread[cur] \in Seq(FieldsOf(Commands)) /\ unread[cur] # <<>>
  BY <1>1 DEF StateOK, Take
<1>6. /\ Head(unread[cur]) \in FieldsOf(Commands)
      /\ Tail(unread[cur]) \in Seq(FieldsOf(Commands))
  BY <1>5
<1>7. Follows(Head(unread[cur]), v) \in Seq(FieldsOf(Commands))
  BY <1>2, <1>6, FollowsType
<1>8. Follows(Head(unread[cur]), v) \o Tail(unread[cur]) \in Seq(FieldsOf(Commands))
  BY <1>6, <1>7, ConcatProperties
<1>9. unread' = [unread EXCEPT ![cur] = Follows(Head(unread[cur]), v) \o Tail(unread[cur])]
  BY DEF Take
<1>10. QED
  BY <1>1, <1>2, <1>3, <1>4, <1>6, <1>8, <1>9, ConcatProperties DEF StateOK, Arrives

-----------------------------------------------------------------------------
(***************************************************************************)
(* The invariant holds initially and is kept by every step.                *)
(***************************************************************************)
LEMMA InitInv == Init => IInv
BY NodesAssumption, CallsAssumption
   DEF Init, IInv, StateOK, ControlOK, CallInv, OpenInv, Names, Results

LEMMA AppStepKeeps ==
    ASSUME IInv, AppStep
    PROVE  IInv'
<1> USE DEF IInv
<1>1. ASSUME NEW n \in Nodes, AddNode(n) PROVE IInv'
  <2>1. StateOK'
    BY <1>1 DEF AddNode, StateOK, list, links, servers
  <2>2. CallKept
    BY <1>1 DEF AddNode, CallKept, ControlOK, CallInv, OpenInv, Results
  <2>3. QED BY <2>1, <2>2 DEF CallKept
<1>2. CASE StartConnectMaster
  <2>1. StateOK'
    BY <1>2 DEF StartConnectMaster, StateOK, list, links, servers
  <2>2. CASE nodes = NULL
    BY <1>2, <2>1, <2>2, ReturnKeeps DEF StartConnectMaster, Results, CallKept
  <2>3. CASE nodes # NULL
    <3>1. nodes \in Nodes BY <2>3 DEF StateOK
    <3>2. Visit(nodes, "probe") BY <1>2, <2>3 DEF StartConnectMaster
    <3>3. QED BY <2>1, <3>1, <3>2, VisitKeeps DEF CallKept
  <2>4. QED BY <2>2, <2>3
<1>3. ASSUME NEW c \in Calls, StartCall(c) PROVE IInv'
  <2>1. StateOK'
    BY <1>3 DEF StartCall, ResetLastError, StateOK, list, links, servers
  <2>2. CASE UsableMaster
    <3>1. master \in Nodes BY <2>2 DEF UsableMaster, StateOK
    <3>2. c # "connect_master" BY CallsAssumption, CallNamesAre
    <3>3. /\ pc' = "build" /\ call' = c /\ cur' = master /\ rc' = "OK"
          /\ UNCHANGED <<phase, left, expect, named, claimed, told, master, conn>>
          /\ quiet' \in BOOLEAN
      BY <1>3, <2>2 DEF StartCall, links
    <3>4. pc = "idle" /\ call = NULL /\ conn[master] # "closed"
      BY <1>3, <2>2 DEF StartCall, CallInv, UsableMaster
    <3>5. ControlOK'
      BY <3>1, <3>3 DEF ControlOK, Results
    <3>6. CallInv' /\ OpenInv'
      BY <3>1, <3>2, <3>3, <3>4 DEF CallInv, OpenInv
    <3>7. QED BY <2>1, <3>5, <3>6
  <2>3. CASE ~UsableMaster
    BY <1>3, <2>1, <2>3, ReturnKeeps DEF StartCall, Results, CallKept
  <2>4. QED BY <2>2, <2>3
<1>4. QED BY <1>1, <1>2, <1>3 DEF AppStep

LEMMA TailTailType ==
    ASSUME NEW S, NEW s \in Seq(S), Len(s) > 1
    PROVE  Tail(Tail(s)) \in Seq(S)
<1> DEFINE rest == Tail(s)
<1>1. s # <<>> OBVIOUS
<1>2. rest \in Seq(S) /\ Len(rest) = Len(s) - 1
  BY <1>1, HeadTailProperties
<1> HIDE DEF rest
<1>3. rest # <<>>
  BY <1>2, LenProperties, EmptySeq
<1>4. Tail(rest) \in Seq(S)
  BY <1>2, <1>3, HeadTailProperties
<1>5. QED BY <1>4 DEF rest

LEMMA ServerStepKeeps ==
    ASSUME IInv, ServerStep
    PROVE  IInv'
<1> USE DEF IInv
<1> SUFFICES ASSUME NEW n \in Nodes,
                    Answer(n) \/ AnswerTorn(n) \/ ChangeBelief(n) \/ Crash(n) \/ Restart(n)
             PROVE  IInv'
  BY DEF ServerStep
<1>1. CASE Answer(n)
  <2> DEFINE c == Head(wire[n])
  <2>1. c \in CallNames /\ Tail(wire[n]) \in Seq(Commands)
    BY <1>1 DEF Answer, StateOK, Commands
  <2>2. Code(c) \in FieldsOf(Commands)
    BY <2>1, FieldType DEF Code, Kinds, Commands
  <2>3. Append(unread[n], Code(c)) \in Seq(FieldsOf(Commands))
    BY <2>2, AppendProperties DEF StateOK
  <2>4. /\ wire' = [wire EXCEPT ![n] = Tail(wire[n])]
        /\ unread' = [unread EXCEPT ![n] = Append(unread[n], Code(c))]
        /\ UNCHANGED <<list, conn, greeted, up, belief, master, lastError>>
    BY <1>1 DEF Answer, servers
  <2> HIDE DEF c
  <2>5. StateOK'
    BY <2>1, <2>3, <2>4 DEF StateOK, list
  <2>6. UNCHANGED <<conn, master, pc, call, cur, phase, left, expect, told, quiet, rc>>
    BY <1>1 DEF Answer
  <2>7. \/ UNCHANGED <<named, claimed>>
        \/ /\ n = cur /\ named' = belief[n]
           /\ claimed' = IF belief[n] = n THEN claimed \union {n} ELSE claimed
    BY <1>1 DEF Answer
  <2>8. ControlOK' /\ CallInv' /\ OpenInv'
    BY <2>6, <2>7 DEF StateOK, ControlOK, CallInv, OpenInv
  <2>9. QED BY <2>5, <2>8
<1>2. CASE AnswerTorn(n)
  <2>1. Tail(Tail(wire[n])) \in Seq(Commands)
    <3>1. wire[n] \in Seq(Commands) /\ Len(wire[n]) > 1
      BY <1>2 DEF AnswerTorn, StateOK
    <3>2. QED BY <3>1, TailTailType
  <2>2. Code(Torn) \in FieldsOf(Commands)
    BY FieldType DEF Code, Kinds, Commands
  <2>3. Append(unread[n], Code(Torn)) \in Seq(FieldsOf(Commands))
    BY <2>2, AppendProperties DEF StateOK
  <2>4. StateOK'
    BY <1>2, <2>1, <2>3 DEF AnswerTorn, StateOK, list, servers
  <2>5. ControlOK' /\ CallInv' /\ OpenInv'
    BY <1>2 DEF AnswerTorn, control, ControlOK, CallInv, OpenInv
  <2>6. QED BY <2>4, <2>5
<1>3. CASE ChangeBelief(n)
  BY <1>3 DEF ChangeBelief, StateOK, ControlOK, CallInv, OpenInv, list, links, control
<1>4. CASE Crash(n)
  <2>1. StateOK'
    BY <1>4 DEF Crash, StateOK, list
  <2>2. ControlOK' /\ CallInv' /\ OpenInv'
    BY <1>4 DEF Crash, StateOK, ControlOK, CallInv, OpenInv, control
  <2>3. QED BY <2>1, <2>2
<1>5. CASE Restart(n)
  BY <1>5 DEF Restart, StateOK, ControlOK, CallInv, OpenInv, list, links, control
<1>6. QED BY <1>1, <1>2, <1>3, <1>4, <1>5

LEMMA ClientStepInCall == ClientStep => pc # "idle"
BY DEF ClientStep, AlreadyConnected, Connect, ConnectFails, PrologueNoMemory,
       WritePrologue, PrologueFails, Build, BuildNoMemory, Write, KeysNoMemory, WriteFails,
       ReadRc, ReadFixed, ReadOption, ReadLength, ReadMessage, ReadBytes, ReadCount,
       ReadFails, StringNoMemory, ListNoMemory, PrependNoMemory, Take, Answered,
       ReturnAnswer, OwnedNoMemory, WhoMasterRefused, Learns, IsMaster,
       ProbeUnknown, ProbeOther, VerifyOther

LEMMA ClientStepKeeps ==
    ASSUME IInv, ClientStep
    PROVE  IInv'
<1> USE DEF IInv
<1>1. pc # "idle" /\ cur \in Nodes /\ call \in Calls \union {"connect_master"}
  BY ClientStepInCall DEF CallInv
<1>2. CASE AlreadyConnected
  BY <1>2 DEF AlreadyConnected, StateOK, ControlOK, CallInv, OpenInv, list, links, servers
<1>3. CASE Connect
  <2>1. StateOK' /\ conn'[cur] = "live"
    BY <1>1, <1>3 DEF Connect, StateOK, list, servers
  <2>2. QED BY <1>3, <2>1 DEF Connect, ControlOK, CallInv, OpenInv
<1>4. CASE ConnectFails \/ PrologueNoMemory \/ BuildNoMemory \/ ListNoMemory
           \/ OwnedNoMemory \/ WhoMasterRefused
  <2>1. StateOK'
    BY <1>4 DEF ConnectFails, PrologueNoMemory, BuildNoMemory, ListNoMemory,
                OwnedNoMemory, WhoMasterRefused, StateOK, list, links, servers
  <2>2. \E r \in Results : Fail(r)
    BY <1>4 DEF ConnectFails, PrologueNoMemory, BuildNoMemory, ListNoMemory,
                OwnedNoMemory, WhoMasterRefused, Results
  <2>3. QED BY <1>1, <2>1, <2>2, FailKeeps DEF CallKept
<1>5. CASE WritePrologue
  <2>1. StateOK'
    BY <1>5 DEF WritePrologue, StateOK, list, servers
  <2>2. QED BY <1>5, <2>1 DEF WritePrologue, ControlOK, CallInv, OpenInv
<1>6. CASE PrologueFails \/ ReadFails
  <2>1. Disconnect(cur) /\ UNCHANGED <<list, servers, master, lastError>>
    BY <1>6 DEF PrologueFails, ReadFails
  <2>2. StateOK'
    BY <1>1, <2>1, DisconnectKeeps DEF StateOK, list, servers
  <2>3. \E r \in Results : Fail(r)
    BY <1>6, ReadFailureType DEF PrologueFails, ReadFails, Results
  <2>4. QED BY <1>1, <2>2, <2>3, FailKeeps DEF CallKept
<1>7. CASE Build
  <2>1. StateOK'
    BY <1>7 DEF Build, StateOK, list, links, servers
  <2>2. Command \in CallNames
    BY <1>1, CommandType
  <2>3. left' \in Nat \ {0}
    BY <1>7, <2>2, ShapeType DEF Build, ShapeOK
  <2>4. Code(Command) \in Wanted
    BY <2>2, FieldType DEF Code, Kinds, Wanted
  <2>5. expect' \in Seq(Wanted)
    BY <1>7, <2>4 DEF Build
  <2>6. QED
    BY <1>7, <2>1, <2>3, <2>5 DEF Build, ControlOK, CallInv, OpenInv, links
<1>8. CASE Write
  <2>1. Command \in Commands
    BY <1>1, CommandType DEF Commands
  <2>2. wire' \in {wire, [wire EXCEPT ![cur] = Append(wire[cur], Command)]}
    BY <1>8 DEF Write, Sent
  <2>3. Append(wire[cur], Command) \in Seq(Commands)
    BY <1>1, <2>1, AppendProperties DEF StateOK
  <2>4. StateOK'
    BY <1>8, <2>2, <2>3 DEF Write, StateOK, list, servers
  <2>5. ControlOK' /\ CallInv' /\ OpenInv'
    BY <1>8 DEF Write, ControlOK, CallInv, OpenInv
  <2>6. QED BY <2>4, <2>5
<1>9. CASE WriteFails
  <2>1. CASE Disconnect(cur)
    <3>1. StateOK'
      BY <1>1, <1>9, <2>1, DisconnectKeeps DEF WriteFails, StateOK, list, servers
    <3>2. QED BY <1>1, <1>9, <3>1, FailKeeps DEF WriteFails, CallKept, Results
  <2>2. CASE ~Disconnect(cur)
    <3>1. /\ wire' \in {wire, [wire EXCEPT ![cur] = Append(wire[cur], Torn)]}
          /\ UNCHANGED <<conn, greeted, unread>>
      BY <1>9, <2>2 DEF WriteFails, Sent
    <3>2. Append(wire[cur], Torn) \in Seq(Commands)
      BY <1>1, AppendProperties DEF StateOK, Commands
    <3>3. StateOK'
      BY <1>9, <3>1, <3>2 DEF WriteFails, StateOK, list, servers
    <3>4. QED BY <1>1, <1>9, <3>3, FailKeeps DEF WriteFails, CallKept, Results
  <2>3. QED BY <2>1, <2>2
<1>10. ASSUME NEW kinds, NEW v, Take(kinds, v), ReadOn(v),
              lastError' \in {"none", "heap", "zero"}, rc' \in {"OK", "SERVER"}
       PROVE  IInv'
  <2>1. StateOK'
    BY <1>10, TakeType DEF Take, StateOK, list, servers
  <2>2. expect' \in Seq(Wanted) /\ told' \in FieldsOf(Commands) \union {NULL}
    BY <1>10, TakeType DEF ReadOn, ControlOK
  <2>3. ControlOK' /\ CallInv' /\ OpenInv'
    BY <1>10, <2>2 DEF Take, ReadOn, ControlOK, CallInv, OpenInv, Results
  <2>4. QED BY <2>1, <2>3
<1>11. CASE ReadRc \/ ReadFixed \/ ReadOption \/ ReadLength \/ ReadMessage
            \/ ReadBytes \/ ReadCount
  <2>1. lastError' \in {"none", "heap", "zero"} /\ rc' \in {"OK", "SERVER"}
    BY <1>1, <1>11 DEF ReadRc, ReadFixed, ReadOption, ReadLength, ReadMessage,
                       ReadBytes, ReadCount, StateOK, CallInv
  <2>2. \E kinds, v : Take(kinds, v) /\ ReadOn(v)
    BY <1>11 DEF ReadRc, ReadFixed, ReadOption, ReadLength, ReadMessage,
                 ReadBytes, ReadCount
  <2>3. QED BY <1>10, <2>1, <2>2
<1>12. CASE StringNoMemory \/ PrependNoMemory
  <2>1. PICK kinds, v : Take(kinds, v) /\ UNCHANGED lastError
    BY <1>12 DEF StringNoMemory, PrependNoMemory
  <2>2. StateOK'
    BY <2>1, TakeType DEF Take, StateOK, list, servers
  <2>3. \E r \in Results : Fail(r)
    BY <1>12, ReadFailureType DEF StringNoMemory, PrependNoMemory, Results
  <2>4. QED BY <1>1, <2>2, <2>3, FailKeeps DEF CallKept
<1>13. CASE ReturnAnswer
  <2>1. StateOK'
    BY <1>13 DEF ReturnAnswer, StateOK, list, links, servers
  <2>2. QED BY <1>13, <2>1, ReturnKeeps DEF ReturnAnswer, ControlOK, CallKept
<1>14. CASE IsMaster
  <2>1. StateOK'
    BY <1>1, <1>14 DEF IsMaster, Learns, StateOK, list, links, servers
  <2>2. QED BY <1>14, <2>1, ReturnKeeps DEF IsMaster, Results, CallKept
<1>15. CASE ProbeUnknown
  <2>1. StateOK'
    BY <1>15 DEF ProbeUnknown, Learns, StateOK, list, links, servers
  <2>2. QED BY <1>1, <1>15, <2>1, NextNodeKeeps DEF ProbeUnknown, CallKept
<1>16. CASE ProbeOther
  <2>1. StateOK'
    BY <1>16 DEF ProbeOther, Learns, StateOK, list, links, servers
  <2>2. PICK m : IF m \in attached THEN Visit(m, "verify") ELSE Return("UNKNOWN_NODE")
    BY <1>16 DEF ProbeOther
  <2>3. CASE m \in attached
    BY <2>1, <2>2, <2>3, VisitKeeps DEF StateOK, CallKept
  <2>4. CASE m \notin attached
    BY <2>1, <2>2, <2>4, ReturnKeeps DEF Results, CallKept
  <2>5. QED BY <2>3, <2>4
<1>17. CASE VerifyOther
  <2>1. StateOK'
    BY <1>17 DEF VerifyOther, Learns, StateOK, list, links, servers
  <2>2. QED BY <1>17, <2>1, ReturnKeeps DEF VerifyOther, Results, CallKept
<1>18. CASE KeysNoMemory
  <2>1. wire' \in {wire, [wire EXCEPT ![cur] = Append(wire[cur], Torn)]}
    BY <1>18 DEF KeysNoMemory, Sent
  <2>2. Append(wire[cur], Torn) \in Seq(Commands)
    BY <1>1, AppendProperties DEF StateOK, Commands
  <2>3. StateOK'
    BY <1>18, <2>1, <2>2 DEF KeysNoMemory, StateOK, list, servers
  <2>4. ControlOK' /\ CallInv' /\ OpenInv'
    BY <1>18 DEF KeysNoMemory, ControlOK, CallInv, OpenInv
  <2>5. QED BY <2>3, <2>4
<1>19. QED
  BY <1>2, <1>3, <1>4, <1>5, <1>6, <1>7, <1>8, <1>9, <1>11, <1>12, <1>13, <1>14,
     <1>15, <1>16, <1>17, <1>18 DEF ClientStep

LEMMA StutterKeeps ==
    ASSUME IInv, UNCHANGED vars
    PROVE  IInv'
BY DEF IInv, StateOK, ControlOK, CallInv, OpenInv, vars, list, links, servers, control

\* What a call in progress knows, whatever the servers and the network do: it has a
\* node, an ordinary call talks to the master, and past the connect its connection
\* is open.
THEOREM Invariant == Spec => []IInv
<1>1. Init => IInv
  BY InitInv
<1>2. IInv /\ [Next]_vars => IInv'
  BY ClientStepKeeps, AppStepKeeps, ServerStepKeeps, StutterKeeps DEF Next
<1>3. QED BY <1>1, <1>2, PTL DEF Spec

\* Every variable keeps its type: in particular a call in progress always has a
\* node, and what is read and awaited are sequences of fields.
THEOREM TypeCorrect == Spec => []TypeOK
<1>1. IInv => TypeOK
  BY TypeOKParts DEF IInv
<1>2. QED BY <1>1, Invariant, PTL

-----------------------------------------------------------------------------
(***************************************************************************)
(* Action properties.                                                      *)
(***************************************************************************)
\* The step with which connect_master succeeds.
LEMMA MasterClaimedStep ==
    ASSUME IInv, [Next]_vars, call = "connect_master", pc' = "idle", rc' = "OK"
    PROVE  master' \in claimed /\ UsableMaster'
<1>1. pc # "idle"
  BY NodesAssumption DEF IInv, CallInv
<1>2. IsMaster
  BY <1>1
     DEF Next, vars, control, ClientStep, AppStep, ServerStep,
         AlreadyConnected, Connect, ConnectFails, PrologueNoMemory, WritePrologue,
         PrologueFails, Build, BuildNoMemory, Write, KeysNoMemory, WriteFails, ReadRc,
         ReadFixed, ReadOption, ReadLength, ReadMessage, ReadBytes, ReadCount, ReadFails,
         StringNoMemory, ListNoMemory, PrependNoMemory, Take, ReadOn, Answered,
         ReturnAnswer, OwnedNoMemory, WhoMasterRefused, Learns,
         ProbeUnknown, ProbeOther, VerifyOther, AddNode, StartConnectMaster,
         StartCall, Answer, AnswerTorn, ChangeBelief, Crash, Restart,
         Fail, NextNode, Visit, Return, ReadFailure
<1>3. QED
  BY <1>2, NodesAssumption
     DEF IsMaster, Learns, Answered, UsableMaster, IInv, CallInv, OpenInv, links

\* A successful connect_master ends with a master which said of itself, during
\* this very connect_master, that it is master, and whose connection is open
\* (arakoon_cluster_connect_master).
THEOREM MasterClaimed == Spec => MasterClaimedIt
<1> DEFINE Good == call = "connect_master" /\ pc' = "idle" /\ rc' = "OK" =>
                       master' \in claimed /\ UsableMaster'
<1>1. IInv /\ [Next]_vars => [Good]_vars
  BY MasterClaimedStep
<1>2. QED BY <1>1, Invariant, PTL DEF Spec, MasterClaimedIt

\* When the network fails a call of the API, the cluster has no usable master
\* afterwards, the write of hello and version excepted.
THEOREM FailureDisconnected == Spec => FailureDisconnects
<1> DEFINE Good == OrdinaryCall /\ pc' = "idle" /\ rc' = "IO" =>
                       ~UsableMaster' \/ (pc = "write" /\ ~Shape[call].closes)
<1>1. ASSUME IInv, [Next]_vars PROVE Good
  <2> SUFFICES ASSUME call \in Calls, pc' = "idle", rc' = "IO"
               PROVE  ~UsableMaster' \/ (pc = "write" /\ ~Shape[call].closes)
    BY DEF OrdinaryCall
  <2>1. /\ pc # "idle" /\ call # "connect_master" /\ phase = "none"
        /\ cur = master /\ cur \in Nodes /\ rc # "IO"
    BY <1>1, NodesAssumption, CallsAssumption, CallNamesAre DEF IInv, CallInv
  <2>2. WriteFails \/ ReadFails
    BY <1>1, <2>1
       DEF Next, vars, control, ClientStep, AppStep, ServerStep, IInv, CallInv,
           AlreadyConnected, Connect, ConnectFails, PrologueNoMemory, WritePrologue,
           PrologueFails, Build, BuildNoMemory, Write, KeysNoMemory, ReadRc, ReadFixed,
           ReadOption, ReadLength, ReadMessage, ReadBytes, ReadCount,
           StringNoMemory, ListNoMemory, PrependNoMemory, Take, ReadOn, Answered,
           ReturnAnswer, OwnedNoMemory, WhoMasterRefused, Learns, IsMaster,
           ProbeUnknown, ProbeOther, VerifyOther, AddNode, StartConnectMaster,
           StartCall, Answer, AnswerTorn, ChangeBelief, Crash, Restart,
           Fail, Return, ReadFailure
  <2>3. Command = call
    BY <2>1 DEF Command
  <2>4. master' = master
    BY <2>2 DEF WriteFails, ReadFails
  <2>5. CASE Disconnect(cur)
    BY <1>1, <2>1, <2>4, <2>5 DEF Disconnect, UsableMaster, IInv, StateOK
  <2>6. CASE ~Disconnect(cur)
    BY <2>2, <2>3, <2>6 DEF WriteFails, ReadFails
  <2>7. QED BY <2>5, <2>6
<1>2. IInv /\ [Next]_vars => [Good]_vars
  BY <1>1
<1>3. QED BY <1>2, Invariant, PTL DEF Spec, FailureDisconnects

-----------------------------------------------------------------------------
(***************************************************************************)
(* Whose message last_error holds: a call awaits an error message, or the  *)
(* bytes of one, only after the code that announced it.                    *)
(***************************************************************************)
ResultFields == {f \in Wanted : f.kind \in ResultKinds \union {"bytes"}}
MessageFields == {f \in Wanted : f.kind \in {"message", "bytes"}}

ReadInv ==
    \/ rc = "OK" /\ expect = <<Code(Command)>>
    \/ rc = "OK" /\ expect \in Seq(ResultFields)
    \/ rc = "SERVER" /\ expect \in Seq(MessageFields)

ErrorInv ==
    /\ pc \in {"connect", "prologue", "build"} => rc = "OK"
    /\ pc = "write" => rc = "OK" /\ expect = <<Code(Command)>>
    /\ pc = "read" => ReadInv
    /\ call \in Calls /\ rc = "OK" => lastError = "none"

LEMMA Narrow ==
    ASSUME NEW S, NEW T, NEW s \in Seq(S), \A j \in 1 .. Len(s) : s[j] \in T
    PROVE  s \in Seq(T)
<1>1. s \in [1 .. Len(s) -> T] /\ Len(s) \in Nat
  OBVIOUS
<1>2. QED BY <1>1, IntoSeq

LEMMA PayloadResults ==
    ASSUME NEW c \in CallNames
    PROVE  Payload(c) \in Seq(ResultFields)
<1> DEFINE reply == Shape[c].reply
<1>1. reply \in Seq(ResultKinds)
  BY ShapeType DEF ShapeOK
<1>2. Payload(c) = [j \in 1 .. Len(reply) |-> Field(reply[j], c)]
  BY TornIsNoCall DEF Payload
<1> HIDE DEF reply
<1>3. \A j \in 1 .. Len(reply) : Field(reply[j], c) \in ResultFields
  BY <1>1 DEF Field, ResultFields, Wanted, FieldsOf, Kinds
<1>4. Payload(c) \in [1 .. Len(reply) -> ResultFields]
  BY <1>2, <1>3
<1>5. QED BY <1>1, <1>4, IntoSeq

LEMMA StringsResults ==
    ASSUME NEW c \in CallNames, NEW n \in Nat
    PROVE  Strings(n, c) \in Seq(ResultFields)
<1>1. Field("string", c) \in ResultFields
  BY DEF Field, ResultFields, Wanted, FieldsOf, Kinds, ResultKinds
<1>2. Strings(n, c) \in [1 .. n -> ResultFields]
  BY <1>1 DEF Strings
<1>3. QED BY <1>2, IntoSeq

\* A code is followed by results or by a message, and each of them by its own.
LEMMA ReadsKind ==
    ASSUME NEW f \in Wanted, NEW v \in Nat
    PROVE  /\ f.kind \in ResultKinds \union {"bytes"} => Reads(f, v) \in Seq(ResultFields)
           /\ f.kind = "rc" /\ v = 0 => Reads(f, v) \in Seq(ResultFields)
           /\ f.kind = "rc" /\ v # 0 => Reads(f, v) \in Seq(MessageFields)
           /\ f.kind \in {"message", "bytes"} => Reads(f, v) \in Seq(MessageFields)
<1>1. f.of \in CallNames
  BY DEF Wanted, FieldsOf
<1>2. /\ Field("bytes", f.of) \in ResultFields /\ Field("string", f.of) \in ResultFields
      /\ Field("bytes", f.of) \in MessageFields /\ Field("message", f.of) \in MessageFields
  BY <1>1 DEF Field, ResultFields, MessageFields, Wanted, FieldsOf, Kinds, ResultKinds
<1>3. /\ <<>> \in Seq(ResultFields) /\ <<>> \in Seq(MessageFields)
      /\ <<Field("bytes", f.of)>> \in Seq(ResultFields)
      /\ <<Field("string", f.of)>> \in Seq(ResultFields)
      /\ <<Field("bytes", f.of)>> \in Seq(MessageFields)
      /\ <<Field("message", f.of)>> \in Seq(MessageFields)
  BY <1>2
<1>4. /\ Payload(f.of) \in Seq(ResultFields)
      /\ Strings(v, f.of) \in Seq(ResultFields)
      /\ Strings(2 * v, f.of) \in Seq(ResultFields)
  BY <1>1, PayloadResults, StringsResults
<1>5. QED BY <1>3, <1>4 DEF Reads, Follows, ResultKinds

\* A read of results leaves results to be read, one of a message a message.
LEMMA TakeKeepsKinds ==
    ASSUME IInv, ErrorInv, NEW kinds, NEW v, Take(kinds, v), ReadOn(v),
           "rc" \notin kinds, UNCHANGED rc
    PROVE  ReadInv'
<1>1. /\ v \in Nat /\ expect \in Seq(Wanted) /\ expect # <<>>
      /\ expect' = Reads(Expected, v) \o Tail(expect) /\ Expected.kind \in kinds
  BY TakeType DEF IInv, ControlOK, Take, ReadOn
<1>2. ~(expect = <<Code(Command)>>)
  BY <1>1 DEF Expected, Code, Field
<1>3. CASE rc = "OK" /\ expect \in Seq(ResultFields)
  <2>1. Expected \in ResultFields /\ Tail(expect) \in Seq(ResultFields)
    BY <1>1, <1>3 DEF Expected
  <2>2. Reads(Expected, v) \in Seq(ResultFields)
    BY <1>1, <2>1, ReadsKind DEF ResultFields
  <2>3. expect' \in Seq(ResultFields)
    BY <1>1, <2>1, <2>2, ConcatProperties
  <2>4. QED BY <1>3, <2>3 DEF ReadInv
<1>4. CASE rc = "SERVER" /\ expect \in Seq(MessageFields)
  <2>1. Expected \in MessageFields /\ Tail(expect) \in Seq(MessageFields)
    BY <1>1, <1>4 DEF Expected
  <2>2. Reads(Expected, v) \in Seq(MessageFields)
    BY <1>1, <2>1, ReadsKind DEF MessageFields
  <2>3. expect' \in Seq(MessageFields)
    BY <1>1, <2>1, <2>2, ConcatProperties
  <2>4. QED BY <1>4, <2>3 DEF ReadInv
<1>5. QED BY <1>2, <1>3, <1>4 DEF Take, ErrorInv, ReadInv

\* The code comes first, alone, and decides which it is.
LEMMA ReadRcKeepsKinds ==
    ASSUME IInv, ErrorInv, ReadRc
    PROVE  rc = "OK" /\ expect = <<Code(Command)>> /\ ReadInv'
<1>1. PICK v \in {0, 1} : /\ Take({"rc"}, v) /\ ReadOn(v)
                          /\ rc' = IF v = 0 THEN "OK" ELSE "SERVER"
  BY DEF ReadRc
<1>2. /\ expect \in Seq(Wanted) /\ expect # <<>>
      /\ expect' = Reads(Expected, v) \o Tail(expect)
      /\ Expected \in Wanted /\ Expected.kind = "rc"
  BY <1>1 DEF IInv, ControlOK, Take, ReadOn, Expected
<1>3. expect \notin Seq(ResultFields) /\ expect \notin Seq(MessageFields)
  <2>1. "rc" \notin ResultKinds \union {"message", "bytes"}
    BY DEF ResultKinds
  <2>2. Expected \notin ResultFields /\ Expected \notin MessageFields
    BY <1>2, <2>1 DEF ResultFields, MessageFields
  <2>3. \A S : expect \in Seq(S) => Expected \in S
    BY <1>2 DEF Expected
  <2>4. QED
    BY <2>2, <2>3
<1>4. rc = "OK" /\ expect = <<Code(Command)>>
  BY <1>1, <1>3 DEF ErrorInv, ReadInv, Take
<1>5. Tail(expect) \in Seq(ResultFields) /\ Tail(expect) \in Seq(MessageFields)
  BY <1>4
<1>6. CASE v = 0
  <2>1. Reads(Expected, v) \in Seq(ResultFields)
    BY <1>2, <1>6, ReadsKind
  <2>2. expect' \in Seq(ResultFields)
    BY <1>2, <1>5, <2>1, ConcatProperties
  <2>3. QED BY <1>1, <1>4, <1>6, <2>2 DEF ReadInv
<1>7. CASE v # 0
  <2>1. Reads(Expected, v) \in Seq(MessageFields)
    BY <1>2, <1>7, ReadsKind
  <2>2. expect' \in Seq(MessageFields)
    BY <1>2, <1>5, <2>1, ConcatProperties
  <2>3. QED BY <1>1, <1>4, <1>7, <2>2 DEF ReadInv
<1>8. QED BY <1>4, <1>6, <1>7

\* Message and bytes are stored after an error code only.
LEMMA StoredAfterCode ==
    ASSUME IInv, ErrorInv, ReadMessage \/ ReadBytes, rc = "OK"
    PROVE  UNCHANGED lastError
<1>1. CASE ReadBytes
  BY <1>1 DEF ReadBytes
<1>2. CASE ReadMessage
  <2>1. pc = "read" /\ expect # <<>> /\ Expected.kind = "message"
    BY <1>2 DEF ReadMessage, Take
  <2>2. expect \in Seq(ResultFields) => Expected \in ResultFields
    BY <2>1 DEF Expected
  <2>3. Expected \notin ResultFields
    BY <2>1 DEF ResultFields, ResultKinds
  <2>4. QED BY <2>1, <2>2, <2>3 DEF ErrorInv, ReadInv, Expected, Code, Field
<1>3. QED BY <1>1, <1>2

\* A call that returns or turns to another node leaves nothing to keep.
LEMMA LeaveError ==
    ASSUME (pc' = "idle" /\ call' = NULL)
               \/ (pc' = "connect" /\ call' = "connect_master" /\ rc' = "OK")
    PROVE  ErrorInv'
<1>1. NULL \notin Calls /\ "connect_master" \notin Calls
  BY NodesAssumption, CallsAssumption, CallNamesAre
<1>2. QED BY <1>1 DEF ErrorInv

LEMMA ErrorInvKept ==
    ASSUME IInv, ErrorInv, [Next]_vars
    PROVE  ErrorInv'
<1> USE DEF Fail, NextNode, Visit, Return
<1>1. CASE UNCHANGED <<pc, call, expect, rc, lastError>>
  BY <1>1 DEF ErrorInv, ReadInv, Command
<1>2. CASE ServerStep \/ UNCHANGED vars
  BY <1>1, <1>2 DEF ServerStep, vars, control, Answer, AnswerTorn, ChangeBelief, Crash, Restart
<1>3. CASE AppStep
  <2>1. ASSUME NEW n \in Nodes, AddNode(n) PROVE ErrorInv'
    BY <2>1, LeaveError DEF AddNode, IInv, CallInv
  <2>2. CASE StartConnectMaster
    BY <2>2, LeaveError DEF StartConnectMaster
  <2>3. ASSUME NEW c \in Calls, StartCall(c) PROVE ErrorInv'
    BY <2>3, LeaveError DEF StartCall, ResetLastError, ErrorInv
  <2>4. QED BY <1>3, <2>1, <2>2, <2>3 DEF AppStep
<1>4. CASE AlreadyConnected \/ Connect \/ WritePrologue \/ Build \/ Write \/ KeysNoMemory
  BY <1>4 DEF AlreadyConnected, Connect, WritePrologue, Build, Write, KeysNoMemory,
              ErrorInv, ReadInv, Command
<1>5. CASE ConnectFails \/ PrologueNoMemory \/ PrologueFails \/ BuildNoMemory
           \/ WriteFails \/ ReadFails \/ StringNoMemory \/ ListNoMemory
           \/ PrependNoMemory \/ ReturnAnswer \/ OwnedNoMemory \/ WhoMasterRefused
           \/ IsMaster \/ ProbeUnknown \/ ProbeOther \/ VerifyOther
  BY <1>5, LeaveError
     DEF ConnectFails, PrologueNoMemory, PrologueFails, BuildNoMemory, WriteFails,
         ReadFails, StringNoMemory, ListNoMemory, PrependNoMemory, ReturnAnswer,
         OwnedNoMemory, WhoMasterRefused, IsMaster, ProbeUnknown, ProbeOther, VerifyOther
<1>6. CASE ReadRc
  <2>1. ReadInv' /\ rc = "OK" /\ UNCHANGED <<pc, call, lastError>> /\ pc = "read"
    BY <1>6, ReadRcKeepsKinds DEF ReadRc, ReadOn, Take
  <2>2. QED BY <2>1 DEF ErrorInv
<1>7. CASE ReadFixed \/ ReadOption \/ ReadLength \/ ReadMessage \/ ReadBytes \/ ReadCount
  <2>1. /\ ReadInv' /\ pc = "read" /\ UNCHANGED <<pc, call, rc>>
    BY <1>7, TakeKeepsKinds
       DEF ReadFixed, ReadOption, ReadLength, ReadMessage, ReadBytes, ReadCount, ReadOn, Take
  <2>2. rc = "OK" => UNCHANGED lastError
    BY <1>7, StoredAfterCode DEF ReadFixed, ReadOption, ReadLength, ReadCount
  <2>3. QED BY <2>1, <2>2 DEF ErrorInv
<1>8. QED
  BY <1>2, <1>3, <1>4, <1>5, <1>6, <1>7 DEF Next, ClientStep

\* A call that returns with a message was told an error code, and has stored the
\* message before.
LEMMA ErrorHasCode ==
    ASSUME IInv, ErrorInv, [Next]_vars, call \in Calls, pc' = "idle", lastError' # "none"
    PROVE  rc' = "SERVER" /\ UNCHANGED lastError
<1>1. pc # "idle" /\ call # "connect_master" /\ phase = "none"
  BY NodesAssumption, CallsAssumption, CallNamesAre DEF IInv, CallInv
<1>2. /\ BuildNoMemory \/ WriteFails \/ ReadFails \/ StringNoMemory \/ ListNoMemory
         \/ PrependNoMemory \/ ReturnAnswer \/ OwnedNoMemory
  BY <1>1
     DEF Next, vars, control, ClientStep, AppStep, ServerStep, IInv, CallInv,
         AlreadyConnected, Connect, ConnectFails, PrologueNoMemory, WritePrologue,
         PrologueFails, Build, Write, KeysNoMemory, ReadRc, ReadFixed, ReadOption,
         ReadLength, ReadMessage, ReadBytes, ReadCount, Take, ReadOn, Answered,
         WhoMasterRefused, Learns, IsMaster, ProbeUnknown, ProbeOther, VerifyOther,
         AddNode, StartConnectMaster, StartCall, Answer, AnswerTorn, ChangeBelief,
         Crash, Restart
<1>3. UNCHANGED lastError
  BY <1>2 DEF BuildNoMemory, WriteFails, ReadFails, StringNoMemory, ListNoMemory,
              PrependNoMemory, ReturnAnswer, OwnedNoMemory
<1>4. rc = "SERVER" /\ pc = "read"
  BY <1>1, <1>2, <1>3
     DEF ErrorInv, IInv, CallInv, BuildNoMemory, WriteFails, ReadFails, StringNoMemory,
         ListNoMemory, PrependNoMemory, ReturnAnswer, OwnedNoMemory, Take, Answered
<1>5. ~ListNoMemory
  <2>1. ReadInv BY <1>4 DEF ErrorInv
  <2>2. expect \in Seq(MessageFields) BY <1>4, <2>1 DEF ReadInv
  <2>3. expect # <<>> => Expected.kind \in {"message", "bytes"}
    BY <2>2 DEF Expected, MessageFields
  <2>4. QED BY <2>3 DEF ListNoMemory
<1>6. QED
  BY <1>1, <1>2, <1>4, <1>5
     DEF BuildNoMemory, WriteFails, ReadFails, StringNoMemory, PrependNoMemory,
         ReturnAnswer, OwnedNoMemory, Fail, Return, ReadFailure
-----------------------------------------------------------------------------
(* The message of a refused call *)

\* A refused call has the message, or has still to read it.
MessageInv ==
    pc = "read" /\ call \in Calls /\ rc = "SERVER" => lastError # "none" \/ expect # <<>>

LEMMA MessageInvKept ==
    ASSUME IInv, ErrorInv, MessageInv, "who_master" \notin Calls, [Next]_vars
    PROVE  MessageInv'
<1> USE DEF Fail, NextNode, Visit, Return
<1>1. CASE UNCHANGED <<pc, call, expect, rc, lastError>>
  BY <1>1 DEF MessageInv
<1>2. CASE ServerStep \/ UNCHANGED vars
  BY <1>1, <1>2 DEF ServerStep, vars, control, Answer, AnswerTorn, ChangeBelief, Crash, Restart
<1>3. CASE AppStep
  BY <1>3 DEF AppStep, AddNode, StartConnectMaster, StartCall, MessageInv
<1>4. CASE AlreadyConnected \/ Connect \/ WritePrologue \/ Build \/ Write \/ KeysNoMemory
  BY <1>4 DEF AlreadyConnected, Connect, WritePrologue, Build, Write, KeysNoMemory,
              ErrorInv, MessageInv
<1>5. CASE ConnectFails \/ PrologueNoMemory \/ PrologueFails \/ BuildNoMemory
           \/ WriteFails \/ ReadFails \/ StringNoMemory \/ ListNoMemory
           \/ PrependNoMemory \/ ReturnAnswer \/ OwnedNoMemory \/ WhoMasterRefused
           \/ IsMaster \/ ProbeUnknown \/ ProbeOther \/ VerifyOther
  BY <1>5
     DEF ConnectFails, PrologueNoMemory, PrologueFails, BuildNoMemory, WriteFails,
         ReadFails, StringNoMemory, ListNoMemory, PrependNoMemory, ReturnAnswer,
         OwnedNoMemory, WhoMasterRefused, IsMaster, ProbeUnknown, ProbeOther,
         VerifyOther, MessageInv
<1>6. CASE ReadRc
  <2>1. PICK v \in {0, 1} : /\ Take({"rc"}, v) /\ ReadOn(v)
                            /\ rc' = IF v = 0 THEN "OK" ELSE "SERVER"
    BY <1>6 DEF ReadRc
  <2>2. CASE v = 0
    BY <2>1, <2>2 DEF MessageInv
  <2>3. CASE v # 0
    <3> SUFFICES ASSUME call \in Calls PROVE expect' # <<>>
      BY <2>1 DEF MessageInv, ReadOn
    <3>1. /\ expect \in Seq(Wanted) /\ expect # <<>>
          /\ expect' = Reads(Expected, v) \o Tail(expect)
          /\ Expected \in Wanted /\ Expected.kind = "rc"
      BY <2>1 DEF IInv, ControlOK, Take, ReadOn, Expected
    <3>2. expect = <<Code(Command)>>
      BY <1>6, ReadRcKeepsKinds
    <3>3. call \in CallNames /\ call # "who_master" /\ Expected.of = call
      BY <3>2, CallsAssumption, CallNamesAre DEF Expected, Code, Field, Command
    <3>4. Reads(Expected, v) = <<Field("message", call)>>
      BY <2>3, <3>1, <3>3, MessageRead DEF Reads, Follows
    <3>5. Tail(expect) = <<>>
      BY <3>2
    <3>6. QED BY <3>1, <3>4, <3>5
  <2>4. QED BY <2>2, <2>3
<1>7. CASE ReadFixed \/ ReadOption \/ ReadLength \/ ReadCount \/ ReadMessage \/ ReadBytes
  <2> SUFFICES ASSUME call \in Calls, rc = "SERVER" PROVE lastError' # "none" \/ expect' # <<>>
    BY <1>7 DEF MessageInv, ReadFixed, ReadOption, ReadLength, ReadCount, ReadMessage,
                ReadBytes, ReadOn
  <2>1. pc = "read" /\ expect # <<>> /\ expect \in Seq(Wanted)
    BY <1>7 DEF ReadFixed, ReadOption, ReadLength, ReadCount, ReadMessage, ReadBytes,
                Take, IInv, ControlOK
  <2>2. expect \in Seq(MessageFields)
    BY <2>1 DEF ErrorInv, ReadInv
  <2>3. Expected.kind \in {"message", "bytes"}
    BY <2>1, <2>2 DEF Expected, MessageFields
  <2>4. CASE ReadBytes
    BY <2>4 DEF ReadBytes
  <2>5. CASE ReadMessage
    <3>1. PICK v \in {0, 1} : /\ Take({"message"}, v) /\ ReadOn(v)
                              /\ lastError' = IF v = 0 THEN "zero" ELSE lastError
      BY <2>5 DEF ReadMessage
    <3>2. CASE v = 0
      BY <3>1, <3>2
    <3>3. CASE v # 0
      <4>1. Expected.kind = "message" /\ expect' = Reads(Expected, v) \o Tail(expect)
        BY <3>1 DEF Take, ReadOn
      <4>2. Reads(Expected, v) = <<Field("bytes", Expected.of)>>
        BY <3>3, <4>1 DEF Reads, Follows
      <4>3. Tail(expect) \in Seq(Wanted)
        BY <2>1
      <4>4. QED BY <4>1, <4>2, <4>3
    <3>4. QED BY <3>2, <3>3
  <2>6. QED
    BY <1>7, <2>3, <2>4, <2>5 DEF ReadFixed, ReadOption, ReadLength, ReadCount, Take
<1>8. QED
  BY <1>2, <1>3, <1>4, <1>5, <1>6, <1>7 DEF Next, ClientStep

\* A call that the server refused, and that kept its connection, has stored the
\* message (HANDLE_ERROR), as long as there is memory for it; who_master does not
\* read one.
THEOREM MessageIsKept ==
    ASSUME ~AllocFails, "who_master" \notin Calls
    PROVE  Spec => MessageKept
<1> DEFINE Good == OrdinaryCall /\ pc' = "idle" /\ rc' = "SERVER" /\ UsableMaster' =>
                       lastError' # "none"
<1>1. ASSUME IInv, ErrorInv, MessageInv, [Next]_vars PROVE Good
  <2> SUFFICES ASSUME call \in Calls, pc' = "idle", rc' = "SERVER", UsableMaster'
               PROVE  lastError' # "none"
    BY DEF OrdinaryCall
  <2>1. /\ pc # "idle" /\ call # "connect_master" /\ phase = "none"
        /\ cur = master /\ cur \in Nodes
    BY <1>1, NodesAssumption, CallsAssumption, CallNamesAre DEF IInv, CallInv
  <2>2. ReadFails \/ ReturnAnswer
    BY <1>1, <2>1
       DEF Next, vars, control, ClientStep, AppStep, ServerStep, IInv, CallInv,
           AlreadyConnected, Connect, ConnectFails, PrologueNoMemory, WritePrologue,
           PrologueFails, Build, BuildNoMemory, Write, KeysNoMemory, WriteFails, ReadRc,
           ReadFixed, ReadOption, ReadLength, ReadMessage, ReadBytes, ReadCount, StringNoMemory,
           ListNoMemory, PrependNoMemory, Take, ReadOn, Answered, OwnedNoMemory,
           WhoMasterRefused, Learns, IsMaster, ProbeUnknown, ProbeOther, VerifyOther,
           AddNode, StartConnectMaster, StartCall, Answer, AnswerTorn, ChangeBelief,
           Crash, Restart, Fail, Return
  <2>3. CASE ReadFails
    BY <1>1, <2>1, <2>3 DEF ReadFails, Disconnect, UsableMaster, IInv, StateOK
  <2>4. CASE ReturnAnswer
    BY <1>1, <2>1, <2>4 DEF ReturnAnswer, Answered, Return, MessageInv
  <2>5. QED BY <2>2, <2>3, <2>4
<1>2. Init => ErrorInv /\ MessageInv
  BY NodesAssumption, CallsAssumption DEF Init, ErrorInv, MessageInv
<1>3. IInv /\ ErrorInv /\ MessageInv /\ [Next]_vars => (ErrorInv /\ MessageInv)'
  BY ErrorInvKept, MessageInvKept
<1>4. IInv /\ ErrorInv /\ MessageInv /\ [Next]_vars => [Good]_vars
  BY <1>1
<1>5. QED BY <1>2, <1>3, <1>4, Invariant, PTL DEF Spec, MessageKept

-----------------------------------------------------------------------------
(* The list of nodes *)

\* The nodes attached are those of a chain from nodes to NULL, each once.
NodesInv ==
    \E s \in Seq(Nodes) :
        /\ IsChain(next, nodes, s, NULL) /\ Distinct(s)
        /\ Cells(s) = attached

LEMMA NullIsNoNode == NULL \notin Nodes
  BY NodesAssumption

LEMMA InitList == Init => NodesInv
  BY NoCells DEF Init, NodesInv

LEMMA AddNodeKeepsList ==
    ASSUME TypeOK, NodesInv, NEW n \in Nodes, AddNode(n)
    PROVE  NodesInv'
  <1>1. CASE HasCluster(n)
    BY <1>1 DEF AddNode, NodesInv, list
  <1>2. CASE ~HasCluster(n)
    <2>1. PICK s \in Seq(Nodes) :
              /\ IsChain(next, nodes, s, NULL) /\ Distinct(s)
              /\ Cells(s) = attached
      BY DEF NodesInv
    <2>2. /\ attached' = attached \union {n} /\ nodes' = n
          /\ next' = [next EXCEPT ![n] = nodes]
      BY <1>2 DEF AddNode
    <2>3. next \in [Nodes -> Nodes \union {NULL}] /\ nodes \in Nodes \union {NULL}
      BY DEF TypeOK
    <2>4. n \notin Cells(s)
      BY <1>2, <2>1 DEF HasCluster
    <2>5. next' = Redirected(next, n, nodes)
      BY <2>2 DEF Redirected
    <2>6. Pushed(n, s) \in Seq(Nodes)
      BY PushedIs
    <2>7. Cells(Pushed(n, s)) = Cells(s) \union {n}
      BY PushedCells
    <2>8. /\ IsChain(Redirected(next, n, nodes), n, Pushed(n, s), NULL)
          /\ Distinct(Pushed(n, s))
      BY <2>1, <2>3, <2>4, PushedChain
    <2> QED BY <2>1, <2>2, <2>5, <2>6, <2>7, <2>8 DEF NodesInv
  <1> QED BY <1>1, <1>2

LEMMA OthersKeepList ==
    ASSUME ClientStep \/ ServerStep \/ StartConnectMaster
               \/ (\E c \in Calls : StartCall(c)) \/ UNCHANGED vars
    PROVE  UNCHANGED list
  BY DEF ClientStep, ServerStep, vars,
         StartConnectMaster, StartCall,
         AlreadyConnected, Connect, ConnectFails, PrologueNoMemory, WritePrologue,
         PrologueFails, Build, BuildNoMemory, Write, KeysNoMemory, WriteFails, ReadRc,
         ReadFixed, ReadOption, ReadLength, ReadMessage, ReadBytes, ReadCount, ReadFails,
         StringNoMemory, ListNoMemory, PrependNoMemory, ReturnAnswer, OwnedNoMemory,
         WhoMasterRefused, IsMaster, ProbeUnknown, ProbeOther, VerifyOther,
         Take, Learns, Answer, AnswerTorn, ChangeBelief, Crash, Restart

LEMMA ListStep == TypeOK /\ NodesInv /\ [Next]_vars => NodesInv'
  <1>1. ASSUME UNCHANGED list
        PROVE  NodesInv => NodesInv'
    BY <1>1 DEF list, NodesInv
  <1> QED BY <1>1, AddNodeKeepsList, OthersKeepList DEF Next, AppStep

\* The recursion of NodeListSound follows the chain, and stays at its end.
LEMMA NodesListed ==
    ASSUME TypeOK, NodesInv
    PROVE  NodeListSound
  <1>1. PICK s \in Seq(Nodes) :
            /\ IsChain(next, nodes, s, NULL) /\ Distinct(s)
            /\ Cells(s) = attached
    BY DEF NodesInv
  <1> DEFINE Obeys(w) ==
                 w = [k \in Nat |->
                         IF k = 0 THEN nodes
                         ELSE IF w[k - 1] = NULL THEN NULL ELSE next[w[k - 1]]]
             v == [k \in Nat |-> At(s, k + 1, NULL)]
             walk == CHOOSE w : Obeys(w)
             T == {k \in Nat : walk[k] = At(s, k + 1, NULL)}
  <1>2. \A k \in 1 .. Len(s) : s[k] # NULL /\ next[s[k]] = At(s, k + 1, NULL)
    BY <1>1, NullIsNoNode DEF IsChain
  <1>3. ASSUME NEW k \in Nat
        PROVE  v[k] = IF k = 0 THEN nodes
                      ELSE IF v[k - 1] = NULL THEN NULL ELSE next[v[k - 1]]
    <2>1. CASE k = 0
      BY <1>1, <2>1 DEF IsChain
    <2>2. CASE k # 0
      <3>1. k - 1 \in Nat /\ v[k - 1] = At(s, k, NULL) /\ v[k] = At(s, k + 1, NULL)
        BY <2>2
      <3>2. CASE k \in 1 .. Len(s)
        BY <1>2, <3>1, <3>2, <2>2 DEF At
      <3>3. CASE k \notin 1 .. Len(s)
        BY <3>1, <3>3, <2>2 DEF At
      <3> QED BY <3>2, <3>3
    <2> QED BY <2>1, <2>2
  <1>4. Obeys(v)
    <2> HIDE DEF v
    <2>1. v = [k \in Nat |-> v[k]]
      BY DEF v
    <2> QED BY <1>3, <2>1
  <1>5. Obeys(walk)
    <2> HIDE DEF Obeys, v
    <2> QED BY <1>4
  <1>6. /\ walk[0] = nodes
        /\ \A k \in Nat : walk[k + 1] = IF walk[k] = NULL THEN NULL ELSE next[walk[k]]
    <2> HIDE DEF walk
    <2> QED BY <1>5
  <1>7. Nat \subseteq T
    <2>1. 0 \in T
      BY <1>1, <1>6 DEF IsChain
    <2>2. ASSUME NEW k \in Nat, k \in T
          PROVE  k + 1 \in T
      <3>1. walk[k] = At(s, k + 1, NULL)
        BY <2>2
      <3>2. CASE k + 1 \in 1 .. Len(s)
        BY <1>2, <1>6, <3>1, <3>2 DEF At
      <3>3. CASE k + 1 \notin 1 .. Len(s)
        BY <1>6, <3>1, <3>3 DEF At
      <3> QED BY <3>2, <3>3
    <2> HIDE DEF T
    <2> QED BY <2>1, <2>2, Inductive
  <1>8. Cardinality(attached) = Len(s)
    BY <1>1, CountedCells
  <1>9. {walk[k] : k \in 0 .. Len(s)} = Cells(s) \union {NULL}
    <2>1. \A k \in 0 .. Len(s) : walk[k] = At(s, k + 1, NULL)
      BY <1>7
    <2> HIDE DEF walk
    <2>2. \A k \in 0 .. Len(s) : walk[k] \in Cells(s) \union {NULL}
      BY <2>1 DEF At, Cells
    <2>3. walk[Len(s)] = NULL
      BY <2>1 DEF At
    <2>4. ASSUME NEW x \in Cells(s)
          PROVE  \E k \in 0 .. Len(s) : x = walk[k]
      <3>1. PICK j \in 1 .. Len(s) : x = s[j]
        BY DEF Cells
      <3>2. j - 1 \in 0 .. Len(s) /\ walk[j - 1] = s[j]
        BY <2>1 DEF At
      <3> QED BY <3>1, <3>2
    <2> QED BY <2>2, <2>3, <2>4
  <1> QED BY <1>1, <1>8, <1>9 DEF NodeListSound

\* The list of nodes ends, and shows each node of the cluster once, whatever was
\* added in which order and with what result (arakoon_cluster_add_node).
THEOREM NodeList == Spec => []NodeListSound
  <1>1. Init => NodesInv
    BY InitList
  <1>2. TypeOK /\ NodesInv /\ [Next]_vars => NodesInv'
    BY ListStep
  <1>3. TypeOK /\ NodesInv => NodeListSound
    BY NodesListed
  <1> QED BY <1>1, <1>2, <1>3, TypeCorrect, PTL DEF Spec

=============================================================================
