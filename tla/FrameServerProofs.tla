------------------------- MODULE FrameServerProofs -------------------------
(* Proofs about FrameServer, for every set of viewers, both encoders, every *)
(* input and every bound.                                                  *)
EXTENDS FrameServer, FiniteSetTheorems, TLAPS

USE DEF Alive, IoIdle

\* Handlers of different kinds, or of different connections, differ.
LEMMA HandlersDiffer ==
    ASSUME NEW c, NEW d, NEW e, NEW n
    PROVE  /\ Idle # Inserting(c) /\ Idle # Resetting(c) /\ Idle # Erasing(c)
           /\ Idle # Parsing(e, n)
           /\ Inserting(c) # Resetting(d) /\ Inserting(c) # Erasing(d)
           /\ Resetting(c) # Erasing(d)
           /\ Inserting(c) # Parsing(e, n) /\ Resetting(c) # Parsing(e, n)
           /\ Erasing(c) # Parsing(e, n)
           /\ Inserting(c) = Inserting(d) => c = d
           /\ Resetting(c) = Resetting(d) => c = d
           /\ Erasing(c) = Erasing(d) => c = d
  BY DEF Idle, Inserting, Resetting, Erasing, Parsing

\* on_message's loop runs at most once per viewer.
LEMMA LoopBound ==
    ASSUME TypeOK, m_connections # {}
    PROVE  Cardinality(m_connections) \in 1..Cardinality(Client)
  <1>1. IsFiniteSet(Client) /\ m_connections \subseteq Client
    BY ClientAssumption DEF TypeOK
  <1>2. /\ IsFiniteSet(m_connections)
        /\ Cardinality(m_connections) <= Cardinality(Client)
    BY <1>1, FS_Subset
  <1>3. Cardinality(m_connections) \in Nat /\ Cardinality(Client) \in Nat
    BY <1>1, <1>2, FS_CardinalityType
  <1>4. Cardinality(m_connections) # 0
    BY <1>2, FS_EmptySet
  <1> QED BY <1>2, <1>3, <1>4

\* Every place of the io thread is a handler.
LEMMA HandlerMembers ==
    /\ Idle \in Handler
    /\ \A c \in Client : /\ Inserting(c) \in Handler
                         /\ Resetting(c) \in Handler
                         /\ Erasing(c) \in Handler
    /\ \A e \in Event, n \in 1..Cardinality(Client) : Parsing(e, n) \in Handler
  BY DEF Handler

\* The constructor, with what it leaves uninitialized, is well typed.
LEMMA TypeInit == Init => TypeOK
  <1> SUFFICES ASSUME Init PROVE TypeOK
    OBVIOUS
  <1>1. io \in Handler
    BY HandlerMembers DEF Init
  <1>2. /\ toServer \in [Client -> Seq(Message)]
        /\ toClient \in [Client -> Seq(Frame)]
    BY DEF Init
  <1>3. /\ refreshed \in [Event -> BOOLEAN]
        /\ m_clientClosed \in BOOLEAN /\ m_encoder \in {"fresh", "started", "null"}
    BY DEF Init, Event
  <1>4. compressedImg \in Frame
    BY DEF Init, Frame
  <1>5. usesLeft \in [Event -> Int]
    BY DEF Init
  <1>6. /\ lostBy \in [Client -> {"none", "overwritten", "withdrawn", "dry", "undecodable"}]
        /\ headless \subseteq m_connections
    BY DEF Init
  <1> QED BY <1>1, <1>2, <1>3, <1>4, <1>5, <1>6 DEF Init, TypeOK, RenderPlace, Before

\* The render thread keeps the types.
LEMMA TypeRender == TypeOK /\ Render => TypeOK'
  <1> SUFFICES ASSUME TypeOK, Render PROVE TypeOK'
    OBVIOUS
  <1> USE DEF TypeOK, RenderPlace, Before, MovesTo, flagVars, encoderVars,
              eventVars, renderVars, pageVars, requestHistory
  <1>1. CASE CheckNeedMoreFrames BY <1>1 DEF CheckNeedMoreFrames
  <1>2. CASE Encode
    <2>1. compressedImg' \in Frame /\ m_encoder' \in {"fresh", "started", "null"}
      BY <1>2 DEF Encode, EncodeJPEG, EncodeNvPipe, Frame
    <2> QED BY <1>2, <2>1 DEF Encode
  <1>3. CASE EndBroadcast BY <1>3 DEF EndBroadcast
  <1>4. CASE IterateUndefined \/ EncodeWithoutEncoder
    BY <1>4 DEF IterateUndefined, EncodeWithoutEncoder
  <1>5. CASE PushFrame
    <2>1. toClient' \in [Client -> Seq(Frame)]
      <3>1. CASE UNCHANGED toClient BY <3>1
      <3>2. CASE toClient' = [toClient EXCEPT ![it] = Append(@, compressedImg)]
        <4>1. ASSUME it \in Client
              PROVE  Append(toClient[it], compressedImg) \in Seq(Frame)
          BY <4>1
        <4> QED BY <3>2, <4>1
      <3> QED BY <1>5, <3>1, <3>2 DEF PushFrame
    <2>2. /\ headless' \subseteq m_connections'
          /\ unanswered' \subseteq Client
      BY <1>5 DEF PushFrame
    <2> QED BY <1>5, <2>1, <2>2 DEF PushFrame
  <1>6. CASE SendFails BY <1>6 DEF SendFails
  <1>7. CASE ResetNeedMoreFrames BY <1>7 DEF ResetNeedMoreFrames, ClearRequest, LosesTo
  <1>8. CASE CheckSaveFrame BY <1>8 DEF CheckSaveFrame
  <1>9. CASE Save BY <1>9 DEF Save, CaptureDone
  <1>10. CASE idle
    <2>1. ASSUME NEW e \in Event, NEW p \in RenderPlace, NEW q \in RenderPlace,
                 NEW r \in RenderPlace, CheckHandler(e, p, q, r)
          PROVE  TypeOK'
      BY <2>1 DEF CheckHandler
    <2>2. ASSUME NEW e \in Event, NEW p \in RenderPlace, NEW q \in RenderPlace,
                 ResetHandler(e, p, q)
          PROVE  TypeOK'
      BY <2>2 DEF ResetHandler, Taken
    <2> QED BY <1>10, <2>1, <2>2 DEF idle, Event
  <1>11. ASSUME NEW c \in Client, VisitNext(c) PROVE TypeOK'
    BY <1>11 DEF VisitNext
  <1> QED BY <1>1, <1>2, <1>3, <1>4, <1>5, <1>6, <1>7, <1>8, <1>9, <1>10,
             <1>11 DEF Render

\* The io thread keeps the types: on_message's loop stays within its bound.
LEMMA TypeIo == TypeOK /\ (ParseAgain \/ \E c \in Client : IoFor(c)) => TypeOK'
  <1> USE DEF TypeOK, RenderPlace, Before, flagVars, encoderVars,
              eventVars, renderVars, pageVars, requestHistory, GoDown
  <1>1. ASSUME TypeOK, NEW c \in Client, NEW m, Receives(c, m)
        PROVE  toServer' \in [Client -> Seq(Message)]
    BY <1>1 DEF Receives
  <1>2. ASSUME TypeOK, NEW e \in Event, NEW n \in 1..Cardinality(Client), ParseEvent(e, n)
        PROVE  TypeOK'
    <2>1. io' \in Handler
      <3>1. CASE n > 1
        <4>1. n - 1 \in 1..Cardinality(Client)
          BY <3>1, ClientAssumption, FS_CardinalityType
        <4> QED BY <1>2, <3>1, <4>1, HandlerMembers DEF ParseEvent, MoreToParse
      <3>2. CASE ~(n > 1)
        BY <1>2, <3>2, HandlerMembers DEF ParseEvent, MoreToParse
      <3> QED BY <3>1, <3>2
    <2> QED BY <1>2, <2>1 DEF ParseEvent
  <1>3. ASSUME TypeOK, NEW c \in Client, IoFor(c)
        PROVE  TypeOK'
    <2>1. CASE OpenConnection(c) BY <1>3, <2>1, HandlerMembers DEF OpenConnection
    <2>2. CASE InsertConnection(c)
      <3>1. m_connections' \subseteq Client /\ headless' \subseteq m_connections'
        BY <1>3, <2>2 DEF InsertConnection
      <3>2. io' \in Handler
        BY <1>3, <2>2, HandlerMembers DEF InsertConnection
      <3> QED BY <1>3, <2>2, <3>1, <3>2 DEF InsertConnection
    <2>3. CASE ResetEncoder(c) BY <1>3, <2>3, HandlerMembers DEF ResetEncoder
    <2>4. CASE OnRequest(c)
      <3>1. toServer' \in [Client -> Seq(Message)]
        BY <1>1, <1>3, <2>4 DEF OnRequest
      <3> QED BY <1>3, <2>4, <3>1 DEF OnRequest, RaiseRequest
    <2>5. CASE OnSave(c)
      <3>1. toServer' \in [Client -> Seq(Message)]
        BY <1>1, <1>3, <2>5 DEF OnSave
      <3> QED BY <1>3, <2>5, <3>1 DEF OnSave
    <2>6. CASE OnEnd(c)
      <3>1. toServer' \in [Client -> Seq(Message)]
        BY <1>1, <1>3, <2>6 DEF OnEnd
      <3> QED BY <1>3, <2>6, <3>1 DEF OnEnd, Withdraw, WithdrawRequest, LosesTo
    <2>7. CASE OnCloseFrame(c)
      <3>1. toServer' \in [Client -> Seq(Message)]
        BY <1>1, <1>3, <2>7 DEF OnCloseFrame
      <3>2. /\ toClient' \in [Client -> Seq(Frame)]
            /\ conState' \in [Client -> {"none", "open", "down", "gone"}]
        BY <1>3, <2>7 DEF OnCloseFrame
      <3> QED BY <1>3, <2>7, <3>1, <3>2 DEF OnCloseFrame
    <2>8. CASE LoseConnection(c) BY <1>3, <2>8 DEF LoseConnection
    <2>9. CASE OnClose(c)
      BY <1>3, <2>9, HandlerMembers DEF OnClose, Withdraw, WithdrawRequest, LosesTo
    <2>10. CASE EraseConnection(c)
      BY <1>3, <2>10, HandlerMembers DEF EraseConnection, Erased
    <2>11. ASSUME NEW e \in Event, OnEvent(c, e) PROVE TypeOK'
      <3>1. toServer' \in [Client -> Seq(Message)]
        BY <1>1, <1>3, <2>11 DEF OnEvent
      <3>2. io' \in Handler
        BY <1>3, <2>11, LoopBound, HandlerMembers DEF OnEvent
      <3>3. UNCHANGED <<flagVars, m_connections, encoderVars, eventVars, renderVars,
                        conState, toClient, pageVars, crashed, requestHistory>>
        BY <2>11 DEF OnEvent
      <3> QED BY <1>3, <3>1, <3>2, <3>3
    <2> QED BY <1>3, <2>1, <2>2, <2>3, <2>4, <2>5, <2>6, <2>7, <2>8, <2>9,
               <2>10, <2>11 DEF IoFor
  <1> QED BY <1>2, <1>3 DEF ParseAgain

\* The callbacks of a page, and what its user does, change the server's
\* state only through the pipe.
LEMMA PageStep ==
    ASSUME NEW c \in Client, Browser(c) \/ User(c)
    PROVE  UNCHANGED serverVars
  BY DEF Browser, User, OnMessageReader, NextBlob, PictureDecoded, NothingDecoded,
         DecodeFrame, Connect, ClickStream, ClickEnd, SendInput, Input, ClosePage,
         LosePage

\* A page keeps the types.
LEMMA TypePage ==
    ASSUME TypeOK, NEW c \in Client, Browser(c) \/ User(c)
    PROVE  TypeOK'
  <1> USE DEF TypeOK, serverVars, flagVars, encoderVars, eventVars, renderVars,
              requestHistory
  <1>1. ASSUME NEW m \in Message, Sends(c, m)
        PROVE  toServer' \in [Client -> Seq(Message)]
    BY <1>1 DEF Sends
  <1>2. ASSUME NEW m, Input(c, m)
        PROVE  /\ toServer' \in [Client -> Seq(Message)]
               /\ clicks' \in [Client -> Nat]
    <2>1. m \in Message
      BY <1>2, InputAssumption DEF Input, Message, Event, Request
    <2> QED BY <1>1, <1>2, <2>1 DEF Input
  <1>3. CASE OnMessageReader(c) BY <1>3 DEF OnMessageReader
  <1>4. CASE NextBlob(c)
    <2>1. toServer' \in [Client -> Seq(Message)]
      BY <1>1, <1>4 DEF NextBlob, Message, Request
    <2> QED BY <1>4, <2>1 DEF NextBlob
  <1>5. CASE PictureDecoded(c) \/ NothingDecoded(c)
    <2>1. DecodeFrame(c)
      BY <1>5 DEF PictureDecoded, NothingDecoded
    <2>2. toClient' \in [Client -> Seq(Frame)]
      <3>1. toClient[c] \in Seq(Frame) /\ toClient[c] # <<>>
        BY <2>1 DEF DecodeFrame
      <3>2. Tail(toClient[c]) \in Seq(Frame)
        BY <3>1
      <3> QED BY <2>1, <3>2 DEF DecodeFrame
    <2>3. toServer' \in [Client -> Seq(Message)] /\ waiting' \in [Client -> BOOLEAN]
      BY <1>1, <1>5 DEF PictureDecoded, NothingDecoded, Message, Request
    <2>4. lostBy' \in [Client -> {"none", "overwritten", "withdrawn", "dry", "undecodable"}]
      BY <1>5 DEF PictureDecoded, NothingDecoded
    <2>5. decoding' \in [Client -> BOOLEAN]
      BY <2>1 DEF DecodeFrame
    <2> QED BY <2>1, <2>2, <2>3, <2>4, <2>5 DEF DecodeFrame
  <1>6. CASE Connect(c) BY <1>6 DEF Connect
  <1>7. CASE ClickStream(c)
    <2>1. toServer' \in [Client -> Seq(Message)] /\ clicks' \in [Client -> Nat]
      BY <1>2, <1>7 DEF ClickStream
    <2>2. streamClicks' \in [Client -> Nat] /\ waiting' \in [Client -> BOOLEAN]
      BY <1>7 DEF ClickStream
    <2> QED BY <1>7, <2>1, <2>2 DEF ClickStream, Input
  <1>8. CASE ClickEnd(c)
    <2>1. toServer' \in [Client -> Seq(Message)] /\ clicks' \in [Client -> Nat]
      BY <1>2, <1>8 DEF ClickEnd
    <2> QED BY <1>8, <2>1 DEF ClickEnd, Input
  <1>9. CASE SendInput(c)
    <2>1. toServer' \in [Client -> Seq(Message)] /\ clicks' \in [Client -> Nat]
      BY <1>2, <1>9 DEF SendInput
    <2> QED BY <1>9, <2>1 DEF SendInput, Input
  <1>10. CASE ClosePage(c)
    <2>1. toServer' \in [Client -> Seq(Message)]
      BY <1>10 DEF ClosePage, Message
    <2>2. toClient' \in [Client -> Seq(Frame)]
      BY <1>10 DEF ClosePage
    <2> QED BY <1>10, <2>1, <2>2 DEF ClosePage
  <1>11. CASE LosePage(c) BY <1>11 DEF LosePage
  <1> QED BY <1>3, <1>4, <1>5, <1>6, <1>7, <1>8, <1>9, <1>10, <1>11
          DEF Browser, User

\* Every variable keeps its type: among others, the loop of on_message stays
\* within the number of viewers (cBroadcastServer.cpp:170).
THEOREM TypeCorrect == Spec => []TypeOK
  <1>1. TypeOK /\ [Next]_vars => TypeOK'
    <2> SUFFICES ASSUME TypeOK, [Next]_vars PROVE TypeOK'
      OBVIOUS
    <2>1. CASE UNCHANGED vars BY <2>1 DEF TypeOK, vars
    <2>2. CASE Next
      BY <2>1, <2>2, TypeRender, TypeIo, TypePage DEF Next, ServerDead
    <2> QED BY <2>1, <2>2
  <1> QED BY <1>1, TypeInit, PTL DEF Spec

-----------------------------------------------------------------------------
(* The inductive invariant.  The parts that are not about types speak of   *)
(* the flags, the set, the handlers and the iterator only.                 *)

Core ==
    /\ RequestHasMember
    /\ CrashNeedsChurn
    /\ SendsToMembers
    /\ HandlerMatchesState
    /\ BroadcastHadMember
    /\ ResetMeetsNoEncode

coreVars == <<needMoreFrames, stop, m_connections, m_clientClosed, io,
              conState, crashed>>

\* The server starts in the invariant, m_clientClosed up or not.
LEMMA CoreInit == Init => Core
  <1> SUFFICES ASSUME Init PROVE Core
    OBVIOUS
  <1>1. SendsToMembers /\ HandlerMatchesState
    BY HandlersDiffer DEF Init, SendsToMembers, HandlerMatchesState
  <1>2. ResetMeetsNoEncode
    BY CodecAssumption DEF Init, ResetMeetsNoEncode
  <1> QED BY <1>1, <1>2 DEF Init, Core, RequestHasMember,
             CrashNeedsChurn, BroadcastHadMember, Broadcasting

\* A render step outside a broadcast, and any step that stays off the core's
\* variables.
LEMMA CoreQuiet ==
    ASSUME Core, UNCHANGED <<coreVars, m_encoder, it>>,
           pc' = pc \/ (pc' \notin {"encode", "next", "push", "reset"})
    PROVE  Core'
  BY DEF Core, coreVars, RequestHasMember,
         CrashNeedsChurn, SendsToMembers, HandlerMatchesState,
         BroadcastHadMember, ResetMeetsNoEncode, Broadcasting, Somebody,
         Departed

\* The render thread preserves it: a broadcast stands on members, or on
\* connections that ended under it.
LEMMA CoreRender == TypeOK /\ Core /\ Render => Core'
  <1> SUFFICES ASSUME TypeOK, Core, Render PROVE Core'
    OBVIOUS
  <1> USE DEF MovesTo, flagVars, encoderVars, renderVars, coreVars
  <1>1. CASE CheckNeedMoreFrames
    <2>1. CASE needMoreFrames
      BY <1>1, <2>1 DEF CheckNeedMoreFrames, FrameWanted, Core,
         RequestHasMember, CrashNeedsChurn,
         SendsToMembers, HandlerMatchesState, BroadcastHadMember,
         ResetMeetsNoEncode, Broadcasting, Somebody, Departed
    <2>2. CASE ~needMoreFrames
      BY <1>1, <2>2, CoreQuiet DEF CheckNeedMoreFrames, FrameWanted
    <2> QED BY <2>1, <2>2
  <1>2. CASE Encode
    BY <1>2 DEF Encode, Core, RequestHasMember,
       CrashNeedsChurn, SendsToMembers, HandlerMatchesState,
       BroadcastHadMember, ResetMeetsNoEncode, Broadcasting, Somebody, Departed
  <1>3. CASE EndBroadcast
    BY <1>3 DEF EndBroadcast, Core, RequestHasMember,
       CrashNeedsChurn, SendsToMembers, HandlerMatchesState,
       BroadcastHadMember, ResetMeetsNoEncode, Broadcasting, Somebody, Departed
  <1>4. CASE IterateUndefined
    <2>1. CrashNeedsChurn'
      <3>1. Somebody
        BY <1>4 DEF IterateUndefined, Core, BroadcastHadMember, Broadcasting
      <3>2. CASE \E c \in Client : io = Inserting(c)
        BY <1>4, <3>1, <3>2 DEF IterateUndefined, CrashNeedsChurn, Somebody, Departed
      <3>3. CASE \E c \in Client : io = Erasing(c)
        BY <1>4, <3>3 DEF IterateUndefined, Core, CrashNeedsChurn,
           HandlerMatchesState, Departed
      <3>4. CASE it # Before /\ it \notin m_connections
        BY <1>4, <3>4 DEF IterateUndefined, Core, CrashNeedsChurn,
           SendsToMembers, Departed, TypeOK
      <3> QED BY <1>4, <3>2, <3>3, <3>4 DEF IterateUndefined, ReadsRacingTree
    <2> QED BY <1>4, <2>1 DEF IterateUndefined, Core, RequestHasMember, SendsToMembers, HandlerMatchesState,
               BroadcastHadMember, ResetMeetsNoEncode, Broadcasting, Somebody,
               Departed
  <1>5. CASE PushFrame
    BY <1>5 DEF PushFrame, Core, RequestHasMember,
       CrashNeedsChurn, SendsToMembers, HandlerMatchesState,
       BroadcastHadMember, ResetMeetsNoEncode, Broadcasting, Somebody, Departed
  <1>6. CASE SendFails
    <2>1. CrashNeedsChurn'
      BY <1>6 DEF SendFails, Core, CrashNeedsChurn, SendsToMembers,
         BroadcastHadMember, Departed, TypeOK
    <2> QED BY <1>6, <2>1 DEF SendFails, Core, RequestHasMember, SendsToMembers, HandlerMatchesState,
               BroadcastHadMember, ResetMeetsNoEncode, Broadcasting, Somebody,
               Departed
  <1>7. CASE ResetNeedMoreFrames
    BY <1>7 DEF ResetNeedMoreFrames, ClearRequest, Core, RequestHasMember, CrashNeedsChurn, SendsToMembers, HandlerMatchesState,
       BroadcastHadMember, ResetMeetsNoEncode, Broadcasting, Somebody, Departed
  <1>8. CASE CheckSaveFrame \/ Save
    BY <1>8, CoreQuiet DEF CheckSaveFrame, Save, CaptureDone
  <1>9. CASE idle
    BY <1>9, CoreQuiet DEF idle, CheckHandler, ResetHandler
  <1>10. ASSUME NEW c \in Client, VisitNext(c) PROVE Core'
    <2>1. c \in m_connections /\ c # Before
      BY <1>10, ClientAssumption DEF VisitNext, AfterIterator, Before
    <2> QED BY <1>10, <2>1 DEF VisitNext, Core, RequestHasMember, CrashNeedsChurn, SendsToMembers,
               HandlerMatchesState, BroadcastHadMember, ResetMeetsNoEncode,
               Broadcasting, Somebody, Departed
  <1>11. CASE EncodeWithoutEncoder
    BY <1>11 DEF EncodeWithoutEncoder, Core, RequestHasMember, CrashNeedsChurn,
       SendsToMembers, HandlerMatchesState, BroadcastHadMember,
       ResetMeetsNoEncode, Broadcasting, Somebody, Departed
  <1> QED BY <1>1, <1>2, <1>3, <1>4, <1>5, <1>6, <1>7, <1>8, <1>9, <1>10, <1>11
          DEF Render

\* The io thread preserves it: on_open and on_close step by step.
LEMMA CoreIo == TypeOK /\ Core /\ (ParseAgain \/ \E c \in Client : IoFor(c)) => Core'
  <1> USE DEF flagVars, encoderVars, renderVars, coreVars, GoDown
  <1>1. ASSUME TypeOK, Core, NEW e \in Event, NEW n \in 1..Cardinality(Client),
               ParseEvent(e, n)
        PROVE  Core'
    <2>1. \A c \in Client : io' \notin {Inserting(c), Resetting(c), Erasing(c)}
      BY <1>1, HandlersDiffer DEF ParseEvent
    <2>2. \A c \in Client : io \notin {Inserting(c), Resetting(c), Erasing(c)}
      BY <1>1, HandlersDiffer DEF ParseEvent
    <2> QED BY <1>1, <2>1, <2>2 DEF ParseEvent, Core, RequestHasMember, CrashNeedsChurn, SendsToMembers,
         HandlerMatchesState, BroadcastHadMember, ResetMeetsNoEncode,
         Broadcasting, Somebody, Departed
  <1>2. ASSUME TypeOK, Core, NEW c \in Client, IoFor(c)
        PROVE  Core'
    <2>0. /\ m_connections \subseteq Client
          /\ conState \in [Client -> {"none", "open", "down", "gone"}]
      BY <1>2 DEF TypeOK
    <2> USE <1>2, <2>0, HandlersDiffer
    <2>1. CASE OpenConnection(c)
      BY <2>1 DEF OpenConnection, Core, RequestHasMember, CrashNeedsChurn, SendsToMembers,
         HandlerMatchesState, BroadcastHadMember, ResetMeetsNoEncode,
         Broadcasting, Somebody, Departed
    <2>2. CASE InsertConnection(c)
      BY <2>2 DEF InsertConnection, ViewerLeft, Core, RequestHasMember, CrashNeedsChurn, SendsToMembers,
         HandlerMatchesState, BroadcastHadMember, ResetMeetsNoEncode,
         Broadcasting, Somebody, Departed
    <2>3. CASE ResetEncoder(c)
      <3>1. \A d \in Client : io' \notin {Inserting(d), Resetting(d), Erasing(d)}
        BY <2>3 DEF ResetEncoder
      <3>2. \A d \in Client : io \notin {Inserting(d), Erasing(d)}
        BY <2>3 DEF ResetEncoder
      <3>3. CrashNeedsChurn'
        BY <2>3 DEF ResetEncoder, Core, CrashNeedsChurn, HandlerMatchesState,
           ResetMeetsNoEncode, Departed
      <3> QED BY <2>3, <3>1, <3>2, <3>3 DEF ResetEncoder, Core,
                 RequestHasMember, SendsToMembers,
                 HandlerMatchesState, BroadcastHadMember, ResetMeetsNoEncode,
                 Broadcasting, Somebody
    <2>4. CASE OnRequest(c)
      BY <2>4 DEF OnRequest, RaiseRequest, Receives, Core, RequestHasMember, CrashNeedsChurn, SendsToMembers,
         HandlerMatchesState, BroadcastHadMember, ResetMeetsNoEncode,
         Broadcasting, Somebody, Departed
    <2>5. CASE OnSave(c)
      BY <2>5, CoreQuiet DEF OnSave, Receives
    <2>6. CASE OnEnd(c)
      BY <2>6 DEF OnEnd, Withdraw, WithdrawRequest, Receives, Core, RequestHasMember, CrashNeedsChurn, SendsToMembers,
         HandlerMatchesState, BroadcastHadMember, ResetMeetsNoEncode,
         Broadcasting, Somebody, Departed
    <2>7. CASE OnCloseFrame(c) \/ LoseConnection(c)
      <3>1. /\ io = Idle /\ io' = Idle /\ conState[c] = "open"
            /\ conState' = [conState EXCEPT ![c] = "down"]
            /\ UNCHANGED <<needMoreFrames, stop, m_connections, m_clientClosed,
                           pc, it, crashed>>
        BY <2>7 DEF OnCloseFrame, LoseConnection, Receives, GoDown
      <3>2. RequestHasMember' /\ CrashNeedsChurn'
        BY <3>1 DEF Core, RequestHasMember, CrashNeedsChurn, Departed
      <3>3. SendsToMembers'
        BY <3>1 DEF Core, SendsToMembers
      <3>4. HandlerMatchesState'
        BY <3>1 DEF Core, HandlerMatchesState
      <3>5. BroadcastHadMember' /\ ResetMeetsNoEncode'
        BY <3>1 DEF Core, BroadcastHadMember, ResetMeetsNoEncode, Broadcasting,
           Somebody, Departed
      <3> QED BY <3>2, <3>3, <3>4, <3>5 DEF Core
    <2>9. CASE OnClose(c)
      BY <2>9 DEF OnClose, Withdraw, WithdrawRequest, Core, RequestHasMember, CrashNeedsChurn, SendsToMembers,
         HandlerMatchesState, BroadcastHadMember, ResetMeetsNoEncode,
         Broadcasting, Somebody, Departed
    <2>10. CASE EraseConnection(c)
      <3>1. /\ io = Erasing(c) /\ io' = Idle
            /\ m_connections' = m_connections \ {c}
            /\ conState' = [conState EXCEPT ![c] = "gone"]
            /\ UNCHANGED <<needMoreFrames, stop, pc, it, crashed>>
            /\ m_clientClosed' = (Codec = "h264")
        BY <2>10 DEF EraseConnection, Erased
      <3>2. ~needMoreFrames /\ conState[c] = "down"
        BY <3>1 DEF Core, HandlerMatchesState
      <3>3. RequestHasMember' /\ CrashNeedsChurn'
        BY <3>1, <3>2 DEF Core, RequestHasMember, CrashNeedsChurn, Departed
      <3>4. SendsToMembers'
        <4>1. \A d \in Client \ {c} : conState'[d] = conState[d]
          BY <3>1
        <4>2. conState'[c] = "gone"
          BY <3>1
        <4>3. ASSUME NEW d \in Client, conState'[d] = "open"
              PROVE  d \in m_connections'
          BY <3>1, <4>1, <4>2, <4>3 DEF Core, SendsToMembers
        <4>4. ASSUME NEW d \in m_connections'
              PROVE  conState'[d] \in {"open", "down"}
          BY <3>1, <4>1, <4>4 DEF Core, SendsToMembers
        <4>5. ASSUME it # Before PROVE it \in m_connections' \/ conState'[it] = "gone"
          BY <3>1, <4>5 DEF Core, SendsToMembers
        <4> QED BY <3>1, <4>3, <4>4, <4>5 DEF SendsToMembers
      <3>5. HandlerMatchesState'
        BY <3>1 DEF Core, HandlerMatchesState
      <3>6. BroadcastHadMember'
        BY <3>1 DEF Core, BroadcastHadMember, Broadcasting, Somebody
      <3>7. ResetMeetsNoEncode'
        <4>1. Departed(c)' /\ (m_clientClosed' => Codec = "h264")
          BY <3>1 DEF Departed
        <4> QED BY <4>1 DEF ResetMeetsNoEncode
      <3> QED BY <3>3, <3>4, <3>5, <3>6, <3>7 DEF Core
    <2>11. ASSUME NEW e \in Event, OnEvent(c, e) PROVE Core'
      <3>1. \A d \in Client : io' \notin {Inserting(d), Resetting(d), Erasing(d)}
        BY <2>11 DEF OnEvent
      <3>2. \A d \in Client : io \notin {Inserting(d), Resetting(d), Erasing(d)}
        BY <2>11 DEF OnEvent, Receives
      <3> QED BY <2>11, <3>1, <3>2 DEF OnEvent, Receives, Core, RequestHasMember, CrashNeedsChurn, SendsToMembers,
         HandlerMatchesState, BroadcastHadMember, ResetMeetsNoEncode,
         Broadcasting, Somebody, Departed
    <2> QED BY <2>1, <2>2, <2>3, <2>4, <2>5, <2>6, <2>7, <2>9, <2>10,
               <2>11 DEF IoFor
  <1> QED BY <1>1, <1>2 DEF ParseAgain

-----------------------------------------------------------------------------
(* The part of the invariant that is about the header of the stream.       *)

headerVars == <<m_connections, m_clientClosed, m_encoder, compressedImg, it, io,
                conState, headless>>

HeaderPart == ResetIsDue /\ HeaderReachesLoner

\* Before anybody connected there is no encoder that has started.
LEMMA HeaderInit == Init => HeaderPart
  BY DEF Init, HeaderPart, ResetIsDue, HeaderReachesLoner

\* A step outside a broadcast owes nobody a frame, before and after it.
LEMMA HeaderQuiet ==
    ASSUME HeaderPart, UNCHANGED headerVars,
           \/ pc' = pc
           \/ pc \notin {"next", "push", "reset"}
    PROVE  HeaderPart'
  BY DEF HeaderPart, headerVars, ResetIsDue, Somebody, HeaderReachesLoner,
         HeaderReaches, StillOwed, AfterIterator

\* Moving the iterator, and the flag's reset, leave everybody their due.
LEMMA OwedKept ==
    ASSUME HeaderPart, UNCHANGED <<m_connections, m_clientClosed, m_encoder,
           compressedImg, io, conState, headless>>,
           StillOwed' = StillOwed
    PROVE  HeaderPart'
  BY DEF HeaderPart, ResetIsDue, Somebody, HeaderReachesLoner, HeaderReaches

\* The loop visits the members in their order, and forgets none.
LEMMA VisitOwes ==
    ASSUME TypeOK, NEW c \in Client, VisitNext(c)
    PROVE  StillOwed' = StillOwed
  <1>1. AfterIterator \subseteq m_connections /\ m_connections \subseteq Nat
    BY ClientAssumption DEF AfterIterator, TypeOK
  <1>2. StillOwed = AfterIterator
    BY DEF VisitNext, MovesTo, StillOwed
  <1>3. StillOwed' = {d \in m_connections : d >= c}
    BY DEF VisitNext, MovesTo, StillOwed
  <1>4. it \in Int
    BY ClientAssumption DEF TypeOK, Before
  <1>5. /\ c \in m_connections /\ c > it
        /\ \A d \in m_connections : d > it => c <= d
    BY DEF VisitNext, AfterIterator
  <1>6. \A d \in m_connections : d >= c <=> d > it
    BY <1>1, <1>4, <1>5
  <1> QED BY <1>2, <1>3, <1>6 DEF AfterIterator

\* A send discharges the debt to the one it serves, and to nobody else.
LEMMA PushOwes ==
    ASSUME TypeOK, Core, PushFrame
    PROVE  it \in StillOwed /\ StillOwed' = StillOwed \ {it}
  <1>1. it \in m_connections /\ it \in Client
    BY DEF PushFrame, MovesTo, Core, SendsToMembers, BroadcastHadMember, TypeOK
  <1>2. it \in Nat /\ m_connections \subseteq Nat
    BY <1>1, ClientAssumption DEF TypeOK
  <1>3. StillOwed = {c \in m_connections : c >= it}
    BY DEF PushFrame, MovesTo, StillOwed
  <1>4. StillOwed' = {c \in m_connections : c > it}
    BY DEF PushFrame, MovesTo, StillOwed, AfterIterator
  <1>5. /\ \A c \in m_connections : c > it <=> c >= it /\ c # it
        /\ it >= it
    BY <1>2
  <1> QED BY <1>1, <1>3, <1>4, <1>5

\* When a frame has been encoded, every member is owed it.
LEMMA EncodeOwes ==
    ASSUME TypeOK, Encode
    PROVE  StillOwed' = m_connections
  <1>1. \A c \in m_connections : c > -1
    BY ClientAssumption DEF TypeOK
  <1>2. pc' = "next" /\ it' = -1 /\ m_connections' = m_connections
    BY DEF Encode, MovesTo, Before
  <1>3. StillOwed' = {c \in m_connections : c > -1}
    BY <1>2 DEF StillOwed, AfterIterator
  <1> QED BY <1>1, <1>3

\* The render thread: a header that was encoded stays in the buffer until the
\* loop has sent it to everybody it is owed to.
LEMMA HeaderRender == TypeOK /\ Core /\ HeaderPart /\ Render => HeaderPart'
  <1> SUFFICES ASSUME TypeOK, Core, HeaderPart, Render PROVE HeaderPart'
    OBVIOUS
  <1> USE DEF MovesTo, flagVars, encoderVars, renderVars, requestHistory
  <1>1. CASE CheckNeedMoreFrames
    BY <1>1, HeaderQuiet DEF CheckNeedMoreFrames, headerVars
  <1>2. CASE Encode
    <2>1. ResetIsDue'
      <3>1. Somebody
        BY <1>2 DEF Encode, Core, BroadcastHadMember, Broadcasting
      <3> QED BY <1>2, <3>1 DEF Encode, HeaderPart, ResetIsDue, Somebody
    <2>2. ASSUME Codec = "h264", NEW c \in headless PROVE HeaderReaches(c)'
      <3>1. /\ c \in m_connections
            /\ UNCHANGED <<headless, io>> /\ EncodeNvPipe
        BY <1>2, <2>2 DEF Encode, TypeOK
      <3>2. StillOwed' = m_connections /\ StillOwed = {}
        BY <1>2, EncodeOwes DEF Encode, StillOwed
      <3>3. m_encoder \in {"fresh", "null"} \/ io = Resetting(c)
        BY <2>2, <3>1, <3>2 DEF HeaderPart, HeaderReachesLoner, HeaderReaches
      <3> QED BY <3>1, <3>2, <3>3 DEF EncodeNvPipe, HeaderReaches
    <2> QED BY <1>2, <2>1, <2>2 DEF HeaderPart, HeaderReachesLoner, Encode
  <1>3. CASE EndBroadcast
    <2>1. StillOwed = {} /\ StillOwed' = {}
      BY <1>3 DEF EndBroadcast, StillOwed
    <2> QED BY <1>3, <2>1, OwedKept DEF EndBroadcast
  <1>4. CASE IterateUndefined \/ SendFails \/ EncodeWithoutEncoder
    BY <1>4, HeaderQuiet DEF EncodeWithoutEncoder, IterateUndefined, SendFails, headerVars
  <1>5. CASE PushFrame
    <2>1. StillOwed' = StillOwed \ {it}
      BY <1>5, PushOwes
    <2>2. ResetIsDue'
      BY <1>5 DEF PushFrame, HeaderPart, ResetIsDue, Somebody
    <2>3. ASSUME Codec = "h264", NEW c \in headless' PROVE HeaderReaches(c)'
      <3>1. c \in headless /\ HeaderReaches(c)
        BY <1>5, <2>3 DEF PushFrame, HeaderPart, HeaderReachesLoner
      <3>2. compressedImg = "header" => c # it
        BY <1>5, <2>3 DEF PushFrame
      <3> QED BY <1>5, <2>1, <3>1, <3>2 DEF PushFrame, HeaderReaches
    <2> QED BY <2>2, <2>3 DEF HeaderPart, HeaderReachesLoner
  <1>6. CASE ResetNeedMoreFrames
    <2>1. StillOwed' = StillOwed
      BY <1>6 DEF ResetNeedMoreFrames, StillOwed, AfterIterator
    <2> QED BY <1>6, <2>1, OwedKept DEF ResetNeedMoreFrames
  <1>7. CASE CheckSaveFrame \/ Save
    BY <1>7, HeaderQuiet DEF CheckSaveFrame, Save, headerVars
  <1>8. CASE idle
    BY <1>8, HeaderQuiet DEF idle, CheckHandler, ResetHandler, headerVars
  <1>9. ASSUME NEW c \in Client, VisitNext(c) PROVE HeaderPart'
    BY <1>9, VisitOwes, OwedKept DEF VisitNext
  <1> QED BY <1>1, <1>2, <1>3, <1>4, <1>5, <1>6, <1>7, <1>8, <1>9 DEF Render

\* The io thread: whoever is inserted into an empty set finds an encoder that
\* did not start, or the flag that the last one to leave has raised.
LEMMA HeaderIo ==
    TypeOK /\ Core /\ HeaderPart /\ (ParseAgain \/ \E c \in Client : IoFor(c))
      => HeaderPart'
  <1> USE DEF flagVars, encoderVars, renderVars, requestHistory
  <1>1. ASSUME HeaderPart, NEW e \in Event, NEW n \in 1..Cardinality(Client),
               ParseEvent(e, n)
        PROVE  HeaderPart'
    BY <1>1, HandlersDiffer DEF ParseEvent, HeaderPart, ResetIsDue, Somebody,
       HeaderReachesLoner, HeaderReaches, StillOwed, AfterIterator
  <1>2. ASSUME HeaderPart, IoIdle, UNCHANGED <<renderVars, encoderVars,
               m_connections, headless>>,
               \A c \in Client : (conState'[c] = "gone") <=> (conState[c] = "gone")
        PROVE  HeaderPart'
    BY <1>2, HandlersDiffer DEF HeaderPart, ResetIsDue, Somebody,
       HeaderReachesLoner, HeaderReaches, StillOwed, AfterIterator
  <1>3. ASSUME TypeOK, Core, HeaderPart, NEW c \in Client, IoFor(c)
        PROVE  HeaderPart'
    <2>0. /\ m_connections \subseteq Client /\ headless \subseteq m_connections
          /\ conState \in [Client -> {"none", "open", "down", "gone"}]
          /\ m_encoder \in {"fresh", "started", "null"}
      BY <1>3 DEF TypeOK
    <2>1. CASE OpenConnection(c)
      BY <1>2, <1>3, <2>0, <2>1 DEF OpenConnection
    <2>2. CASE OnRequest(c) \/ OnSave(c) \/ OnEnd(c) \/ \E e \in Event : OnEvent(c, e)
      BY <1>2, <1>3, <2>2 DEF OnRequest, OnSave, OnEnd, Withdraw, OnEvent, Receives
    <2>3. CASE OnCloseFrame(c) \/ LoseConnection(c)
      BY <1>2, <1>3, <2>0, <2>3 DEF OnCloseFrame, LoseConnection, GoDown, Receives
    <2>4. CASE OnClose(c)
      BY <1>2, <1>3, <2>4 DEF OnClose, Withdraw
    <2>5. CASE InsertConnection(c)
      <3>1. ResetIsDue'
        BY <1>3, <2>5 DEF InsertConnection, HeaderPart, ResetIsDue, Somebody
      <3>2. ASSUME Codec = "h264", NEW d \in headless', d # c PROVE HeaderReaches(d)'
        <4>1. d \in headless /\ io # Resetting(d) /\ HeaderReaches(d)
          BY <1>3, <2>5, <3>2, HandlersDiffer DEF InsertConnection, HeaderPart,
             HeaderReachesLoner
        <4>2. d \in StillOwed => d \in StillOwed'
          BY <2>5 DEF InsertConnection, StillOwed, AfterIterator
        <4> QED BY <2>5, <3>2, <4>1, <4>2 DEF InsertConnection, HeaderReaches
      <3>3. ASSUME Codec = "h264", c \in headless' PROVE HeaderReaches(c)'
        <4>1. m_connections = {}
          <5>1. c \notin m_connections
            BY <1>3, <2>5 DEF InsertConnection, Core, HandlerMatchesState
          <5> QED BY <2>0, <2>5, <3>3, <5>1 DEF InsertConnection
        <4>2. m_clientClosed \/ m_encoder # "started"
          BY <1>3, <3>3, <4>1 DEF HeaderPart, ResetIsDue, Somebody
        <4> QED BY <2>0, <2>5, <3>3, <4>2 DEF InsertConnection, ViewerLeft,
                   HeaderReaches
      <3> QED BY <3>1, <3>2, <3>3 DEF HeaderPart, HeaderReachesLoner
    <2>6. CASE ResetEncoder(c)
      <3>1. c \in m_connections
        BY <1>3, <2>6 DEF ResetEncoder, Core, HandlerMatchesState
      <3> QED BY <1>3, <2>6, <3>1 DEF ResetEncoder, HeaderPart, ResetIsDue,
                 HeaderReachesLoner, HeaderReaches
    <2>7. CASE EraseConnection(c)
      <3>1. ResetIsDue'
        BY <1>3, <2>0, <2>7 DEF EraseConnection, Erased, ResetIsDue, Somebody
      <3>2. ASSUME Codec = "h264", NEW d \in headless' PROVE HeaderReaches(d)'
        <4>1. d \in headless /\ d # c /\ io # Resetting(d) /\ HeaderReaches(d)
          BY <1>3, <2>7, <3>2, HandlersDiffer DEF EraseConnection, HeaderPart,
             HeaderReachesLoner
        <4>2. d \in StillOwed => d \in StillOwed'
          BY <2>7, <4>1 DEF EraseConnection, Erased, StillOwed, AfterIterator
        <4> QED BY <2>7, <4>1, <4>2 DEF EraseConnection, HeaderReaches
      <3> QED BY <3>1, <3>2 DEF HeaderPart, HeaderReachesLoner
    <2> QED BY <1>3, <2>1, <2>2, <2>3, <2>4, <2>5, <2>6, <2>7 DEF IoFor
  <1> QED BY <1>1, <1>3 DEF ParseAgain

\* The invariant is inductive.
THEOREM InductiveInvariant == Spec => []IInv
  <1>1. TypeOK /\ Core /\ HeaderPart /\ [Next]_vars => Core' /\ HeaderPart'
    <2> SUFFICES ASSUME TypeOK, Core, HeaderPart, [Next]_vars
                 PROVE  Core' /\ HeaderPart'
      OBVIOUS
    <2>1. CASE UNCHANGED vars
      BY <2>1, CoreQuiet, HeaderQuiet DEF vars, coreVars, headerVars
    <2>2. CASE Next
      <3>1. ASSUME NEW c \in Client, Browser(c) \/ User(c)
            PROVE  Core' /\ HeaderPart'
        BY <3>1, PageStep, CoreQuiet, HeaderQuiet DEF serverVars, flagVars,
           encoderVars, renderVars, coreVars, headerVars
      <3> QED BY <2>1, <2>2, <3>1, CoreRender, CoreIo, HeaderRender, HeaderIo
              DEF Next, ServerDead
    <2> QED BY <2>1, <2>2
  <1>2. Spec => [](Core /\ HeaderPart)
    <2>1. TypeOK /\ TypeOK' /\ (Core /\ HeaderPart) /\ [Next]_vars
            => (Core /\ HeaderPart)'
      BY <1>1
    <2> QED BY CoreInit, HeaderInit, TypeCorrect, <2>1, PTL DEF Spec
  <1>3. TypeOK /\ Core /\ HeaderPart => IInv
    BY DEF IInv, Core, HeaderPart
  <1> QED BY <1>2, <1>3, TypeCorrect, PTL

\* Whoever joins an empty server gets the header of the stream before any
\* other frame of the new encoder, however the departures before it, the
\* reset on the io thread and the broadcast of the render thread interleave
\* (cBroadcastServer.cpp:128-138, 153-157).
THEOREM LonerGetsHeader == Spec => []HeaderReachesLoner
  <1>1. IInv => HeaderReachesLoner
    BY DEF IInv
  <1> QED BY <1>1, InductiveInvariant, PTL

\* Whoever connects and leaves, a request is outstanding only while somebody is
\* connected to be served (cBroadcastServer.cpp:147-153,
\* 189-203).
THEOREM RequestsAreHeld == Spec => []RequestHasMember
  <1>1. IInv => RequestHasMember
    BY DEF IInv
  <1> QED BY <1>1, InductiveInvariant, PTL

\* Frames go to announced connections only (the range-for loops of
\* cBroadcastServer.cpp:354 and 440 over what on_open and on_close maintain).
THEOREM SendsAreToMembers == Spec => []SendsToMembers
  <1>1. IInv => SendsToMembers
    BY DEF IInv
  <1> QED BY <1>1, InductiveInvariant, PTL

\* However many viewers there are, the server only dies when one of them
\* leaves, or joins while others are connected.
THEOREM OnlyChurnKills == Spec => []CrashNeedsChurn
  <1>1. IInv => CrashNeedsChurn
    BY DEF IInv
  <1> QED BY <1>1, InductiveInvariant, PTL

-----------------------------------------------------------------------------
(* FrameServer implements Broadcast.                                       *)

promiseVars == <<m_connections, needMoreFrames, RoundOf, StillOwed>>

\* A step off the four mapped variables is a stutter of Broadcast.
LEMMA QuietStutters ==
    ASSUME UNCHANGED <<m_connections, needMoreFrames, it, pc>>
    PROVE  UNCHANGED promiseVars
  BY DEF promiseVars, RoundOf, StillOwed, AfterIterator

\* A step of a broadcast is a step of a round.
LEMMA RenderImplements ==
    TypeOK /\ Core /\ Render => Promise!Next \/ UNCHANGED promiseVars
  <1> SUFFICES ASSUME TypeOK, Core, Render
               PROVE  Promise!Next \/ UNCHANGED promiseVars
    OBVIOUS
  <1> USE DEF MovesTo, flagVars, renderVars
  <1>1. CASE CheckNeedMoreFrames
    <2>1. CASE needMoreFrames
      <3>1. Promise!Claim
        BY <1>1, <2>1 DEF CheckNeedMoreFrames, FrameWanted, Promise!Claim,
           RoundOf, StillOwed
      <3> QED BY <3>1 DEF Promise!Next
    <2>2. CASE ~needMoreFrames
      BY <1>1, <2>2 DEF CheckNeedMoreFrames, FrameWanted, promiseVars, RoundOf,
         StillOwed
    <2> QED BY <2>1, <2>2
  <1>2. CASE Encode
    <2>1. StillOwed' = m_connections
      BY <1>2, EncodeOwes
    <2>2. Promise!Begin
      BY <1>2, <2>1 DEF Encode, Promise!Begin, RoundOf, StillOwed
    <2> QED BY <2>2 DEF Promise!Next
  <1>3. CASE EndBroadcast
    <2>1. Promise!End
      BY <1>3 DEF EndBroadcast, Promise!End, RoundOf, StillOwed
    <2> QED BY <2>1 DEF Promise!Next
  <1>4. CASE IterateUndefined \/ SendFails \/ EncodeWithoutEncoder
    BY <1>4, QuietStutters DEF EncodeWithoutEncoder, IterateUndefined, SendFails
  <1>5. CASE PushFrame
    <2>1. it \in Client
      BY <1>5 DEF PushFrame, Core, BroadcastHadMember, TypeOK
    <2>2. Promise!Serve(it)
      BY <1>5, PushOwes DEF PushFrame, Promise!Serve, RoundOf
    <2> QED BY <2>1, <2>2 DEF Promise!Next
  <1>6. CASE ResetNeedMoreFrames
    <2>1. Promise!Settle
      BY <1>6 DEF ResetNeedMoreFrames, ClearRequest, Promise!Settle, RoundOf,
         StillOwed, AfterIterator
    <2> QED BY <2>1 DEF Promise!Next
  <1>7. CASE CheckSaveFrame \/ Save
    BY <1>7 DEF CheckSaveFrame, Save, CaptureDone, promiseVars, RoundOf, StillOwed
  <1>8. CASE idle
    BY <1>8 DEF idle, CheckHandler, ResetHandler, promiseVars, RoundOf, StillOwed
  <1>9. ASSUME NEW c \in Client, VisitNext(c)
        PROVE  UNCHANGED promiseVars
    BY <1>9, VisitOwes DEF VisitNext, promiseVars, RoundOf
  <1> QED BY <1>1, <1>2, <1>3, <1>4, <1>5, <1>6, <1>7, <1>8, <1>9 DEF Render

\* A handler joins or removes a viewer, asks, withdraws, or stutters.
LEMMA IoImplements ==
    TypeOK /\ Core /\ (ParseAgain \/ \E c \in Client : IoFor(c))
      => Promise!Next \/ UNCHANGED promiseVars
  <1> USE DEF flagVars, renderVars
  <1>1. ASSUME ParseAgain PROVE UNCHANGED promiseVars
    BY <1>1, QuietStutters DEF ParseAgain, ParseEvent
  <1>2. ASSUME TypeOK, Core, NEW c \in Client, IoFor(c)
        PROVE  Promise!Next \/ UNCHANGED promiseVars
    <2>1. CASE OpenConnection(c) \/ ResetEncoder(c) \/ OnSave(c)
      BY <2>1, QuietStutters DEF OpenConnection, ResetEncoder, OnSave
    <2>2. CASE OnCloseFrame(c) \/ LoseConnection(c) \/ \E e \in Event : OnEvent(c, e)
      BY <2>2, QuietStutters DEF OnCloseFrame, LoseConnection, GoDown, OnEvent
    <2>3. CASE InsertConnection(c)
      <3>1. c \notin m_connections
        BY <1>2, <2>3 DEF InsertConnection, Core, HandlerMatchesState
      <3>2. \/ StillOwed' = StillOwed
            \/ /\ RoundOf \in {"serving", "settling"}
               /\ StillOwed' = StillOwed \cup {c}
        <4>1. ASSUME pc \in {"next", "push", "reset"}
              PROVE  RoundOf \in {"serving", "settling"}
          BY <4>1 DEF RoundOf
        <4>2. CASE pc \in {"next", "reset"}
          BY <2>3, <4>1, <4>2 DEF InsertConnection, StillOwed, AfterIterator
        <4>3. CASE pc = "push"
          BY <2>3, <4>1, <4>3 DEF InsertConnection, StillOwed
        <4>4. CASE pc \notin {"next", "push", "reset"}
          BY <2>3, <4>4 DEF InsertConnection, StillOwed
        <4> QED BY <4>2, <4>3, <4>4
      <3>3. Promise!Join(c)
        BY <2>3, <3>1, <3>2 DEF InsertConnection, Promise!Join, RoundOf
      <3> QED BY <3>3 DEF Promise!Next
    <2>4. CASE OnRequest(c)
      <3>1. c \in m_connections
        BY <1>2, <2>4, HandlersDiffer DEF OnRequest, Receives, Core, SendsToMembers
      <3>2. Promise!Ask
        BY <2>4, <3>1 DEF OnRequest, RaiseRequest, Promise!Ask, RoundOf,
           StillOwed, AfterIterator
      <3> QED BY <3>2 DEF Promise!Next
    <2>5. CASE OnEnd(c) \/ OnClose(c)
      <3>1. Promise!Withdraw
        BY <2>5 DEF OnEnd, OnClose, Withdraw, WithdrawRequest, Promise!Withdraw, RoundOf,
           StillOwed, AfterIterator
      <3> QED BY <3>1 DEF Promise!Next
    <2>6. CASE EraseConnection(c)
      <3>1. ~needMoreFrames
        BY <1>2, <2>6 DEF EraseConnection, Core, HandlerMatchesState
      <3>2. StillOwed' = StillOwed \ {c}
        <4>1. CASE pc \in {"next", "reset"}
          BY <2>6, <4>1 DEF EraseConnection, Erased, StillOwed, AfterIterator
        <4>2. CASE pc \notin {"next", "reset"}
          BY <2>6, <4>2 DEF EraseConnection, Erased, StillOwed
        <4> QED BY <4>1, <4>2
      <3>3. Promise!Leave(c)
        BY <2>6, <3>1, <3>2 DEF EraseConnection, Erased, Promise!Leave, RoundOf
      <3> QED BY <3>3 DEF Promise!Next
    <2> QED BY <1>2, <2>1, <2>2, <2>3, <2>4, <2>5, <2>6 DEF IoFor
  <1> QED BY <1>1, <1>2

\* The server keeps the promise of Broadcast to every set of viewers: rounds
\* are asked for, and whoever stays gets exactly one frame of each.
THEOREM ServerKeepsPromise == Spec => KeepsPromise
  <1>1. Init => Promise!Init
    BY DEF Init, Promise!Init, RoundOf, StillOwed
  <1>2. TypeOK /\ Core /\ [Next]_vars => [Promise!Next]_promiseVars
    <2> SUFFICES ASSUME TypeOK, Core, [Next]_vars
                 PROVE  Promise!Next \/ UNCHANGED promiseVars
      OBVIOUS
    <2>1. CASE UNCHANGED vars
      BY <2>1, QuietStutters DEF vars
    <2>2. ASSUME NEW c \in Client, Browser(c) \/ User(c)
          PROVE  UNCHANGED promiseVars
      BY <2>2, PageStep, QuietStutters DEF serverVars, flagVars, renderVars
    <2> QED BY <2>1, <2>2, RenderImplements, IoImplements DEF Next, ServerDead
  <1>3. IInv => TypeOK /\ Core
    BY DEF IInv, Core
  <1>4. IInv /\ [Next]_vars => [Promise!Next]_(Promise!bvars)
    BY <1>2, <1>3 DEF Promise!bvars, promiseVars
  <1> QED BY <1>1, <1>4, InductiveInvariant, PTL
          DEF Spec, KeepsPromise, Promise!Spec

-----------------------------------------------------------------------------
(* The turns of the render loop.                                           *)

\* The viewers that the iterator has not passed, connected or not.
Beyond == {c \in Client : c > it}

\* An upper bound of the steps that the render thread is away from its next
\* look at m_saveFrame.
StepsToCheck ==
    LET n == Cardinality(Client) IN
    CASE pc = "save"          -> 3 * n + 8
      [] pc = "checkKeyboard" -> 3 * n + 7
      [] pc = "resetKeyboard" -> 3 * n + 6
      [] pc = "checkMouse"    -> 3 * n + 5
      [] pc = "resetMouse"    -> 3 * n + 4
      [] pc = "display"       -> 3 * n + 3
      [] pc = "encode"        -> 3 * n + 2
      [] pc = "push"          -> 3 * Cardinality(Beyond) + 3
      [] pc = "reset"         -> 3 * Cardinality(Beyond) + 2
      [] pc = "next"          -> 3 * Cardinality(Beyond) + 1
      [] pc = "checkSave"     -> 0

\* Every step of the render thread that does not kill the process brings it
\* closer, and no other step takes it farther away.
TurnShortens ==
    pc # "checkSave" =>
        IF Render /\ Alive' THEN StepsToCheck' < StepsToCheck ELSE UNCHANGED StepsToCheck

\* The number of steps is a number, and bounded.
LEMMA BeyondCounted ==
    ASSUME TypeOK
    PROVE  /\ Cardinality(Client) \in Nat /\ Cardinality(Beyond) \in Nat
           /\ StepsToCheck \in 0..(3 * Cardinality(Client) + 8)
  <1>1. IsFiniteSet(Client) /\ Beyond \subseteq Client
    BY ClientAssumption DEF Beyond
  <1>2. IsFiniteSet(Beyond) /\ Cardinality(Beyond) <= Cardinality(Client)
    BY <1>1, FS_Subset
  <1>3. Cardinality(Client) \in Nat /\ Cardinality(Beyond) \in Nat
    BY <1>1, <1>2, FS_CardinalityType
  <1>4. /\ pc \in RenderPlace
        /\ 3 * Cardinality(Beyond) <= 3 * Cardinality(Client)
    BY <1>2, <1>3 DEF TypeOK
  <1> DEFINE n == 3 * Cardinality(Client)
             b == 3 * Cardinality(Beyond)
  <1>5. StepsToCheck \in {n + 8, n + 7, n + 6, n + 5, n + 4, n + 3, n + 2, b + 3, b + 2, b + 1, 0}
    BY <1>4 DEF StepsToCheck, RenderPlace
  <1>6. n \in Nat /\ b \in Nat /\ b <= n
    BY <1>3, <1>4
  <1> HIDE DEF n, b
  <1>7. StepsToCheck \in 0..(n + 8)
    BY <1>5, <1>6
  <1> QED BY <1>3, <1>7 DEF n

\* The iterator that moves to the next member leaves it behind.
LEMMA VisitPasses ==
    ASSUME TypeOK, NEW c \in Client, VisitNext(c)
    PROVE  Cardinality(Beyond') < Cardinality(Beyond)
  <1>1. /\ it' = c /\ c > it /\ it \in Int
        /\ \A d \in Client : d \in Int
    BY ClientAssumption DEF VisitNext, MovesTo, AfterIterator, TypeOK, Before
  <1>2. Beyond' \subseteq Beyond /\ c \in Beyond /\ c \notin Beyond'
    <2>1. Beyond' = {d \in Client : d > c}
      BY <1>1 DEF Beyond
    <2>2. \A d \in Client : d > c => d > it
      BY <1>1
    <2>3. ~(c > c)
      BY <1>1
    <2> QED BY <1>1, <2>1, <2>2, <2>3 DEF Beyond
  <1>3. IsFiniteSet(Beyond)
    BY ClientAssumption, FS_Subset DEF Beyond
  <1>4. /\ IsFiniteSet(Beyond') /\ Cardinality(Beyond') <= Cardinality(Beyond)
        /\ Cardinality(Beyond) # Cardinality(Beyond')
    BY <1>2, <1>3, FS_Subset
  <1>5. Cardinality(Beyond) \in Nat /\ Cardinality(Beyond') \in Nat
    BY <1>3, <1>4, FS_CardinalityType
  <1> QED BY <1>4, <1>5

\* The render thread comes back to m_saveFrame within 3n + 8 of its own steps
\* with n viewers (example.cpp:57-75, cBroadcastServer.cpp:365-373), whatever
\* the io thread and the pages do: viewers that join a broadcast under way, or
\* leave it, do not make it longer, because the iterator only moves forward.
THEOREM TurnsEnd ==
    Spec => /\ [](StepsToCheck \in 0..(3 * Cardinality(Client) + 8))
            /\ [][TurnShortens]_vars
  <1>1. TypeOK /\ TypeOK' /\ [Next]_vars => [TurnShortens]_vars
    <2> SUFFICES ASSUME TypeOK, TypeOK', Next, pc # "checkSave"
                 PROVE  TurnShortens
      BY DEF TurnShortens
    <2> USE DEF MovesTo, flagVars, renderVars
    <2>0. /\ Cardinality(Client) \in Nat /\ Cardinality(Beyond) \in Nat
          /\ Cardinality(Beyond)' \in Nat
      <3>1. Cardinality(Client) \in Nat /\ Cardinality(Beyond) \in Nat
        BY BeyondCounted
      <3>2. IsFiniteSet(Client) /\ Beyond' \subseteq Client
        BY ClientAssumption DEF Beyond
      <3>3. IsFiniteSet(Beyond')
        BY <3>2, FS_Subset
      <3> QED BY <3>1, <3>3, FS_CardinalityType
    <2>1. CASE Render /\ Alive'
      <3>1. CASE Encode
        <4>1. Beyond' = Client
          <5>1. it' = -1 /\ \A c \in Client : c > -1
            BY <3>1, ClientAssumption DEF Encode, Before
          <5> QED BY <5>1 DEF Beyond
        <4> QED BY <2>0, <2>1, <3>1, <4>1 DEF Encode, StepsToCheck, TurnShortens
      <3>2. CASE PushFrame \/ ResetNeedMoreFrames
        <4>1. Beyond' = Beyond
          BY <3>2 DEF PushFrame, ResetNeedMoreFrames, Beyond
        <4> QED BY <2>0, <2>1, <3>2, <4>1
                DEF PushFrame, ResetNeedMoreFrames, StepsToCheck, TurnShortens
      <3>3. CASE EndBroadcast
        BY <2>0, <2>1, <3>3 DEF EndBroadcast, StepsToCheck, TurnShortens
      <3>4. ASSUME NEW c \in Client, VisitNext(c) PROVE TurnShortens
        <4>1. Cardinality(Beyond') < Cardinality(Beyond)
          BY <3>4, VisitPasses
        <4> QED BY <2>0, <2>1, <3>4, <4>1 DEF VisitNext, StepsToCheck, TurnShortens
      <3>5. CASE CheckNeedMoreFrames \/ Save
        BY <2>0, <2>1, <3>5
           DEF CheckNeedMoreFrames, Save, StepsToCheck, TurnShortens
      <3>7. CASE idle
        BY <2>0, <2>1, <3>7
           DEF idle, CheckHandler, ResetHandler, StepsToCheck, TurnShortens
      <3>8. ~CheckSaveFrame
        BY DEF CheckSaveFrame
      <3>6. ~(IterateUndefined \/ SendFails \/ EncodeWithoutEncoder)
        BY <2>1 DEF EncodeWithoutEncoder, IterateUndefined, SendFails
      <3> QED BY <2>1, <3>1, <3>2, <3>3, <3>4, <3>5, <3>6,
             <3>7, <3>8 DEF Render
    <2>2. CASE Render /\ ~Alive'
      <3>1. UNCHANGED <<pc, it>>
        BY <2>2 DEF Render, CheckNeedMoreFrames, Encode, EndBroadcast,
           EncodeWithoutEncoder, IterateUndefined, PushFrame, SendFails, ResetNeedMoreFrames,
           CheckSaveFrame, Save, idle, CheckHandler, ResetHandler, VisitNext
      <3> QED BY <2>2, <3>1 DEF TurnShortens, StepsToCheck, Beyond
    <2>3. CASE ~Render
      <3>1. UNCHANGED <<pc, it>>
        <4>1. CASE ParseAgain \/ ServerDead
          BY <4>1 DEF ParseAgain, ParseEvent, ServerDead, vars
        <4>2. ASSUME NEW c \in Client, IoFor(c) PROVE UNCHANGED <<pc, it>>
          BY <4>2 DEF IoFor, OpenConnection, InsertConnection, ResetEncoder,
             OnRequest, OnSave, OnEnd, OnCloseFrame, LoseConnection, GoDown,
             OnClose, EraseConnection, OnEvent
        <4>3. ASSUME NEW c \in Client, Browser(c) \/ User(c)
              PROVE  UNCHANGED <<pc, it>>
          BY <4>3, PageStep DEF serverVars
        <4> QED BY <2>3, <4>1, <4>2, <4>3 DEF Next
      <3> QED BY <2>3, <3>1 DEF TurnShortens, StepsToCheck, Beyond
    <2> QED BY <2>1, <2>2, <2>3
  <1>2. TypeOK => StepsToCheck \in 0..(3 * Cardinality(Client) + 8)
    BY BeyondCounted
  <1> QED BY <1>1, <1>2, TypeCorrect, PTL DEF Spec

-----------------------------------------------------------------------------
(* Input events, for every number of viewers.                              *)

\* Where idle() takes the mark off an event.
ResetPlace(e) == IF e = "KEY" THEN "resetKeyboard" ELSE "resetMouse"

\* The event is marked as new and idle() is not about to take the mark off.
Marked(e) == refreshed[e] /\ pc # ResetPlace(e)

\* The uses of an event that are left besides the one its mark stands for.
Spare(e) == usesLeft[e] - One(Marked(e))

\* The mark that is up, and every parse still to come but the first of a
\* message, allow for one use each.
Budgeted ==
    /\ \A e \in Event : Spare(e) >= 0
    /\ \A e \in Event, n \in 1..Cardinality(Client) :
           io = Parsing(e, n) =>
               /\ n <= Cardinality(m_connections)
               /\ n < Cardinality(m_connections) => n <= Spare(e)

\* The set of connections has a size, and so have the uses of an event.
LEMMA ViewersCounted ==
    ASSUME TypeOK
    PROVE  /\ Cardinality(m_connections) \in 0..Cardinality(Client)
           /\ Cardinality(Client) \in Nat
           /\ \A e \in Event : usesLeft[e] \in Int /\ Spare(e) \in Int
  <1>1. /\ IsFiniteSet(Client) /\ IsFiniteSet(m_connections)
        /\ Cardinality(m_connections) <= Cardinality(Client)
    BY ClientAssumption, FS_Subset DEF TypeOK
  <1>2. Cardinality(m_connections) \in Nat /\ Cardinality(Client) \in Nat
    BY <1>1, FS_CardinalityType
  <1>3. \A e \in Event : usesLeft[e] \in Int /\ Spare(e) \in Int
    BY DEF TypeOK, Spare, One
  <1> QED BY <1>1, <1>2, <1>3

\* A step after which no event has fewer uses to spare than before, and which
\* parses no event that was not being parsed.
LEMMA BudgetKept ==
    ASSUME TypeOK, TypeOK', Budgeted, \A e \in Event : Spare(e)' >= Spare(e),
           \/ UNCHANGED <<io, m_connections>>
           \/ \A e \in Event, n \in 1..Cardinality(Client) : io' # Parsing(e, n)
    PROVE  Budgeted'
  <1>1. \A e \in Event : usesLeft[e] \in Int /\ usesLeft'[e] \in Int
    BY DEF TypeOK
  <1>2. \A e \in Event : Spare(e) \in Int /\ Spare(e)' \in Int
    BY <1>1 DEF Spare, One
  <1>3. ASSUME UNCHANGED <<io, m_connections>> PROVE Budgeted'
    <2>1. /\ Cardinality(Client) \in Nat
          /\ Cardinality(m_connections)' = Cardinality(m_connections)
      BY <1>3, ViewersCounted
    <2> QED BY <1>2, <1>3, <2>1 DEF Budgeted
  <1>4. ASSUME \A e \in Event, n \in 1..Cardinality(Client) : io' # Parsing(e, n)
        PROVE  Budgeted'
    BY <1>2, <1>4 DEF Budgeted
  <1> QED BY <1>3, <1>4

\* A step that leaves the events and the place of idle() alone, and parses
\* no event that was not being parsed.
LEMMA BudgetQuiet ==
    ASSUME TypeOK, TypeOK', Budgeted, UNCHANGED <<refreshed, usesLeft>>,
           pc' = pc \/ pc \notin {"resetKeyboard", "resetMouse"},
           \/ UNCHANGED <<io, m_connections>>
           \/ \A e \in Event, n \in 1..Cardinality(Client) : io' # Parsing(e, n)
    PROVE  Budgeted'
  <1>1. \A e \in Event : usesLeft[e] \in Int
    BY DEF TypeOK
  <1>2. \A e \in Event : Marked(e)' => Marked(e)
    BY DEF Marked, ResetPlace
  <1>3. \A e \in Event : Spare(e)' >= Spare(e)
    BY <1>1, <1>2 DEF Spare, One
  <1> QED BY <1>3, BudgetKept

\* idle() uses an event that is marked as new, and then takes the mark off.
LEMMA BudgetRender == TypeOK /\ TypeOK' /\ Budgeted /\ Render => Budgeted'
  <1> SUFFICES ASSUME TypeOK, TypeOK', Budgeted, Render PROVE Budgeted'
    OBVIOUS
  <1> USE DEF MovesTo, flagVars, renderVars, eventVars
  <1>0. \A d \in Event : usesLeft[d] \in Int /\ refreshed[d] \in BOOLEAN
    BY DEF TypeOK
  <1>1. CASE CheckNeedMoreFrames \/ Encode \/ EncodeWithoutEncoder \/ EndBroadcast
          \/ IterateUndefined
    BY <1>1, BudgetQuiet DEF CheckNeedMoreFrames, Encode, EncodeWithoutEncoder, EndBroadcast,
       IterateUndefined
  <1>2. CASE PushFrame \/ SendFails \/ ResetNeedMoreFrames \/ CheckSaveFrame \/ Save
    BY <1>2, BudgetQuiet DEF PushFrame, SendFails, ResetNeedMoreFrames, CheckSaveFrame, Save
  <1>3. ASSUME NEW c \in Client, VisitNext(c) PROVE Budgeted'
    BY <1>3, BudgetQuiet DEF VisitNext
  <1>4. ASSUME NEW e \in Event, NEW here, NEW otherwise,
               here \notin {"resetKeyboard", "resetMouse"},
               otherwise \notin {"resetKeyboard", "resetMouse"},
               CheckHandler(e, here, ResetPlace(e), otherwise)
        PROVE  Budgeted'
    <2>1. /\ pc = here /\ UNCHANGED <<refreshed, io, m_connections>>
          /\ usesLeft' = IF refreshed[e] THEN [usesLeft EXCEPT ![e] = @ - 1] ELSE usesLeft
          /\ pc' = IF refreshed[e] THEN ResetPlace(e) ELSE otherwise
      BY <1>4 DEF CheckHandler
    <2>2. \A d \in Event : Marked(d) <=> refreshed[d]
      BY <1>4, <2>1 DEF Marked, ResetPlace
    <2>3. ASSUME NEW d \in Event PROVE Spare(d)' >= Spare(d)
      <3>1. CASE d = e /\ refreshed[e]
        <4>1. Marked(d) /\ ~Marked(d)'
          BY <2>1, <2>2, <3>1 DEF Marked
        <4>2. usesLeft'[d] = usesLeft[d] - 1
          BY <2>1, <3>1 DEF TypeOK
        <4> QED BY <1>0, <4>1, <4>2 DEF Spare, One
      <3>2. CASE ~(d = e /\ refreshed[e])
        <4>1. usesLeft'[d] = usesLeft[d]
          BY <2>1, <3>2 DEF TypeOK
        <4>2. Marked(d)' => Marked(d)
          BY <2>1, <2>2 DEF Marked
        <4> QED BY <1>0, <4>1, <4>2 DEF Spare, One
      <3> QED BY <3>1, <3>2
    <2> QED BY <2>1, <2>3, BudgetKept
  <1>5. ASSUME NEW e \in Event, NEW there,
               ResetHandler(e, ResetPlace(e), there)
        PROVE  Budgeted'
    <2>1. /\ pc = ResetPlace(e) /\ UNCHANGED <<usesLeft, io, m_connections>>
          /\ refreshed' = [refreshed EXCEPT ![e] = FALSE]
      BY <1>5 DEF ResetHandler, Taken
    <2>2. ASSUME NEW d \in Event PROVE Marked(d)' => Marked(d)
      <3>1. CASE d = e
        BY <2>1, <3>1 DEF Marked, TypeOK
      <3>2. CASE d # e
        BY <2>1, <3>2 DEF Marked, TypeOK, ResetPlace, Event
      <3> QED BY <3>1, <3>2
    <2>3. \A d \in Event : Spare(d)' >= Spare(d)
      BY <1>0, <2>1, <2>2 DEF Spare, One
    <2> QED BY <2>1, <2>3, BudgetKept
  <1>6. CASE idle
    BY <1>4, <1>5, <1>6 DEF idle, Event, ResetPlace
  <1> QED BY <1>1, <1>2, <1>3, <1>6 DEF Render

\* on_message's loop: the first parse of a message begins a new event, every
\* other one may mark again an event that was used in between.
LEMMA BudgetIo ==
    ASSUME TypeOK, TypeOK', Budgeted, ParseAgain \/ \E c \in Client : IoFor(c)
    PROVE  Budgeted'
  <1> USE DEF flagVars, renderVars, eventVars
  <1>1. ASSUME NEW e \in Event, NEW n \in 1..Cardinality(Client), ParseEvent(e, n)
        PROVE  Budgeted'
    <2> DEFINE members == Cardinality(m_connections)
    <2>1. /\ io = Parsing(e, n) /\ UNCHANGED <<pc, m_connections>>
          /\ io' = IF n > 1 THEN Parsing(e, n - 1) ELSE Idle
          /\ refreshed' = [refreshed EXCEPT ![e] = TRUE]
          /\ usesLeft' = IF n = members THEN [usesLeft EXCEPT ![e] = n] ELSE usesLeft
      BY <1>1 DEF ParseEvent, MoreToParse
    <2>2. /\ Cardinality(Client) \in Nat /\ members \in 0..Cardinality(Client)
          /\ \A d \in Event : usesLeft[d] \in Int /\ Spare(d) \in Int
      BY ViewersCounted
    <2>3. /\ n \in Nat /\ n >= 1 /\ n <= members
          /\ n < members => n <= Spare(e)
      BY <2>1, <2>2 DEF Budgeted
    <2>4. usesLeft'[e] \in Int /\ Spare(e)' \in Int
      <3>1. usesLeft'[e] \in Int
        BY DEF TypeOK
      <3> QED BY <3>1 DEF Spare, One
    <2>5. n - 1 <= Spare(e)'
      <3>1. CASE n = members
        <4>1. usesLeft'[e] = n
          BY <2>1, <3>1 DEF TypeOK
        <4> QED BY <2>3, <4>1 DEF Spare, One
      <3>2. CASE n < members
        <4>1. usesLeft'[e] = usesLeft[e]
          BY <2>1, <2>2, <3>2
        <4>2. Spare(e)' >= Spare(e) - 1
          BY <2>2, <4>1 DEF Spare, One
        <4> QED BY <2>2, <2>3, <2>4, <3>2, <4>2
      <3> QED BY <2>2, <2>3, <3>1, <3>2
    <2>6. ASSUME NEW d \in Event, d # e PROVE Spare(d)' = Spare(d)
      BY <2>1, <2>6 DEF Spare, Marked, One, TypeOK
    <2>7. \A d \in Event : Spare(d)' >= 0
      BY <2>2, <2>3, <2>4, <2>5, <2>6 DEF Budgeted
    <2>8. ASSUME NEW d \in Event, NEW k \in 1..Cardinality(Client), io' = Parsing(d, k)
          PROVE  k <= members /\ k <= Spare(d)'
      <3>1. n > 1 /\ d = e /\ k = n - 1
        BY <2>1, <2>3, <2>8, HandlersDiffer DEF Parsing, Idle
      <3> QED BY <2>2, <2>3, <2>4, <2>5, <3>1
    <2> QED BY <2>1, <2>2, <2>7, <2>8 DEF Budgeted
  <1>2. ASSUME NEW c \in Client, IoFor(c) PROVE Budgeted'
    <2>1. CASE OpenConnection(c) \/ InsertConnection(c) \/ ResetEncoder(c)
      <3>1. UNCHANGED <<refreshed, usesLeft, pc>>
        BY <2>1 DEF OpenConnection, InsertConnection, ResetEncoder
      <3>2. \A e \in Event, n \in 1..Cardinality(Client) : io' # Parsing(e, n)
        BY <2>1, HandlersDiffer DEF OpenConnection, InsertConnection, ResetEncoder
      <3> QED BY <3>1, <3>2, BudgetQuiet
    <2>2. CASE OnRequest(c) \/ OnSave(c) \/ OnEnd(c)
      BY <2>2, BudgetQuiet DEF OnRequest, OnSave, OnEnd
    <2>3. CASE OnCloseFrame(c) \/ LoseConnection(c)
      BY <2>3, BudgetQuiet DEF OnCloseFrame, LoseConnection, GoDown
    <2>4. CASE OnClose(c) \/ EraseConnection(c)
      <3>1. UNCHANGED <<refreshed, usesLeft, pc>>
        BY <2>4 DEF OnClose, EraseConnection
      <3>2. \A e \in Event, n \in 1..Cardinality(Client) : io' # Parsing(e, n)
        BY <2>4, HandlersDiffer DEF OnClose, EraseConnection
      <3> QED BY <3>1, <3>2, BudgetQuiet
    <2>5. ASSUME NEW e \in Event, OnEvent(c, e) PROVE Budgeted'
      <3>1. UNCHANGED <<refreshed, usesLeft, pc, m_connections>>
        BY <2>5 DEF OnEvent
      <3>2. io' = Idle \/ io' = Parsing(e, Cardinality(m_connections))
        BY <2>5 DEF OnEvent
      <3>3. /\ Cardinality(m_connections) \in Nat
            /\ \A d \in Event : Spare(d)' = Spare(d)
        BY <3>1, ViewersCounted DEF Spare, Marked
      <3>4. ASSUME NEW d \in Event, NEW k \in 1..Cardinality(Client), io' = Parsing(d, k)
            PROVE  k = Cardinality(m_connections)
        BY <3>2, <3>4, HandlersDiffer DEF Parsing, Idle
      <3> QED BY <3>1, <3>3, <3>4 DEF Budgeted
    <2> QED BY <1>2, <2>1, <2>2, <2>3, <2>4, <2>5 DEF IoFor
  <1> QED BY <1>1, <1>2 DEF ParseAgain

\* on_message parses an input event once for every connection
\* (cBroadcastServer.cpp:170-194), and idle() may check the handler between two
\* of these parses: the event is then used again, but never more often than
\* there were viewers when it came, so once with a lone one, wherever the parses
\* fall between the checks and the resets, and whoever joins or leaves.
THEOREM EventsConsumedPerViewer == Spec => []EventsPerViewer
  <1>1. Init => Budgeted
    <2> SUFFICES ASSUME Init PROVE Budgeted
      OBVIOUS
    <2>1. \A e \in Event : Spare(e) >= 0
      BY DEF Init, Spare, One
    <2>2. \A e \in Event, n \in 1..Cardinality(Client) : io # Parsing(e, n)
      BY HandlersDiffer DEF Init
    <2> QED BY <2>1, <2>2 DEF Budgeted
  <1>2. TypeOK /\ TypeOK' /\ Budgeted /\ [Next]_vars => Budgeted'
    <2> SUFFICES ASSUME TypeOK, TypeOK', Budgeted, [Next]_vars PROVE Budgeted'
      OBVIOUS
    <2>1. CASE UNCHANGED vars
      BY <2>1, BudgetQuiet DEF vars
    <2>2. ASSUME NEW c \in Client, Browser(c) \/ User(c) PROVE Budgeted'
      BY <2>2, PageStep, BudgetQuiet DEF serverVars, renderVars, eventVars
    <2> QED BY <2>1, <2>2, BudgetRender, BudgetIo DEF Next, ServerDead
  <1>3. TypeOK /\ Budgeted => EventsPerViewer
    <2> SUFFICES ASSUME TypeOK, Budgeted, NEW e \in Event PROVE usesLeft[e] >= 0
      BY DEF EventsPerViewer
    <2> QED BY ViewersCounted DEF Budgeted, Spare, One
  <1> QED BY <1>1, <1>2, <1>3, TypeCorrect, PTL DEF Spec

-----------------------------------------------------------------------------
(* A lone viewer.  The next two invariants each need a part of their own:  *)
(* it ties what one page has done to the state of the server, which Core   *)
(* does not look at.                                                       *)

\* A pipe holds a message of T; each of S in it has one of T behind it.
Holds(q, T) == \E i \in DOMAIN q : q[i] \in T
Follows(q, S, T) ==
    \A i \in DOMAIN q : q[i] \in S => \E j \in DOMAIN q : j > i /\ q[j] \in T

Quiet == stop /\ ~needMoreFrames

\* The server is quiet until the page asks for something, and whenever the
\* page has ended its stream with no END left in the pipe.
QuietAfterEnd ==
    \A c \in Client :
        /\ conState[c] = "none" => Quiet
        /\ page[c] = "out" => ~pageStop[c]
        /\ page[c] = "open" /\ pageStop[c] /\ conState[c] \in {"none", "open"} =>
               /\ Follows(toServer[c], Request, {"END"})
               /\ Holds(toServer[c], {"END"}) \/ Quiet

\* The server takes the message at the head of the pipe.
LEMMA TakeHead ==
    ASSUME NEW q \in Seq(Message), q # <<>>, NEW S, NEW T
    PROVE  /\ Follows(q, S, T) => Follows(Tail(q), S, T)
           /\ Holds(q, T) /\ Head(q) \notin T => Holds(Tail(q), T)
           /\ Follows(q, S, T) /\ Head(q) \in S => Holds(Tail(q), T)
           /\ Holds(Tail(q), T) => Holds(q, T)
  <1>1. /\ DOMAIN q = 1..Len(q) /\ Len(q) \in Nat \ {0} /\ Head(q) = q[1]
        /\ DOMAIN Tail(q) = 1..(Len(q) - 1)
        /\ \A i \in DOMAIN Tail(q) : Tail(q)[i] = q[i + 1]
    OBVIOUS
  <1>2. ASSUME NEW j \in DOMAIN q, j > 1, q[j] \in T
        PROVE  j - 1 \in DOMAIN Tail(q) /\ Tail(q)[j - 1] \in T
    BY <1>1, <1>2
  <1>3. ASSUME Follows(q, S, T) PROVE Follows(Tail(q), S, T)
    <2>1. SUFFICES ASSUME NEW i \in DOMAIN Tail(q), Tail(q)[i] \in S
                   PROVE  \E j \in DOMAIN Tail(q) : j > i /\ Tail(q)[j] \in T
      BY DEF Follows
    <2>2. i + 1 \in DOMAIN q /\ q[i + 1] \in S
      BY <1>1, <2>1
    <2>3. PICK j \in DOMAIN q : j > i + 1 /\ q[j] \in T
      BY <1>3, <2>2 DEF Follows
    <2>4. j > 1 /\ j - 1 > i
      BY <1>1, <2>3
    <2> QED BY <1>2, <2>3, <2>4
  <1>4. ASSUME Holds(q, T), Head(q) \notin T PROVE Holds(Tail(q), T)
    <2>1. PICK j \in DOMAIN q : q[j] \in T
      BY <1>4 DEF Holds
    <2>2. j > 1
      BY <1>1, <1>4, <2>1
    <2> QED BY <1>2, <2>1, <2>2 DEF Holds
  <1>5. ASSUME Follows(q, S, T), Head(q) \in S PROVE Holds(Tail(q), T)
    <2>1. PICK j \in DOMAIN q : j > 1 /\ q[j] \in T
      BY <1>1, <1>5 DEF Follows
    <2> QED BY <1>2, <2>1 DEF Holds
  <1>6. ASSUME Holds(Tail(q), T) PROVE Holds(q, T)
    <2>1. PICK i \in DOMAIN Tail(q) : Tail(q)[i] \in T
      BY <1>6 DEF Holds
    <2>2. i + 1 \in DOMAIN q /\ q[i + 1] \in T
      BY <1>1, <2>1
    <2> QED BY <2>2 DEF Holds
  <1> QED BY <1>3, <1>4, <1>5, <1>6

\* The page puts another message behind those in the pipe.
LEMMA PutBehind ==
    ASSUME NEW q \in Seq(Message), NEW m \in Message, NEW S, NEW T, S \cap T = {}
    PROVE  /\ Follows(q, S, T) /\ m \notin S => Follows(Append(q, m), S, T)
           /\ m \in T => Follows(Append(q, m), S, T)
           /\ Holds(Append(q, m), T) <=> Holds(q, T) \/ m \in T
  <1>1. /\ DOMAIN q = 1..Len(q) /\ Len(q) \in Nat
        /\ DOMAIN Append(q, m) = 1..(Len(q) + 1)
        /\ Append(q, m)[Len(q) + 1] = m
        /\ \A i \in DOMAIN q : i \in DOMAIN Append(q, m) /\ Append(q, m)[i] = q[i]
    OBVIOUS
  <1>2. ASSUME Follows(q, S, T), m \notin S PROVE Follows(Append(q, m), S, T)
    <2>1. SUFFICES ASSUME NEW i \in DOMAIN Append(q, m), Append(q, m)[i] \in S
                   PROVE  \E j \in DOMAIN Append(q, m) :
                              j > i /\ Append(q, m)[j] \in T
      BY DEF Follows
    <2>2. i \in DOMAIN q /\ q[i] \in S
      BY <1>1, <1>2, <2>1
    <2>3. PICK j \in DOMAIN q : j > i /\ q[j] \in T
      BY <1>2, <2>2 DEF Follows
    <2> QED BY <1>1, <2>3
  <1>3. ASSUME m \in T PROVE Follows(Append(q, m), S, T)
    <2>1. \A i \in 1..Len(q) : Len(q) + 1 > i
      BY <1>1
    <2>2. m \notin S
      BY <1>3
    <2> QED BY <1>1, <1>3, <2>1, <2>2 DEF Follows
  <1>4. Holds(Append(q, m), T) <=> Holds(q, T) \/ m \in T
    BY <1>1 DEF Holds
  <1> QED BY <1>2, <1>3, <1>4

\* A step off the connection and the page that leaves a quiet server quiet.
LEMMA EndQuiet ==
    ASSUME QuietAfterEnd, UNCHANGED <<conState, toServer, page, pageStop>>,
           Quiet => Quiet'
    PROVE  QuietAfterEnd'
  BY DEF QuietAfterEnd

\* The render thread lowers the flag at most.
LEMMA EndRender == QuietAfterEnd /\ Render => QuietAfterEnd'
  <1> SUFFICES ASSUME QuietAfterEnd, Render PROVE QuietAfterEnd'
    OBVIOUS
  <1> USE DEF flagVars, pageVars
  <1>1. UNCHANGED <<conState, toServer, page, pageStop, stop>>
    BY DEF Render, CheckNeedMoreFrames, Encode, EncodeWithoutEncoder, EndBroadcast, IterateUndefined,
       PushFrame, SendFails, ResetNeedMoreFrames, CheckSaveFrame, Save, idle,
       CheckHandler, ResetHandler, VisitNext
  <1>2. UNCHANGED needMoreFrames \/ needMoreFrames' = FALSE
    BY DEF Render, CheckNeedMoreFrames, Encode, EncodeWithoutEncoder, EndBroadcast, IterateUndefined,
       PushFrame, SendFails, ResetNeedMoreFrames, ClearRequest, CheckSaveFrame,
       Save, idle, CheckHandler, ResetHandler, VisitNext
  <1> QED BY <1>1, <1>2, EndQuiet DEF Quiet

\* There is one viewer.
LEMMA Alone ==
    ASSUME Cardinality(Client) = 1, NEW c \in Client
    PROVE  Client = {c}
  BY ClientAssumption, FS_Singleton

\* A handler takes a message, ends a stream, or follows a departure.
LEMMA EndIo ==
    ASSUME NEW c \in Client, Client = {c}, TypeOK, QuietAfterEnd,
           ParseAgain \/ IoFor(c)
    PROVE  QuietAfterEnd'
  <1> USE DEF flagVars, pageVars
  <1> DEFINE q == toServer[c]
  <1>1. CASE ParseAgain \/ InsertConnection(c) \/ ResetEncoder(c)
    BY <1>1, EndQuiet DEF ParseAgain, ParseEvent, InsertConnection, ResetEncoder, Quiet
  <1>2. CASE OpenConnection(c)
    BY <1>2 DEF OpenConnection, QuietAfterEnd, TypeOK, Quiet
  <1>3. CASE OnClose(c)
    BY <1>3, EndQuiet DEF OnClose, Withdraw, WithdrawRequest, Quiet
  <1>4. CASE EraseConnection(c)
    BY <1>4 DEF EraseConnection, QuietAfterEnd, TypeOK, Quiet
  <1>5. CASE OnCloseFrame(c) \/ LoseConnection(c)
    BY <1>5 DEF OnCloseFrame, LoseConnection, GoDown, QuietAfterEnd, TypeOK, Quiet
  <1>6. ASSUME NEW m, Receives(c, m)
        PROVE  /\ conState[c] = "open" /\ Head(q) = m
               /\ toServer'[c] = Tail(q)
               /\ Follows(q, Request, {"END"}) => Follows(Tail(q), Request, {"END"})
               /\ Holds(q, {"END"}) /\ m # "END" => Holds(Tail(q), {"END"})
               /\ Follows(q, Request, {"END"}) /\ m \in Request => Holds(Tail(q), {"END"})
    BY <1>6, TakeHead DEF Receives, TypeOK
  <1>7. CASE OnRequest(c)
    <2>1. PICK m \in Request : Receives(c, m)
      BY <1>7 DEF OnRequest
    <2>2. UNCHANGED <<conState, page, pageStop>>
      BY <1>7 DEF OnRequest
    <2> QED BY <1>6, <2>1, <2>2 DEF QuietAfterEnd
  <1>8. CASE OnSave(c) \/ \E e \in Event : OnEvent(c, e)
    <2>1. PICK m \in {"SAVE"} \cup Event : Receives(c, m)
      BY <1>8 DEF OnSave, OnEvent
    <2>2. m # "END"
      BY <2>1 DEF Event
    <2>3. UNCHANGED <<conState, page, pageStop, stop, needMoreFrames>>
      BY <1>8 DEF OnSave, OnEvent
    <2> QED BY <1>6, <2>1, <2>2, <2>3 DEF QuietAfterEnd, Quiet
  <1>9. CASE OnEnd(c)
    <2>1. Receives(c, "END") /\ UNCHANGED <<conState, page, pageStop>> /\ Quiet'
      BY <1>9 DEF OnEnd, Withdraw, WithdrawRequest, Quiet
    <2> QED BY <1>6, <2>1 DEF QuietAfterEnd
  <1> QED BY <1>1, <1>2, <1>3, <1>4, <1>5, <1>7, <1>8, <1>9 DEF IoFor

\* The page of the jpeg viewer asks for nothing after its END.
LEMMA EndPage ==
    ASSUME Codec = "jpeg", NEW c \in Client, Client = {c}, TypeOK, QuietAfterEnd,
           Browser(c) \/ User(c)
    PROVE  QuietAfterEnd'
  <1> DEFINE q == toServer[c]
  <1>0. UNCHANGED <<conState, stop, needMoreFrames>>
    BY PageStep DEF serverVars, flagVars
  <1>1. ASSUME NEW m \in Message, Sends(c, m)
        PROVE  /\ toServer'[c] = Append(q, m)
               /\ Follows(q, Request, {"END"}) /\ m \notin Request
                    => Follows(toServer'[c], Request, {"END"})
               /\ Holds(q, {"END"}) => Holds(toServer'[c], {"END"})
               /\ m = "END" => /\ Follows(toServer'[c], Request, {"END"})
                              /\ Holds(toServer'[c], {"END"})
    <2>1. toServer'[c] = Append(q, m) /\ q \in Seq(Message)
      BY <1>1 DEF Sends, TypeOK
    <2>2. Request \cap {"END"} = {}
      BY DEF Request
    <2>3. /\ Follows(q, Request, {"END"}) /\ m \notin Request
               => Follows(Append(q, m), Request, {"END"})
          /\ m \in {"END"} => Follows(Append(q, m), Request, {"END"})
          /\ Holds(Append(q, m), {"END"}) <=> Holds(q, {"END"}) \/ m \in {"END"}
      BY <1>1, <2>1, <2>2, PutBehind
    <2> QED BY <2>1, <2>3
  <1>2. CASE OnMessageReader(c) \/ PictureDecoded(c) \/ NothingDecoded(c)
    BY <1>0, <1>2, EndQuiet DEF OnMessageReader, PictureDecoded, NothingDecoded,
       DecodeFrame, Quiet
  <1>3. CASE NextBlob(c)
    <2>1. pageStop[c] => UNCHANGED toServer
      BY <1>3 DEF NextBlob, AsksAgain
    <2> QED BY <1>0, <1>3, <2>1 DEF NextBlob, QuietAfterEnd, Quiet
  <1>4. CASE ClickStream(c)
    BY <1>0, <1>4 DEF ClickStream, Input, PageOpen, QuietAfterEnd, Quiet, TypeOK
  <1>5. CASE ClickEnd(c)
    <2>1. Sends(c, "END") /\ page[c] = "open" /\ UNCHANGED page
      BY <1>5 DEF ClickEnd, Input, PageOpen
    <2> QED BY <1>0, <1>1, <2>1 DEF QuietAfterEnd, Quiet, Message
  <1>6. CASE SendInput(c)
    <2>1. PICK m \in Event \cup {"SAVE"} : Input(c, m)
      BY <1>6 DEF SendInput
    <2>2. m \in Message \ Request /\ Sends(c, m) /\ UNCHANGED <<page, pageStop>>
      BY <1>6, <2>1 DEF SendInput, Input, Message, Event, Request
    <2> QED BY <1>0, <1>1, <2>2 DEF QuietAfterEnd, Quiet
  <1>7. CASE Connect(c)
    BY <1>0, <1>7 DEF Connect, QuietAfterEnd, TypeOK, Quiet
  <1>8. CASE ClosePage(c) \/ LosePage(c)
    BY <1>0, <1>8 DEF ClosePage, LosePage, QuietAfterEnd, TypeOK, Quiet
  <1> QED BY <1>2, <1>3, <1>4, <1>5, <1>6, <1>7, <1>8 DEF Browser, User

\* The END of a lone jpeg viewer is final: no request of its page, sent
\* before or prompted by a frame that was still under way, raises the flags
\* after it (websocketConnection.js:386).
THEOREM LoneEndIsFinal ==
    ASSUME Cardinality(Client) = 1, Codec = "jpeg"
    PROVE  Spec => []EndIsFinal
  <1>1. Init => QuietAfterEnd
    BY DEF Init, QuietAfterEnd, Quiet
  <1>2. TypeOK /\ QuietAfterEnd /\ [Next]_vars => QuietAfterEnd'
    <2> SUFFICES ASSUME TypeOK, QuietAfterEnd, [Next]_vars PROVE QuietAfterEnd'
      OBVIOUS
    <2>1. CASE UNCHANGED vars
      BY <2>1, EndQuiet DEF vars, Quiet
    <2>2. ASSUME NEW c \in Client, IoFor(c) \/ Browser(c) \/ User(c)
          PROVE  QuietAfterEnd'
      BY <2>2, Alone, EndIo, EndPage
    <2>3. CASE ParseAgain
      BY <2>3, EndQuiet DEF ParseAgain, ParseEvent, pageVars, flagVars, Quiet
    <2> QED BY <2>1, <2>2, <2>3, EndRender DEF Next, ServerDead
  <1>3. QuietAfterEnd => EndIsFinal
    BY DEF QuietAfterEnd, EndIsFinal, Holds, Quiet
  <1> QED BY <1>1, <1>2, <1>3, TypeCorrect, PTL DEF Spec

\* Where the requests of a pipe are: Requests(c) counts them.
RequestsAt(q) == {i \in DOMAIN q : q[i] \in Request}

\* A pipe holds finitely many requests.
LEMMA CountFinite ==
    ASSUME NEW q \in Seq(Message)
    PROVE  IsFiniteSet(RequestsAt(q)) /\ Cardinality(RequestsAt(q)) \in Nat
  <1>1. IsFiniteSet(1..Len(q)) /\ RequestsAt(q) \subseteq 1..Len(q)
    BY FS_Interval DEF RequestsAt
  <1> QED BY <1>1, FS_Subset, FS_CardinalityType

\* An empty pipe holds no request.
LEMMA CountEmpty == Cardinality(RequestsAt(<<>>)) = 0
  <1>1. RequestsAt(<<>>) = {}
    BY DEF RequestsAt
  <1> QED BY <1>1, FS_EmptySet

\* A message behind the others adds itself.
LEMMA CountAppend ==
    ASSUME NEW q \in Seq(Message), NEW m \in Message
    PROVE  Cardinality(RequestsAt(Append(q, m)))
             = Cardinality(RequestsAt(q)) + One(m \in Request)
  <1>1. /\ DOMAIN Append(q, m) = 1..(Len(q) + 1) /\ DOMAIN q = 1..Len(q)
        /\ Len(q) \in Nat /\ Append(q, m)[Len(q) + 1] = m
        /\ \A i \in DOMAIN q : Append(q, m)[i] = q[i]
    OBVIOUS
  <1>2. Len(q) + 1 \notin RequestsAt(q)
    BY <1>1 DEF RequestsAt
  <1>3. RequestsAt(Append(q, m)) =
          IF m \in Request THEN RequestsAt(q) \cup {Len(q) + 1} ELSE RequestsAt(q)
    BY <1>1 DEF RequestsAt
  <1>4. IsFiniteSet(RequestsAt(q)) /\ Cardinality(RequestsAt(q)) \in Nat
    BY CountFinite
  <1>5. Cardinality(RequestsAt(q) \cup {Len(q) + 1}) = Cardinality(RequestsAt(q)) + 1
    BY <1>2, <1>4, FS_AddElement
  <1>6. CASE m \in Request BY <1>3, <1>5, <1>6 DEF One
  <1>7. CASE m \notin Request BY <1>3, <1>4, <1>7 DEF One
  <1> QED BY <1>6, <1>7

\* The message that is taken was counted, the others still are.
LEMMA CountTail ==
    ASSUME NEW q \in Seq(Message), q # <<>>
    PROVE  Cardinality(RequestsAt(Tail(q))) + One(Head(q) \in Request)
             <= Cardinality(RequestsAt(q))
  <1>1. /\ DOMAIN q = 1..Len(q) /\ Len(q) \in Nat \ {0} /\ Head(q) = q[1]
        /\ DOMAIN Tail(q) = 1..(Len(q) - 1) /\ Tail(q) \in Seq(Message)
        /\ \A i \in DOMAIN Tail(q) : Tail(q)[i] = q[i + 1]
    OBVIOUS
  <1> DEFINE S == RequestsAt(Tail(q))
             T == RequestsAt(q) \ {1}
             f == [i \in S |-> i + 1]
  <1>2. f \in Injection(S, T)
    <2>1. \A i \in S : i \in Nat \ {0} /\ i + 1 \in T
      BY <1>1 DEF RequestsAt
    <2>2. f \in [S -> T]
      BY <2>1
    <2>3. \A i, j \in S : f[i] = f[j] => i = j
      BY <2>1
    <2> QED BY <2>2, <2>3 DEF Injection, IsInjective
  <1>3. IsFiniteSet(RequestsAt(q)) /\ Cardinality(RequestsAt(q)) \in Nat
    BY CountFinite
  <1>4. IsFiniteSet(T)
        /\ Cardinality(T) = Cardinality(RequestsAt(q)) - One(1 \in RequestsAt(q))
    BY <1>3, FS_RemoveElement DEF One
  <1>5. Cardinality(S) <= Cardinality(T)
    BY <1>2, <1>4, FS_Injection
  <1>6. 1 \in RequestsAt(q) <=> Head(q) \in Request
    BY <1>1 DEF RequestsAt
  <1>7. Cardinality(S) \in Nat
    BY <1>1, CountFinite
  <1> QED BY <1>3, <1>4, <1>5, <1>6, <1>7 DEF One

\* What SelfClocking adds up: the frames and requests under way for a page.
Wanted == Claimed \/ (needMoreFrames /\ pc # "reset")
Load(c) ==
    Len(toClient[c]) + One(reading[c]) + Cardinality(RequestsAt(toServer[c]))
      + One(Wanted)

\* What clocks the stream, without the premise that the viewer is alone.
Clocked == \A c \in Client : Load(c) <= streamClicks[c]

\* The summands of the load are numbers.
LEMMA LoadType ==
    ASSUME TypeOK, NEW c \in Client
    PROVE  /\ Len(toClient[c]) \in Nat /\ One(reading[c]) \in {0, 1}
           /\ Cardinality(RequestsAt(toServer[c])) \in Nat
           /\ One(Wanted) \in {0, 1} /\ streamClicks[c] \in Nat
  BY CountFinite DEF TypeOK, One

\* So are they after a step.
LEMMA LoadTypeNext ==
    ASSUME TypeOK', NEW c \in Client
    PROVE  /\ Len(toClient'[c]) \in Nat /\ One(reading'[c]) \in {0, 1}
           /\ Cardinality(RequestsAt(toServer'[c])) \in Nat
           /\ One(Wanted') \in {0, 1} /\ streamClicks'[c] \in Nat
  BY CountFinite DEF TypeOK, One

\* A step that sends nothing and claims no more keeps the load.
LEMMA ClockedQuiet ==
    ASSUME TypeOK, TypeOK', Clocked, UNCHANGED <<toClient, reading, toServer, streamClicks>>,
           Wanted' => Wanted
    PROVE  Clocked'
  <1> SUFFICES ASSUME NEW c \in Client PROVE Load(c)' <= streamClicks'[c]
    BY DEF Clocked
  <1>1. One(Wanted)' <= One(Wanted)
    BY DEF One
  <1>2. Load(c) <= streamClicks[c]
    BY DEF Clocked
  <1>3. One(Wanted)' \in {0, 1}
    BY DEF One
  <1> QED BY <1>1, <1>2, <1>3, LoadType, LoadTypeNext DEF Load

\* A broadcast serves one request, and sends one frame for it.
LEMMA ClockedRender ==
    ASSUME NEW c \in Client, Client = {c}, TypeOK, TypeOK', Core, Clocked, Render
    PROVE  Clocked'
  <1> USE DEF MovesTo, flagVars, renderVars, pageVars
  <1>1. CASE CheckNeedMoreFrames
    <2>1. Wanted' => Wanted
      BY <1>1 DEF CheckNeedMoreFrames, FrameWanted, Wanted, Claimed
    <2> QED BY <1>1, <2>1, ClockedQuiet DEF CheckNeedMoreFrames
  <1>2. CASE Encode \/ EndBroadcast
    <2>1. Wanted' => Wanted
      BY <1>2 DEF Encode, EndBroadcast, Wanted, Claimed
    <2> QED BY <1>2, <2>1, ClockedQuiet DEF Encode, EndBroadcast
  <1>3. CASE \E d \in Client : VisitNext(d)
    <2>1. VisitNext(c) /\ it = Before
      BY <1>3, ClientAssumption DEF VisitNext, AfterIterator, TypeOK
    <2>2. Wanted
      BY <2>1 DEF VisitNext, Wanted, Claimed
    <2> QED BY <2>1, <2>2, ClockedQuiet DEF VisitNext
  <1>4. CASE IterateUndefined \/ SendFails \/ EncodeWithoutEncoder
    BY <1>4, ClockedQuiet DEF EncodeWithoutEncoder, IterateUndefined, SendFails, Wanted, Claimed
  <1>5. CASE PushFrame
    <2>1. it = c
      BY <1>5 DEF PushFrame, Core, BroadcastHadMember, TypeOK
    <2>2. Len(toClient'[c]) <= Len(toClient[c]) + 1
      BY <1>5, <2>1 DEF PushFrame, TypeOK
    <2>3. Wanted /\ ~Wanted'
      BY <1>5 DEF PushFrame, Wanted, Claimed
    <2>4. One(Wanted) = 1 /\ One(Wanted)' = 0
      BY <2>3 DEF One
    <2>5. UNCHANGED <<reading, toServer, streamClicks>>
      BY <1>5 DEF PushFrame
    <2>6. Load(c)' <= Load(c)
      BY <2>2, <2>4, <2>5, LoadType, LoadTypeNext DEF Load
    <2> QED BY <2>5, <2>6, LoadType, LoadTypeNext DEF Clocked, Load
  <1>6. CASE ResetNeedMoreFrames
    <2>1. ~Wanted'
      BY <1>6 DEF ResetNeedMoreFrames, ClearRequest, Core, BroadcastHadMember,
         Wanted, Claimed
    <2> QED BY <1>6, <2>1, ClockedQuiet DEF ResetNeedMoreFrames
  <1>7. CASE CheckSaveFrame \/ Save \/ idle
    <2>1. Wanted' => Wanted
      BY <1>7 DEF CheckSaveFrame, Save, idle, CheckHandler, ResetHandler, Wanted, Claimed
    <2>2. UNCHANGED <<toClient, reading, toServer, streamClicks>>
      BY <1>7 DEF CheckSaveFrame, Save, idle, CheckHandler, ResetHandler
    <2> QED BY <2>1, <2>2, ClockedQuiet
  <1> QED BY <1>1, <1>2, <1>3, <1>4, <1>5, <1>6, <1>7 DEF Render

\* A handler turns a request into the flag, or drops what it takes.
LEMMA ClockedIo ==
    ASSUME NEW c \in Client, Client = {c}, TypeOK, TypeOK', Clocked,
           ParseAgain \/ IoFor(c)
    PROVE  Clocked'
  <1> USE DEF flagVars, renderVars, pageVars
  <1>1. CASE \/ ParseAgain \/ OpenConnection(c) \/ InsertConnection(c)
             \/ ResetEncoder(c) \/ OnClose(c) \/ EraseConnection(c)
    <2>1. UNCHANGED <<toClient, reading, toServer, streamClicks, pc, it>>
      BY <1>1 DEF ParseAgain, ParseEvent, OpenConnection, InsertConnection,
         ResetEncoder, OnClose, EraseConnection
    <2>2. needMoreFrames' => needMoreFrames
      BY <1>1 DEF ParseAgain, ParseEvent, OpenConnection, InsertConnection,
         ResetEncoder, OnClose, Withdraw, WithdrawRequest, EraseConnection
    <2> QED BY <2>1, <2>2, ClockedQuiet DEF Wanted, Claimed
  <1>2. ASSUME NEW m, Receives(c, m)
        PROVE  Cardinality(RequestsAt(toServer'[c])) + One(m \in Request)
                 <= Cardinality(RequestsAt(toServer[c]))
    BY <1>2, CountTail DEF Receives, TypeOK
  <1>3. ASSUME Cardinality(RequestsAt(toServer'[c])) <= Cardinality(RequestsAt(toServer[c])),
               Len(toClient'[c]) <= Len(toClient[c]),
               UNCHANGED <<reading, streamClicks, pc, it>>,
               needMoreFrames' => needMoreFrames
        PROVE  Clocked'
    <2>1. One(Wanted)' <= One(Wanted) /\ One(Wanted)' \in {0, 1}
      BY <1>3 DEF Wanted, Claimed, One
    <2> QED BY <1>3, <2>1, LoadType, LoadTypeNext DEF Clocked, Load
  <1>4. CASE OnRequest(c)
    <2>1. PICK m \in Request : Receives(c, m)
      BY <1>4 DEF OnRequest
    <2>2. Cardinality(RequestsAt(toServer'[c])) + 1 <= Cardinality(RequestsAt(toServer[c]))
      BY <1>2, <2>1 DEF One
    <2>3. UNCHANGED <<toClient, reading, streamClicks>>
      BY <1>4 DEF OnRequest
    <2>4. One(Wanted)' \in {0, 1}
      BY DEF One
    <2> QED BY <2>2, <2>3, <2>4, LoadType, LoadTypeNext DEF Clocked, Load
  <1>5. CASE OnSave(c) \/ OnEnd(c) \/ \E e \in Event : OnEvent(c, e)
    <2>1. PICK m : Receives(c, m)
      BY <1>5 DEF OnSave, OnEnd, OnEvent
    <2>2. One(m \in Request) \in {0, 1}
      BY DEF One
    <2>3. Cardinality(RequestsAt(toServer'[c])) <= Cardinality(RequestsAt(toServer[c]))
      BY <1>2, <2>1, <2>2, LoadType, LoadTypeNext
    <2>4. UNCHANGED <<toClient, reading, streamClicks, pc, it>>
      BY <1>5 DEF OnSave, OnEnd, OnEvent
    <2>5. needMoreFrames' => needMoreFrames
      BY <1>5 DEF OnSave, OnEnd, Withdraw, WithdrawRequest, OnEvent
    <2> QED BY <1>3, <2>3, <2>4, <2>5, LoadType, LoadTypeNext
  <1>6. CASE OnCloseFrame(c) \/ LoseConnection(c)
    <2>1. UNCHANGED <<reading, streamClicks, pc, it, needMoreFrames>>
          /\ toClient'[c] = <<>>
      BY <1>6 DEF OnCloseFrame, LoseConnection, GoDown, TypeOK
    <2>2. Cardinality(RequestsAt(toServer'[c])) <= Cardinality(RequestsAt(toServer[c]))
      <3>1. CASE OnCloseFrame(c)
        BY <1>2, <3>1, LoadType, LoadTypeNext DEF OnCloseFrame, One
      <3>2. CASE LoseConnection(c)
        BY <3>2, CountEmpty, LoadType, LoadTypeNext DEF LoseConnection, TypeOK
      <3> QED BY <1>6, <3>1, <3>2
    <2> QED BY <1>3, <2>1, <2>2, LoadType, LoadTypeNext
  <1> QED BY <1>1, <1>4, <1>5, <1>6 DEF IoFor

\* A page asks once for each frame it was sent, and once for each click.
LEMMA ClockedPage ==
    ASSUME NEW c \in Client, Client = {c}, TypeOK, TypeOK', Clocked,
           Browser(c) \/ User(c)
    PROVE  Clocked'
  <1>1. One(Wanted)' = One(Wanted)
    BY PageStep DEF serverVars, flagVars, renderVars, Wanted, Claimed
  <1>2. ASSUME NEW m \in Message, Sends(c, m)
        PROVE  Cardinality(RequestsAt(toServer'[c]))
                 = Cardinality(RequestsAt(toServer[c])) + One(m \in Request)
    BY <1>2, CountAppend DEF Sends, TypeOK
  <1>3. CASE OnMessageReader(c)
    <2>1. /\ Len(toClient'[c]) + 1 = Len(toClient[c])
          /\ UNCHANGED <<toServer, streamClicks>>
      BY <1>3 DEF OnMessageReader, TypeOK
    <2> QED BY <1>1, <2>1, LoadType, LoadTypeNext DEF Clocked, Load
  <1>4. CASE NextBlob(c)
    <2>1. One(reading[c]) = 1 /\ One(reading'[c]) = 0
      BY <1>4 DEF NextBlob, One, TypeOK
    <2>2. Cardinality(RequestsAt(toServer'[c]))
            <= Cardinality(RequestsAt(toServer[c])) + 1
      BY <1>2, <1>4, LoadType, LoadTypeNext DEF NextBlob, Message, Request, One
    <2>3. UNCHANGED <<toClient, streamClicks>>
      BY <1>4 DEF NextBlob
    <2> QED BY <1>1, <2>1, <2>2, <2>3, LoadType, LoadTypeNext DEF Clocked, Load
  <1>5. CASE PictureDecoded(c) \/ NothingDecoded(c)
    <2>1. /\ Len(toClient'[c]) + 1 = Len(toClient[c])
          /\ UNCHANGED <<reading, streamClicks>>
      BY <1>5 DEF PictureDecoded, NothingDecoded, DecodeFrame, TypeOK
    <2>2. Cardinality(RequestsAt(toServer'[c]))
            <= Cardinality(RequestsAt(toServer[c])) + 1
      BY <1>2, <1>5, LoadType, LoadTypeNext
         DEF PictureDecoded, NothingDecoded, Message, Request, One
    <2> QED BY <1>1, <2>1, <2>2, LoadType, LoadTypeNext DEF Clocked, Load
  <1>6. CASE ClickStream(c)
    <2>1. Sends(c, "STVIS") /\ UNCHANGED <<toClient, reading>>
          /\ streamClicks'[c] = streamClicks[c] + 1
      BY <1>6 DEF ClickStream, Input, TypeOK
    <2>2. Cardinality(RequestsAt(toServer'[c]))
            = Cardinality(RequestsAt(toServer[c])) + 1
      BY <1>2, <2>1 DEF Message, Request, One
    <2> QED BY <1>1, <2>1, <2>2, LoadType, LoadTypeNext DEF Clocked, Load
  <1>7. CASE ClickEnd(c) \/ SendInput(c)
    <2>1. PICK m \in Message \ Request : Input(c, m)
      BY <1>7 DEF ClickEnd, SendInput, Message, Event, Request
    <2>2. /\ Sends(c, m) /\ UNCHANGED <<toClient, reading, streamClicks>>
      BY <1>7, <2>1 DEF ClickEnd, SendInput, Input
    <2>3. Cardinality(RequestsAt(toServer'[c])) = Cardinality(RequestsAt(toServer[c]))
      BY <1>2, <2>1, <2>2, LoadType, LoadTypeNext DEF One
    <2> QED BY <1>1, <2>2, <2>3, LoadType, LoadTypeNext DEF Clocked, Load
  <1>8. CASE Connect(c)
    BY <1>1, <1>8 DEF Connect, Clocked, Load
  <1>9. CASE ClosePage(c) \/ LosePage(c)
    <2>1. /\ toClient'[c] = <<>> /\ One(reading'[c]) = 0
          /\ UNCHANGED streamClicks
      BY <1>9 DEF ClosePage, LosePage, TypeOK, One
    <2>2. Cardinality(RequestsAt(toServer'[c])) = Cardinality(RequestsAt(toServer[c]))
      <3>1. CASE ClosePage(c)
        <4>1. toServer'[c] = Append(toServer[c], "CLOSE")
          BY <3>1 DEF ClosePage, TypeOK
        <4>2. toServer[c] \in Seq(Message) /\ "CLOSE" \in Message \ Request
          BY DEF TypeOK, Message, Event, Request
        <4> QED BY <4>1, <4>2, CountAppend, LoadType, LoadTypeNext DEF One
      <3>2. CASE LosePage(c)
        BY <3>2 DEF LosePage
      <3> QED BY <1>9, <3>1, <3>2
    <2> QED BY <1>1, <2>1, <2>2, LoadType, LoadTypeNext DEF Clocked, Load
  <1> QED BY <1>3, <1>4, <1>5, <1>6, <1>7, <1>8, <1>9 DEF Browser, User

\* Every frame and every request under way to or from a lone viewer stems
\* from a click on Stream: neither pipe grows with time.
THEOREM StreamIsSelfClocking == Spec => []SelfClocking
  <1>1. CASE Cardinality(Client) = 1
    <2>1. Init => Clocked
      BY CountEmpty DEF Init, Clocked, Load, One, Wanted, Claimed
    <2>2. TypeOK /\ TypeOK' /\ Core /\ Clocked /\ [Next]_vars => Clocked'
      <3> SUFFICES ASSUME TypeOK, TypeOK', Core, Clocked, [Next]_vars PROVE Clocked'
        OBVIOUS
      <3>1. CASE UNCHANGED vars
        BY <3>1 DEF vars, Clocked, Load, Wanted, Claimed
      <3>2. PICK c \in Client : Client = {c}
        BY <1>1, ClientAssumption, FS_Singleton
      <3> QED BY <3>1, <3>2, ClockedRender, ClockedIo, ClockedPage DEF Next, ServerDead
    <2>3. IInv => Core
      BY DEF IInv, Core
    <2>4. Clocked => SelfClocking
      BY DEF Clocked, Load, SelfClocking, Requests, RequestsAt, Wanted
    <2> QED BY <2>1, <2>2, <2>3, <2>4, TypeCorrect, InductiveInvariant, PTL DEF Spec
  <1>2. CASE Cardinality(Client) # 1
    <2>1. SelfClocking
      BY <1>2 DEF SelfClocking
    <2> QED BY <2>1, PTL
  <1> QED BY <1>1, <1>2

-----------------------------------------------------------------------------
(* The causes of a stall, for every number of viewers.                     *)

\* A request that on_message handled will be served.
Pending(c) == needMoreFrames \/ pc = "encode" \/ c \in StillOwed

UnderWay(c) ==
    \/ Holds(toServer[c], Request) \/ toClient[c] # <<>> \/ lostBy[c] # "none"
    \/ c \in unanswered /\ Pending(c)

\* A page that went away, or did not come yet, waits for nothing, and only it
\* closes its connection; a page that waits has asked after its last END.
PageMatches(c) ==
    /\ conState[c] \in {"down", "gone"} => page[c] \in {"closed", "lost"}
    /\ page[c] \in {"out", "open"} => ~Holds(toServer[c], {"CLOSE"})
    /\ waiting[c] => page[c] = "open" /\ Follows(toServer[c], {"END"}, Request)

\* Only members are owed an answer, and none whose connection is erased.
OwedToMembers ==
    /\ unanswered \subseteq m_connections
    /\ \A c \in Client : io = Erasing(c) => c \notin unanswered

Accounted ==
    /\ OwedToMembers
    /\ \A c \in Client : PageMatches(c)
    /\ \A c \in Client : waiting[c] => UnderWay(c)

accountVars == <<conState, page, toServer, waiting>>

\* A step of the server that keeps, or notes, what is under way.
LEMMA AccountKept ==
    ASSUME Accounted, UNCHANGED accountVars,
           OwedToMembers',
           \A c \in Client : waiting[c] /\ UnderWay(c) => UnderWay(c)'
    PROVE  Accounted'
  BY DEF Accounted, accountVars, PageMatches

\* A step off the broadcast and its flag.
LEMMA AccountQuiet ==
    ASSUME Accounted, UNCHANGED <<accountVars, toClient, lostBy, unanswered,
               m_connections, needMoreFrames, it>>,
           io' = io \/ \A c \in Client : io' # Erasing(c),
           pc' = pc \/ {pc, pc'} \cap {"encode", "next", "push", "reset"} = {}
    PROVE  Accounted'
  <1>1. \A c \in Client : UnderWay(c) => UnderWay(c)'
    BY DEF UnderWay, Pending, StillOwed, AfterIterator, accountVars
  <1>2. OwedToMembers'
    BY DEF Accounted, OwedToMembers
  <1> QED BY <1>1, <1>2, AccountKept

\* The render thread serves who asked, or notes that it did not.
LEMMA AccountRender == TypeOK /\ Core /\ Accounted /\ Render => Accounted'
  <1> SUFFICES ASSUME TypeOK, Core, Accounted, Render PROVE Accounted'
    OBVIOUS
  <1> USE DEF MovesTo, flagVars, renderVars, pageVars, requestHistory, accountVars
  <1>0. unanswered \subseteq m_connections
    BY DEF Accounted, OwedToMembers
  <1>10. ASSUME UNCHANGED <<io, m_connections>>, unanswered' \subseteq unanswered
         PROVE  OwedToMembers'
    BY <1>10 DEF Accounted, OwedToMembers
  <1>1. CASE CheckNeedMoreFrames
    <2>1. \A c \in Client : UnderWay(c) => UnderWay(c)'
      BY <1>1 DEF CheckNeedMoreFrames, FrameWanted, UnderWay, Pending, StillOwed
    <2> QED BY <1>10, <1>1, <2>1, AccountKept DEF CheckNeedMoreFrames
  <1>2. CASE Encode
    <2>1. StillOwed' = m_connections
      BY <1>2, EncodeOwes
    <2>2. \A c \in Client : UnderWay(c) => UnderWay(c)'
      BY <1>0, <1>2, <2>1 DEF Encode, UnderWay, Pending
    <2> QED BY <1>10, <1>2, <2>2, AccountKept DEF Encode
  <1>3. CASE EndBroadcast
    <2>1. \A c \in Client : UnderWay(c) => UnderWay(c)'
      BY <1>3 DEF EndBroadcast, UnderWay, Pending, StillOwed
    <2> QED BY <1>10, <1>3, <2>1, AccountKept DEF EndBroadcast
  <1>4. CASE IterateUndefined \/ SendFails \/ EncodeWithoutEncoder
    BY <1>4, AccountQuiet DEF EncodeWithoutEncoder, IterateUndefined, SendFails
  <1>5. CASE PushFrame
    <2>1. it \in Client /\ StillOwed' = StillOwed \ {it}
      BY <1>5, PushOwes DEF PushFrame, Core, BroadcastHadMember, TypeOK
    <2>2. ASSUME NEW c \in Client, waiting[c], UnderWay(c) PROVE UnderWay(c)'
      <3>1. CASE c = it
        <4>1. page[c] = "open"
          BY <2>2 DEF Accounted, PageMatches
        <4>2. toClient'[c] = Append(toClient[c], compressedImg)
          BY <1>5, <2>1, <3>1, <4>1 DEF PushFrame, TypeOK
        <4>3. toClient'[c] # <<>>
          <5>1. toClient[c] \in Seq(Frame) /\ compressedImg \in Frame
            BY DEF TypeOK
          <5> QED BY <4>2, <5>1
        <4> QED BY <4>3 DEF UnderWay
      <3>2. CASE c # it
        <4>1. toClient'[c] = toClient[c]
          BY <1>5, <2>1, <3>2 DEF PushFrame, TypeOK
        <4>2. c \in unanswered => c \in unanswered'
          BY <1>5, <3>2 DEF PushFrame
        <4>3. Pending(c) => Pending(c)'
          BY <1>5, <2>1, <3>2 DEF PushFrame, Pending
        <4> QED BY <1>5, <2>2, <4>1, <4>2, <4>3 DEF PushFrame, UnderWay
      <3> QED BY <3>1, <3>2
    <2>3. OwedToMembers'
      BY <1>10, <1>5 DEF PushFrame
    <2> QED BY <1>5, <2>2, <2>3, AccountKept DEF PushFrame
  <1>6. CASE ResetNeedMoreFrames
    <2>1. ASSUME NEW c \in Client, UnderWay(c) PROVE UnderWay(c)'
      <3>1. CASE c \in unanswered \ AfterIterator
        BY <1>6, <3>1 DEF ResetNeedMoreFrames, LosesTo, UnderWay
      <3>2. CASE c \in unanswered /\ c \in AfterIterator
        BY <1>6, <3>2 DEF ResetNeedMoreFrames, UnderWay, Pending, StillOwed, AfterIterator
      <3>3. CASE c \notin unanswered
        BY <1>6, <2>1, <3>3 DEF ResetNeedMoreFrames, LosesTo, UnderWay
      <3> QED BY <3>1, <3>2, <3>3
    <2> QED BY <1>10, <1>6, <2>1, AccountKept DEF ResetNeedMoreFrames
  <1>7. CASE CheckSaveFrame \/ Save
    BY <1>7, AccountQuiet DEF CheckSaveFrame, Save, CaptureDone
  <1>8. CASE idle
    BY <1>8, AccountQuiet DEF idle, CheckHandler, ResetHandler
  <1>9. ASSUME NEW d \in Client, VisitNext(d) PROVE Accounted'
    <2>1. StillOwed' = StillOwed
      BY <1>9, VisitOwes
    <2>2. \A c \in Client : UnderWay(c) => UnderWay(c)'
      BY <1>9, <2>1 DEF VisitNext, UnderWay, Pending
    <2> QED BY <1>10, <1>9, <2>2, AccountKept DEF VisitNext
  <1> QED BY <1>1, <1>2, <1>3, <1>4, <1>5, <1>6, <1>7, <1>8, <1>9 DEF Render

\* A pipe that loses its head loses no request but that one, and gets no
\* CLOSE; its END had a request behind it.
LEMMA HeadTaken ==
    ASSUME TypeOK, NEW c \in Client, NEW m, Receives(c, m), PageMatches(c)
    PROVE  /\ \A d \in Client : d # c => toServer'[d] = toServer[d]
           /\ conState[c] = "open" /\ io = Idle
           /\ m # "CLOSE" \/ page[c] \notin {"out", "open"}
           /\ Holds(toServer'[c], {"CLOSE"}) => Holds(toServer[c], {"CLOSE"})
           /\ waiting[c] => Follows(toServer'[c], {"END"}, Request)
           /\ Holds(toServer[c], Request) /\ m \notin Request
                => Holds(toServer'[c], Request)
           /\ waiting[c] /\ m = "END" => Holds(toServer'[c], Request)
  <1> DEFINE q == toServer[c]
  <1>1. /\ q \in Seq(Message) /\ q # <<>> /\ Head(q) = m /\ toServer'[c] = Tail(q)
        /\ \A d \in Client : d # c => toServer'[d] = toServer[d]
        /\ conState[c] = "open" /\ io = Idle
    BY DEF Receives, TypeOK, IoIdle
  <1>2. waiting[c] => Follows(q, {"END"}, Request)
    BY DEF PageMatches
  <1>3. Holds(q, {m})
    BY <1>1 DEF Holds
  <1>4. m # "CLOSE" \/ page[c] \notin {"out", "open"}
    BY <1>3 DEF PageMatches
  <1>5. Holds(Tail(q), {"CLOSE"}) => Holds(q, {"CLOSE"})
    BY <1>1, TakeHead
  <1>6. /\ Follows(q, {"END"}, Request) => Follows(Tail(q), {"END"}, Request)
        /\ Holds(q, Request) /\ m \notin Request => Holds(Tail(q), Request)
        /\ Follows(q, {"END"}, Request) /\ m \in {"END"} => Holds(Tail(q), Request)
    BY <1>1, TakeHead
  <1> QED BY <1>1, <1>2, <1>4, <1>5, <1>6

\* The flags go down, and the loss is noted for everybody but one.
LEMMA WithdrawNotes ==
    ASSUME Accounted, NEW c \in Client, Withdraw(c), UNCHANGED toClient,
           NEW d \in Client, d # c, UnderWay(d), toServer'[d] = toServer[d]
    PROVE  UnderWay(d)'
  BY DEF Withdraw, LosesTo, UnderWay

\* A handler answers for the request it takes, and for those it withdraws.
LEMMA AccountIo ==
    ASSUME TypeOK, Core, Accounted, NEW c \in Client, IoFor(c)
    PROVE  Accounted'
  <1> USE DEF flagVars, renderVars, pageVars, requestHistory, accountVars
  <1>0. /\ unanswered \subseteq m_connections
        /\ \A d \in Client : io = Erasing(d) => d \notin unanswered
        /\ \A d \in Client : PageMatches(d)
    BY DEF Accounted, OwedToMembers
  <1>1. CASE OpenConnection(c)
    <2>1. \A d \in Client : UnderWay(d) => UnderWay(d)'
      BY <1>1 DEF OpenConnection, UnderWay, Pending, StillOwed, AfterIterator
    <2>2. \A d \in Client : PageMatches(d)'
      BY <1>0, <1>1 DEF OpenConnection, PageMatches, TypeOK
    <2>3. OwedToMembers'
      BY <1>0, <1>1, HandlersDiffer DEF OpenConnection, OwedToMembers
    <2> QED BY <1>1, <2>1, <2>2, <2>3 DEF OpenConnection, Accounted
  <1>2. CASE InsertConnection(c)
    <2>1. \A d \in Client : UnderWay(d) => UnderWay(d)'
      BY <1>2 DEF InsertConnection, UnderWay, Pending, StillOwed, AfterIterator
    <2>2. OwedToMembers'
      BY <1>0, <1>2, HandlersDiffer DEF InsertConnection, OwedToMembers
    <2> QED BY <1>2, <2>1, <2>2, AccountKept DEF InsertConnection
  <1>3. CASE ResetEncoder(c)
    BY <1>3, HandlersDiffer, AccountQuiet DEF ResetEncoder
  <1>4. CASE OnClose(c)
    <2>1. ~waiting[c]
      BY <1>0, <1>4 DEF OnClose, PageMatches
    <2>2. \A d \in Client : waiting[d] /\ UnderWay(d) => UnderWay(d)'
      BY <1>4, <2>1, WithdrawNotes DEF OnClose
    <2>3. OwedToMembers'
      BY <1>0, <1>4, HandlersDiffer DEF OnClose, Withdraw, OwedToMembers
    <2> QED BY <1>4, <2>2, <2>3, AccountKept DEF OnClose
  <1>5. CASE EraseConnection(c)
    <2>1. ~waiting[c] /\ conState[c] = "down" /\ io = Erasing(c)
      BY <1>0, <1>5, HandlersDiffer DEF EraseConnection, PageMatches, Core, HandlerMatchesState
    <2>2. ASSUME NEW d \in Client, d # c, UnderWay(d) PROVE UnderWay(d)'
      BY <1>5, <2>2 DEF EraseConnection, Erased, UnderWay, Pending, StillOwed,
         AfterIterator, TypeOK
    <2>3. \A d \in Client : PageMatches(d)'
      BY <1>0, <1>5, <2>1 DEF EraseConnection, PageMatches, TypeOK
    <2>4. OwedToMembers'
      BY <1>0, <1>5, HandlersDiffer DEF EraseConnection, Erased, OwedToMembers
    <2> QED BY <1>5, <2>1, <2>2, <2>3, <2>4 DEF EraseConnection, Accounted
  <1>6. CASE OnRequest(c)
    <2>1. PICK m \in Request : Receives(c, m)
      BY <1>6 DEF OnRequest
    <2>2. c \in m_connections /\ io = Idle /\ UNCHANGED io
      BY <1>6, <2>1, HandlersDiffer DEF Receives, OnRequest, Core, SendsToMembers, IoIdle
    <2>3. OwedToMembers'
      BY <1>0, <1>6, <2>2, HandlersDiffer DEF OnRequest, OwedToMembers
    <2>4. UnderWay(c)'
      BY <1>6 DEF OnRequest, RaiseRequest, UnderWay, Pending
    <2>5. ASSUME NEW d \in Client, d # c, UnderWay(d) PROVE UnderWay(d)'
      BY <1>6, <2>1, <2>5, HeadTaken, <1>0 DEF OnRequest, RaiseRequest, UnderWay, Pending
    <2>6. \A d \in Client : PageMatches(d)'
      BY <1>0, <1>6, <2>1, HeadTaken DEF OnRequest, PageMatches
    <2> QED BY <1>6, <2>3, <2>4, <2>5, <2>6 DEF OnRequest, Accounted
  <1>7. CASE OnSave(c) \/ \E e \in Event : OnEvent(c, e)
    <2>1. PICK m \in {"SAVE"} \cup Event : Receives(c, m)
      BY <1>7 DEF OnSave, OnEvent
    <2>2. m \notin Request
      BY <2>1 DEF Event, Request
    <2>3. /\ UNCHANGED <<conState, page, waiting, toClient, lostBy, unanswered,
                         m_connections, needMoreFrames, pc, it>>
          /\ io' = io \/ \A d \in Client : io' # Erasing(d)
      BY <1>7, HandlersDiffer DEF OnSave, OnEvent
    <2>4. \A d \in Client : UnderWay(d) => UnderWay(d)'
      BY <1>0, <2>1, <2>2, <2>3, HeadTaken DEF UnderWay, Pending, StillOwed, AfterIterator
    <2>5. \A d \in Client : PageMatches(d)'
      BY <1>0, <2>1, <2>3, HeadTaken DEF PageMatches
    <2>6. OwedToMembers'
      BY <1>0, <2>3 DEF OwedToMembers
    <2> QED BY <2>3, <2>4, <2>5, <2>6 DEF Accounted
  <1>8. CASE OnEnd(c)
    <2>1. Receives(c, "END")
      BY <1>8 DEF OnEnd
    <2>2. ASSUME NEW d \in Client, waiting[d], UnderWay(d) PROVE UnderWay(d)'
      <3>1. CASE d = c
        BY <1>0, <2>1, <2>2, <3>1, HeadTaken DEF UnderWay
      <3>2. CASE d # c
        BY <1>0, <1>8, <2>1, <2>2, <3>2, HeadTaken, WithdrawNotes DEF OnEnd
      <3> QED BY <3>1, <3>2
    <2>3. \A d \in Client : PageMatches(d)'
      BY <1>0, <1>8, <2>1, HeadTaken DEF OnEnd, PageMatches
    <2>4. OwedToMembers'
      BY <1>0, <1>8 DEF OnEnd, Withdraw, OwedToMembers
    <2> QED BY <1>8, <2>2, <2>3, <2>4 DEF OnEnd, Accounted
  <1>9. CASE OnCloseFrame(c) \/ LoseConnection(c)
    <2>1. /\ page[c] \in {"closed", "lost"} /\ ~waiting[c]
          /\ \A d \in Client : d # c => toServer'[d] = toServer[d]
      <3>1. CASE OnCloseFrame(c)
        BY <1>0, <3>1, HeadTaken DEF OnCloseFrame, PageMatches, TypeOK
      <3>2. CASE LoseConnection(c)
        BY <1>0, <3>2 DEF LoseConnection, PageMatches, TypeOK
      <3> QED BY <1>9, <3>1, <3>2
    <2>2. /\ UNCHANGED <<page, waiting, lostBy, unanswered, m_connections,
                         needMoreFrames, pc, it, io>>
          /\ \A d \in Client : d # c => /\ conState'[d] = conState[d]
                                       /\ toClient'[d] = toClient[d]
      BY <1>9 DEF OnCloseFrame, LoseConnection, GoDown, TypeOK
    <2>3. \A d \in Client : waiting[d] /\ UnderWay(d) => UnderWay(d)'
      BY <2>1, <2>2 DEF UnderWay, Pending, StillOwed, AfterIterator
    <2>4. \A d \in Client : PageMatches(d)'
      BY <1>0, <2>1, <2>2 DEF PageMatches
    <2>5. OwedToMembers'
      BY <1>0, <2>2 DEF OwedToMembers
    <2> QED BY <2>2, <2>3, <2>4, <2>5 DEF Accounted
  <1> QED BY <1>1, <1>2, <1>3, <1>4, <1>5, <1>6, <1>7, <1>8, <1>9 DEF IoFor

\* A page waits when it has sent a request, until a frame comes or it ends.
LEMMA AccountPage ==
    ASSUME TypeOK, Accounted, NEW c \in Client, Browser(c) \/ User(c)
    PROVE  Accounted'
  <1>0. /\ UNCHANGED <<conState, unanswered, m_connections, needMoreFrames, pc, it, io>>
        /\ PageMatches(c) /\ (waiting[c] => UnderWay(c))
    BY PageStep DEF serverVars, flagVars, renderVars, Accounted
  <1>1. OwedToMembers'
    BY <1>0 DEF Accounted, OwedToMembers
  <1>2. ASSUME NEW d \in Client, d # c
        PROVE  PageMatches(d)' /\ (waiting'[d] => UnderWay(d)')
    <2>1. /\ page'[d] = page[d] /\ toServer'[d] = toServer[d]
          /\ toClient'[d] = toClient[d] /\ waiting'[d] = waiting[d]
          /\ lostBy'[d] = lostBy[d]
      BY <1>2 DEF TypeOK, Browser, User, OnMessageReader, NextBlob, PictureDecoded,
         NothingDecoded, DecodeFrame,
         Connect, ClickStream, ClickEnd, SendInput, Input, Sends, ClosePage, LosePage
    <2> QED BY <1>0, <2>1 DEF Accounted, PageMatches, UnderWay, Pending, StillOwed,
            AfterIterator
  <1>3. SUFFICES PageMatches(c)' /\ (waiting'[c] => UnderWay(c)')
    BY <1>1, <1>2 DEF Accounted
  <1>4. Request \cap {"END"} = {} /\ Request \cap {"CLOSE"} = {}
    BY DEF Request
  <1>5. ASSUME NEW m \in Message, toServer'[c] = Append(toServer[c], m)
        PROVE  /\ Holds(toServer'[c], {"CLOSE"})
                    <=> Holds(toServer[c], {"CLOSE"}) \/ m = "CLOSE"
               /\ Holds(toServer'[c], Request)
                    <=> Holds(toServer[c], Request) \/ m \in Request
               /\ Follows(toServer[c], {"END"}, Request) /\ m # "END"
                    => Follows(toServer'[c], {"END"}, Request)
               /\ m \in Request => Follows(toServer'[c], {"END"}, Request)
    <2>1. toServer[c] \in Seq(Message)
      BY DEF TypeOK
    <2>2. Holds(toServer'[c], {"CLOSE"}) <=> Holds(toServer[c], {"CLOSE"}) \/ m = "CLOSE"
      <3>1. \A q \in Seq(Message) :
              Holds(Append(q, m), {"CLOSE"}) <=> Holds(q, {"CLOSE"}) \/ m \in {"CLOSE"}
        BY <1>4, PutBehind
      <3> QED BY <1>5, <2>1, <3>1
    <2>3. /\ Holds(toServer'[c], Request) <=> Holds(toServer[c], Request) \/ m \in Request
          /\ Follows(toServer[c], {"END"}, Request) /\ m \notin {"END"}
               => Follows(toServer'[c], {"END"}, Request)
          /\ m \in Request => Follows(toServer'[c], {"END"}, Request)
      BY <1>4, <1>5, <2>1, PutBehind
    <2> QED BY <2>2, <2>3
  <1>6. ASSUME NEW m \in Message, Sends(c, m)
        PROVE  toServer'[c] = Append(toServer[c], m)
    BY <1>6 DEF Sends, TypeOK
  <1>7. ASSUME NEW m \in Request, Sends(c, m), page[c] = "open", page' = page
        PROVE  PageMatches(c)' /\ UnderWay(c)'
    <2>1. m \in Message /\ m # "CLOSE"
      BY DEF Message, Request
    <2> QED BY <1>0, <1>5, <1>6, <1>7, <2>1 DEF PageMatches, UnderWay
  <1>8. CASE OnMessageReader(c)
    BY <1>0, <1>8 DEF OnMessageReader, PageOpen, PageMatches, TypeOK
  <1>9. CASE NextBlob(c)
    <2>1. CASE AsksAgain(c)
      BY <1>7, <1>9, <2>1 DEF NextBlob, PageOpen, Request
    <2>2. CASE ~AsksAgain(c)
      BY <1>0, <1>9, <2>2 DEF NextBlob, PageMatches, UnderWay, Pending, StillOwed,
         AfterIterator
    <2> QED BY <2>1, <2>2
  <1>10. CASE PictureDecoded(c) \/ NothingDecoded(c)
    <2>1. CASE PictureDecoded(c)
      BY <1>7, <2>1 DEF PictureDecoded, DecodeFrame, PageOpen, Request
    <2>2. CASE NothingDecoded(c)
      <3>1. lostBy'[c] # "none" /\ UNCHANGED <<toServer, waiting, page>>
        BY <2>2 DEF NothingDecoded, DecodeFrame, TypeOK
      <3> QED BY <1>0, <3>1 DEF PageMatches, UnderWay
    <2> QED BY <1>10, <2>1, <2>2
  <1>11. CASE ClickStream(c)
    BY <1>7, <1>11 DEF ClickStream, Input, PageOpen, Request
  <1>12. CASE ClickEnd(c)
    <2>1. /\ toServer'[c] = Append(toServer[c], "END") /\ ~waiting'[c]
          /\ UNCHANGED page
      BY <1>6, <1>12 DEF ClickEnd, Input, Message, TypeOK
    <2> QED BY <1>0, <1>5, <2>1 DEF PageMatches, Message
  <1>13. CASE SendInput(c)
    <2>1. PICK m \in Event \cup {"SAVE"} : Input(c, m)
      BY <1>13 DEF SendInput
    <2>2. m \in Message /\ m # "CLOSE" /\ m # "END" /\ m \notin Request
      BY DEF Message, Event, Request
    <2>3. /\ toServer'[c] = Append(toServer[c], m)
          /\ UNCHANGED <<page, waiting, toClient, lostBy>>
      BY <1>6, <1>13, <2>1, <2>2 DEF SendInput, Input
    <2>4. PageMatches(c)'
      BY <1>0, <1>5, <2>2, <2>3 DEF PageMatches
    <2>5. UnderWay(c) => UnderWay(c)'
      BY <1>0, <1>5, <2>2, <2>3 DEF UnderWay, Pending, StillOwed, AfterIterator
    <2> QED BY <1>0, <2>3, <2>4, <2>5
  <1>14. CASE Connect(c)
    BY <1>0, <1>14 DEF Connect, PageMatches, TypeOK
  <1>15. CASE ClosePage(c) \/ LosePage(c)
    <2>1. page'[c] \in {"closed", "lost"} /\ ~waiting'[c]
      BY <1>15 DEF ClosePage, LosePage, TypeOK
    <2> QED BY <1>0, <2>1 DEF PageMatches
  <1> QED BY <1>8, <1>9, <1>10, <1>11, <1>12, <1>13, <1>14, <1>15 DEF Browser, User

\* The three together hold in every state.
LEMMA Accounts == Spec => [](TypeOK /\ Core /\ Accounted)
  <1>1. Init => Accounted
    BY HandlersDiffer DEF Init, Accounted, OwedToMembers, PageMatches, Holds
  <1>2. TypeOK /\ Core /\ Accounted /\ [Next]_vars => Accounted'
    <2> SUFFICES ASSUME TypeOK, Core, Accounted, [Next]_vars PROVE Accounted'
      OBVIOUS
    <2>1. CASE UNCHANGED vars
      BY <2>1, AccountQuiet DEF vars, accountVars
    <2>2. CASE ParseAgain
      BY <2>2, HandlersDiffer, AccountQuiet DEF ParseAgain, ParseEvent, flagVars,
         renderVars, pageVars, requestHistory, accountVars
    <2> QED BY <2>1, <2>2, AccountRender, AccountIo, AccountPage DEF Next, ServerDead
  <1>3. IInv => TypeOK /\ Core
    BY DEF IInv, Core
  <1> QED BY <1>1, <1>2, <1>3, InductiveInvariant, PTL DEF Spec

\* An image stands behind a header only.
Preceded(q) == \A i \in DOMAIN q : q[i] = "img" => \E j \in DOMAIN q : j < i /\ q[j] = "header"

\* The server has coded no image yet, and owes the page the header.
Unserved(c) == compressedImg # "img" /\ (c \in m_connections => c \in headless)

\* What the page decodes begins with a header.
FromTheStart(c) ==
    \/ decoding[c]
    \/ Preceded(toClient[c]) /\ (Holds(toClient[c], {"header"}) \/ Unserved(c))

\* A viewer that no other one came before or after gets the stream from its
\* start.
LonerDecodes ==
    \A c \in Client :
        /\ page[c] = "out" => conState[c] = "none"
        /\ Codec = "h264" /\ page[c] \in {"out", "open"} /\ ~OthersCame(c)
             => FromTheStart(c)

\* The first frame of such a pipe is no image, and if it is empty the rest is
\* such a pipe.
LEMMA FrameTaken ==
    ASSUME NEW q \in Seq(Frame), q # <<>>, Preceded(q)
    PROVE  /\ Head(q) # "img"
           /\ Head(q) # "header" => Preceded(Tail(q))
           /\ Head(q) # "header" /\ Holds(q, {"header"}) => Holds(Tail(q), {"header"})
  <1>1. /\ Head(q) = q[1] /\ Len(q) \in Nat /\ Len(q) >= 1 /\ DOMAIN q = 1..Len(q)
        /\ DOMAIN Tail(q) = 1..(Len(q) - 1)
        /\ \A i \in 1..(Len(q) - 1) : Tail(q)[i] = q[i + 1]
    OBVIOUS
  <1>2. q[1] # "img"
    BY <1>1 DEF Preceded
  <1>3. ASSUME Head(q) # "header", NEW i \in DOMAIN q, q[i] = "header"
        PROVE  i - 1 \in DOMAIN Tail(q) /\ Tail(q)[i - 1] = "header"
    BY <1>1, <1>3
  <1>4. ASSUME Head(q) # "header", NEW i \in DOMAIN Tail(q), Tail(q)[i] = "img"
        PROVE  \E j \in DOMAIN Tail(q) : j < i /\ Tail(q)[j] = "header"
    <2>1. i + 1 \in DOMAIN q /\ q[i + 1] = "img"
      BY <1>1, <1>4
    <2>2. PICK j \in DOMAIN q : j < i + 1 /\ q[j] = "header"
      BY <2>1 DEF Preceded
    <2>3. j - 1 \in DOMAIN Tail(q) /\ Tail(q)[j - 1] = "header" /\ j - 1 < i
      BY <1>1, <1>3, <1>4, <2>2
    <2> QED BY <2>3
  <1> QED BY <1>1, <1>2, <1>3, <1>4 DEF Preceded, Holds

\* A frame behind such a pipe leaves it one, if it is no image or the header is
\* there.
LEMMA FrameBehind ==
    ASSUME NEW q \in Seq(Frame), NEW f \in Frame
    PROVE  /\ Preceded(q) /\ (f = "img" => Holds(q, {"header"})) => Preceded(Append(q, f))
           /\ Holds(q, {"header"}) \/ f = "header" => Holds(Append(q, f), {"header"})
  <1>1. /\ Len(q) \in Nat /\ DOMAIN q = 1..Len(q)
        /\ DOMAIN Append(q, f) = 1..(Len(q) + 1)
        /\ \A i \in 1..Len(q) : Append(q, f)[i] = q[i]
        /\ Append(q, f)[Len(q) + 1] = f
    OBVIOUS
  <1> HIDE DEF Frame
  <1>2. Holds(q, {"header"}) \/ f = "header" => Holds(Append(q, f), {"header"})
    BY <1>1 DEF Holds
  <1>3. ASSUME Preceded(q), f = "img" => Holds(q, {"header"}),
               NEW i \in DOMAIN Append(q, f), Append(q, f)[i] = "img"
        PROVE  \E j \in DOMAIN Append(q, f) : j < i /\ Append(q, f)[j] = "header"
    <2>1. PICK j \in DOMAIN q : j < i /\ q[j] = "header"
      BY <1>1, <1>3 DEF Preceded, Holds
    <2> QED BY <1>1, <2>1
  <1> QED BY <1>2, <1>3 DEF Preceded

\* A step off the frames, the encoder's buffer and the set of connections.
LEMMA LonerQuiet ==
    ASSUME LonerDecodes,
           UNCHANGED <<toClient, decoding, compressedImg, m_connections, headless>>,
           \A c \in Client : page'[c] \in {"out", "open"} => page[c] \in {"out", "open"},
           \A c \in Client : conState[c] # "none" => conState'[c] # "none",
           \A c \in Client : page'[c] = "out" => conState'[c] = "none"
    PROVE  LonerDecodes'
  BY DEF LonerDecodes, FromTheStart, Unserved, OthersCame

\* While no other viewer came, whoever is served is the one that did.
LEMMA LonerAlone ==
    ASSUME IInv, Accounted, LonerDecodes, NEW c \in Client,
           page[c] \in {"out", "open"}, ~OthersCame(c)
    PROVE  /\ m_connections \subseteq {c} /\ ~Departed(c)
           /\ \A d \in Client : ~Departed(d)
  <1>1. \A d \in Client \ {c} : conState[d] = "none"
    BY DEF OthersCame
  <1>2. ~Departed(c)
    BY DEF Accounted, PageMatches, Departed
  <1> QED BY <1>1, <1>2 DEF IInv, TypeOK, SendsToMembers, Departed

\* The first image is coded behind the header, and pushed behind it.
LEMMA LonerRender == IInv /\ TypeOK' /\ Accounted /\ LonerDecodes /\ Render => LonerDecodes'
  <1> SUFFICES ASSUME IInv, TypeOK', Accounted, LonerDecodes, Render PROVE LonerDecodes'
    OBVIOUS
  <1> USE DEF MovesTo, flagVars, encoderVars, renderVars, pageVars, requestHistory
  <1>0. \A c \in Client : page[c] = "out" => conState[c] = "none"
    BY DEF LonerDecodes
  <1>1. CASE Encode
    <2>1. SUFFICES ASSUME NEW c \in Client, Codec = "h264", page[c] \in {"out", "open"},
                          ~OthersCame(c), Unserved(c)
                   PROVE  compressedImg' # "img"
      BY <1>0, <1>1 DEF Encode, LonerDecodes, FromTheStart, Unserved, OthersCame
    <2>2. m_connections \subseteq {c} /\ \A d \in Client : ~Departed(d)
      BY <2>1, LonerAlone
    <2>3. Somebody /\ pc = "encode"
      BY <1>1 DEF Encode, IInv, BroadcastHadMember, Broadcasting
    <2>4. c \in headless
      BY <2>1, <2>2, <2>3 DEF Somebody, Departed, Unserved
    <2>5. HeaderReaches(c)
      BY <2>1, <2>4 DEF IInv, HeaderReachesLoner
    <2>6. io # Resetting(c)
      BY <2>2, <2>3 DEF IInv, HandlerMatchesState, ResetMeetsNoEncode
    <2>7. m_encoder \in {"fresh", "null"}
      BY <2>3, <2>5, <2>6 DEF HeaderReaches, StillOwed
    <2> QED BY <1>1, <2>1, <2>7 DEF Encode, EncodeNvPipe
  <1>2. CASE PushFrame
    <2>1. /\ it \in Client /\ conState[it] = "open" /\ compressedImg \in Frame
          /\ toClient \in [Client -> Seq(Frame)]
      BY <1>2 DEF PushFrame, IInv, BroadcastHadMember, TypeOK
    <2>2. SUFFICES ASSUME NEW c \in Client, Codec = "h264", page[c] \in {"out", "open"},
                          ~OthersCame(c), FromTheStart(c)
                   PROVE  FromTheStart(c)'
      BY <1>0, <1>2 DEF PushFrame, LonerDecodes, OthersCame
    <2>3. it = c /\ page[c] = "open"
      BY <1>0, <2>1, <2>2 DEF OthersCame
    <2>4. /\ toClient'[c] = Append(toClient[c], compressedImg)
          /\ UNCHANGED <<decoding, compressedImg, m_connections>>
          /\ compressedImg # "header" => UNCHANGED headless
      BY <1>2, <2>1, <2>3 DEF PushFrame
    <2>5. CASE decoding[c]
      BY <2>4, <2>5 DEF FromTheStart
    <2>6. CASE Preceded(toClient[c]) /\ (Holds(toClient[c], {"header"}) \/ Unserved(c))
      <3>1. /\ compressedImg = "img" => Holds(toClient[c], {"header"})
            /\ toClient[c] \in Seq(Frame)
        BY <2>1, <2>6 DEF Unserved
      <3>2. Preceded(toClient'[c])
        BY <2>1, <2>4, <2>6, <3>1, FrameBehind
      <3>3. CASE Holds(toClient[c], {"header"}) \/ compressedImg = "header"
        <4>1. Holds(toClient'[c], {"header"})
          BY <2>1, <2>4, <3>1, <3>3, FrameBehind
        <4> QED BY <3>2, <4>1 DEF FromTheStart
      <3>4. CASE Unserved(c) /\ compressedImg # "header"
        BY <2>4, <3>2, <3>4 DEF FromTheStart, Unserved
      <3> QED BY <2>6, <3>3, <3>4
    <2> QED BY <2>2, <2>5, <2>6 DEF FromTheStart
  <1>3. CASE ~Encode /\ ~PushFrame
    <2>1. UNCHANGED <<toClient, decoding, compressedImg, m_connections, headless,
                      page, conState>>
      BY <1>3 DEF Render, CheckNeedMoreFrames, EncodeWithoutEncoder, EndBroadcast,
         IterateUndefined, SendFails, ResetNeedMoreFrames, CheckSaveFrame, Save, idle,
         CheckHandler, ResetHandler, VisitNext
    <2> QED BY <1>0, <2>1, LonerQuiet
  <1> QED BY <1>1, <1>2, <1>3

\* Whoever is inserted alone is owed the header, and nobody else is inserted.
LEMMA LonerIo ==
    ASSUME IInv, Accounted, LonerDecodes, ParseAgain \/ \E c \in Client : IoFor(c)
    PROVE  LonerDecodes'
  <1> USE DEF flagVars, encoderVars, renderVars, pageVars, requestHistory
  <1>0. /\ \A c \in Client : page[c] = "out" => conState[c] = "none"
        /\ conState \in [Client -> {"none", "open", "down", "gone"}]
    BY DEF LonerDecodes, IInv, TypeOK
  <1>1. CASE ParseAgain
    BY <1>0, <1>1, LonerQuiet DEF ParseAgain, ParseEvent
  <1>2. ASSUME NEW c \in Client, IoFor(c) PROVE LonerDecodes'
    <2>1. CASE OpenConnection(c)
      BY <1>0, <2>1, LonerQuiet DEF OpenConnection
    <2>2. CASE InsertConnection(c)
      <3>1. /\ UNCHANGED <<toClient, decoding, compressedImg, page, conState>>
            /\ m_connections' = m_connections \cup {c} /\ conState[c] = "open"
            /\ c \notin m_connections
            /\ headless' = IF m_connections = {} THEN headless \cup {c} ELSE headless
        BY <2>2 DEF InsertConnection, IInv, HandlerMatchesState
      <3>2. SUFFICES ASSUME NEW d \in Client, page[d] \in {"out", "open"}, ~OthersCame(d),
                            Unserved(d)
                     PROVE  Unserved(d)'
        BY <1>0, <3>1 DEF LonerDecodes, FromTheStart, OthersCame
      <3>3. d = c /\ m_connections = {}
        BY <3>1, <3>2, LonerAlone DEF OthersCame
      <3> QED BY <3>1, <3>2, <3>3 DEF Unserved
    <2>3. CASE ResetEncoder(c) \/ OnRequest(c) \/ OnSave(c)
      BY <1>0, <2>3, LonerQuiet DEF ResetEncoder, OnRequest, OnSave
    <2>4. CASE OnEnd(c) \/ OnClose(c)
      BY <1>0, <2>4, LonerQuiet DEF OnEnd, OnClose, Withdraw
    <2>5. CASE OnCloseFrame(c) \/ LoseConnection(c) \/ EraseConnection(c)
      <3>1. /\ conState[c] \in {"open", "down"} /\ page[c] \notin {"out", "open"}
            /\ conState' = [conState EXCEPT ![c] = conState'[c]] /\ conState'[c] # "none"
        <4>1. CASE OnCloseFrame(c)
          BY <1>0, <4>1, HeadTaken
             DEF OnCloseFrame, GoDown, Receives, Accounted, IInv
        <4>2. CASE LoseConnection(c)
          BY <1>0, <4>2 DEF LoseConnection, GoDown
        <4>3. CASE EraseConnection(c)
          BY <1>0, <4>3 DEF EraseConnection, IInv, HandlerMatchesState, Accounted, PageMatches
        <4> QED BY <2>5, <4>1, <4>2, <4>3
      <3>2. ASSUME NEW d \in Client, d # c PROVE OthersCame(d)
        BY <3>1, <3>2 DEF OthersCame
      <3>3. UNCHANGED page /\ \A d \in Client : OthersCame(d) => OthersCame(d)'
        BY <1>0, <2>5, <3>1 DEF OnCloseFrame, LoseConnection, GoDown, EraseConnection,
           OthersCame
      <3> QED BY <1>0, <3>1, <3>2, <3>3 DEF LonerDecodes
    <2>6. ASSUME NEW e \in Event, OnEvent(c, e) PROVE LonerDecodes'
      BY <1>0, <2>6, LonerQuiet DEF OnEvent
    <2> QED BY <1>2, <2>1, <2>2, <2>3, <2>4, <2>5, <2>6 DEF IoFor
  <1> QED BY <1>1, <1>2

\* A page that decodes from the start has no image before the header.
LEMMA LonerPage ==
    ASSUME TypeOK, LonerDecodes, NEW c \in Client, Browser(c) \/ User(c)
    PROVE  LonerDecodes'
  <1>0. /\ UNCHANGED <<conState, compressedImg, m_connections, headless>>
        /\ \A d \in Client : page[d] = "out" => conState[d] = "none"
    BY PageStep DEF serverVars, encoderVars, LonerDecodes
  <1>1. CASE PictureDecoded(c) \/ NothingDecoded(c)
    <2>1. /\ DecodeFrame(c) /\ UNCHANGED page
      BY <1>1 DEF PictureDecoded, NothingDecoded, DecodeFrame
    <2>2. SUFFICES ASSUME NEW d \in Client, FromTheStart(d) PROVE FromTheStart(d)'
      BY <1>0, <2>1 DEF LonerDecodes, OthersCame
    <2>3. CASE d # c
      BY <1>0, <2>1, <2>2, <2>3 DEF DecodeFrame, FromTheStart, Unserved, TypeOK
    <2>4. CASE d = c
      <3>1. /\ toClient[c] \in Seq(Frame) /\ toClient[c] # <<>>
            /\ toClient'[c] = Tail(toClient[c])
            /\ decoding'[c] = (decoding[c] \/ Head(toClient[c]) = "header")
        BY <2>1 DEF DecodeFrame, TypeOK
      <3>2. CASE decoding[c] \/ Head(toClient[c]) = "header"
        BY <2>4, <3>1, <3>2 DEF FromTheStart
      <3>3. CASE ~decoding[c] /\ Head(toClient[c]) # "header"
        BY <1>0, <2>2, <2>4, <3>1, <3>3, FrameTaken DEF FromTheStart, Unserved
      <3> QED BY <3>2, <3>3
    <2> QED BY <2>3, <2>4
  <1>2. CASE OnMessageReader(c)
    BY <1>0, <1>2, CodecAssumption DEF OnMessageReader, LonerDecodes
  <1>3. CASE ClosePage(c) \/ LosePage(c)
    <2>1. /\ page'[c] \in {"closed", "lost"}
          /\ \A d \in Client : d # c => /\ page'[d] = page[d] /\ toClient'[d] = toClient[d]
                                       /\ decoding'[d] = decoding[d]
      BY <1>3 DEF ClosePage, LosePage, TypeOK
    <2> QED BY <1>0, <2>1 DEF LonerDecodes, FromTheStart, Unserved, OthersCame
  <1>4. CASE NextBlob(c) \/ ClickStream(c) \/ ClickEnd(c) \/ SendInput(c)
    BY <1>0, <1>4, LonerQuiet DEF NextBlob, ClickStream, ClickEnd, SendInput, Input
  <1>5. CASE Connect(c)
    BY <1>0, <1>5, LonerQuiet DEF Connect, TypeOK
  <1> QED BY <1>1, <1>2, <1>3, <1>4, <1>5 DEF Browser, User

\* What is noted as the cause of a loss has happened.
CausesAreReal ==
    \A c \in Client :
        /\ lostBy[c] \in {"withdrawn", "undecodable"} => OthersCame(c)
        /\ lostBy[c] \in {"dry", "undecodable"} => Codec = "h264"

\* A step that notes no other cause than the reset of the flag.
LEMMA CausesKept ==
    ASSUME CausesAreReal,
           \A c \in Client : conState[c] # "none" => conState'[c] # "none",
           \A c \in Client :
               lostBy'[c] \in {lostBy[c], "none", "overwritten"}
    PROVE  CausesAreReal'
  BY DEF CausesAreReal, OthersCame

\* The flags are withdrawn by the handler of a connection that was opened; only
\* the page of the H.264 viewer gets a frame without a picture, and a lone one
\* gets no image that it cannot decode.
LEMMA CausesStep ==
    ASSUME TypeOK, LonerDecodes, CausesAreReal, [Next]_vars
    PROVE  CausesAreReal'
  <1> USE DEF flagVars, renderVars, pageVars, requestHistory, serverVars
  <1>1. CASE UNCHANGED vars \/ ServerDead
    BY <1>1, CausesKept DEF vars, ServerDead
  <1>2. CASE Render
    <2>1. CASE ResetNeedMoreFrames
      BY <2>1, CausesKept DEF ResetNeedMoreFrames, LosesTo, TypeOK
    <2>2. CASE ~ResetNeedMoreFrames
      <3>1. UNCHANGED <<conState, lostBy>>
        BY <1>2, <2>2 DEF Render, CheckNeedMoreFrames, Encode, EndBroadcast,
           EncodeWithoutEncoder, IterateUndefined, PushFrame, SendFails, CheckSaveFrame, Save, idle,
           CheckHandler, ResetHandler, VisitNext
      <3> QED BY <3>1, CausesKept
    <2> QED BY <2>1, <2>2
  <1>3. CASE ParseAgain
    BY <1>3, CausesKept DEF ParseAgain, ParseEvent
  <1>4. ASSUME NEW c \in Client, IoFor(c) PROVE CausesAreReal'
    <2>1. CASE OnEnd(c) \/ OnClose(c)
      <3>1. UNCHANGED conState /\ conState[c] # "none"
        BY <2>1 DEF OnEnd, OnClose, Receives
      <3>2. \A d \in Client : lostBy'[d] = lostBy[d] \/ d # c
        BY <2>1 DEF OnEnd, OnClose, Withdraw, LosesTo
      <3>3. \A d \in Client : lostBy'[d] \in {lostBy[d], "withdrawn"}
        BY <2>1 DEF OnEnd, OnClose, Withdraw, LosesTo
      <3> QED BY <3>1, <3>2, <3>3 DEF CausesAreReal, OthersCame
    <2>2. CASE EraseConnection(c)
      BY <2>2, CausesKept DEF EraseConnection, TypeOK
    <2>3. CASE OpenConnection(c)
      BY <2>3, CausesKept DEF OpenConnection, TypeOK
    <2>4. CASE OnCloseFrame(c) \/ LoseConnection(c)
      BY <2>4, CausesKept DEF OnCloseFrame, LoseConnection, GoDown, TypeOK
    <2>5. CASE InsertConnection(c) \/ ResetEncoder(c) \/ OnRequest(c) \/ OnSave(c)
      BY <2>5, CausesKept DEF InsertConnection, ResetEncoder, OnRequest, OnSave
    <2>6. ASSUME NEW e \in Event, OnEvent(c, e) PROVE CausesAreReal'
      BY <2>6, CausesKept DEF OnEvent
    <2> QED BY <1>4, <2>1, <2>2, <2>3, <2>4, <2>5, <2>6 DEF IoFor
  <1>5. ASSUME NEW c \in Client, Browser(c) \/ User(c) PROVE CausesAreReal'
    <2>1. UNCHANGED conState
      BY <1>5, PageStep
    <2>2. CASE NothingDecoded(c)
      <3>1. /\ Codec = "h264" /\ page[c] = "open" /\ ~Decodable(c)
            /\ toClient[c] \in Seq(Frame) /\ toClient[c] # <<>>
        BY <2>2 DEF NothingDecoded, DecodeFrame, PageOpen, TypeOK
      <3>2. Head(toClient[c]) # "empty" => OthersCame(c)
        <4>1. SUFFICES ASSUME Head(toClient[c]) # "empty", FromTheStart(c) PROVE FALSE
          BY <3>1 DEF LonerDecodes
        <4>2. Head(toClient[c]) \in Frame
          BY <3>1
        <4>3. Head(toClient[c]) = "img" /\ ~decoding[c]
          BY <3>1, <4>1, <4>2 DEF Decodable, Frame
        <4> QED BY <3>1, <4>1, <4>3, FrameTaken DEF FromTheStart
      <3>3. /\ \A d \in Client : d # c => lostBy'[d] = lostBy[d]
            /\ lostBy'[c] = IF Head(toClient[c]) = "empty" THEN "dry" ELSE "undecodable"
        BY <2>2 DEF NothingDecoded, TypeOK
      <3> QED BY <2>1, <3>1, <3>2, <3>3 DEF CausesAreReal, OthersCame
    <2>3. CASE ~NothingDecoded(c)
      <3>1. \A d \in Client : lostBy'[d] \in {lostBy[d], "none"}
        BY <1>5, <2>3 DEF Browser, User, OnMessageReader, NextBlob, PictureDecoded,
           Connect, ClickStream, ClickEnd, SendInput, Input, ClosePage, LosePage, TypeOK
      <3> QED BY <2>1, <3>1, CausesKept
    <2> QED BY <2>2, <2>3
  <1> QED BY <1>1, <1>2, <1>3, <1>4, <1>5 DEF Next

\* A lone viewer of the H.264 server never gets a frame that it cannot decode
\* for want of a header ("so new SPS and PPS H264 frames are sent to the client",
\* cBroadcastServer.cpp:130), however the frames and the reset interleave.
THEOREM LonersDecode == Spec => []LonerDecodes
  <1>1. Init => LonerDecodes
    <2> SUFFICES ASSUME Init PROVE LonerDecodes
      OBVIOUS
    <2>1. \A c \in Client : toClient[c] = <<>> /\ Unserved(c)
      BY DEF Init, Unserved
    <2>2. Preceded(<<>>)
      BY DEF Preceded
    <2> QED BY <2>1, <2>2 DEF Init, LonerDecodes, FromTheStart
  <1>2. IInv /\ TypeOK' /\ Accounted /\ LonerDecodes /\ [Next]_vars => LonerDecodes'
    <2> SUFFICES ASSUME IInv, TypeOK', Accounted, LonerDecodes, [Next]_vars
                 PROVE  LonerDecodes'
      OBVIOUS
    <2>1. CASE UNCHANGED vars \/ ServerDead
      BY <2>1, LonerQuiet DEF vars, ServerDead, LonerDecodes
    <2>2. TypeOK
      BY DEF IInv
    <2> QED BY <2>1, <2>2, LonerRender, LonerIo, LonerPage DEF Next
  <1> QED BY <1>1, <1>2, InductiveInvariant, Accounts, PTL DEF Spec

\* However many viewers there are, a page that waits for a frame in vain lost its
\* loop of requests to the reset of the flag behind a send (:372, :453); or to
\* another viewer that was connected and ended its stream or left (:148, :202);
\* or, with the H.264 encoder only, to an encoding that failed
\* (cNvPipeEncoder.h:253), or to a frame of a stream that began for another
\* viewer, whose header the page never got (:131).
THEOREM StallsHaveCauses == Spec => []StallHasCause
  <1>1. Init => CausesAreReal
    BY DEF Init, CausesAreReal
  <1>2. TypeOK /\ Accounted /\ CausesAreReal => StallHasCause
    <2> SUFFICES ASSUME TypeOK, Accounted, CausesAreReal, NEW c \in Client, waiting[c],
                        ~RequestUnderWay(c)
                 PROVE  \/ lostBy[c] = "overwritten"
                        \/ lostBy[c] = "withdrawn" /\ OthersCame(c)
                        \/ lostBy[c] = "dry" /\ Codec = "h264"
                        \/ lostBy[c] = "undecodable" /\ Codec = "h264" /\ OthersCame(c)
      BY DEF StallHasCause
    <2>1. Holds(toServer[c], Request) => Requests(c) > 0
      <3>1. toServer[c] \in Seq(Message)
        BY DEF TypeOK
      <3>2. /\ IsFiniteSet(RequestsAt(toServer[c]))
            /\ Cardinality(RequestsAt(toServer[c])) \in Nat
        BY <3>1, CountFinite
      <3>3. Holds(toServer[c], Request) => RequestsAt(toServer[c]) # {}
        BY DEF Holds, RequestsAt
      <3>4. RequestsAt(toServer[c]) # {} => Cardinality(RequestsAt(toServer[c])) > 0
        BY <3>2, FS_EmptySet
      <3> QED BY <3>3, <3>4 DEF Requests, RequestsAt
    <2>2. lostBy[c] # "none"
      BY <2>1 DEF Accounted, UnderWay, Pending, RequestUnderWay
    <2> QED BY <2>2 DEF TypeOK, CausesAreReal
  <1> QED BY <1>1, <1>2, CausesStep, Accounts, LonersDecode, PTL DEF Spec

\* The stream of a lone jpeg viewer stalls in one way only: on_message raises
\* needMoreFrames between the send and the reset of the flag (:371-372).
THEOREM LoneStreamOnlyOverwritten ==
    ASSUME Cardinality(Client) = 1, Codec = "jpeg"
    PROVE  Spec => [](\A c \in Client :
               waiting[c] => RequestUnderWay(c) \/ lostBy[c] = "overwritten")
  <1>1. \A c \in Client : ~OthersCame(c)
    BY Alone DEF OthersCame
  <1>2. StallHasCause => \A c \in Client :
            waiting[c] => RequestUnderWay(c) \/ lostBy[c] = "overwritten"
    BY <1>1 DEF StallHasCause
  <1> QED BY <1>2, StallsHaveCauses, PTL

-----------------------------------------------------------------------------
(* Those who leave.                                                        *)

\* CLOSE is the last message of a pipe, and in no other place of it.
EndsInClose(q) == q # <<>> /\ q[Len(q)] = "CLOSE"
NoCloseBefore(q) == \A i \in DOMAIN q : q[i] = "CLOSE" => i = Len(q)

\* The page was closed, or its browser was killed.
PageGone(c) == page[c] \in {"closed", "lost"}

\* A page that is closed is heard, however full its pipe was, and only a page
\* that is gone loses its connection; nothing is left of a connection that
\* ended, in either direction, and nothing of a viewer that was erased.
LeaverHeard(c) ==
    /\ page[c] = "closed" => Departed(c) \/ EndsInClose(toServer[c])
    /\ Departed(c) => PageGone(c) /\ toServer[c] = <<>> /\ toClient[c] = <<>>
    /\ conState[c] = "gone" =>
           /\ c \notin m_connections \cup unanswered \cup headless
           /\ lostBy[c] = "none"

LeaversHeard == \A c \in Client : LeaverHeard(c)

\* Why: nobody writes to a page that is gone, and it writes CLOSE last.
Left(c) ==
    /\ page[c] = "closed" => Departed(c) \/ EndsInClose(toServer[c])
    /\ page[c] # "closed" => ~Holds(toServer[c], {"CLOSE"})
    /\ NoCloseBefore(toServer[c])
    /\ page[c] # "open" => toClient[c] = <<>>
    /\ Departed(c) => PageGone(c) /\ toServer[c] = <<>>
    /\ conState[c] = "gone" => lostBy[c] = "none"

LeftAll == \A c \in Client : Left(c)

\* The head of the pipe is taken.
LEMMA CloseTaken ==
    ASSUME NEW q \in Seq(Message), q # <<>>, NoCloseBefore(q)
    PROVE  /\ NoCloseBefore(Tail(q))
           /\ Head(q) = "CLOSE" => Tail(q) = <<>>
           /\ Head(q) # "CLOSE" /\ EndsInClose(q) => EndsInClose(Tail(q))
           /\ Holds(Tail(q), {"CLOSE"}) => Holds(q, {"CLOSE"})
  <1>1. /\ DOMAIN q = 1..Len(q) /\ Len(q) \in Nat \ {0} /\ Head(q) = q[1]
        /\ Tail(q) \in Seq(Message) /\ Len(Tail(q)) = Len(q) - 1
        /\ DOMAIN Tail(q) = 1..(Len(q) - 1)
        /\ \A i \in DOMAIN Tail(q) : Tail(q)[i] = q[i + 1]
    OBVIOUS
  <1>2. NoCloseBefore(Tail(q))
    BY <1>1 DEF NoCloseBefore
  <1>3. ASSUME Head(q) = "CLOSE" PROVE Tail(q) = <<>>
    <2>1. Len(q) = 1
      BY <1>1, <1>3 DEF NoCloseBefore
    <2> QED BY <1>1, <2>1
  <1>4. ASSUME Head(q) # "CLOSE", EndsInClose(q) PROVE EndsInClose(Tail(q))
    <2>1. Len(q) # 1
      BY <1>1, <1>4 DEF EndsInClose
    <2>2. Len(Tail(q)) \in DOMAIN Tail(q) /\ Tail(q)[Len(Tail(q))] = q[Len(q)]
      BY <1>1, <2>1
    <2>3. Len(Tail(q)) # Len(<<>>)
      BY <1>1, <2>1
    <2>4. Tail(q) # <<>>
      BY <2>3
    <2> QED BY <1>4, <2>2, <2>4 DEF EndsInClose
  <1>5. Holds(Tail(q), {"CLOSE"}) => Holds(q, {"CLOSE"})
    <2>1. ASSUME NEW i \in DOMAIN Tail(q), Tail(q)[i] = "CLOSE"
          PROVE  i + 1 \in DOMAIN q /\ q[i + 1] = "CLOSE"
      BY <1>1, <2>1
    <2> QED BY <2>1 DEF Holds
  <1> QED BY <1>2, <1>3, <1>4, <1>5

\* A message is put behind a pipe without a CLOSE.
LEMMA CloseBehind ==
    ASSUME NEW q \in Seq(Message), NEW m \in Message, ~Holds(q, {"CLOSE"})
    PROVE  /\ NoCloseBefore(Append(q, m))
           /\ m # "CLOSE" => ~Holds(Append(q, m), {"CLOSE"})
           /\ m = "CLOSE" => EndsInClose(Append(q, m))
  <1>1. /\ DOMAIN q = 1..Len(q) /\ Len(q) \in Nat
        /\ DOMAIN Append(q, m) = 1..(Len(q) + 1) /\ Append(q, m) # <<>>
        /\ Len(Append(q, m)) = Len(q) + 1
        /\ \A i \in DOMAIN Append(q, m) :
               Append(q, m)[i] = IF i = Len(q) + 1 THEN m ELSE q[i]
    OBVIOUS
  <1> QED BY <1>1 DEF NoCloseBefore, Holds, EndsInClose

\* A step off the pages, the connections and their pipes to the server.
LEMMA LeftQuiet ==
    ASSUME LeftAll, UNCHANGED <<page, conState, toServer>>,
           \A c \in Client : page[c] # "open" => toClient'[c] = toClient[c],
           \A c \in Client : conState[c] = "gone" => lostBy'[c] = lostBy[c]
    PROVE  LeftAll'
  BY DEF LeftAll, Left, Departed, PageGone

\* The render thread sends nothing to a page that is gone, and notes no loss
\* of a viewer that was erased.
LEMMA LeftRender ==
    ASSUME TypeOK, Core, OwedToMembers, LeftAll, Render
    PROVE  LeftAll'
  <1> USE DEF MovesTo, flagVars, renderVars, pageVars, requestHistory
  <1>1. CASE PushFrame
    <2>1. \A c \in Client : page[c] # "open" => toClient'[c] = toClient[c]
      BY <1>1 DEF PushFrame, TypeOK
    <2> QED BY <1>1, <2>1, LeftQuiet DEF PushFrame
  <1>2. CASE ResetNeedMoreFrames
    <2>1. \A c \in unanswered : conState[c] # "gone"
      BY DEF OwedToMembers, Core, SendsToMembers
    <2>2. \A c \in Client : conState[c] = "gone" => lostBy'[c] = lostBy[c]
      BY <1>2, <2>1 DEF ResetNeedMoreFrames, LosesTo, TypeOK
    <2> QED BY <1>2, <2>2, LeftQuiet DEF ResetNeedMoreFrames
  <1>3. CASE CheckNeedMoreFrames \/ Encode \/ EncodeWithoutEncoder \/ EndBroadcast
          \/ IterateUndefined
    BY <1>3, LeftQuiet DEF CheckNeedMoreFrames, Encode, EncodeWithoutEncoder, EndBroadcast,
       IterateUndefined
  <1>4. CASE SendFails \/ CheckSaveFrame \/ Save
    BY <1>4, LeftQuiet DEF SendFails, CheckSaveFrame, Save
  <1>5. CASE idle
    BY <1>5, LeftQuiet DEF idle, CheckHandler, ResetHandler
  <1>6. ASSUME NEW c \in Client, VisitNext(c) PROVE LeftAll'
    BY <1>6, LeftQuiet DEF VisitNext
  <1> QED BY <1>1, <1>2, <1>3, <1>4, <1>5, <1>6 DEF Render

\* A handler takes a message, or CLOSE, behind which there is none.
LEMMA LeftIo ==
    ASSUME TypeOK, Core, OwedToMembers, LeftAll, NEW c \in Client, IoFor(c)
    PROVE  LeftAll'
  <1> USE DEF flagVars, renderVars, pageVars, requestHistory
  <1>0. \A d \in unanswered : conState[d] # "gone"
    BY DEF OwedToMembers, Core, SendsToMembers
  <1>1. CASE InsertConnection(c) \/ ResetEncoder(c)
    BY <1>1, LeftQuiet DEF InsertConnection, ResetEncoder
  <1>2. CASE OpenConnection(c)
    BY <1>2 DEF OpenConnection, LeftAll, Left, Departed, PageGone, TypeOK
  <1>3. CASE OnClose(c)
    <2>1. \A d \in Client : conState[d] = "gone" => lostBy'[d] = lostBy[d]
      BY <1>0, <1>3 DEF OnClose, Withdraw, LosesTo
    <2> QED BY <1>3, <2>1, LeftQuiet DEF OnClose
  <1>4. CASE EraseConnection(c)
    <2>1. conState[c] = "down"
      BY <1>4 DEF EraseConnection, Core, HandlerMatchesState
    <2> QED BY <1>4, <2>1 DEF EraseConnection, LeftAll, Left, Departed, PageGone, TypeOK
  <1>5. ASSUME NEW m \in Message, Receives(c, m)
        PROVE  /\ \A d \in Client : d # c => toServer'[d] = toServer[d]
               /\ conState[c] = "open"
               /\ NoCloseBefore(toServer'[c])
               /\ m = "CLOSE" => page[c] = "closed" /\ toServer'[c] = <<>>
               /\ m # "CLOSE" /\ EndsInClose(toServer[c]) => EndsInClose(toServer'[c])
               /\ Holds(toServer'[c], {"CLOSE"}) => Holds(toServer[c], {"CLOSE"})
    <2> DEFINE q == toServer[c]
    <2>1. /\ q \in Seq(Message) /\ q # <<>> /\ Head(q) = m /\ toServer'[c] = Tail(q)
          /\ \A d \in Client : d # c => toServer'[d] = toServer[d]
          /\ conState[c] = "open"
      BY <1>5 DEF Receives, TypeOK
    <2>2. NoCloseBefore(q) /\ (page[c] # "closed" => ~Holds(q, {"CLOSE"}))
      BY DEF LeftAll, Left
    <2>3. m = "CLOSE" => Holds(q, {"CLOSE"})
      BY <2>1 DEF Holds
    <2> QED BY <2>1, <2>2, <2>3, CloseTaken
  <1>6. ASSUME NEW m \in Message \ {"CLOSE"}, Receives(c, m),
               UNCHANGED <<page, conState, toClient>>,
               \A d \in Client : conState[d] = "gone" => lostBy'[d] = lostBy[d]
        PROVE  LeftAll'
    BY <1>5, <1>6 DEF LeftAll, Left, Departed, PageGone
  <1>7. CASE OnRequest(c)
    BY <1>6, <1>7 DEF OnRequest, Request, Message
  <1>8. CASE OnSave(c)
    BY <1>6, <1>8 DEF OnSave, Message
  <1>9. CASE OnEnd(c)
    <2>1. \A d \in Client : conState[d] = "gone" => lostBy'[d] = lostBy[d]
      BY <1>0, <1>9 DEF OnEnd, Withdraw, LosesTo
    <2> QED BY <1>6, <1>9, <2>1 DEF OnEnd, Message
  <1>10. ASSUME NEW e \in Event, OnEvent(c, e) PROVE LeftAll'
    BY <1>6, <1>10 DEF OnEvent, Message, Event
  <1>11. CASE OnCloseFrame(c) \/ LoseConnection(c)
    <2>1. /\ PageGone(c) /\ toServer'[c] = <<>> /\ toClient'[c] = <<>>
          /\ \A d \in Client : d # c => /\ toServer'[d] = toServer[d]
                                       /\ toClient'[d] = toClient[d]
          /\ conState' = [conState EXCEPT ![c] = "down"]
          /\ UNCHANGED <<page, lostBy>>
      <3>1. CASE OnCloseFrame(c)
        BY <1>5, <3>1 DEF OnCloseFrame, GoDown, PageGone, TypeOK, Message
      <3>2. CASE LoseConnection(c)
        BY <3>2 DEF LoseConnection, GoDown, PageGone, TypeOK
      <3> QED BY <1>11, <3>1, <3>2
    <2>2. NoCloseBefore(<<>>) /\ ~Holds(<<>>, {"CLOSE"})
      BY DEF NoCloseBefore, Holds
    <2> QED BY <2>1, <2>2 DEF LeftAll, Left, Departed, PageGone, TypeOK
  <1> QED BY <1>1, <1>2, <1>3, <1>4, <1>7, <1>8, <1>9, <1>10, <1>11 DEF IoFor

\* Only an open page sends, and it sends nothing behind its CLOSE.
LEMMA LeftPage ==
    ASSUME TypeOK, LeftAll, NEW c \in Client, Browser(c) \/ User(c)
    PROVE  LeftAll'
  <1>1. UNCHANGED conState
    BY PageStep DEF serverVars
  <1>2. ASSUME NEW d \in Client, d # c PROVE Left(d)'
    <2>1. /\ page'[d] = page[d] /\ toServer'[d] = toServer[d]
          /\ toClient'[d] = toClient[d] /\ lostBy'[d] = lostBy[d]
      BY <1>2 DEF TypeOK, Browser, User, OnMessageReader, NextBlob, PictureDecoded,
         NothingDecoded, DecodeFrame,
         Connect, ClickStream, ClickEnd, SendInput, Input, Sends, ClosePage, LosePage
    <2> QED BY <1>1, <2>1 DEF LeftAll, Left, Departed, PageGone
  <1>3. Left(c) /\ toServer[c] \in Seq(Message)
    BY DEF LeftAll, TypeOK
  <1> SUFFICES Left(c)'
    BY <1>2 DEF LeftAll
  <1>4. ASSUME NEW m \in Message \ {"CLOSE"}, Sends(c, m), PageOpen(c), page' = page
        PROVE  Left(c)'
    <2>1. ~Holds(toServer[c], {"CLOSE"}) /\ ~Departed(c)
      BY <1>3, <1>4 DEF Left, PageOpen, PageGone
    <2>2. toServer'[c] = Append(toServer[c], m)
      BY <1>4 DEF Sends, TypeOK
    <2> QED BY <1>1, <1>3, <1>4, <2>1, <2>2, CloseBehind DEF Left, Departed, PageOpen
  <1>5. ASSUME PageOpen(c), UNCHANGED <<page, toServer>> PROVE Left(c)'
    BY <1>1, <1>3, <1>5 DEF Left, Departed, PageOpen, PageGone
  <1>6. CASE OnMessageReader(c)
    BY <1>5, <1>6 DEF OnMessageReader
  <1>7. CASE NextBlob(c)
    BY <1>4, <1>5, <1>7 DEF NextBlob, Message, Request
  <1>8. CASE PictureDecoded(c) \/ NothingDecoded(c)
    BY <1>4, <1>5, <1>8
       DEF PictureDecoded, NothingDecoded, DecodeFrame, Message, Request
  <1>9. ASSUME NEW m \in Message \ {"CLOSE"}, Input(c, m) PROVE Left(c)'
    BY <1>4, <1>9 DEF Input
  <1>10. CASE ClickStream(c) \/ ClickEnd(c) \/ SendInput(c)
    BY <1>9, <1>10 DEF ClickStream, ClickEnd, SendInput, Message, Request, Event
  <1>11. CASE Connect(c)
    BY <1>1, <1>3, <1>11 DEF Connect, Left, Departed, PageGone, TypeOK
  <1>12. CASE ClosePage(c)
    <2>1. ~Holds(toServer[c], {"CLOSE"}) /\ ~Departed(c)
      BY <1>3, <1>12 DEF Left, ClosePage, PageOpen, PageGone
    <2>2. /\ toServer'[c] = Append(toServer[c], "CLOSE") /\ toClient'[c] = <<>>
          /\ page'[c] = "closed"
      BY <1>12 DEF ClosePage, TypeOK
    <2>3. NoCloseBefore(toServer'[c]) /\ EndsInClose(toServer'[c])
      BY <1>3, <2>1, <2>2, CloseBehind DEF Message
    <2> QED BY <1>1, <2>1, <2>2, <2>3 DEF Left, Departed
  <1>13. CASE LosePage(c)
    <2>1. ~Holds(toServer[c], {"CLOSE"}) /\ ~Departed(c)
      BY <1>3, <1>13 DEF Left, LosePage, PageOpen, PageGone
    <2>2. UNCHANGED toServer /\ toClient'[c] = <<>> /\ page'[c] = "lost"
      BY <1>13 DEF LosePage, TypeOK
    <2> QED BY <1>1, <1>3, <2>1, <2>2 DEF Left, Departed
  <1> QED BY <1>6, <1>7, <1>8, <1>10, <1>11, <1>12, <1>13 DEF Browser, User

\* A viewer's departure is never lost (on_close, cBroadcastServer.cpp:140-155):
\* its CLOSE stays the last message of its pipe until the server has read all
\* that was before it, and on_close leaves nothing of the viewer behind, so that
\* no later handler can act for it.
THEOREM DeparturesAreHeard == Spec => []LeaversHeard
  <1>1. Init => LeftAll
    BY DEF Init, LeftAll, Left, Departed, Holds, NoCloseBefore
  <1>2. TypeOK /\ Core /\ Accounted /\ LeftAll /\ [Next]_vars => LeftAll'
    <2> SUFFICES ASSUME TypeOK, Core, Accounted, LeftAll, [Next]_vars PROVE LeftAll'
      OBVIOUS
    <2>0. OwedToMembers
      BY DEF Accounted
    <2>1. CASE UNCHANGED vars
      BY <2>1, LeftQuiet DEF vars
    <2>2. CASE ParseAgain
      BY <2>2, LeftQuiet DEF ParseAgain, ParseEvent, pageVars, requestHistory
    <2> QED BY <2>0, <2>1, <2>2, LeftRender, LeftIo, LeftPage DEF Next, ServerDead
  <1>3. TypeOK /\ Core /\ Accounted /\ LeftAll => LeaversHeard
    <2> SUFFICES ASSUME TypeOK, Core, Accounted, LeftAll, NEW c \in Client
                 PROVE  LeaverHeard(c)
      BY DEF LeaversHeard
    <2>1. Left(c)
      BY DEF LeftAll
    <2>2. conState[c] = "gone" => c \notin m_connections
      BY DEF Core, SendsToMembers
    <2>3. unanswered \subseteq m_connections /\ headless \subseteq m_connections
      BY DEF Accounted, OwedToMembers, TypeOK
    <2> QED BY <2>1, <2>2, <2>3 DEF Left, LeaverHeard, PageGone
  <1> QED BY <1>1, <1>2, <1>3, Accounts, PTL DEF Spec
=============================================================================
