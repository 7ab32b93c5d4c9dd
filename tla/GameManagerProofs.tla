--------------------------- MODULE GameManagerProofs ---------------------------
(***************************************************************************)
(* What holds of the game manager for any number of players, clients,      *)
(* streams and broadcasts: its types; that no broadcast uses the stream of *)
(* a Talk that has returned; that the stream of a Talk with no other       *)
(* beside it stays registered; and that a game whose clients each sent one *)
(* CONNECT at most has a client for each of its players.                   *)
(***************************************************************************)
EXTENDS GameManager, SequenceTheorems, FiniteSetTheorems, TLAPS

-----------------------------------------------------------------------------
(* Types.                                                                  *)

StreamIds == 1 .. MaxTalks \cup {None}
CastMap == [Casts -> CastRecord]
StartRecord == [chan : 0 .. PlayerCount, got : 0 .. PlayerCount]

\* talks is a sequence, but most actions change it as the function it also is.
TalkTypes == talks \in Seq(TalkRecord) /\ Len(talks) <= MaxTalks
RestTypes ==
  /\ up \in BOOLEAN /\ clientCount \in 0 .. MaxClients
  /\ streamServer \in [Ids -> StreamIds]
  /\ starts \in StartRecord
  /\ asked \in [Ids -> Nat] /\ sent \in 0 .. MaxMessages
  /\ game \in {"waiting", "ongoing", "named", "playing", "over", "finished"}
  /\ named \in SUBSET Ids
  /\ game = "waiting" => starts.got < PlayerCount
CastTypes == casts \in CastMap

\* The first goroutine receives PlayerCount values and then plays.
Types == TalkTypes /\ RestTypes /\ CastTypes

LEMMA TypesImplyTypeOK == Types => TypeOK
BY DEF Types, TalkTypes, RestTypes, CastTypes, TypeOK, StreamIds, CastMap, StartRecord

LEMMA StreamsOfTalks ==
  ASSUME TalkTypes
  PROVE  /\ Len(talks) \in Nat /\ Streams = 1 .. Len(talks) /\ Streams \subseteq 1 .. MaxTalks
         /\ talks \in [Streams -> TalkRecord]
BY LenProperties, ConstantsAssumption DEF TalkTypes, Streams

LEMMA SameStreams ==
  ASSUME TalkTypes, talks' \in [Streams -> TalkRecord]
  PROVE  TalkTypes' /\ Streams' = Streams
<1>1. Len(talks) \in Nat /\ Streams = 1 .. Len(talks)
  BY StreamsOfTalks
<1>2. talks' = [i \in 1 .. Len(talks) |-> talks'[i]] /\ \A i \in 1 .. Len(talks) : talks'[i] \in TalkRecord
  BY <1>1
<1>3. [i \in 1 .. Len(talks) |-> talks'[i]] \in Seq(TalkRecord)
  BY <1>1, <1>2, IsASeq
<1>4. talks' \in Seq(TalkRecord) /\ DOMAIN talks' = 1 .. Len(talks)
  BY <1>2, <1>3
<1>5. Len(talks') = Len(talks)
  BY <1>1, <1>4, LenProperties
<1>. QED  BY <1>1, <1>4, <1>5 DEF TalkTypes, Streams

LEMMA ClientsAreIds ==
  ASSUME clientCount \in 0 .. MaxClients
  PROVE  Clients \subseteq Ids
BY ConstantsAssumption DEF Clients, Ids

LEMMA TypesInit == Init => Types
<1>. SUFFICES ASSUME Init PROVE Types
  OBVIOUS
<1>1. TalkTypes
  BY EmptySeq, ConstantsAssumption DEF Init, TalkTypes
<1>2. CastTypes
  BY DEF Init, CastTypes, CastMap, CastRecord, Resting
<1>3. RestTypes
  BY ConstantsAssumption DEF Init, RestTypes, StreamIds, StartRecord
<1>. QED  BY <1>1, <1>2, <1>3 DEF Types

\* What a step that is one stream's does to it.
LEMMA StreamStep ==
  ASSUME Types, NEW t \in Streams,
         \/ SetStream(t) \/ Cancelled(t) \/ ClearStream(t) \/ RecvFails(t) \/ PutStart(t)
         \/ HalfClose(t) \/ Break(t) \/ Acted(t) \/ \E m \in ClientMessage : Recv(t, m)
  PROVE  /\ talks' \in [Streams -> TalkRecord]
         /\ \A u \in Streams \ {t} : talks'[u] = talks[u]
         /\ talks'[t].client = talks[t].client /\ talks'[t].shared = talks[t].shared
         /\ UNCHANGED <<casts, clientCount>>
<1>1. talks \in [Streams -> TalkRecord] /\ talks[t] \in TalkRecord
  BY StreamsOfTalks DEF Types
<1>2. CASE SetStream(t) \/ Cancelled(t) \/ ClearStream(t)
  BY <1>1, <1>2 DEF SetStream, Cancelled, ClearStream, TalkRecord
<1>3. CASE RecvFails(t) \/ PutStart(t)
  BY <1>1, <1>3 DEF RecvFails, PutStart, TalkRecord, Asking
<1>4. CASE HalfClose(t) \/ Break(t) \/ Acted(t)
  BY <1>1, <1>4 DEF HalfClose, Break, Acted, TalkRecord
<1>5. ASSUME NEW m \in ClientMessage, Recv(t, m)
      PROVE  /\ talks' \in [Streams -> TalkRecord]
             /\ \A u \in Streams \ {t} : talks'[u] = talks[u]
             /\ talks'[t].client = talks[t].client /\ talks'[t].shared = talks[t].shared
             /\ UNCHANGED <<casts, clientCount>>
  <2>1. PICK r \in {"connect", "quit", "recv", "act"} : talks' = [talks EXCEPT ![t].reader = r]
    BY <1>5 DEF Recv
  <2>. QED  BY <1>1, <1>5, <2>1 DEF Recv, TalkRecord, Asking
<1>. QED  BY <1>2, <1>3, <1>4, <1>5

LEMMA AskStep ==
  ASSUME Types, NEW t \in Streams, NEW u \in Streams, AskToReturn(t, u)
  PROVE  /\ talks' \in [Streams -> TalkRecord]
         /\ \A v \in Streams \ {t, u} : talks'[v] = talks[v]
         /\ \A v \in Streams : /\ talks'[v].client = talks[v].client
                               /\ talks'[v].shared = talks[v].shared
         /\ \A v \in Streams \ {u} : talks'[v].pc = talks[v].pc
         /\ talks[u].pc = "select" /\ talks'[u].pc = "clear"
         /\ talks[u].client = talks[t].client
         /\ \A v \in Streams : talks'[v].reader = "connect" <=> talks[v].reader = "connect"
<1>1. talks \in [Streams -> TalkRecord] /\ talks[t] \in TalkRecord /\ talks[u] \in TalkRecord
  BY StreamsOfTalks DEF Types
<1>2. PICK r \in {"lost", "recv"} : talks' = [talks EXCEPT ![t].reader = r, ![u].pc = "clear"]
  BY DEF AskToReturn
<1>3. talks[t].reader # "connect" /\ talks[u].pc = "select" /\ talks[u].client = talks[t].client
  BY DEF AskToReturn, Asking, Of
<1>. QED  BY <1>1, <1>2, <1>3 DEF TalkRecord, Asking

LEMMA ReportStep ==
  ASSUME Types, NEW k \in Casts, NEW u \in Streams, Report(k, u)
  PROVE  /\ talks' \in [Streams -> TalkRecord]
         /\ \A v \in Streams \ {u} : talks'[v] = talks[v]
         /\ \A v \in Streams : /\ talks'[v].client = talks[v].client
                               /\ talks'[v].reader = talks[v].reader
                               /\ talks'[v].shared = talks[v].shared
         /\ talks[u].pc = "select" /\ talks'[u].pc = "clear"
<1>1. talks \in [Streams -> TalkRecord] /\ talks[u] \in TalkRecord
  BY StreamsOfTalks DEF Types
<1>. QED  BY <1>1 DEF Report, TalkRecord

LEMMA TalkStep ==
  ASSUME Types, NEW c \in Clients, Talk(c)
  PROVE  /\ TalkTypes' /\ Streams' = Streams \cup {Len(talks) + 1}
         /\ \A t \in Streams :
              /\ talks'[t].client = talks[t].client /\ talks'[t].pc = talks[t].pc
              /\ talks'[t].reader = talks[t].reader
              /\ talks'[t].shared <=> talks[t].shared \/ t \in Beside(c)
         /\ LET new == talks'[Len(talks) + 1]
            IN /\ new.client = c /\ new.pc = "set" /\ new.reader = "none"
               /\ new.shared <=> Beside(c) # {}
         /\ Len(talks) + 1 \notin Streams
<1>. DEFINE new == [client |-> c, pc |-> "set", reader |-> "none",
                    stream |-> "open", shared |-> Beside(c) # {}]
            mark(t) == [talks[t] EXCEPT !.shared = @ \/ t \in Beside(c)]
            old == [t \in 1 .. Len(talks) |-> mark(t)]
<1>1. Len(talks) \in Nat /\ Streams = 1 .. Len(talks) /\ talks \in [Streams -> TalkRecord]
  BY StreamsOfTalks DEF Types, TalkTypes
<1>2. new \in TalkRecord
  BY ClientsAreIds DEF Types, RestTypes, TalkRecord
<1>3. talks' = Append(old, new) /\ Len(talks) < MaxTalks
  BY <1>1 DEF Talk
<1>4. ASSUME NEW t \in Streams
      PROVE  /\ mark(t) \in TalkRecord
             /\ mark(t).client = talks[t].client /\ mark(t).pc = talks[t].pc
             /\ mark(t).reader = talks[t].reader
             /\ mark(t).shared <=> talks[t].shared \/ t \in Beside(c)
  BY <1>1 DEF TalkRecord
<1>5. /\ new.client = c /\ new.pc = "set" /\ new.reader = "none"
      /\ new.shared <=> Beside(c) # {}
  OBVIOUS
<1>. HIDE DEF new, mark
<1>6. old \in Seq(TalkRecord) /\ DOMAIN old = 1 .. Len(talks)
  BY <1>1, <1>4, IsASeq
<1>7. Len(old) = Len(talks) /\ \A t \in Streams : old[t] = mark(t)
  BY <1>1, <1>6, LenProperties
<1>. HIDE DEF old
<1>8. /\ talks' \in Seq(TalkRecord) /\ Len(talks') = Len(talks) + 1
      /\ \A t \in Streams : talks'[t] = mark(t)
      /\ talks'[Len(talks) + 1] = new
  BY <1>1, <1>2, <1>3, <1>6, <1>7, AppendProperties
<1>9. Streams' = 1 .. Len(talks) + 1
  BY <1>8, LenProperties DEF Streams
<1>10. TalkTypes'
  BY <1>1, <1>3, <1>8, ConstantsAssumption DEF TalkTypes
<1>11. Streams' = Streams \cup {Len(talks) + 1} /\ Len(talks) + 1 \notin Streams
  BY <1>1, <1>9
<1>. QED  BY <1>4, <1>5, <1>8, <1>10, <1>11

LEMMA CastStep ==
  ASSUME Types, NEW k \in Casts,
         \/ CastStart(k) \/ Send(k) \/ CastEnd(k)
         \/ (\E c \in Clients : RLock(k, c)) \/ \E u \in Streams : Report(k, u)
  PROVE  CastTypes'
<1>. USE DEF Types, CastTypes, CastMap
<1>1. casts[k] \in CastRecord /\ Resting \in CastRecord /\ Clients \subseteq Ids
  BY ClientsAreIds DEF RestTypes, CastRecord, Resting
<1>2. RUnlock(k) \in CastRecord
  BY <1>1 DEF RUnlock, Resting, CastRecord
<1>3. CASE CastStart(k)
  BY <1>1, <1>3 DEF CastStart, Resting, CastRecord
<1>4. CASE Send(k)
  BY <1>1, <1>2, <1>4 DEF Send, CastRecord
<1>5. CASE CastEnd(k)
  BY <1>1, <1>5 DEF CastEnd
<1>6. ASSUME NEW c \in Clients, RLock(k, c) PROVE CastTypes'
  <2>1. streamServer[c] \in StreamIds
    BY <1>1 DEF RestTypes
  <2>. QED  BY <1>1, <1>6, <2>1 DEF RLock, CastRecord, StreamIds
<1>7. ASSUME NEW u \in Streams, Report(k, u) PROVE CastTypes'
  BY <1>2, <1>7 DEF Report
<1>. QED  BY <1>3, <1>4, <1>5, <1>6, <1>7

LEMMA ConnectStep == Types /\ Connect => Types'
<1>. SUFFICES ASSUME Types, Connect PROVE Types'
  OBVIOUS
<1>. USE DEF Types
<1>1. TalkTypes'
  BY DEF Connect, TalkTypes
<1>2. RestTypes'
  <2>1. up' \in BOOLEAN
    BY DEF Connect
  <2>2. clientCount' \in 0 .. MaxClients
    BY ConstantsAssumption DEF Connect, RestTypes
  <2>3. UNCHANGED <<streamServer, starts, asked, sent, game, named>>
    BY DEF Connect
  <2>. QED  BY <2>1, <2>2, <2>3 DEF RestTypes
<1>3. CastTypes'
  <2>1. clientCount \in Ids
    BY ConstantsAssumption DEF Connect, RestTypes, Ids
  <2>. QED  BY <2>1 DEF Connect, CastTypes, CastMap, CastRecord
<1>. QED  BY <1>1, <1>2, <1>3

LEMMA StreamRest ==
  ASSUME Types, NEW t \in Streams,
         \/ SetStream(t) \/ Cancelled(t) \/ ClearStream(t) \/ RecvFails(t) \/ PutStart(t)
         \/ HalfClose(t) \/ Break(t) \/ Acted(t) \/ \E m \in ClientMessage : Recv(t, m)
  PROVE  RestTypes'
<1>. USE DEF Types, RestTypes
<1>0. talks[t] \in TalkRecord /\ talks[t].client \in Ids /\ t \in StreamIds /\ None \in StreamIds
  BY StreamsOfTalks DEF TalkRecord, StreamIds
<1>1. CASE SetStream(t) \/ ClearStream(t)
  BY <1>0, <1>1 DEF SetStream, ClearStream
<1>2. CASE PutStart(t)
  BY <1>2, ConstantsAssumption DEF PutStart, StartRecord
<1>3. CASE Cancelled(t) \/ RecvFails(t) \/ HalfClose(t) \/ Break(t) \/ Acted(t)
  BY <1>3 DEF Cancelled, RecvFails, HalfClose, Break, Acted
<1>4. ASSUME NEW m \in ClientMessage, Recv(t, m) PROVE RestTypes'
  <2>1. /\ sent' = sent + 1 /\ sent < MaxMessages /\ up' \in BOOLEAN
        /\ UNCHANGED <<clientCount, streamServer, starts, game, named>>
    BY <1>4 DEF Recv
  <2>2. asked' \in [Ids -> Nat]
    BY <1>0, <1>4 DEF Recv
  <2>. QED  BY <2>1, <2>2, ConstantsAssumption
<1>. QED  BY <1>1, <1>2, <1>3, <1>4

LEMMA GameStep ==
  ASSUME Types, OfGame \/ GameEnds
  PROVE  Types' /\ UNCHANGED <<clientCount, streamServer, talks, casts, asked, sent>>
<1>. USE DEF Types, Still
<1>1. UNCHANGED <<clientCount, streamServer, talks, casts, asked, sent>>
  BY DEF OfGame, GameEnds, GetStart, SetPlayerInfos, FirstSnapshots, SendResults
<1>2. TalkTypes' /\ CastTypes'
  BY <1>1 DEF TalkTypes, CastTypes
<1>3. CASE GetStart
  <2>1. /\ starts' \in StartRecord /\ starts'.got = starts.got + 1 /\ game = "waiting"
        /\ UNCHANGED <<up, named>>
    BY <1>3, ConstantsAssumption DEF GetStart, RestTypes, StartRecord
  <2>2. game' \in {"ongoing", "waiting"}
    BY <1>3 DEF GetStart
  <2>3. game' = "waiting" => starts'.got < PlayerCount
    BY <1>3, <2>1, ConstantsAssumption DEF GetStart, RestTypes, StartRecord
  <2>. QED  BY <1>1, <1>2, <2>1, <2>2, <2>3 DEF RestTypes
<1>4. CASE SetPlayerInfos
  <2>1. up' \in BOOLEAN /\ game' = "named" /\ named' \in SUBSET Ids /\ UNCHANGED starts
    BY <1>4, ClientsAreIds DEF SetPlayerInfos, RestTypes
  <2>. QED  BY <1>1, <1>2, <2>1 DEF RestTypes
<1>5. CASE FirstSnapshots \/ GameEnds \/ SendResults
  <2>1. up' \in BOOLEAN /\ game' \in {"playing", "over", "finished"} /\ UNCHANGED <<named, starts>>
    <3>1. CASE FirstSnapshots \/ GameEnds
      BY <3>1 DEF FirstSnapshots, GameEnds, RestTypes
    <3>2. CASE SendResults
      BY <3>2 DEF SendResults
    <3>. QED  BY <1>5, <3>1, <3>2
  <2>. QED  BY <1>1, <1>2, <2>1 DEF RestTypes
<1>. QED  BY <1>1, <1>2, <1>3, <1>4, <1>5 DEF OfGame

LEMMA TypesStep == Types /\ [Next]_vars => Types'
<1>. SUFFICES ASSUME Types, [Next]_vars PROVE Types'
  OBVIOUS
<1>1. CASE Connect
  BY <1>1, ConnectStep
<1>2. CASE OfGame \/ GameEnds
  BY <1>2, GameStep
<1>3. ASSUME NEW c \in Clients, Talk(c) PROVE Types'
  BY <1>3, TalkStep DEF Types, RestTypes, CastTypes, Talk
<1>4. ASSUME NEW t \in Streams,
             \/ SetStream(t) \/ Cancelled(t) \/ ClearStream(t) \/ RecvFails(t) \/ PutStart(t)
             \/ HalfClose(t) \/ Break(t) \/ Acted(t) \/ \E m \in ClientMessage : Recv(t, m)
      PROVE  Types'
  <2>1. /\ talks' \in [Streams -> TalkRecord] /\ UNCHANGED casts
    BY <1>4, StreamStep
  <2>2. RestTypes'
    BY <1>4, StreamRest
  <2>. QED  BY <2>1, <2>2, SameStreams DEF Types, CastTypes
<1>5. ASSUME NEW t \in Streams, NEW u \in Streams, AskToReturn(t, u) PROVE Types'
  <2>1. talks' \in [Streams -> TalkRecord]
    BY <1>5, AskStep
  <2>. QED  BY <1>5, <2>1, SameStreams DEF AskToReturn, Types, CastTypes, RestTypes
<1>6. ASSUME NEW k \in Casts,
             CastStart(k) \/ Send(k) \/ CastEnd(k) \/ \E c \in Clients : RLock(k, c)
      PROVE  Types'
  <2>1. CastTypes'
    BY <1>6, CastStep
  <2>. QED  BY <1>6, <2>1 DEF Types, TalkTypes, RestTypes, CastStart, Send, CastEnd, RLock
<1>7. ASSUME NEW k \in Casts, NEW u \in Streams, Report(k, u) PROVE Types'
  <2>1. CastTypes'
    BY <1>7, CastStep
  <2>2. talks' \in [Streams -> TalkRecord]
    BY <1>7, ReportStep
  <2>. QED  BY <1>7, <2>1, <2>2, SameStreams DEF Types, RestTypes, Report
<1>8. CASE UNCHANGED vars
  BY <1>8 DEF vars, Types, TalkTypes, RestTypes, CastTypes
<1>. QED  BY <1>1, <1>2, <1>3, <1>4, <1>5, <1>6, <1>7, <1>8 DEF Next, OfStream, OfClient, OfCast

(* The types hold for any clients: in particular startChan never holds     *)
(* more than PlayerCount values.                                           *)
THEOREM TypeCorrect == Spec => []TypeOK
BY TypesInit, TypesStep, TypesImplyTypeOK, PTL DEF Spec

-----------------------------------------------------------------------------
(* Broadcasts.                                                             *)

Serves(t, c) == t \in Streams /\ talks[t].client = c /\ talks[t].pc \in {"select", "clear"}

\* A registered stream, and one that a broadcast has taken, are served by a
\* Talk of that client; it cannot end while a broadcast holds the RLock.
LiveInv ==
  /\ Types
  /\ \A c \in Ids : streamServer[c] # None => Serves(streamServer[c], c)
  /\ \A k \in Casts : casts[k].to # None => Serves(casts[k].to, casts[k].at)

\* Steps that end no Talk keep what serves.
LEMMA KeepsServing ==
  ASSUME LiveInv, Types', Streams \subseteq Streams',
         \A t \in Streams : /\ talks'[t].client = talks[t].client
                            /\ talks[t].pc \in {"select", "clear"} =>
                                 talks'[t].pc \in {"select", "clear"},
         UNCHANGED streamServer,
         \A k \in Casts : casts'[k].to # None =>
            \/ casts'[k].to = casts[k].to /\ casts'[k].at = casts[k].at
            \/ /\ casts'[k].at \in Ids
               /\ casts'[k].to = streamServer[casts'[k].at]
  PROVE  LiveInv'
<1>1. \A t, c : Serves(t, c) => Serves(t, c)'
  BY DEF Serves
<1>. QED  BY <1>1 DEF LiveInv

LEMMA LiveStep == LiveInv /\ [Next]_vars => LiveInv'
<1>. SUFFICES ASSUME LiveInv, [Next]_vars PROVE LiveInv'
  OBVIOUS
<1>0. Types /\ Types'
  BY TypesStep DEF LiveInv
<1>00. casts \in [Casts -> CastRecord] /\ casts' \in [Casts -> CastRecord]
  BY <1>0 DEF Types, CastTypes, CastMap
<1>1. CASE Connect
  <2>1. \A k \in Casts : casts'[k].to = casts[k].to /\ casts'[k].at = casts[k].at
    BY <1>1, <1>00 DEF Connect, CastRecord
  <2>. QED  BY <1>0, <1>1, <2>1, KeepsServing DEF Connect, Streams
<1>2. CASE OfGame \/ GameEnds
  BY <1>0, <1>2, GameStep, KeepsServing DEF Streams
<1>3. ASSUME NEW c \in Clients, Talk(c) PROVE LiveInv'
  BY <1>0, <1>3, TalkStep, KeepsServing DEF Talk
<1>4. ASSUME NEW t \in Streams,
             \/ Cancelled(t) \/ RecvFails(t) \/ PutStart(t)
             \/ HalfClose(t) \/ Break(t) \/ Acted(t) \/ \E m \in ClientMessage : Recv(t, m)
      PROVE  LiveInv'
  <2>1. talks \in [Streams -> TalkRecord]
    BY <1>0, StreamsOfTalks DEF Types
  <2>2. UNCHANGED <<streamServer, casts>>
    BY <1>4 DEF Cancelled, RecvFails, PutStart, HalfClose, Break, Acted, Recv
  <2>3. talks'[t].pc = talks[t].pc \/ talks'[t].pc = "clear"
    BY <1>4, <2>1 DEF Cancelled, RecvFails, PutStart, HalfClose, Break, Acted, Recv, TalkRecord
  <2>4. Streams' = Streams
    BY <1>0, <1>4, StreamStep, SameStreams DEF Types
  <2>. QED  BY <1>0, <1>4, <2>2, <2>3, <2>4, StreamStep, KeepsServing
<1>5. ASSUME NEW t \in Streams, SetStream(t) PROVE LiveInv'
  <2>1. talks \in [Streams -> TalkRecord] /\ talks[t].client \in Ids
    BY <1>0, StreamsOfTalks DEF Types, TalkRecord
  <2>2. /\ streamServer' = [streamServer EXCEPT ![talks[t].client] = t] /\ UNCHANGED casts
        /\ talks[t].pc = "set" /\ talks'[t].pc = "select" /\ talks'[t].client = talks[t].client
    BY <1>5, <2>1 DEF SetStream, TalkRecord
  <2>3. Streams' = Streams /\ \A u \in Streams \ {t} : talks'[u] = talks[u]
    BY <1>0, <1>5, StreamStep, SameStreams DEF Types
  <2>4. \A u, c : Serves(u, c) => Serves(u, c)'
    BY <2>2, <2>3 DEF Serves
  <2>5. Serves(t, talks[t].client)'
    BY <2>2, <2>3 DEF Serves
  <2>6. streamServer \in [Ids -> StreamIds]
    BY <1>0 DEF Types, RestTypes
  <2>. QED  BY <1>0, <2>1, <2>2, <2>4, <2>5, <2>6 DEF LiveInv
<1>6. ASSUME NEW t \in Streams, ClearStream(t) PROVE LiveInv'
  <2>1. talks \in [Streams -> TalkRecord] /\ talks[t].client \in Ids
    BY <1>0, StreamsOfTalks DEF Types, TalkRecord
  <2>2. /\ streamServer' = [streamServer EXCEPT ![talks[t].client] = None] /\ UNCHANGED casts
        /\ \A k \in Casts : casts[k].at # talks[t].client
    BY <1>6, <2>1 DEF ClearStream, Held
  <2>3. Streams' = Streams /\ \A u \in Streams \ {t} : talks'[u] = talks[u]
    BY <1>0, <1>6, StreamStep, SameStreams DEF Types
  <2>4. \A u, c : Serves(u, c) /\ c # talks[t].client => Serves(u, c)'
    BY <2>3 DEF Serves
  <2>5. streamServer \in [Ids -> StreamIds]
    BY <1>0 DEF Types, RestTypes
  <2>. QED  BY <1>0, <2>1, <2>2, <2>4, <2>5 DEF LiveInv
<1>7. ASSUME NEW t \in Streams, NEW u \in Streams, AskToReturn(t, u) PROVE LiveInv'
  <2>1. UNCHANGED <<streamServer, casts>>
    BY <1>7 DEF AskToReturn
  <2>2. Streams' = Streams
    BY <1>0, <1>7, AskStep, SameStreams DEF Types
  <2>. QED  BY <1>0, <1>7, <2>1, <2>2, AskStep, KeepsServing
<1>8. ASSUME NEW k \in Casts, CastStart(k) \/ Send(k) \/ CastEnd(k) PROVE LiveInv'
  <2>1. UNCHANGED <<streamServer, talks>>
    BY <1>8 DEF CastStart, Send, CastEnd
  <2>2. \A j \in Casts : casts'[j].to # None =>
          casts'[j].to = casts[j].to /\ casts'[j].at = casts[j].at
    <3>1. RUnlock(k).to = None
      BY DEF RUnlock, Resting
    <3>2. CASE Send(k)
      BY <1>00, <3>1, <3>2 DEF Send, CastRecord
    <3>3. Resting.to = None /\ [Resting EXCEPT !.pc = "next", !.todo = Clients].to = None
      BY DEF Resting
    <3>4. CASE CastStart(k) \/ CastEnd(k)
      BY <1>00, <3>3, <3>4 DEF CastStart, CastEnd
    <3>. QED  BY <1>8, <3>2, <3>4
  <2>. QED  BY <1>0, <2>1, <2>2, KeepsServing DEF Streams
<1>9. ASSUME NEW k \in Casts, NEW c \in Clients, RLock(k, c) PROVE LiveInv'
  <2>1. UNCHANGED <<streamServer, talks>> /\ c \in Ids
    BY <1>0, <1>9, ClientsAreIds DEF RLock, Types, RestTypes
  <2>2. \A j \in Casts \ {k} : casts'[j] = casts[j]
    BY <1>9, <1>00 DEF RLock
  <2>3. casts'[k].to = streamServer[c] /\ casts'[k].at = c
    BY <1>9, <1>00 DEF RLock
  <2>4. \A j \in Casts : casts'[j].to # None =>
            \/ casts'[j].to = casts[j].to /\ casts'[j].at = casts[j].at
            \/ casts'[j].at \in Ids /\ casts'[j].to = streamServer[casts'[j].at]
    BY <2>1, <2>2, <2>3
  <2>. QED  BY <1>0, <2>1, <2>4, KeepsServing DEF Streams
<1>10. ASSUME NEW k \in Casts, NEW u \in Streams, Report(k, u) PROVE LiveInv'
  <2>1. UNCHANGED streamServer /\ Streams' = Streams
    BY <1>0, <1>10, ReportStep, SameStreams DEF Report, Types
  <2>2. \A j \in Casts : casts'[j].to # None =>
          casts'[j].to = casts[j].to /\ casts'[j].at = casts[j].at
    BY <1>10, <1>00 DEF Report, Resting, RUnlock, CastRecord
  <2>. QED  BY <1>0, <1>10, <2>1, <2>2, ReportStep, KeepsServing
<1>11. CASE UNCHANGED vars
  BY <1>0, <1>11, KeepsServing DEF vars, Streams
<1>. QED  BY <1>1, <1>2, <1>3, <1>4, <1>5, <1>6, <1>7, <1>8, <1>9, <1>10, <1>11
          DEF Next, OfStream, OfClient, OfCast

(* Broadcasts send only on streams whose Talk has not returned, whatever   *)
(* clients do and however streams break.                                   *)
THEOREM BroadcastsUseLiveStreams == Spec => []SendsToLiveStream
<1>1. Init => LiveInv
  BY TypesInit DEF LiveInv, Init, Resting
<1>2. LiveInv => SendsToLiveStream
  BY DEF LiveInv, Serves, SendsToLiveStream
<1>. QED  BY <1>1, <1>2, LiveStep, PTL DEF Spec

-----------------------------------------------------------------------------
(* Registered streams.                                                     *)

\* Of two Talks of one client that are under way both are known to be.
SharedInv ==
  \A t, u \in Streams :
    t # u /\ talks[t].client = talks[u].client
      /\ talks[t].pc # "returned" /\ talks[u].pc # "returned" =>
    talks[t].shared /\ talks[u].shared
TalkInv == Types /\ SharedInv /\ TalkIsRegistered

\* Steps after which no more Talks select and no Talk has come back.
LEMMA KeepsRegistered ==
  ASSUME TalkInv, Types', Streams' = Streams, UNCHANGED streamServer,
         \A t \in Streams : /\ talks'[t].client = talks[t].client
                            /\ talks'[t].shared = talks[t].shared
                            /\ talks[t].pc = "returned" => talks'[t].pc = "returned"
                            /\ talks'[t].pc = "select" => talks[t].pc = "select"
  PROVE  TalkInv'
BY DEF TalkInv, SharedInv, TalkIsRegistered

LEMMA TalkInvStep == TalkInv /\ [Next]_vars => TalkInv'
<1>. SUFFICES ASSUME TalkInv, [Next]_vars PROVE TalkInv'
  OBVIOUS
<1>0. Types /\ Types'
  BY TypesStep DEF TalkInv
<1>00. talks \in [Streams -> TalkRecord] /\ Streams = 1 .. Len(talks)
  BY <1>0, StreamsOfTalks DEF Types
<1>1. CASE Connect
  BY <1>0, <1>1, KeepsRegistered DEF Connect, Streams
<1>2. CASE OfGame \/ GameEnds
  BY <1>0, <1>2, GameStep, KeepsRegistered DEF Streams
<1>3. ASSUME NEW c \in Clients, Talk(c) PROVE TalkInv'
  <2>. DEFINE n == Len(talks) + 1
  <2>1. /\ Streams' = Streams \cup {n} /\ n \notin Streams
        /\ \A t \in Streams :
             /\ talks'[t].client = talks[t].client /\ talks'[t].pc = talks[t].pc
             /\ talks'[t].shared <=> talks[t].shared \/ t \in Beside(c)
        /\ talks'[n].client = c /\ talks'[n].pc = "set" /\ (talks'[n].shared <=> Beside(c) # {})
    BY <1>0, <1>3, TalkStep
  <2>2. UNCHANGED streamServer
    BY <1>3 DEF Talk
  <2>. HIDE DEF n
  <2>3. \A t \in Streams : talks[t].client = c /\ talks[t].pc # "returned" => t \in Beside(c)
    BY DEF Beside, Of
  <2>4. SharedInv'
    BY <2>1, <2>2, <2>3 DEF TalkInv, SharedInv
  <2>5. TalkIsRegistered'
    BY <2>1, <2>2 DEF TalkInv, TalkIsRegistered
  <2>. QED  BY <1>0, <2>4, <2>5 DEF TalkInv
<1>4. ASSUME NEW t \in Streams,
             \/ Cancelled(t) \/ RecvFails(t) \/ PutStart(t)
             \/ HalfClose(t) \/ Break(t) \/ Acted(t) \/ \E m \in ClientMessage : Recv(t, m)
      PROVE  TalkInv'
  <2>1. UNCHANGED streamServer
    BY <1>4 DEF Cancelled, RecvFails, PutStart, HalfClose, Break, Acted, Recv
  <2>2. \/ talks'[t].pc = talks[t].pc
        \/ talks[t].pc = "select" /\ talks'[t].pc = "clear"
    BY <1>4, <1>00 DEF Cancelled, RecvFails, PutStart, HalfClose, Break, Acted, Recv, TalkRecord
  <2>3. Streams' = Streams
    BY <1>0, <1>4, StreamStep, SameStreams DEF Types
  <2>. QED  BY <1>0, <1>4, <2>1, <2>2, <2>3, StreamStep, KeepsRegistered
<1>5. ASSUME NEW t \in Streams, SetStream(t) \/ ClearStream(t) PROVE TalkInv'
  <2>1. talks[t].client \in Ids /\ streamServer \in [Ids -> StreamIds]
    BY <1>0, <1>00 DEF Types, RestTypes, TalkRecord
  <2>2. PICK s \in {t, None} : streamServer' = [streamServer EXCEPT ![talks[t].client] = s]
    BY <1>5 DEF SetStream, ClearStream
  <2>3. /\ talks[t].pc # "returned" /\ talks'[t].client = talks[t].client
        /\ talks'[t].shared = talks[t].shared
        /\ talks'[t].pc = "select" => streamServer'[talks[t].client] = t
    BY <1>5, <1>00, <2>1 DEF SetStream, ClearStream, TalkRecord
  <2>4. Streams' = Streams /\ \A u \in Streams \ {t} : talks'[u] = talks[u]
    BY <1>0, <1>5, StreamStep, SameStreams DEF Types
  <2>5. SharedInv'
    BY <2>3, <2>4 DEF TalkInv, SharedInv
  <2>6. ASSUME NEW u \in Streams \ {t}, talks[u].pc = "select", ~talks[u].shared
        PROVE  streamServer'[talks[u].client] = u
    <3>1. talks[u].client # talks[t].client
      BY <2>3, <2>6 DEF TalkInv, SharedInv
    <3>2. talks[u].client \in Ids
      BY <1>00 DEF TalkRecord
    <3>. QED  BY <2>1, <2>2, <2>6, <3>1, <3>2 DEF TalkInv, TalkIsRegistered
  <2>7. TalkIsRegistered'
    BY <2>3, <2>4, <2>6 DEF TalkIsRegistered
  <2>. QED  BY <1>0, <2>5, <2>7 DEF TalkInv
<1>6. ASSUME NEW t \in Streams, NEW u \in Streams, AskToReturn(t, u) PROVE TalkInv'
  <2>1. UNCHANGED streamServer
    BY <1>6 DEF AskToReturn
  <2>2. Streams' = Streams
    BY <1>0, <1>6, AskStep, SameStreams DEF Types
  <2>. QED  BY <1>0, <1>6, <2>1, <2>2, AskStep, KeepsRegistered
<1>7. ASSUME NEW k \in Casts,
             CastStart(k) \/ Send(k) \/ CastEnd(k) \/ \E c \in Clients : RLock(k, c)
      PROVE  TalkInv'
  BY <1>0, <1>7, KeepsRegistered DEF CastStart, Send, CastEnd, RLock, Streams
<1>8. ASSUME NEW k \in Casts, NEW u \in Streams, Report(k, u) PROVE TalkInv'
  <2>1. UNCHANGED streamServer /\ Streams' = Streams
    BY <1>0, <1>8, ReportStep, SameStreams DEF Report, Types
  <2>. QED  BY <1>0, <1>8, <2>1, ReportStep, KeepsRegistered
<1>9. CASE UNCHANGED vars
  BY <1>0, <1>9, KeepsRegistered DEF vars, Streams
<1>. QED  BY <1>1, <1>2, <1>3, <1>4, <1>5, <1>6, <1>7, <1>8, <1>9
          DEF Next, OfStream, OfClient, OfCast

(* The stream of a Talk stays registered as long as the Talk waits for its *)
(* end, also of a client that has hung up and come back, unless another    *)
(* Talk of the client was under way at the same time (lines 197-257).      *)
THEOREM TalksAreRegistered == Spec => []TalkIsRegistered
<1>1. Init => TalkInv
  BY TypesInit DEF TalkInv, Init, SharedInv, TalkIsRegistered, Streams
<1>2. TalkInv => TalkIsRegistered
  BY DEF TalkInv
<1>. QED  BY <1>1, <1>2, TalkInvStep, PTL DEF Spec

-----------------------------------------------------------------------------
(* Full games.                                                             *)

\* Clients that have sent CONNECT, and readers that have yet to pass one on.
Askers == {c \in Ids : asked[c] > 0}
Waiting == {t \in Streams : talks[t].reader = "connect"}

\* Until some client has sent two CONNECT messages, every value that was ever
\* put into startChan stands for a client of its own.
Single == \A c \in Ids : asked[c] <= 1
CountInv ==
  /\ Types
  /\ \A t \in Streams : talks[t].client \in Clients
  /\ Askers \subseteq Clients
  /\ Single => starts.chan + starts.got + Cardinality(Waiting) <= Cardinality(Askers)
  /\ game # "waiting" => starts.got = PlayerCount
  /\ Single /\ game \notin {"waiting", "ongoing"} => 0 .. PlayerCount - 1 \subseteq named

LEMMA Countable ==
  ASSUME Types
  PROVE  /\ IsFiniteSet(Waiting) /\ Cardinality(Waiting) \in Nat
         /\ IsFiniteSet(Askers) /\ Cardinality(Askers) \in Nat
         /\ IsFiniteSet(Clients) /\ Cardinality(Clients) = clientCount
         /\ starts.chan \in Nat /\ starts.got \in Nat /\ clientCount \in Nat
<1>1. Len(talks) \in Nat /\ Streams = 1 .. Len(talks)
  BY StreamsOfTalks DEF Types
<1>2. IsFiniteSet(Streams) /\ IsFiniteSet(Ids)
  BY <1>1, FS_Interval, ConstantsAssumption DEF Ids
<1>3. Waiting \in SUBSET Streams /\ Askers \in SUBSET Ids
  BY DEF Waiting, Askers
<1>4. clientCount \in Nat /\ starts.chan \in Nat /\ starts.got \in Nat
  BY ConstantsAssumption DEF Types, RestTypes, StartRecord
<1>5. IsFiniteSet(Clients) /\ Cardinality(Clients) = clientCount
  <2>1. Clients = 0 .. clientCount - 1 /\ 0 \in Int /\ clientCount - 1 \in Int
    BY <1>4 DEF Clients
  <2>2. /\ IsFiniteSet(Clients)
        /\ Cardinality(Clients) = IF 0 > clientCount - 1 THEN 0 ELSE clientCount - 1 - 0 + 1
    BY <2>1, FS_Interval
  <2>. QED  BY <1>4, <2>2
<1>. QED  BY <1>2, <1>3, <1>4, <1>5, FS_Subset, FS_CardinalityType

LEMMA LongerInterval ==
  ASSUME NEW m \in Nat, NEW n \in Nat, m <= n
  PROVE  0 .. m - 1 \subseteq 0 .. n - 1
OBVIOUS

\* Steps that pass on no CONNECT and receive none.
LEMMA KeepsCount ==
  ASSUME CountInv, Types', Streams' = Streams, clientCount' >= clientCount,
         \A t \in Streams : /\ talks'[t].client = talks[t].client
                            /\ talks'[t].reader = "connect" => talks[t].reader = "connect",
         UNCHANGED <<asked, starts, game, named>>
  PROVE  CountInv'
<1>1. Clients \subseteq Clients'
  <2>1. clientCount \in 0 .. MaxClients /\ clientCount' \in 0 .. MaxClients
    BY DEF CountInv, Types, RestTypes
  <2>2. clientCount \in Nat /\ clientCount' \in Nat /\ clientCount <= clientCount'
    BY <2>1, ConstantsAssumption
  <2>3. Clients = 0 .. clientCount - 1 /\ Clients' = 0 .. clientCount' - 1
    BY DEF Clients
  <2>. QED  BY <2>2, <2>3, LongerInterval
<1>2. Waiting' \in SUBSET Waiting /\ Askers' = Askers /\ (Single' <=> Single)
  BY DEF Waiting, Askers, Single
<1>3. Types
  BY DEF CountInv
<1>4. Cardinality(Waiting') <= Cardinality(Waiting)
  BY <1>2, <1>3, Countable, FS_Subset
<1>5. Cardinality(Waiting') \in Nat
  BY <1>2, <1>3, Countable, FS_Subset, FS_CardinalityType
<1>6. Single => starts.chan + starts.got + Cardinality(Waiting') <= Cardinality(Askers)
  BY <1>3, <1>4, <1>5, Countable DEF CountInv
<1>. QED  BY <1>1, <1>2, <1>6 DEF CountInv

LEMMA CountStep == CountInv /\ [Next]_vars => CountInv'
<1>. SUFFICES ASSUME CountInv, [Next]_vars PROVE CountInv'
  OBVIOUS
<1>0. Types /\ Types'
  BY TypesStep DEF CountInv
<1>00. /\ talks \in [Streams -> TalkRecord] /\ clientCount \in Nat /\ Len(talks) \in Nat
  BY <1>0, StreamsOfTalks, Countable DEF Types
<1>1. CASE Connect
  BY <1>0, <1>00, <1>1, KeepsCount DEF Connect, Streams
<1>2. CASE GetStart
  <2>1. UNCHANGED <<clientCount, talks, asked, named>>
    BY <1>0, <1>2, GameStep DEF OfGame, GetStart
  <2>2. /\ starts.chan > 0 /\ starts' = [chan |-> starts.chan - 1, got |-> starts.got + 1]
        /\ game = "waiting"
        /\ game' = IF starts.got + 1 = PlayerCount THEN "ongoing" ELSE "waiting"
    BY <1>2 DEF GetStart
  <2>3. starts'.chan + starts'.got = starts.chan + starts.got
    BY <1>0, <2>2, Countable
  <2>4. /\ Waiting' = Waiting /\ Askers' = Askers /\ Clients' = Clients /\ Streams' = Streams
        /\ Single' <=> Single
    BY <2>1 DEF Waiting, Askers, Clients, Streams, Single
  <2>5. game' # "waiting" => starts'.got = PlayerCount
    BY <2>2
  <2>. QED  BY <1>0, <2>1, <2>2, <2>3, <2>4, <2>5 DEF CountInv
<1>3. CASE SetPlayerInfos
  <2>1. UNCHANGED <<clientCount, talks, asked>>
    BY <1>0, <1>3, GameStep DEF OfGame
  <2>2. game = "ongoing" /\ game' = "named" /\ named' = Clients /\ UNCHANGED starts
    BY <1>3 DEF SetPlayerInfos
  <2>3. Single => PlayerCount <= Cardinality(Askers)
    BY <1>0, <2>2, Countable DEF CountInv
  <2>4. Cardinality(Askers) <= clientCount
    BY <1>0, Countable, FS_Subset DEF CountInv
  <2>5. Single => 0 .. PlayerCount - 1 \subseteq Clients
    BY <1>0, <2>3, <2>4, Countable, ConstantsAssumption DEF Clients
  <2>6. /\ Waiting' = Waiting /\ Askers' = Askers /\ Clients' = Clients /\ Streams' = Streams
        /\ Single' <=> Single
    BY <2>1 DEF Waiting, Askers, Clients, Streams, Single
  <2>. QED  BY <1>0, <2>1, <2>2, <2>5, <2>6 DEF CountInv
<1>4. CASE FirstSnapshots \/ GameEnds \/ SendResults
  <2>1. UNCHANGED <<clientCount, talks, asked>>
    BY <1>0, <1>4, GameStep DEF OfGame
  <2>2. /\ game \notin {"waiting", "ongoing"} /\ game' \notin {"waiting", "ongoing"}
        /\ UNCHANGED <<named, starts>>
    BY <1>4 DEF FirstSnapshots, GameEnds, SendResults
  <2>3. /\ Waiting' = Waiting /\ Askers' = Askers /\ Clients' = Clients /\ Streams' = Streams
        /\ Single' <=> Single
    BY <2>1 DEF Waiting, Askers, Clients, Streams, Single
  <2>. QED  BY <1>0, <2>1, <2>2, <2>3 DEF CountInv
<1>5. ASSUME NEW c \in Clients, Talk(c) PROVE CountInv'
  <2>. DEFINE n == Len(talks) + 1
  <2>1. /\ Streams' = Streams \cup {n} /\ n \notin Streams
        /\ \A t \in Streams : /\ talks'[t].client = talks[t].client
                              /\ talks'[t].reader = talks[t].reader
        /\ talks'[n].client = c /\ talks'[n].reader = "none"
    BY <1>0, <1>5, TalkStep
  <2>2. UNCHANGED <<clientCount, starts, asked, game, named>>
    BY <1>5 DEF Talk
  <2>. HIDE DEF n
  <2>4. Waiting' = Waiting
    BY <2>1 DEF Waiting
  <2>5. Clients' = Clients /\ Askers' = Askers /\ (Single' <=> Single)
    BY <2>2 DEF Clients, Askers, Single
  <2>. QED  BY <1>0, <2>1, <2>2, <2>4, <2>5 DEF CountInv
<1>6. ASSUME NEW t \in Streams,
             \/ SetStream(t) \/ Cancelled(t) \/ ClearStream(t) \/ RecvFails(t)
             \/ HalfClose(t) \/ Break(t) \/ Acted(t)
      PROVE  CountInv'
  <2>1. UNCHANGED <<clientCount, asked, starts, game, named>>
    BY <1>6 DEF SetStream, Cancelled, ClearStream, RecvFails, HalfClose, Break, Acted
  <2>2. talks'[t].reader = "connect" => talks[t].reader = "connect"
    <3>1. CASE SetStream(t)
      BY <1>00, <3>1 DEF SetStream, TalkRecord
    <3>2. CASE RecvFails(t)
      BY <1>00, <3>2 DEF RecvFails, TalkRecord
    <3>3. CASE Cancelled(t) \/ ClearStream(t) \/ HalfClose(t) \/ Break(t) \/ Acted(t)
      BY <1>00, <3>3 DEF Cancelled, ClearStream, HalfClose, Break, Acted, TalkRecord
    <3>. QED  BY <1>6, <3>1, <3>2, <3>3
  <2>3. Streams' = Streams
    BY <1>0, <1>6, StreamStep, SameStreams DEF Types
  <2>. QED  BY <1>0, <1>00, <1>6, <2>1, <2>2, <2>3, StreamStep, KeepsCount
<1>7. ASSUME NEW t \in Streams, PutStart(t) PROVE CountInv'
  <2>1. /\ talks[t].reader = "connect" /\ talks'[t].reader = "recv"
        /\ starts' = [starts EXCEPT !.chan = @ + 1]
        /\ UNCHANGED <<clientCount, asked, game, named>>
    BY <1>00, <1>7 DEF PutStart, TalkRecord
  <2>2. starts'.chan = starts.chan + 1 /\ starts'.got = starts.got
    BY <1>0, <2>1 DEF Types, RestTypes, StartRecord
  <2>3. /\ Streams' = Streams /\ \A u \in Streams \ {t} : talks'[u] = talks[u]
        /\ talks'[t].client = talks[t].client
    BY <1>0, <1>7, StreamStep, SameStreams DEF Types
  <2>4. t \in Waiting /\ Waiting' = Waiting \ {t}
    BY <2>1, <2>3 DEF Waiting
  <2>5. Cardinality(Waiting') = Cardinality(Waiting) - 1
    BY <1>0, <2>4, Countable, FS_RemoveElement
  <2>6. Clients' = Clients /\ Askers' = Askers /\ (Single' <=> Single)
    BY <2>1 DEF Clients, Askers, Single
  <2>7. Single => starts'.chan + starts'.got + Cardinality(Waiting') <= Cardinality(Askers')
    BY <1>0, <2>2, <2>5, <2>6, Countable DEF CountInv
  <2>. QED  BY <1>0, <2>1, <2>2, <2>3, <2>6, <2>7 DEF CountInv
<1>8. ASSUME NEW t \in Streams, NEW m \in ClientMessage, Recv(t, m) PROVE CountInv'
  <2>. DEFINE c == talks[t].client
  <2>1. /\ talks[t].reader = "recv" /\ c \in Clients /\ c \in Ids
        /\ UNCHANGED <<clientCount, starts, game, named>>
    BY <1>0, <1>00, <1>8 DEF Recv, CountInv, TalkRecord
  <2>2. /\ Streams' = Streams /\ \A u \in Streams \ {t} : talks'[u] = talks[u]
        /\ talks'[t].client = talks[t].client
    BY <1>0, <1>8, StreamStep, SameStreams DEF Types
  <2>3. asked \in [Ids -> Nat] /\ Clients' = Clients
    BY <1>0, <2>1 DEF Types, RestTypes, Clients
  <2>4. CASE GetNotification(m) = "CONNECT"
    <3>1. /\ asked' = [asked EXCEPT ![c] = @ + 1]
          /\ talks' = [talks EXCEPT ![t].reader = "connect"]
      BY <1>8, <2>4 DEF Recv
    <3>2. Askers' = Askers \cup {c}
      BY <2>1, <2>3, <3>1 DEF Askers
    <3>3. Waiting' = Waiting \cup {t} /\ t \notin Waiting
      BY <1>00, <2>1, <2>2, <3>1 DEF Waiting, TalkRecord
    <3>4. Cardinality(Waiting') = Cardinality(Waiting) + 1
      BY <1>0, <3>3, Countable, FS_AddElement
    <3>5. Single' => Single /\ c \notin Askers
      BY <2>1, <2>3, <3>1 DEF Single, Askers
    <3>6. Single' => Cardinality(Askers') = Cardinality(Askers) + 1
      BY <1>0, <3>2, <3>5, Countable, FS_AddElement
    <3>7. Single' => starts.chan + starts.got + Cardinality(Waiting') <= Cardinality(Askers')
      BY <1>0, <3>4, <3>5, <3>6, Countable DEF CountInv
    <3>. QED  BY <1>0, <2>1, <2>2, <2>3, <3>2, <3>5, <3>7 DEF CountInv
  <2>5. CASE GetNotification(m) # "CONNECT"
    <3>1. UNCHANGED asked /\ \E r \in {"quit", "recv", "act"} : talks' = [talks EXCEPT ![t].reader = r]
      BY <1>8, <2>5 DEF Recv
    <3>2. talks'[t].reader # "connect"
      BY <1>00, <3>1 DEF TalkRecord
    <3>. QED  BY <1>0, <1>00, <2>1, <2>2, <3>1, <3>2, KeepsCount
  <2>. QED  BY <2>4, <2>5
<1>9. ASSUME NEW t \in Streams, NEW u \in Streams, AskToReturn(t, u) PROVE CountInv'
  <2>1. UNCHANGED <<clientCount, asked, starts, game, named>>
    BY <1>9 DEF AskToReturn
  <2>2. Streams' = Streams
    BY <1>0, <1>9, AskStep, SameStreams DEF Types
  <2>. QED  BY <1>0, <1>00, <1>9, <2>1, <2>2, AskStep, KeepsCount
<1>10. ASSUME NEW k \in Casts,
              CastStart(k) \/ Send(k) \/ CastEnd(k) \/ \E c \in Clients : RLock(k, c)
       PROVE  CountInv'
  BY <1>0, <1>00, <1>10, KeepsCount DEF CastStart, Send, CastEnd, RLock, Streams
<1>11. ASSUME NEW k \in Casts, NEW u \in Streams, Report(k, u) PROVE CountInv'
  <2>1. UNCHANGED <<clientCount, asked, starts, game, named>> /\ Streams' = Streams
    BY <1>0, <1>11, ReportStep, SameStreams DEF Report, Types
  <2>. QED  BY <1>0, <1>00, <1>11, <2>1, ReportStep, KeepsCount
<1>12. CASE UNCHANGED vars
  BY <1>0, <1>00, <1>12, KeepsCount DEF vars, Streams
<1>. QED  BY <1>1, <1>2, <1>3, <1>4, <1>5, <1>6, <1>7, <1>8, <1>9, <1>10, <1>11, <1>12
          DEF Next, OfGame, OfStream, OfClient, OfCast

(* A game that is played knows as many clients as it has players, and      *)
(* their ids are those of the players, unless some client has sent two     *)
(* CONNECT messages (lines 70-82, 94-100).                                 *)
THEOREM GamesAreFull == Spec => []NobodyIsLeftOut
<1>1. Init => CountInv
  <2>. SUFFICES ASSUME Init PROVE CountInv
    OBVIOUS
  <2>1. Types /\ Streams = {}
    BY TypesInit DEF Init, Streams
  <2>2. Waiting = {} /\ Askers = {}
    BY <2>1 DEF Init, Waiting, Askers
  <2>. QED  BY <2>1, <2>2, FS_EmptySet DEF Init, CountInv
<1>2. CountInv /\ [Next]_vars => CountInv'
  BY CountStep
<1>3. CountInv => NobodyIsLeftOut
  BY DEF CountInv, NobodyIsLeftOut, Single
<1>. QED  BY <1>1, <1>2, <1>3, PTL DEF Spec
=============================================================================
