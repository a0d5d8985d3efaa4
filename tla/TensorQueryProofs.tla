------------------------- MODULE TensorQueryProofs -------------------------
(***************************************************************************)
(* Proofs about TensorQuery, for any number of clients, any max-request    *)
(* and any number of buffers and state changes.                            *)
(*                                                                         *)
(* The steps fall into five kinds by what they do to the requests: those   *)
(* that leave them alone, those that lose some, those that take the oldest *)
(* request of a stage to the next one, the send, and the pop.  A lemma     *)
(* for each of the first three shows that RequestsCounted and Ordered are  *)
(* kept; Lifecycle is touched by the state changes of the server only.     *)
(***************************************************************************)
EXTENDS TensorQuery, FiniteSetTheorems, TLAPS

Requests == RequestsCounted /\ Ordered

\* Sets of requests are finite, so they can be counted.
LEMMA FlightFinite ==
  ASSUME NEW S \in SUBSET Frames
  PROVE  IsFiniteSet(S) /\ Cardinality(S) \in Nat
<1>1. IsFiniteSet(Frames)
  BY QueryAssumption, FS_Interval DEF Frames
<1>2. IsFiniteSet(S)
  BY <1>1, FS_Subset
<1>. QED
  BY <1>2, FS_CardinalityType

\* Fewer requests in flight need no smaller count (every step that may lose
\* something: Cut, ServerDrop, a render that fails, a stop of the source).
LEMMA Losing ==
  ASSUME TypeOK, Requests, TypeOK',
         UNCHANGED <<frame, requested, last>>,
         \A c \in Clients : \A f \in Frames :
           \/ stage'[c][f] = stage[c][f]
           \/ stage'[c][f] = Lost /\ stage[c][f] # NotSent
  PROVE  Requests'
<1>. USE DEF NotSent, ToServer, AtSrc, InServer, ToClient, InQueue, Pushed, Lost
<1>1. ASSUME NEW c \in Clients PROVE InFlight(c)' \subseteq InFlight(c)
  BY DEF InFlight
<1>2. RequestsCounted'
  <2>1. ASSUME NEW c \in Clients PROVE Cardinality(InFlight(c)') <= requested'[c]
    <3>1. InFlight(c) \in SUBSET Frames /\ InFlight(c)' \in SUBSET Frames
      BY DEF InFlight
    <3>2. IsFiniteSet(InFlight(c)) /\ Cardinality(InFlight(c)) \in Nat /\ Cardinality(InFlight(c)') \in Nat
      BY <3>1, FlightFinite
    <3>3. Cardinality(InFlight(c)') <= Cardinality(InFlight(c))
      BY <1>1, <3>2, FS_Subset
    <3>4. Cardinality(InFlight(c)) <= requested[c] /\ requested'[c] = requested[c] /\ requested[c] \in Nat
      BY DEF Requests, RequestsCounted, TypeOK
    <3>. QED
      BY <3>2, <3>3, <3>4
  <2>. QED
    BY <2>1 DEF Requests, RequestsCounted
<1>3. Ordered'
  <2>. SUFFICES ASSUME NEW c \in Clients
       PROVE /\ last'[c] <= frame'[c]
             /\ \A f \in Frames : f > frame'[c] => stage'[c][f] = NotSent
             /\ \A f \in InFlight(c)' : last'[c] < f
             /\ \A f, g \in InFlight(c)' : f < g => stage'[c][g] <= stage'[c][f]
    BY DEF Ordered
  <2>1. last'[c] <= frame'[c] /\ \A f \in Frames : f > frame'[c] => stage'[c][f] = NotSent
    BY DEF Requests, Ordered
  <2>2. \A f \in InFlight(c)' : last'[c] < f
    BY <1>1 DEF Requests, Ordered
  <2>3. \A f \in InFlight(c)' : f \in InFlight(c) /\ stage'[c][f] = stage[c][f]
    BY <1>1 DEF InFlight
  <2>4. \A f, g \in InFlight(c)' : f < g => stage'[c][g] <= stage'[c][f]
    BY <2>3 DEF Requests, Ordered
  <2>. QED
    BY <2>1, <2>2, <2>4
<1>. QED
  BY <1>2, <1>3 DEF Requests

\* The oldest request of a stage goes to the next one: the same requests are in
\* flight, in the same order (ClientData, ServerData, SrcCreate, SinkRender).
LEMMA Advancing ==
  ASSUME TypeOK, Requests, TypeOK',
         UNCHANGED <<frame, requested, last>>,
         NEW c \in Clients, NEW s \in ToServer..ToClient, NEW f \in Frames,
         Oldest(c, s, f), Move(c, f, s + 1)
  PROVE  Requests'
<1>. USE DEF NotSent, ToServer, AtSrc, InServer, ToClient, InQueue, Pushed, Lost
<1>1. /\ stage'[c][f] = s + 1
      /\ stage[c][f] = s
      /\ \A g \in Frames \ {f} : stage'[c][g] = stage[c][g]
      /\ \A d \in Clients \ {c} : stage'[d] = stage[d]
  BY DEF Move, Oldest, TypeOK
<1>2. ASSUME NEW d \in Clients PROVE InFlight(d)' = InFlight(d)
  BY <1>1 DEF InFlight
<1>3. RequestsCounted'
  BY <1>2 DEF Requests, RequestsCounted
<1>4. Ordered'
  <2>1. ASSUME NEW d \in Clients, NEW g \in Frames, g > frame'[d] PROVE stage'[d][g] = NotSent
    BY <1>1, <2>1 DEF Requests, Ordered
  <2>2. ASSUME NEW d \in Clients, NEW g \in InFlight(d)' PROVE last'[d] < g
    BY <1>2 DEF Requests, Ordered
  <2>3. ASSUME NEW d \in Clients, NEW g \in InFlight(d)', NEW h \in InFlight(d)', g < h
        PROVE  stage'[d][h] <= stage'[d][g]
    <3>1. g \in InFlight(d) /\ h \in InFlight(d) /\ g \in Frames /\ h \in Frames
      BY <1>2 DEF InFlight
    <3>2. stage[d][h] <= stage[d][g] /\ stage[d][h] \in Nat /\ stage[d][g] \in Nat
      <4>1. stage[d][h] \in 0..7 /\ stage[d][g] \in 0..7
        BY <3>1 DEF TypeOK
      <4>2. stage[d][h] <= stage[d][g]
        BY <2>3, <3>1 DEF Requests, Ordered
      <4>. QED
        BY <4>1, <4>2
    <3>3. CASE d # c
      BY <1>1, <3>2, <3>3
    <3>4. CASE d = c /\ h # f
      <4>1. stage'[c][h] = stage[c][h]
        BY <1>1, <3>1, <3>4
      <4>2. stage'[c][g] = stage[c][g] \/ stage'[c][g] = stage[c][g] + 1
        BY <1>1, <3>1
      <4>. QED
        BY <3>2, <3>4, <4>1, <4>2
    <3>5. CASE d = c /\ h = f
      <4>1. g # f /\ stage'[c][g] = stage[c][g] /\ stage[c][g] # s
        BY <1>1, <2>3, <3>1, <3>5 DEF Oldest, Frames
      <4>. QED
        BY <1>1, <3>2, <3>5, <4>1
    <3>. QED
      BY <3>3, <3>4, <3>5
  <2>4. \A d \in Clients : last'[d] <= frame'[d]
    BY DEF Requests, Ordered
  <2>. QED
    BY <2>1, <2>2, <2>3, <2>4 DEF Ordered
<1>. QED
  BY <1>3, <1>4 DEF Requests

\* A buffer becomes a request: it is newer than all that are in flight, and at
\* the first stage.
LEMMA Sending ==
  ASSUME TypeOK, Requests, TypeOK', NEW c \in Clients, ChainSend(c)
  PROVE  Requests'
<1>. USE DEF NotSent, ToServer, AtSrc, InServer, ToClient, InQueue, Pushed, Lost
<1>. DEFINE n == frame[c] + 1
<1>1. /\ frame'[c] = n /\ \A d \in Clients \ {c} : frame'[d] = frame[d]
      /\ last' = last /\ n \in Frames /\ frame[c] \in Nat
  BY QueryAssumption DEF ChainSend, TypeOK, Frames
<1>a. ASSUME NEW d \in Clients PROVE last'[d] <= frame'[d]
  <2>1. last[d] <= frame[d] /\ last[d] \in Int /\ frame[d] \in Int
    BY QueryAssumption DEF Requests, Ordered, TypeOK
  <2>. QED
    BY <1>1, <2>1
<1>2. CASE conn[c] # "up"
  <2>1. stage' = stage /\ requested' = requested
    BY <1>2 DEF ChainSend
  <2>2. RequestsCounted'
    BY <2>1 DEF Requests, RequestsCounted, InFlight
  <2>3. ASSUME NEW d \in Clients, NEW g \in Frames, g > frame'[d] PROVE stage'[d][g] = NotSent
    <3>1. g > frame[d]
      <4>1. frame[d] \in Int /\ g \in Int
        BY QueryAssumption DEF Frames, TypeOK
      <4>. QED
        BY <1>1, <2>3, <4>1
    <3>. QED
      BY <2>1, <3>1 DEF Requests, Ordered
  <2>4. Ordered'
    BY <1>1, <1>a, <2>1, <2>3 DEF Requests, Ordered, InFlight
  <2>. QED
    BY <2>2, <2>4 DEF Requests
<1>3. CASE conn[c] = "up"
  <2>1. /\ requested'[c] = requested[c] + 1
        /\ \A d \in Clients \ {c} : requested'[d] = requested[d]
        /\ MaxRequest = 0 \/ requested[c] <= MaxRequest
        /\ stage'[c][n] = ToServer
        /\ \A g \in Frames \ {n} : stage'[c][g] = stage[c][g]
        /\ \A d \in Clients \ {c} : stage'[d] = stage[d]
    BY <1>1, <1>3 DEF ChainSend, Move, TypeOK
  <2>2. stage[c][n] = NotSent
    BY <1>1 DEF Requests, Ordered, Frames
  <2>3. InFlight(c)' = InFlight(c) \cup {n} /\ n \notin InFlight(c)
    BY <1>1, <2>1, <2>2 DEF InFlight
  <2>4. ASSUME NEW d \in Clients \ {c} PROVE InFlight(d)' = InFlight(d)
    BY <2>1 DEF InFlight
  <2>5. Cardinality(InFlight(c)') = Cardinality(InFlight(c)) + 1 /\ Cardinality(InFlight(c)) \in Nat
    <3>1. InFlight(c) \in SUBSET Frames
      BY DEF InFlight
    <3>. QED
      BY <2>3, <3>1, FlightFinite, FS_AddElement
  <2>6. RequestsCounted'
    <3>1. ASSUME NEW d \in Clients
          PROVE  /\ Cardinality(InFlight(d)') <= requested'[d]
                 /\ MaxRequest > 0 => requested'[d] <= MaxRequest + 1
      <4>1. /\ Cardinality(InFlight(d)) <= requested[d] /\ requested[d] \in Nat
            /\ MaxRequest > 0 => requested[d] <= MaxRequest + 1
        BY DEF Requests, RequestsCounted, TypeOK
      <4>2. CASE d = c
        BY <2>1, <2>5, <4>1, <4>2, QueryAssumption
      <4>3. CASE d # c
        BY <2>1, <2>4, <4>1, <4>3
      <4>. QED
        BY <4>2, <4>3
    <3>. QED
      BY <3>1 DEF RequestsCounted
  <2>7. ASSUME NEW g \in InFlight(c) PROVE g \in Frames /\ g < n /\ stage[c][g] >= ToServer
    <3>1. g \in Frames /\ stage[c][g] \in ToServer..InQueue
      BY DEF InFlight
    <3>2. ~(g > frame[c])
      BY <3>1 DEF Requests, Ordered
    <3>. QED
      BY <1>1, <3>1, <3>2 DEF Frames
  <2>8. last[c] < n
    <3>1. last[c] <= frame[c] /\ last[c] \in Int
      BY QueryAssumption DEF Requests, Ordered, TypeOK
    <3>. QED
      BY <1>1, <3>1
  <2>9. Ordered'
    <3>1. ASSUME NEW d \in Clients, NEW g \in Frames, g > frame'[d] PROVE stage'[d][g] = NotSent
      <4>1. CASE d = c
        <5>1. g # n /\ g > frame[c]
          BY <1>1, <3>1, <4>1 DEF Frames
        <5>. QED
          BY <2>1, <4>1, <5>1 DEF Requests, Ordered
      <4>2. CASE d # c
        BY <1>1, <2>1, <3>1, <4>2 DEF Requests, Ordered
      <4>. QED
        BY <4>1, <4>2
    <3>2. ASSUME NEW d \in Clients, NEW g \in InFlight(d)' PROVE last'[d] < g
      BY <1>1, <2>3, <2>4, <2>8 DEF Requests, Ordered
    <3>3. ASSUME NEW d \in Clients, NEW g \in InFlight(d)', NEW h \in InFlight(d)', g < h
          PROVE  stage'[d][h] <= stage'[d][g]
      <4>1. CASE d # c
        BY <2>1, <2>4, <3>3, <4>1 DEF Requests, Ordered
      <4>2. CASE d = c /\ h = n
        <5>1. g \in InFlight(c) /\ g # n
          BY <1>1, <2>3, <3>3, <4>2
        <5>. QED
          BY <2>1, <2>7, <4>2, <5>1 DEF TypeOK
      <4>3. CASE d = c /\ h # n
        <5>1. h \in InFlight(c)
          BY <2>3, <4>3
        <5>2. g \in InFlight(c) /\ g # n
          <6>1. h < n /\ h \in Int /\ n \in Int
            BY <1>1, <2>7, <5>1 DEF Frames
          <6>2. g \in Frames
            BY <4>3 DEF InFlight
          <6>. QED
            BY <2>3, <3>3, <4>3, <6>1, <6>2 DEF Frames
        <5>3. stage[c][h] <= stage[c][g]
          BY <3>3, <5>1, <5>2 DEF Requests, Ordered
        <5>. QED
          BY <2>1, <2>7, <4>3, <5>1, <5>2, <5>3
      <4>. QED
        BY <4>1, <4>2, <4>3
    <3>. QED
      BY <1>a, <3>1, <3>2, <3>3 DEF Ordered
  <2>. QED
    BY <2>6, <2>9 DEF Requests
<1>. QED
  BY <1>2, <1>3

\* An answer is pushed: it is the oldest in flight, so all others are newer.
LEMMA Popping ==
  ASSUME TypeOK, Requests, TypeOK', NEW c \in Clients, ChainPop(c)
  PROVE  Requests' /\ last[c] < last'[c] /\ \A d \in Clients \ {c} : last'[d] = last[d]
<1>. USE DEF NotSent, ToServer, AtSrc, InServer, ToClient, InQueue, Pushed, Lost
<1>1. PICK f \in Frames : Oldest(c, InQueue, f) /\ Move(c, f, Pushed) /\ last' = [last EXCEPT ![c] = f]
  BY DEF ChainPop
<1>2. /\ stage[c][f] = InQueue /\ stage'[c][f] = Pushed
      /\ \A g \in Frames \ {f} : stage'[c][g] = stage[c][g]
      /\ \A d \in Clients \ {c} : stage'[d] = stage[d]
      /\ last'[c] = f /\ frame' = frame
      /\ \A d \in Clients \ {c} : last'[d] = last[d] /\ requested'[d] = requested[d]
      /\ requested'[c] = IF requested[c] > 0 THEN requested[c] - 1 ELSE requested[c]
  BY <1>1 DEF Move, Oldest, ChainPop, TypeOK
<1>3. f \in InFlight(c) /\ f \notin InFlight(c)' /\ InFlight(c)' = InFlight(c) \ {f}
  BY <1>2 DEF InFlight
<1>4. ASSUME NEW d \in Clients \ {c} PROVE InFlight(d)' = InFlight(d)
  BY <1>2 DEF InFlight
<1>5. last[c] < f
  BY <1>3 DEF Requests, Ordered
<1>6. ASSUME NEW g \in InFlight(c)' PROVE f < g
  <2>1. g \in InFlight(c) /\ g # f /\ g \in Frames /\ stage[c][g] \in ToServer..InQueue
    BY <1>3 DEF InFlight
  <2>2. g < f => InQueue <= stage[c][g]
    BY <1>2, <1>3, <2>1 DEF Requests, Ordered
  <2>3. stage[c][g] = InQueue => f <= g
    BY <1>1, <2>1 DEF Oldest
  <2>. QED
    BY <2>1, <2>2, <2>3 DEF Frames
<1>7. RequestsCounted'
  <2>1. Cardinality(InFlight(c)') = Cardinality(InFlight(c)) - 1 /\ Cardinality(InFlight(c)) \in Nat
    <3>1. InFlight(c) \in SUBSET Frames
      BY DEF InFlight
    <3>. QED
      BY <1>3, <3>1, FlightFinite, FS_RemoveElement
  <2>2. ASSUME NEW d \in Clients
        PROVE  /\ Cardinality(InFlight(d)') <= requested'[d]
               /\ MaxRequest > 0 => requested'[d] <= MaxRequest + 1
    <3>1. /\ Cardinality(InFlight(d)) <= requested[d] /\ requested[d] \in Nat
          /\ MaxRequest > 0 => requested[d] <= MaxRequest + 1
      BY DEF Requests, RequestsCounted, TypeOK
    <3>2. CASE d = c
      BY <1>2, <2>1, <3>1, <3>2, QueryAssumption
    <3>3. CASE d # c
      BY <1>2, <1>4, <3>1, <3>3
    <3>. QED
      BY <3>2, <3>3
  <2>. QED
    BY <2>2 DEF RequestsCounted
<1>8. Ordered'
  <2>1. ASSUME NEW d \in Clients PROVE last'[d] <= frame'[d]
    <3>1. ~(f > frame[c]) /\ frame[c] \in Int /\ f \in Int
      BY <1>2, QueryAssumption DEF Requests, Ordered, TypeOK, Frames
    <3>. QED
      BY <1>2, <3>1 DEF Requests, Ordered
  <2>2. ASSUME NEW d \in Clients, NEW g \in Frames, g > frame'[d] PROVE stage'[d][g] = NotSent
    BY <1>2, <2>2 DEF Requests, Ordered
  <2>3. ASSUME NEW d \in Clients, NEW g \in InFlight(d)' PROVE last'[d] < g
    BY <1>2, <1>4, <1>6 DEF Requests, Ordered
  <2>4. ASSUME NEW d \in Clients, NEW g \in InFlight(d)', NEW h \in InFlight(d)', g < h
        PROVE  stage'[d][h] <= stage'[d][g]
    <3>1. g \in InFlight(d) /\ h \in InFlight(d) /\ g \in Frames /\ h \in Frames
      BY <1>3, <1>4 DEF InFlight
    <3>2. stage'[d][g] = stage[d][g] /\ stage'[d][h] = stage[d][h]
      BY <1>2, <1>3, <3>1
    <3>. QED
      BY <2>4, <3>1, <3>2 DEF Requests, Ordered
  <2>. QED
    BY <2>1, <2>2, <2>3, <2>4 DEF Ordered
<1>. QED
  BY <1>2, <1>5, <1>7, <1>8 DEF Requests

\* Every step keeps the types.
LEMMA TypeStep ==
  ASSUME TypeOK, Next
  PROVE  TypeOK'
<1>. USE QueryAssumption DEF TypeOK, clientVars, serverVars, NotSent, ToServer, AtSrc, InServer,
       ToClient, InQueue, Pushed, Lost
<1>1. ASSUME NEW c \in Clients, ClientStep(c) PROVE TypeOK'
  <2>1. ASSUME NEW ok \in BOOLEAN, CapsEvent(c, ok) PROVE TypeOK'
    BY <2>1 DEF CapsEvent, Cut
  <2>2. CASE ChainDrop(c)
    BY <2>2 DEF ChainDrop
  <2>3. CASE ChainSend(c)
    <3>1. frame[c] + 1 \in 0..MaxFrame /\ frame' = [frame EXCEPT ![c] = frame[c] + 1]
      BY <2>3 DEF ChainSend
    <3>2. frame' \in [Clients -> 0..MaxFrame]
      BY <3>1
    <3>3. pc' \in [Clients -> {"idle", "pop"}] /\ UNCHANGED <<conn, last, serverVars>>
      BY <2>3 DEF ChainSend
    <3>4. requested' \in [Clients -> Nat] /\ stage' \in [Clients -> [Frames -> 0..7]]
      <4>1. CASE conn[c] = "up"
        <5>1. requested' \in [Clients -> Nat]
          BY <2>3, <4>1 DEF ChainSend
        <5>2. stage' = [stage EXCEPT ![c] = [stage[c] EXCEPT ![frame[c] + 1] = ToServer]]
          BY <2>3, <4>1 DEF ChainSend, Move
        <5>3. [stage[c] EXCEPT ![frame[c] + 1] = ToServer] \in [Frames -> 0..7]
          <6>1. stage[c] \in [Frames -> 0..7] /\ 1 \in 0..7
            OBVIOUS
          <6>. HIDE DEF TypeOK
          <6>. QED
            BY <6>1
        <5>. QED
          BY <5>1, <5>2, <5>3
      <4>2. CASE conn[c] # "up"
        BY <2>3, <4>2 DEF ChainSend
      <4>. QED
        BY <4>1, <4>2
    <3>. QED
      BY <3>2, <3>3, <3>4
  <2>4. CASE ChainPop(c)
    BY <2>4 DEF ChainPop, Move, Frames
  <2>5. CASE ChainTimeout(c)
    BY <2>5 DEF ChainTimeout
  <2>6. CASE ClientData(c)
    BY <2>6 DEF ClientData, Move
  <2>7. CASE Disconnect(c)
    BY <2>7 DEF Disconnect, Cut
  <2>8. CASE Reconnect(c)
    BY <2>8 DEF Reconnect
  <2>. QED
    BY <1>1, <2>1, <2>2, <2>3, <2>4, <2>5, <2>6, <2>7, <2>8 DEF ClientStep
<1>2. ASSUME NEW c \in Clients, ServerStream(c) PROVE TypeOK'
  <2>1. CASE ServerData(c)
    BY <2>1 DEF ServerData, Move
  <2>2. CASE SrcCreate(c)
    BY <2>2 DEF SrcCreate, Move
  <2>3. CASE ServerDrop(c)
    BY <2>3 DEF ServerDrop, Move
  <2>4. CASE SinkRender(c)
    BY <2>4 DEF SinkRender, Move
  <2>5. CASE SinkRenderError(c)
    BY <2>5 DEF SinkRenderError, Move
  <2>. QED
    BY <1>2, <2>1, <2>2, <2>3, <2>4, <2>5 DEF ServerStream
<1>3. ASSUME ServerChange PROVE TypeOK'
  <2>1. CASE SinkStart
    BY <2>1 DEF SinkStart, Turn
  <2>2. CASE SinkPlay
    BY <2>2 DEF SinkPlay, Turn, Announce
  <2>3. CASE SinkPause
    BY <2>3 DEF SinkPause, Turn, ReleaseEdge, Cut
  <2>4. CASE SinkStop
    BY <2>4 DEF SinkStop, Turn
  <2>5. CASE SinkFinalize
    <3>1. stage' \in [Clients -> [Frames -> 0..7]]
      BY <2>5 DEF SinkFinalize, Cut
    <3>2. conn' \in [Clients -> {"none", "up", "down"}] /\ edge' = "none" /\ caps' = {}
      BY <2>5 DEF SinkFinalize, ReleaseEdge
    <3>3. changes' \in 0..MaxChange
      BY <2>5 DEF SinkFinalize, Turn
    <3>4. /\ UNCHANGED <<pc, frame, requested, last, together, sinkSt, srcSt, flow>>
          /\ entry' = FALSE /\ configured' = FALSE
      BY <2>5 DEF SinkFinalize
    <3>. QED
      BY <3>1, <3>2, <3>3, <3>4
  <2>6. CASE SrcStart
    BY <2>6 DEF SrcStart, Turn
  <2>7. CASE SrcStarted
    BY <2>7 DEF SrcStarted
  <2>8. CASE SrcStartTimeout
    BY <2>8 DEF SrcStartTimeout
  <2>9. CASE SrcPlay
    BY <2>9 DEF SrcPlay, Turn
  <2>10. CASE SrcPlaying
    BY <2>10 DEF SrcPlaying, Announce
  <2>11. CASE SrcPause
    BY <2>11 DEF SrcPause, Turn, ReleaseEdge, Cut
  <2>12. CASE SrcStop
    <3>1. stage' \in [Clients -> [Frames -> 0..7]]
      <4>1. ASSUME NEW c \in Clients, NEW f \in Frames
            PROVE  (IF stage[c][f] = InServer \/ (conn[c] = "up" /\ stage[c][f] \in {ToServer, ToClient})
                    THEN Lost ELSE stage[c][f]) \in 0..7
        OBVIOUS
      <4>. QED
        BY <2>12, <4>1 DEF SrcStop
    <3>2. conn' \in [Clients -> {"none", "up", "down"}] /\ edge' = "none" /\ caps' = {}
      BY <2>12 DEF SrcStop, ReleaseEdge
    <3>3. changes' \in 0..MaxChange
      BY <2>12 DEF SrcStop, Turn
    <3>4. /\ UNCHANGED <<pc, frame, requested, last, together, sinkSt>>
          /\ srcSt' = "ready" /\ entry' = FALSE /\ configured' = FALSE /\ flow' = "ok"
      BY <2>12 DEF SrcStop
    <3>. QED
      BY <3>1, <3>2, <3>3, <3>4
  <2>. QED
    BY <1>3, <2>1, <2>2, <2>3, <2>4, <2>5, <2>6, <2>7, <2>8, <2>9, <2>10, <2>11, <2>12 DEF ServerChange
<1>. QED
  BY <1>1, <1>2, <1>3 DEF Next

\* Every step keeps the count and the order of the requests.
LEMMA RequestStep ==
  ASSUME TypeOK, Requests, TypeOK', Next
  PROVE  Requests'
<1>. DEFINE Loses == /\ UNCHANGED <<frame, requested, last>>
                    /\ \A c \in Clients : \A f \in Frames :
                         \/ stage'[c][f] = stage[c][f]
                         \/ stage'[c][f] = Lost /\ stage[c][f] # NotSent
<1>1. Loses => Requests'
  BY Losing
<1>2. ASSUME NEW C, Cut(C), UNCHANGED <<frame, requested, last>> PROVE Requests'
  BY <1>1, <1>2 DEF Cut, NotSent, ToServer, ToClient, Lost
<1>3. ASSUME UNCHANGED <<stage, frame, requested, last>> PROVE Requests'
  BY <1>1, <1>3
<1>4. ASSUME NEW c \in Clients, NEW s \in ToServer..ToClient, NEW t, t = s + 1,
             \E f \in Frames : Oldest(c, s, f) /\ Move(c, f, t),
             UNCHANGED clientVars
      PROVE  Requests'
  BY <1>4, Advancing DEF clientVars
<1>5. ASSUME NEW c \in Clients, NEW f \in Frames, stage[c][f] = InServer, Move(c, f, Lost),
             UNCHANGED clientVars
      PROVE  Requests'
  BY <1>1, <1>5 DEF Move, InServer, NotSent, clientVars, TypeOK
<1>6. ASSUME NEW c \in Clients, ClientStep(c) PROVE Requests'
  <2>1. ASSUME NEW ok \in BOOLEAN, CapsEvent(c, ok) PROVE Requests'
    BY <1>2, <2>1 DEF CapsEvent
  <2>2. CASE ChainDrop(c)
    <3>1. /\ stage' = stage /\ requested' = requested /\ last' = last
          /\ \A d \in Clients : frame[d] \in Int /\ frame'[d] \in Int /\ frame[d] <= frame'[d] /\ last[d] \in Int
      BY <2>2, QueryAssumption DEF ChainDrop, TypeOK
    <3>2. RequestsCounted'
      BY <3>1 DEF Requests, RequestsCounted, InFlight
    <3>3. ASSUME NEW d \in Clients, NEW g \in Frames, g > frame'[d] PROVE stage'[d][g] = NotSent
      <4>1. g > frame[d]
        BY <3>1, <3>3 DEF Frames
      <4>. QED
        BY <3>1, <4>1 DEF Requests, Ordered
    <3>4. ASSUME NEW d \in Clients PROVE last'[d] <= frame'[d]
      <4>1. last[d] <= frame[d]
        BY DEF Requests, Ordered
      <4>. QED
        BY <3>1, <4>1
    <3>5. Ordered'
      BY <3>1, <3>3, <3>4 DEF Requests, Ordered, InFlight
    <3>. QED
      BY <3>2, <3>5 DEF Requests
  <2>3. CASE ChainSend(c)
    BY <2>3, Sending
  <2>4. CASE ChainPop(c)
    BY <2>4, Popping
  <2>5. CASE ChainTimeout(c)
    BY <1>3, <2>5 DEF ChainTimeout
  <2>6. CASE ClientData(c)
    BY <1>4, <2>6 DEF ClientData, ToServer, ToClient, InQueue
  <2>7. CASE Disconnect(c)
    BY <1>2, <2>7 DEF Disconnect
  <2>8. CASE Reconnect(c)
    BY <1>3, <2>8 DEF Reconnect
  <2>. QED
    BY <1>6, <2>1, <2>2, <2>3, <2>4, <2>5, <2>6, <2>7, <2>8 DEF ClientStep
<1>7. ASSUME NEW c \in Clients, ServerStream(c) PROVE Requests'
  <2>1. CASE ServerData(c)
    BY <1>4, <2>1 DEF ServerData, ToServer, ToClient, AtSrc
  <2>2. CASE SrcCreate(c)
    BY <1>4, <2>2 DEF SrcCreate, ToServer, ToClient, AtSrc, InServer
  <2>3. CASE ServerDrop(c)
    BY <1>5, <2>3 DEF ServerDrop
  <2>4. CASE SinkRender(c)
    BY <1>4, <2>4 DEF SinkRender, ToServer, ToClient, InServer
  <2>5. CASE SinkRenderError(c)
    BY <1>5, <2>5 DEF SinkRenderError, Oldest
  <2>. QED
    BY <1>7, <2>1, <2>2, <2>3, <2>4, <2>5 DEF ServerStream
<1>8. ASSUME ServerChange PROVE Requests'
  <2>1. CASE SinkStart \/ SinkPlay \/ SinkStop \/ SrcStart \/ SrcStarted \/ SrcStartTimeout \/ SrcPlay \/ SrcPlaying
    BY <1>3, <2>1 DEF SinkStart, SinkPlay, SinkStop, SrcStart, SrcStarted, SrcStartTimeout, SrcPlay,
       SrcPlaying, clientVars
  <2>2. CASE SinkPause \/ SrcPause \/ SinkFinalize
    BY <1>2, <2>2 DEF SinkPause, SrcPause, SinkFinalize
  <2>3. CASE SrcStop
    BY <1>1, <2>3 DEF SrcStop, NotSent, ToServer, InServer, ToClient, Lost
  <2>. QED
    BY <1>8, <2>1, <2>2, <2>3 DEF ServerChange
<1>. QED
  BY <1>6, <1>7, <1>8 DEF Next

\* Every step keeps the entry and the handle in step with the element states.
LEMMA LifecycleStep ==
  ASSUME TypeOK, Lifecycle, Next
  PROVE  Lifecycle'
<1>. USE DEF Lifecycle
<1>1. ASSUME UNCHANGED <<together, sinkSt, srcSt, entry, configured, edge, caps>> PROVE Lifecycle'
  BY <1>1
<1>2. ASSUME NEW c \in Clients, ClientStep(c) \/ ServerStream(c) PROVE Lifecycle'
  BY <1>1, <1>2 DEF ClientStep, ServerStream, CapsEvent, ChainDrop, ChainSend, ChainPop, ChainTimeout,
     ClientData, Disconnect, Reconnect, ServerData, SrcCreate, ServerDrop, SinkRender,
     SinkRenderError, serverVars
<1>3. ASSUME ServerChange PROVE Lifecycle'
  <2>1. CASE SinkStart
    BY <2>1 DEF SinkStart, Turn, TypeOK
  <2>2. CASE SinkPlay
    BY <2>2 DEF SinkPlay, Turn, Announce, TypeOK
  <2>3. CASE SinkPause
    BY <2>3 DEF SinkPause, Turn, ReleaseEdge, TypeOK
  <2>4. CASE SinkStop
    BY <2>4 DEF SinkStop, Turn, TypeOK
  <2>5. CASE SinkFinalize
    BY <2>5 DEF SinkFinalize, Turn, ReleaseEdge, TypeOK
  <2>6. CASE SrcStart
    BY <2>6 DEF SrcStart, Turn, TypeOK
  <2>7. CASE SrcStarted
    BY <2>7 DEF SrcStarted, TypeOK
  <2>8. CASE SrcStartTimeout
    BY <2>8 DEF SrcStartTimeout, TypeOK
  <2>9. CASE SrcPlay
    BY <2>9 DEF SrcPlay, Turn, TypeOK
  <2>10. CASE SrcPlaying
    BY <2>10 DEF SrcPlaying, Announce, TypeOK
  <2>11. CASE SrcPause
    BY <2>11 DEF SrcPause, Turn, ReleaseEdge, TypeOK
  <2>12. CASE SrcStop
    BY <2>12 DEF SrcStop, Turn, ReleaseEdge, TypeOK
  <2>. QED
    BY <1>3, <2>1, <2>2, <2>3, <2>4, <2>5, <2>6, <2>7, <2>8, <2>9, <2>10, <2>11, <2>12 DEF ServerChange
<1>. QED
  BY <1>2, <1>3 DEF Next

\* The inductive invariant: types, the count of the requests, their order, and
\* the life of the server's entry hold in every reachable state.
THEOREM QueryInvariant == Spec => []QueryInv
<1>1. Init => QueryInv
  <2>. SUFFICES ASSUME Init PROVE QueryInv
    OBVIOUS
  <2>1. TypeOK
    <3>1. 0 \in 0..7 /\ 0 \in 0..MaxFrame /\ 0 \in 0..MaxChange /\ 0 \in Nat
      BY QueryAssumption
    <3>2. stage \in [Clients -> [Frames -> 0..7]]
      BY <3>1 DEF Init, NotSent
    <3>3. /\ pc \in [Clients -> {"idle", "pop"}] /\ frame \in [Clients -> 0..MaxFrame]
          /\ requested \in [Clients -> Nat] /\ conn \in [Clients -> {"none", "up", "down"}]
          /\ last \in [Clients -> 0..MaxFrame]
      BY <3>1 DEF Init
    <3>. QED
      BY <3>1, <3>2, <3>3 DEF Init, TypeOK
  <2>2. ASSUME NEW c \in Clients PROVE InFlight(c) = {}
    BY DEF Init, InFlight, NotSent, ToServer, InQueue
  <2>3. RequestsCounted
    BY <2>2, FS_EmptySet, QueryAssumption DEF Init, RequestsCounted
  <2>4. Ordered
    BY <2>2 DEF Init, Ordered, NotSent
  <2>5. Lifecycle
    BY DEF Init, Lifecycle
  <2>. QED
    BY <2>1, <2>3, <2>4, <2>5 DEF QueryInv
<1>2. QueryInv /\ [Next]_vars => QueryInv'
  <2>. SUFFICES ASSUME QueryInv, [Next]_vars PROVE QueryInv'
    OBVIOUS
  <2>1. CASE Next
    <3>1. TypeOK'
      BY <2>1, TypeStep DEF QueryInv
    <3>2. Requests'
      BY <2>1, <3>1, RequestStep DEF QueryInv, Requests
    <3>3. Lifecycle'
      BY <2>1, LifecycleStep DEF QueryInv
    <3>. QED
      BY <3>1, <3>2, <3>3 DEF QueryInv, Requests
  <2>2. CASE UNCHANGED vars
    BY <2>2 DEF QueryInv, vars, clientVars, serverVars, TypeOK, RequestsCounted, Ordered, Lifecycle, InFlight
  <2>. QED
    BY <2>1, <2>2
<1>. QED
  BY <1>1, <1>2, PTL DEF Spec

\* requested_num of chain covers every request in flight and stays within one of
\* max-request, for any max-request and any loss of connections.
THEOREM Counting == Spec => []RequestsCounted
<1>1. QueryInv => RequestsCounted
  BY DEF QueryInv
<1>. QED
  BY <1>1, QueryInvariant, PTL

\* A client pushes the answers in the order of its requests, none of them twice.
THEOREM Order == Spec => AnswersInOrder
<1>1. QueryInv /\ [Next]_vars =>
        [\A c \in Clients : last'[c] # last[c] => last[c] < last'[c]]_vars
  <2>. SUFFICES ASSUME QueryInv, Next, NEW c \in Clients, last'[c] # last[c] PROVE last[c] < last'[c]
    BY DEF vars
  <2>1. TypeOK' /\ Requests
    BY TypeStep DEF QueryInv, Requests
  <2>2. \E d \in Clients : ChainPop(d)
    BY DEF Next, ClientStep, ServerStream, ServerChange, CapsEvent, ChainDrop, ChainSend, ChainTimeout,
       ClientData, Disconnect, Reconnect, ServerData, SrcCreate, ServerDrop, SinkRender, SinkRenderError,
       SinkStart, SinkPlay, SinkPause, SinkStop, SinkFinalize, SrcStart, SrcStarted, SrcStartTimeout,
       SrcPlay, SrcPlaying, SrcPause, SrcStop, clientVars
  <2>. QED
    BY <2>1, <2>2, Popping DEF QueryInv
<1>. QED
  BY <1>1, QueryInvariant, PTL DEF Spec, AnswersInOrder

\* A server pipeline in PLAYING can be connected to, after any state changes.
THEOREM Ready == Spec => []ServerReady
<1>1. QueryInv => ServerReady
  BY DEF QueryInv, TypeOK, Lifecycle, ServerReady, Acceptable
<1>. QED
  BY <1>1, QueryInvariant, PTL
=============================================================================
