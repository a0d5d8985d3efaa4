--------------------------- MODULE ServicesProofs ---------------------------
(***************************************************************************)
(* Proofs about the parts of MCServices that work with a thread or a peer  *)
(* of their own: the publisher and its subscribers (EdgePubSub), the       *)
(* trainer (TensorTrainer), the two MQTT elements (Mqtt) and the two gRPC  *)
(* elements (GrpcStream).  Each has an inductive invariant of its own and  *)
(* lemmas for its actions.                                                 *)
(***************************************************************************)
EXTENDS MCServices, SequenceTheorems, TLAPS
LOCAL INSTANCE SequencesExt

\* One tensor source: what it received waits in queue, what it pushed is out, what was
\* published while its link was up is sent.
SrcType ==
  [state : {"null", "paused", "playing"}, starts : Nat, playing : BOOLEAN,
   stream : {"none", "test", "pop", "error"}, queue : Seq(Nat), out : Seq(Nat),
   sent : Seq(Nat), link : {"none", "up"}, chan : Seq(Nat)]

\* The record of EdgePubSub.
EdgeType ==
  edge \in [wait : BOOLEAN, timeout : BOOLEAN, state : {"null", "started"}, starts : Nat,
            connected : BOOLEAN, pending : Nat, render : {"idle", "wait", "send", "error"},
            n : Nat, parted : BOOLEAN, missed : SUBSET Nat, src : [EdgeSrcs -> SrcType]]

\* What holds of one source and its link: the link carries Closed last, and only
\* when it is down; a source that was stopped has nothing on it; and what came
\* out, waits in the queue or is on the link is what was sent.
SrcInv(s) ==
  /\ \A k \in 1..(Len(s.chan) - 1) : s.chan[k] # Closed
  /\ s.link = "up" => \A k \in 1..Len(s.chan) : s.chan[k] # Closed
  /\ s.state = "null" => s.chan = << >> /\ s.link = "none"
  /\ s.out \o s.queue \o Numbers(s.chan) = s.sent

\* The invariant: it adds to the sources' what the sink knows. A connection that is
\* pending or completed is one that is up, as long as nobody has left, so that a sink
\* that has waited for one does not send to nobody.
EdgeInv ==
  /\ EdgeType
  /\ \A i \in EdgeSrcs : SrcInv(edge.src[i])
  /\ edge.render \in {"wait", "send"} => edge.n > 0
  /\ edge.wait /\ edge.render = "send" => edge.connected
  /\ ~edge.parted /\ (edge.pending > 0 \/ edge.connected) =>
       \E i \in EdgeSrcs : edge.src[i].link = "up"
  /\ edge.wait /\ ~edge.parted => edge.missed = {}

\* Nobody has started.
LEMMA EdgeInitInv == EdgeInit => EdgeInv
<1> SUFFICES ASSUME EdgeInit
             PROVE  EdgeInv
  OBVIOUS
<1>0. NewSrc \in SrcType
  BY EmptySeq DEF NewSrc, SrcType
<1>1. EdgeType
  <2>1. [i \in EdgeSrcs |-> NewSrc] \in [EdgeSrcs -> SrcType]
    BY <1>0
  <2>2. edge.src = [i \in EdgeSrcs |-> NewSrc]
    BY DEF EdgeInit
  <2>3. edge.src \in [EdgeSrcs -> SrcType]
    BY <2>1, <2>2
  <2>4. /\ edge.wait \in BOOLEAN /\ edge.timeout \in BOOLEAN /\ edge.state = "null"
        /\ edge.starts = 0 /\ edge.connected \in BOOLEAN /\ edge.pending = 0
        /\ edge.render = "idle" /\ edge.n = 0 /\ edge.parted \in BOOLEAN /\ edge.missed = {}
    BY DEF EdgeInit
  <2>5. edge = [wait |-> edge.wait, timeout |-> edge.timeout, state |-> edge.state,
                starts |-> edge.starts, connected |-> edge.connected,
                pending |-> edge.pending, render |-> edge.render, n |-> edge.n,
                parted |-> edge.parted, missed |-> edge.missed, src |-> edge.src]
    BY DEF EdgeInit
  <2> QED
    BY <2>3, <2>4, <2>5 DEF EdgeType
<1>2. SrcInv(NewSrc)
  <2>1. << >> \o << >> \o << >> = << >>
    BY ConcatEmptySeq, EmptySeq
  <2> QED
    BY <2>1 DEF SrcInv, NewSrc, Numbers
<1>3. \A i \in EdgeSrcs : edge.src[i] = NewSrc
  BY DEF EdgeInit
<1>4. /\ edge.render = "idle" /\ edge.missed = {}
      /\ edge.pending = 0 /\ edge.connected = FALSE
  BY DEF EdgeInit
<1> QED
  BY <1>1, <1>2, <1>3, <1>4 DEF EdgeInv

-----------------------------------------------------------------------------
\* What a link carries, when a number is put on it, when it is closed and when its
\* first message is taken.
LEMMA NumbersType ==
  ASSUME NEW c \in Seq(Nat)
  PROVE  Numbers(c) \in Seq(Nat)
  BY DEF Numbers

\* A buffer is put on a link that is up.
LEMMA NumbersAppend ==
  ASSUME NEW c \in Seq(Nat), NEW n \in Nat, n # Closed,
         \A k \in 1..Len(c) : c[k] # Closed
  PROVE  /\ Numbers(Append(c, n)) = Append(Numbers(c), n)
         /\ \A k \in 1..Len(Append(c, n)) : Append(c, n)[k] # Closed
  BY DEF Numbers, Closed

\* A link that is closed carries Closed last.
LEMMA NumbersClose ==
  ASSUME NEW c \in Seq(Nat), \A k \in 1..Len(c) : c[k] # Closed
  PROVE  /\ Numbers(Append(c, Closed)) = Numbers(c)
         /\ \A k \in 1..(Len(Append(c, Closed)) - 1) : Append(c, Closed)[k] # Closed
<1>1. Numbers(c) = c
  BY DEF Numbers
<1>2. Numbers(Append(c, Closed)) = SubSeq(Append(c, Closed), 1, Len(c))
  <2>1. /\ Append(c, Closed) # << >> /\ Len(Append(c, Closed)) = Len(c) + 1
        /\ Append(c, Closed)[Len(c) + 1] = Closed
    BY DEF Closed
  <2> QED
    BY <2>1 DEF Numbers
<1>3. SubSeq(Append(c, Closed), 1, Len(c)) = c
  BY DEF Closed
<1> QED
  BY <1>1, <1>2, <1>3 DEF Closed

\* The first message of a link is taken.
LEMMA NumbersTail ==
  ASSUME NEW c \in Seq(Nat), c # << >>,
         \A k \in 1..(Len(c) - 1) : c[k] # Closed
  PROVE  /\ Head(c) # Closed => Numbers(c) = <<Head(c)>> \o Numbers(Tail(c))
         /\ Head(c) = Closed => Numbers(c) = Numbers(Tail(c))
         /\ \A k \in 1..(Len(Tail(c)) - 1) : Tail(c)[k] # Closed
         /\ (\A k \in 1..Len(c) : c[k] # Closed) => \A k \in 1..Len(Tail(c)) : Tail(c)[k] # Closed
<1> DEFINE t == Tail(c)
<1>1. /\ t \in Seq(Nat) /\ Len(t) = Len(c) - 1 /\ Len(c) \in Nat \ {0} /\ Head(c) = c[1]
      /\ \A k \in 1..Len(t) : t[k] = c[k + 1]
  OBVIOUS
<1>2. /\ \A k \in 1..(Len(t) - 1) : t[k] # Closed
      /\ (\A k \in 1..Len(c) : c[k] # Closed) => \A k \in 1..Len(t) : t[k] # Closed
  BY <1>1
<1>3. /\ Head(c) # Closed => Numbers(c) = <<Head(c)>> \o Numbers(t)
      /\ Head(c) = Closed => Numbers(c) = Numbers(t)
  <2>1. CASE Len(c) = 1
    <3>1. t = << >>
      <4> HIDE DEF t
      <4> QED BY <1>1, <2>1
    <3>2. Numbers(t) = << >>
      BY <3>1 DEF Numbers
    <3>3. c = <<Head(c)>>
      BY <1>1, <2>1
    <3>4. Head(c) # Closed => Numbers(c) = c
      BY <1>1, <2>1 DEF Numbers
    <3>5. Head(c) = Closed => Numbers(c) = << >>
      BY <1>1, <2>1 DEF Numbers
    <3>6. <<Head(c)>> \o << >> = <<Head(c)>>
      BY <1>1, ConcatEmptySeq
    <3> QED
      BY <3>2, <3>3, <3>4, <3>5, <3>6
  <2>2. CASE Len(c) # 1
    <3>1. t # << >> /\ t[Len(t)] = c[Len(c)] /\ Head(c) # Closed
      <4>1. Len(t) \in 1..Len(t) /\ Len(t) + 1 = Len(c) /\ 1 \in 1..(Len(c) - 1)
        BY <1>1, <2>2
      <4>2. t[Len(t)] = c[Len(c)]
        BY <1>1, <4>1
      <4>3. Head(c) # Closed
        BY SMTT(30), <1>1, <4>1
      <4>4. t # << >>
        <5> HIDE DEF t
        <5> QED BY SMTT(30), <4>1
      <4> QED
        BY <4>2, <4>3, <4>4
    <3>2. c = <<Head(c)>> \o t
      BY SMTT(30)
    <3>3. CASE c[Len(c)] # Closed
      <4>1. Numbers(c) = c /\ Numbers(t) = t
        BY <3>1, <3>3 DEF Numbers
      <4> QED
        BY <3>1, <3>2, <4>1
    <3>4. CASE c[Len(c)] = Closed
      <4>1. Numbers(c) = SubSeq(c, 1, Len(c) - 1) /\ Numbers(t) = SubSeq(t, 1, Len(t) - 1)
        BY <1>1, <3>1, <3>4 DEF Numbers
      <4>2. SubSeq(c, 1, Len(c) - 1) = <<Head(c)>> \o SubSeq(t, 1, Len(t) - 1)
        BY <1>1, <2>2
      <4> QED
        BY <3>1, <4>1, <4>2
    <3> QED
      BY <3>3, <3>4
  <2> QED
    BY <2>1, <2>2
<1> QED
  BY <1>2, <1>3

\* A number moves from what comes to what waits.
LEMMA AppendConcat ==
  ASSUME NEW o \in Seq(Nat), NEW q \in Seq(Nat), NEW h \in Nat, NEW r \in Seq(Nat)
  PROVE  o \o Append(q, h) \o r = o \o q \o (<<h>> \o r)
<1> DEFINE a == Append(q, h)  b == <<h>> \o r
<1>1. a \in Seq(Nat) /\ b \in Seq(Nat)
  OBVIOUS
<1>2. a \o r = q \o b
  OBVIOUS
<1> HIDE DEF a, b
<1>3. (o \o a) \o r = o \o (a \o r)
  BY SMTT(30), <1>1
<1>5. (o \o q) \o b = o \o (q \o b)
  BY SMTT(30), <1>1
<1>4. o \o a \o r = o \o q \o b
  BY <1>2, <1>3, <1>5
<1> QED
  BY <1>4 DEF a, b

\* The first of the second part becomes the last of the first.
LEMMA ConcatTail ==
  ASSUME NEW o \in Seq(Nat), NEW q \in Seq(Nat), q # << >>
  PROVE  Append(o, Head(q)) \o Tail(q) = o \o q
<1> DEFINE h == Head(q)  t == Tail(q)
<1>1. h \in Nat /\ t \in Seq(Nat) /\ q = <<h>> \o t
  OBVIOUS
<1> HIDE DEF h, t
<1>2. Append(o, h) \o t = o \o (<<h>> \o t)
  BY <1>1
<1>3. Append(o, h) \o t = o \o q
  BY <1>1, <1>2
<1> QED
  BY <1>3 DEF h, t

-----------------------------------------------------------------------------
\* A step that changes one source, and no link.
LEMMA OneSource ==
  ASSUME EdgeInv, NEW i \in EdgeSrcs, NEW s \in SrcType,
         SrcInv(s), s.link = edge.src[i].link, Src(i, s)
  PROVE  EdgeInv'
<1>1. /\ edge.src[i] \in SrcType /\ edge' = [edge EXCEPT !.src[i] = s]
      /\ edge.src \in [EdgeSrcs -> SrcType]
  BY DEF EdgeInv, EdgeType, Src
<1>2. EdgeType'
  BY <1>1 DEF EdgeInv, EdgeType
<1>3. /\ \A j \in EdgeSrcs : edge'.src[j] = IF j = i THEN s ELSE edge.src[j]
      /\ edge'.wait = edge.wait /\ edge'.render = edge.render /\ edge'.n = edge.n
      /\ edge'.connected = edge.connected /\ edge'.pending = edge.pending
      /\ edge'.parted = edge.parted /\ edge'.missed = edge.missed
  BY <1>1 DEF EdgeInv, EdgeType
<1>4. \A j \in EdgeSrcs : SrcInv(edge'.src[j])
  BY <1>3 DEF EdgeInv
<1> QED
  BY <1>2, <1>3, <1>4 DEF EdgeInv

\* The callback of nnstreamer-edge queues a buffer that has come over the link.
LEMMA NewDataReceivedKeeps ==
  ASSUME EdgeInv, NEW i \in EdgeSrcs, NewDataReceived(i)
  PROVE  EdgeInv'
<1> DEFINE s == edge.src[i]
           new == [s EXCEPT !.queue = Append(@, Head(s.chan)), !.chan = Tail(@)]
<1>1. s \in SrcType /\ SrcInv(s)
  BY DEF EdgeInv, EdgeType
<1>2. s.chan # << >> /\ Head(s.chan) # Closed /\ Src(i, new)
  BY DEF NewDataReceived
<1>a. /\ s.chan \in Seq(Nat) /\ Head(s.chan) \in Nat /\ Tail(s.chan) \in Seq(Nat)
      /\ Append(s.queue, Head(s.chan)) \in Seq(Nat)
  BY SMTT(30), <1>1, <1>2 DEF SrcType
<1>3. /\ new \in SrcType /\ new.link = s.link /\ new.state = s.state
      /\ new.out = s.out /\ new.sent = s.sent
      /\ new.queue = Append(s.queue, Head(s.chan)) /\ new.chan = Tail(s.chan)
  BY ZenonT(40), <1>1, <1>2, <1>a DEF SrcType
<1>4. Numbers(s.chan) = <<Head(s.chan)>> \o Numbers(Tail(s.chan))
  BY <1>1, <1>2, NumbersTail DEF SrcInv, SrcType
<1>5. new.out \o new.queue \o Numbers(new.chan) = s.out \o s.queue \o Numbers(s.chan)
  <2> DEFINE o == s.out  q == s.queue  h == Head(s.chan)  r == Numbers(Tail(s.chan))
  <2>1. o \in Seq(Nat) /\ q \in Seq(Nat) /\ h \in Nat /\ r \in Seq(Nat)
    BY ZenonT(40), <1>1, <1>2, <1>a, NumbersType DEF SrcType
  <2> HIDE DEF o, q, h, r
  <2>2. o \o Append(q, h) \o r = o \o q \o (<<h>> \o r)
    BY ZenonT(40), <2>1, AppendConcat
  <2> QED
    BY <2>2, <1>3, <1>4 DEF o, q, h, r
<1>6. SrcInv(new)
  <2>1. /\ \A k \in 1..(Len(new.chan) - 1) : new.chan[k] # Closed
        /\ new.link = "up" => \A k \in 1..Len(new.chan) : new.chan[k] # Closed
    BY <1>1, <1>2, <1>3, NumbersTail DEF SrcInv, SrcType
  <2> QED
    BY ZenonT(40), <2>1, <1>1, <1>2, <1>3, <1>5 DEF SrcInv
<1> QED
  BY <1>2, <1>3, <1>6, OneSource

\* The callback learns that the connection was closed, after all that was sent on it.
LEMMA ConnectionClosedKeeps ==
  ASSUME EdgeInv, NEW i \in EdgeSrcs, ConnectionClosed(i)
  PROVE  EdgeInv'
<1> DEFINE s == edge.src[i]
           new == [s EXCEPT !.chan = Tail(@), !.playing = FALSE]
<1>1. s \in SrcType /\ SrcInv(s)
  BY DEF EdgeInv, EdgeType
<1>2. s.chan # << >> /\ Head(s.chan) = Closed /\ Src(i, new)
  BY DEF ConnectionClosed
<1>3. s.chan \in Seq(Nat) /\ Tail(s.chan) \in Seq(Nat)
  BY SMTT(30), <1>1, <1>2 DEF SrcType
<1>4. /\ new \in SrcType /\ new.link = s.link /\ new.state = s.state
      /\ new.out = s.out /\ new.sent = s.sent /\ new.queue = s.queue
      /\ new.chan = Tail(s.chan)
  BY <1>1, <1>3 DEF SrcType
<1>5. /\ Numbers(s.chan) = Numbers(new.chan)
      /\ \A k \in 1..(Len(new.chan) - 1) : new.chan[k] # Closed
      /\ new.link = "up" => \A k \in 1..Len(new.chan) : new.chan[k] # Closed
  BY <1>1, <1>2, <1>3, <1>4, NumbersTail DEF SrcInv
<1>6. SrcInv(new)
  BY <1>1, <1>2, <1>4, <1>5 DEF SrcInv
<1> QED
  BY <1>2, <1>4, <1>6, OneSource

\* The streaming thread takes the first of the queue and puts it out.
LEMMA CreatePopKeeps ==
  ASSUME EdgeInv, NEW i \in EdgeSrcs, CreatePop(i)
  PROVE  EdgeInv'
<1> DEFINE s == edge.src[i]
<1>1. s \in SrcType /\ SrcInv(s)
  BY DEF EdgeInv, EdgeType
<1>2. CASE s.queue = << >>
  <2> DEFINE new == [s EXCEPT !.stream = "test"]
  <2>1. Src(i, new)
    BY <1>2 DEF CreatePop
  <2>2. /\ new \in SrcType /\ new.link = s.link /\ new.state = s.state
        /\ new.out = s.out /\ new.sent = s.sent /\ new.queue = s.queue
        /\ new.chan = s.chan
    BY <1>1 DEF SrcType
  <2>3. SrcInv(new)
    BY <1>1, <2>2 DEF SrcInv
  <2> QED
    BY <2>1, <2>2, <2>3, OneSource
<1>3. CASE s.queue # << >>
  <2> DEFINE new == [s EXCEPT !.stream = "test", !.queue = Tail(@),
                              !.out = Append(@, Head(s.queue))]
  <2>1. Src(i, new)
    BY <1>3 DEF CreatePop
  <2>2. /\ s.queue \in Seq(Nat) /\ s.out \in Seq(Nat) /\ Head(s.queue) \in Nat
        /\ Tail(s.queue) \in Seq(Nat) /\ Append(s.out, Head(s.queue)) \in Seq(Nat)
    BY SMTT(30), <1>1, <1>3 DEF SrcType
  <2>3. /\ new \in SrcType /\ new.link = s.link /\ new.state = s.state
        /\ new.out = Append(s.out, Head(s.queue)) /\ new.sent = s.sent
        /\ new.queue = Tail(s.queue) /\ new.chan = s.chan
    BY <1>1, <2>2 DEF SrcType
  <2>4. Append(s.out, Head(s.queue)) \o Tail(s.queue) = s.out \o s.queue
    <3> DEFINE o == s.out  q == s.queue
    <3>1. o \in Seq(Nat) /\ q \in Seq(Nat) /\ q # << >>
      BY SMTT(30), <1>3, <2>2
    <3> HIDE DEF o, q
    <3>2. Append(o, Head(q)) \o Tail(q) = o \o q
      BY SMTT(30), <3>1, ConcatTail
    <3> QED
      BY ZenonT(40), <3>2 DEF o, q
  <2>5. SrcInv(new)
    BY <1>1, <2>3, <2>4 DEF SrcInv
  <2> QED
    BY <2>1, <2>3, <2>5, OneSource
<1> QED
  BY <1>2, <1>3

\* The other steps of a source that touch neither the buffers nor the link.
LEMMA SourceStateKeeps ==
  ASSUME EdgeInv, NEW i \in EdgeSrcs,
         \/ CreateTest(i) \/ SrcPlay(i) \/ SrcPause(i) \/ EdgeSrcStartFails(i)
  PROVE  EdgeInv'
<1> DEFINE s == edge.src[i]
<1>1. s \in SrcType /\ SrcInv(s)
  BY DEF EdgeInv, EdgeType
<1>2. PICK new \in SrcType :
        /\ Src(i, new) /\ new.link = s.link /\ (new.state = "null" => s.state = "null")
        /\ new.out = s.out /\ new.sent = s.sent /\ new.queue = s.queue
        /\ new.chan = s.chan
  <2>1. CASE CreateTest(i)
    <3> DEFINE r == [s EXCEPT !.stream = IF s.playing THEN "pop" ELSE "error"]
    <3>1. Src(i, r)
      BY <2>1 DEF CreateTest
    <3>2. r \in SrcType /\ r.link = s.link /\ r.state = s.state /\ r.out = s.out
          /\ r.sent = s.sent /\ r.queue = s.queue /\ r.chan = s.chan
      BY <1>1 DEF SrcType
    <3> QED
      BY <3>1, <3>2
  <2>2. CASE SrcPlay(i)
    <3> DEFINE r == [s EXCEPT !.state = "playing", !.playing = TRUE]
    <3>1. Src(i, r)
      BY <2>2 DEF SrcPlay
    <3>2. r \in SrcType /\ r.link = s.link /\ r.state = "playing" /\ r.out = s.out
          /\ r.sent = s.sent /\ r.queue = s.queue /\ r.chan = s.chan
      BY <1>1 DEF SrcType
    <3> QED
      BY <3>1, <3>2
  <2>3. CASE SrcPause(i)
    <3> DEFINE r == [s EXCEPT !.state = "paused", !.playing = FALSE]
    <3>1. Src(i, r)
      BY <2>3 DEF SrcPause
    <3>2. r \in SrcType /\ r.link = s.link /\ r.state = "paused" /\ r.out = s.out
          /\ r.sent = s.sent /\ r.queue = s.queue /\ r.chan = s.chan
      BY <1>1 DEF SrcType
    <3> QED
      BY <3>1, <3>2
  <2>4. CASE EdgeSrcStartFails(i)
    <3> DEFINE r == [s EXCEPT !.starts = @ + 1]
    <3>1. Src(i, r)
      BY <2>4 DEF EdgeSrcStartFails
    <3>2. s.starts + 1 \in Nat
      BY <1>1 DEF SrcType
    <3>3. r \in SrcType /\ r.link = s.link /\ r.state = s.state /\ r.out = s.out
          /\ r.sent = s.sent /\ r.queue = s.queue /\ r.chan = s.chan
      BY <1>1, <3>2 DEF SrcType
    <3> QED
      BY <3>1, <3>3
  <2> QED
    BY <2>1, <2>2, <2>3, <2>4
<1>3. SrcInv(new)
  BY <1>1, <1>2 DEF SrcInv
<1> QED
  BY <1>2, <1>3, OneSource

-----------------------------------------------------------------------------
\* A source connects: there is nothing on its link yet.
LEMMA EdgeSrcStartKeeps ==
  ASSUME EdgeInv, NEW i \in EdgeSrcs, EdgeSrcStart(i)
  PROVE  EdgeInv'
<1> DEFINE s == edge.src[i]
           new == [s EXCEPT !.state = "paused", !.starts = @ + 1, !.playing = TRUE,
                            !.stream = "test", !.link = "up"]
<1>1. s \in SrcType /\ SrcInv(s) /\ s.state = "null"
  BY DEF EdgeInv, EdgeType, EdgeSrcStart
<1>a. s.starts + 1 \in Nat
  BY <1>1 DEF SrcType
<1>2. /\ new \in SrcType /\ new.link = "up" /\ new.state = "paused"
      /\ new.out = s.out /\ new.sent = s.sent /\ new.queue = s.queue
      /\ new.chan = s.chan
  BY <1>1, <1>a DEF SrcType
<1>4. edge' = [edge EXCEPT !.pending = @ + 1, !.src[i] = new]
  BY DEF EdgeSrcStart
<1> HIDE DEF new
<1>3. SrcInv(new)
  <2>1. new.chan = << >> /\ Len(new.chan) = 0
    BY <1>1, <1>2 DEF SrcInv
  <2>2. new.out \o new.queue \o Numbers(new.chan) = new.sent
    BY <1>1, <1>2 DEF SrcInv
  <2> HIDE DEF s
  <2>3. /\ \A k \in 1..(Len(new.chan) - 1) : new.chan[k] # Closed
        /\ \A k \in 1..Len(new.chan) : new.chan[k] # Closed
    BY <2>1
  <2> QED
    BY <1>2, <2>2, <2>3 DEF SrcInv
<1>b. edge.pending + 1 \in Nat
  BY DEF EdgeInv, EdgeType
<1>5. EdgeType'
  BY <1>2, <1>4, <1>b DEF EdgeInv, EdgeType
<1>6. /\ \A j \in EdgeSrcs : edge'.src[j] = IF j = i THEN new ELSE edge.src[j]
      /\ edge'.wait = edge.wait /\ edge'.render = edge.render /\ edge'.n = edge.n
      /\ edge'.connected = edge.connected
      /\ edge'.parted = edge.parted /\ edge'.missed = edge.missed
  BY <1>4 DEF EdgeInv, EdgeType
<1>7. \A j \in EdgeSrcs : SrcInv(edge'.src[j])
  BY <1>3, <1>6 DEF EdgeInv
<1>8. edge'.src[i].link = "up"
  BY <1>2, <1>6
<1> QED
  BY <1>5, <1>6, <1>7, <1>8 DEF EdgeInv

\* A source stops: what its link carried was not received and does not count.
LEMMA SrcStopKeeps ==
  ASSUME EdgeInv, NEW i \in EdgeSrcs, SrcStop(i)
  PROVE  EdgeInv'
<1> DEFINE s == edge.src[i]
           new == [s EXCEPT !.state = "null", !.playing = FALSE, !.stream = "none",
                            !.link = "none", !.chan = << >>,
                            !.sent = SubSeq(@, 1, Len(s.out) + Len(s.queue))]
<1>1. s \in SrcType /\ SrcInv(s)
  BY SMTT(30) DEF EdgeInv, EdgeType
<1>2. /\ s.out \in Seq(Nat) /\ s.queue \in Seq(Nat) /\ s.sent \in Seq(Nat)
      /\ s.chan \in Seq(Nat) /\ Numbers(s.chan) \in Seq(Nat)
  BY SMTT(30), <1>1, NumbersType DEF SrcType
<1>3. SubSeq(s.sent, 1, Len(s.out) + Len(s.queue)) = s.out \o s.queue
  <2> DEFINE o == s.out  q == s.queue  r == Numbers(s.chan)  a == o \o q
  <2>1. o \in Seq(Nat) /\ q \in Seq(Nat) /\ r \in Seq(Nat)
    BY <1>2
  <2>2. s.sent = a \o r
    BY <1>1 DEF SrcInv
  <2> HIDE DEF o, q, r
  <2>3. a \in Seq(Nat) /\ Len(a) = Len(o) + Len(q)
    BY <2>1
  <2> HIDE DEF a
  <2>4. SubSeq(a \o r, 1, Len(a)) = a
    BY <2>1, <2>3
  <2> QED
    BY <2>2, <2>3, <2>4 DEF a, o, q
<1>4. s.out \o s.queue \in Seq(Nat) /\ << >> \in Seq(Nat)
  BY <1>2
<1>5. /\ new \in SrcType /\ new.link = "none" /\ new.state = "null"
      /\ new.out = s.out /\ new.sent = s.out \o s.queue /\ new.queue = s.queue
      /\ new.chan = << >>
  BY <1>1, <1>3, <1>4 DEF SrcType
<1>7. edge' = [edge EXCEPT !.parted = TRUE, !.src[i] = new]
  BY DEF SrcStop
<1> HIDE DEF new
<1>6. SrcInv(new)
  <2>1. Numbers(<< >>) = << >>
    BY DEF Numbers
  <2>2. s.out \o s.queue \o << >> = s.out \o s.queue
    BY <1>4, ConcatEmptySeq
  <2>3. new.out \o new.queue \o Numbers(new.chan) = new.sent
    BY <1>5, <2>1, <2>2
  <2>4. Len(new.chan) = 0
    BY <1>5
  <2> HIDE DEF s
  <2>5. /\ \A k \in 1..(Len(new.chan) - 1) : new.chan[k] # Closed
        /\ \A k \in 1..Len(new.chan) : new.chan[k] # Closed
    BY <2>4
  <2> QED
    BY <1>5, <2>3, <2>5 DEF SrcInv
<1>8. EdgeType'
  BY <1>5, <1>7 DEF EdgeInv, EdgeType
<1>9. /\ \A j \in EdgeSrcs : edge'.src[j] = IF j = i THEN new ELSE edge.src[j]
      /\ edge'.wait = edge.wait /\ edge'.render = edge.render /\ edge'.n = edge.n
      /\ edge'.connected = edge.connected /\ edge'.parted = TRUE
  BY <1>7 DEF EdgeInv, EdgeType
<1>10. \A j \in EdgeSrcs : SrcInv(edge'.src[j])
  BY <1>6, <1>9 DEF EdgeInv
<1> QED
  BY <1>8, <1>9, <1>10 DEF EdgeInv

-----------------------------------------------------------------------------
\* The steps of the sink that send nothing and close nothing.
LEMMA SinkStateKeeps ==
  ASSUME EdgeInv,
         SinkStart \/ ConnectionCompleted \/ Render \/ WaitConnection \/ EdgeSendDrops
  PROVE  EdgeInv'
<1>1. CASE SinkStart
  <2>1. PICK ok \in BOOLEAN :
          edge' = [edge EXCEPT !.state = IF ok THEN "started" ELSE @, !.starts = @ + 1]
    BY <1>1 DEF SinkStart
  <2>2. EdgeType'
    <3>1. edge.starts + 1 \in Nat
      BY DEF EdgeInv, EdgeType
    <3> QED
      BY <2>1, <3>1 DEF EdgeInv, EdgeType
  <2>3. /\ edge'.src = edge.src /\ edge'.wait = edge.wait /\ edge'.render = edge.render
        /\ edge'.n = edge.n /\ edge'.connected = edge.connected
        /\ edge'.pending = edge.pending
        /\ edge'.parted = edge.parted /\ edge'.missed = edge.missed
    BY <2>1 DEF EdgeInv, EdgeType
  <2> QED
    BY <2>2, <2>3 DEF EdgeInv
<1>2. CASE ConnectionCompleted
  <2>1. edge.pending > 0 /\ edge' = [edge EXCEPT !.pending = @ - 1, !.connected = TRUE]
    BY <1>2 DEF ConnectionCompleted
  <2>2. edge.pending - 1 \in Nat
    BY <2>1 DEF EdgeInv, EdgeType
  <2>3. EdgeType'
    BY <2>1, <2>2 DEF EdgeInv, EdgeType
  <2>4. /\ edge'.src = edge.src /\ edge'.wait = edge.wait /\ edge'.render = edge.render
        /\ edge'.n = edge.n /\ edge'.connected = TRUE /\ edge'.parted = edge.parted
        /\ edge'.missed = edge.missed
    BY <2>1 DEF EdgeInv, EdgeType
  <2> QED
    BY <2>1, <2>3, <2>4 DEF EdgeInv
<1>3. CASE Render
  <2>1. edge' = [edge EXCEPT !.n = @ + 1, !.render = IF edge.wait THEN "wait" ELSE "send"]
    BY <1>3 DEF Render
  <2>2. EdgeType'
    <3>1. edge.n + 1 \in Nat
      BY DEF EdgeInv, EdgeType
    <3> QED
      BY <2>1, <3>1 DEF EdgeInv, EdgeType
  <2>3. /\ edge'.src = edge.src /\ edge'.wait = edge.wait
        /\ edge'.render = (IF edge.wait THEN "wait" ELSE "send")
        /\ edge'.n > 0 /\ edge'.connected = edge.connected
        /\ edge'.pending = edge.pending
        /\ edge'.parted = edge.parted /\ edge'.missed = edge.missed
    BY <2>1 DEF EdgeInv, EdgeType
  <2> QED
    BY <2>2, <2>3 DEF EdgeInv
<1>4. CASE WaitConnection
  BY <1>4 DEF WaitConnection, EdgeInv, EdgeType
<1>5. CASE EdgeSendDrops
  BY <1>5 DEF EdgeSendDrops, EdgeInv, EdgeType
<1> QED
  BY <1>1, <1>2, <1>3, <1>4, <1>5

\* Every connection is closed: Closed comes last on each link that was up.
LEMMA SinkStopKeeps ==
  ASSUME EdgeInv, SinkStop
  PROVE  EdgeInv'
<1> DEFINE close(s) == IF s.link # "up" THEN s
                       ELSE [s EXCEPT !.link = "none", !.chan = Append(@, Closed)]
           new(i) == close(edge.src[i])
<1>1. edge' = [edge EXCEPT
                 !.state = "null", !.render = "idle", !.pending = 0,
                 !.parted = @ \/ \E i \in EdgeSrcs : edge.src[i].link = "up",
                 !.src = [i \in EdgeSrcs |-> new(i)]]
  BY DEF SinkStop
<1>2. ASSUME NEW i \in EdgeSrcs
      PROVE  new(i) \in SrcType /\ SrcInv(new(i))
  <2> DEFINE s == edge.src[i]
  <2>1. s \in SrcType /\ SrcInv(s)
    BY DEF EdgeInv, EdgeType
  <2>2. CASE s.link # "up"
    BY <2>1, <2>2
  <2>3. CASE s.link = "up"
    <3> DEFINE r == [s EXCEPT !.link = "none", !.chan = Append(@, Closed)]
    <3>1. s.chan \in Seq(Nat) /\ Append(s.chan, Closed) \in Seq(Nat)
      BY <2>1 DEF SrcType, Closed
    <3>2. /\ r \in SrcType /\ r.link = "none" /\ r.state = s.state /\ r.out = s.out
          /\ r.sent = s.sent /\ r.queue = s.queue /\ r.chan = Append(s.chan, Closed)
      BY <2>1, <3>1 DEF SrcType
    <3>3. /\ Numbers(r.chan) = Numbers(s.chan)
          /\ \A k \in 1..(Len(r.chan) - 1) : r.chan[k] # Closed
      BY <2>1, <2>3, <3>1, <3>2, NumbersClose DEF SrcInv
    <3>4. SrcInv(r)
      BY <2>1, <2>3, <3>2, <3>3 DEF SrcInv
    <3> QED
      BY <2>3, <3>2, <3>4
  <2> QED
    BY <2>2, <2>3
<1> HIDE DEF new
<1>3. /\ \A i \in EdgeSrcs : edge'.src[i] = new(i)
      /\ edge'.wait = edge.wait /\ edge'.render = "idle" /\ edge'.pending = 0
      /\ edge'.connected = edge.connected /\ edge'.missed = edge.missed
      /\ edge'.parted = (edge.parted \/ \E i \in EdgeSrcs : edge.src[i].link = "up")
  BY <1>1 DEF EdgeInv, EdgeType
<1>4. EdgeType'
  <2>1. [i \in EdgeSrcs |-> new(i)] \in [EdgeSrcs -> SrcType]
    BY <1>2
  <2>2. (edge.parted \/ \E i \in EdgeSrcs : edge.src[i].link = "up") \in BOOLEAN
    OBVIOUS
  <2> QED
    BY <1>1, <2>1, <2>2 DEF EdgeInv, EdgeType
<1>5. \A i \in EdgeSrcs : SrcInv(edge'.src[i])
  BY <1>2, <1>3
<1>6. ~edge'.parted => ~edge.parted /\ ~edge'.connected
  BY <1>3 DEF EdgeInv
<1>7. edge'.wait /\ ~edge'.parted => edge'.missed = {}
  BY <1>3, <1>6 DEF EdgeInv
<1> QED
  <2>1. ~(edge'.pending > 0)
    BY <1>3
  <2> QED
    BY <1>3, <1>4, <1>5, <1>6, <1>7, <2>1 DEF EdgeInv

\* A buffer goes to every source that is connected. If the sink was to wait, there is
\* one, or a peer has left since.
LEMMA EdgeSendKeeps ==
  ASSUME EdgeInv, EdgeSend
  PROVE  EdgeInv'
<1> DEFINE missed == IF \E i \in EdgeSrcs : edge.src[i].link = "up" THEN edge.missed
                     ELSE edge.missed \cup {edge.n}
           send(s) == IF s.link # "up" THEN s
                      ELSE [s EXCEPT !.chan = Append(@, edge.n), !.sent = Append(@, edge.n)]
           new(i) == send(edge.src[i])
<1>1. /\ edge.render = "send"
      /\ edge' = [edge EXCEPT !.render = "idle", !.missed = missed,
                              !.src = [i \in EdgeSrcs |-> new(i)]]
  BY DEF EdgeSend
<1>2. edge.n \in Nat /\ edge.n # Closed
  BY <1>1 DEF EdgeInv, EdgeType, Closed
<1>3. ASSUME NEW i \in EdgeSrcs
      PROVE  /\ new(i) \in SrcType /\ SrcInv(new(i))
             /\ new(i).link = edge.src[i].link
  <2> DEFINE s == edge.src[i]
  <2>1. s \in SrcType /\ SrcInv(s)
    BY DEF EdgeInv, EdgeType
  <2>2. CASE s.link # "up"
    BY <2>1, <2>2
  <2>3. CASE s.link = "up"
    <3> DEFINE r == [s EXCEPT !.chan = Append(@, edge.n), !.sent = Append(@, edge.n)]
    <3>1. /\ s.chan \in Seq(Nat) /\ Append(s.chan, edge.n) \in Seq(Nat)
          /\ s.sent \in Seq(Nat) /\ Append(s.sent, edge.n) \in Seq(Nat)
          /\ s.out \in Seq(Nat) /\ s.queue \in Seq(Nat)
      BY <1>2, <2>1 DEF SrcType
    <3>2. /\ r \in SrcType /\ r.link = "up" /\ r.state = s.state /\ r.out = s.out
          /\ r.queue = s.queue
          /\ r.chan = Append(s.chan, edge.n) /\ r.sent = Append(s.sent, edge.n)
      BY ZenonT(40), <2>1, <2>3, <3>1 DEF SrcType
    <3>3. /\ Numbers(r.chan) = Append(Numbers(s.chan), edge.n)
          /\ \A k \in 1..Len(r.chan) : r.chan[k] # Closed
      <4>1. \A k \in 1..Len(s.chan) : s.chan[k] # Closed
        BY SMTT(30), <2>1, <2>3 DEF SrcInv
      <4> HIDE DEF s, r
      <4> QED
        BY ZenonT(40), <1>2, <4>1, <3>1, <3>2, NumbersAppend
    <3>4. s.out \o s.queue \o Append(Numbers(s.chan), edge.n) = Append(s.sent, edge.n)
      <4> DEFINE a == s.out \o s.queue  c == Numbers(s.chan)  n == edge.n
      <4>1. a \in Seq(Nat) /\ c \in Seq(Nat) /\ n \in Nat
        BY <1>2, <3>1, NumbersType
      <4>2. s.sent = a \o c
        BY <2>1 DEF SrcInv
      <4> HIDE DEF a, c, n
      <4>3. a \o Append(c, n) = Append(a \o c, n)
        BY <4>1
      <4> QED
        BY <4>2, <4>3 DEF a, c, n
    <3>5. s.state # "null"
      BY <2>1, <2>3 DEF SrcInv
    <3>6. SrcInv(r)
      <4>1. r.out \o r.queue \o Numbers(r.chan) = r.sent
        BY <3>2, <3>3, <3>4
      <4>2. Len(r.chan) - 1 < Len(r.chan) /\ Len(r.chan) \in Nat
        <5>1. r.chan \in Seq(Nat)
          BY <3>1, <3>2
        <5> HIDE DEF s, r
        <5> QED
          BY <5>1
      <4> HIDE DEF s, r
      <4> QED
        BY SMTT(30), <3>2, <3>3, <3>5, <4>1, <4>2 DEF SrcInv
    <3> QED
      BY <2>3, <3>2, <3>6
  <2> QED
    BY <2>2, <2>3
<1> HIDE DEF new
<1>4. missed \in SUBSET Nat
  BY <1>2 DEF EdgeInv, EdgeType
<1>5. edge.wait /\ ~edge.parted => missed = {}
  BY <1>1 DEF EdgeInv, EdgeType
<1> HIDE DEF missed
<1>6. EdgeType'
  <2>1. [i \in EdgeSrcs |-> new(i)] \in [EdgeSrcs -> SrcType]
    BY <1>3
  <2> QED
    BY <1>1, <1>4, <2>1 DEF EdgeInv, EdgeType
<1>7. /\ \A i \in EdgeSrcs : edge'.src[i] = new(i)
      /\ edge'.wait = edge.wait /\ edge'.render = "idle" /\ edge'.pending = edge.pending
      /\ edge'.connected = edge.connected /\ edge'.missed = missed
      /\ edge'.parted = edge.parted
  BY <1>1 DEF EdgeInv, EdgeType
<1>8. \A i \in EdgeSrcs : SrcInv(edge'.src[i]) /\ edge'.src[i].link = edge.src[i].link
  BY <1>3, <1>7
<1> QED
  BY <1>5, <1>6, <1>7, <1>8 DEF EdgeInv

-----------------------------------------------------------------------------
\* Every action of the sink and the sources keeps the invariant.
LEMMA EdgeStep == EdgeInv /\ EdgeNext => EdgeInv'
<1> SUFFICES ASSUME EdgeInv, EdgeNext
             PROVE  EdgeInv'
  OBVIOUS
<1>1. CASE SinkStart \/ ConnectionCompleted \/ Render \/ WaitConnection \/ EdgeSendDrops
  BY <1>1, SinkStateKeeps
<1>2. CASE SinkStop
  BY <1>2, SinkStopKeeps
<1>3. CASE EdgeSend
  BY <1>3, EdgeSendKeeps
<1>4. ASSUME NEW i \in EdgeSrcs, SrcNext(i)
      PROVE  EdgeInv'
  <2>1. CASE CreateTest(i) \/ SrcPlay(i) \/ SrcPause(i) \/ EdgeSrcStartFails(i)
    BY <2>1, SourceStateKeeps
  <2>2. CASE EdgeSrcStart(i)
    BY <2>2, EdgeSrcStartKeeps
  <2>3. CASE SrcStop(i)
    BY <2>3, SrcStopKeeps
  <2>4. CASE NewDataReceived(i)
    BY <2>4, NewDataReceivedKeeps
  <2>5. CASE ConnectionClosed(i)
    BY <2>5, ConnectionClosedKeeps
  <2>6. CASE CreatePop(i)
    BY <2>6, CreatePopKeeps
  <2> QED
    BY <1>4, <2>1, <2>2, <2>3, <2>4, <2>5, <2>6 DEF SrcNext
<1> QED
  BY <1>1, <1>2, <1>3, <1>4 DEF EdgeNext

-----------------------------------------------------------------------------
\* The sub-plugin: the samples it has of the epoch it is in, and the epochs it trained.
FwType == [run : BOOLEAN, got : Int, epoch : Nat, stop : BOOLEAN, ending : BOOLEAN]

\* The record of TensorTrainer.
TrainerRecords ==
  [train : TrainSamples, valid : ValidSamples, epochs : TrainEpochs,
   name : {"nntrainer", "other"},
   state : {"ready", "playing", "paused", "failed"}, plays : Nat,
   created : BOOLEAN, complete : BOOLEAN, epochDone : BOOLEAN, cnt : Nat, required : Nat,
   stream : {"idle", "pushed", "waitEpoch", "output", "waitTraining", "eos", "error"},
   sent : Nat, out : [n : Nat, epoch : Nat],
   dummy : {"none", "stop", "push", "count", "done"}, read : Nat,
   clean : BOOLEAN, fw : FwType]

\* Before the element has played.
Unplayed ==
  /\ trainer.state \in {"ready", "failed"} /\ trainer.stream = "idle"
  /\ trainer.dummy = "none" /\ trainer.cnt = 0 /\ ~trainer.epochDone
  /\ trainer.out.n = 0 /\ trainer.out.epoch = 0 /\ ~trainer.fw.run

\* The samples counted are those the sub-plugin has, or it has just trained them.
Counted == ~trainer.epochDone /\ trainer.fw.got = trainer.cnt
\* An epoch has been trained and the element has not taken note of it.
Trained == /\ trainer.epochDone /\ trainer.cnt = Needed /\ trainer.fw.got = 0
           /\ trainer.out.n = 2 * trainer.fw.epoch - 1

\* Where the streaming thread is tells how many epochs the sub-plugin has trained and
\* how many samples of the next it has, compared with what was counted and pushed.
Phase ==
  /\ trainer.stream = "idle" =>
       /\ Counted /\ trainer.cnt < Needed
       /\ trainer.out.n = 2 * trainer.fw.epoch + (IF trainer.cnt > 0 THEN 1 ELSE 0)
  /\ trainer.stream = "pushed" =>
       /\ trainer.cnt \in 1..Needed
       /\ \/ /\ Counted
             /\ trainer.out.n = 2 * trainer.fw.epoch + (IF trainer.cnt > 1 THEN 1 ELSE 0)
          \/ Trained
  /\ trainer.stream = "waitEpoch" =>
       \/ /\ Counted /\ trainer.cnt = Needed
          /\ trainer.out.n = 2 * trainer.fw.epoch + 1
       \/ Trained
  /\ trainer.stream = "output" =>
       /\ Counted
       /\ \/ trainer.cnt = 1 /\ trainer.out.n = 2 * trainer.fw.epoch
          \/ trainer.cnt = 0 /\ trainer.out.n = 2 * trainer.fw.epoch - 1

\* An element that plays: two buffers are pushed downstream for each epoch.
Running ==
  /\ trainer.dummy = "none" /\ Phase
  /\ trainer.out.n \in {2 * trainer.out.epoch, 2 * trainer.out.epoch + 1}

\* What StatsOfEpoch is about: an element that plays and was not paused.
FirstPlay == trainer.plays = 1 /\ trainer.state = "playing" /\ Needed > 1

\* The invariant.
TrainerInv ==
  /\ trainer \in TrainerRecords
  /\ trainer.plays = 0 => Unplayed
  /\ FirstPlay => Running

\* The element is ready and has no samples.
LEMMA TrainerInitInv == TrainerInit => TrainerInv
<1> SUFFICES ASSUME TrainerInit
             PROVE  TrainerInv
  OBVIOUS
<1> DEFINE fw == [run |-> FALSE, got |-> 0, epoch |-> 0, stop |-> FALSE, ending |-> FALSE]
           out == [n |-> 0, epoch |-> 0]
<1>1. fw \in FwType /\ out \in [n : Nat, epoch : Nat] /\ ~fw.run /\ out.n = 0 /\ out.epoch = 0
  BY DEF FwType
<1>2. trainer.fw = fw /\ trainer.out = out
  BY DEF TrainerInit
<1> HIDE DEF fw, out
<1>3. /\ trainer.train \in TrainSamples /\ trainer.valid \in ValidSamples
      /\ trainer.epochs \in TrainEpochs /\ trainer.name \in {"nntrainer", "other"}
      /\ trainer.state = "ready" /\ trainer.plays = 0 /\ trainer.created \in BOOLEAN
      /\ trainer.complete \in BOOLEAN /\ trainer.epochDone = FALSE /\ trainer.cnt = 0
      /\ trainer.required = 0 /\ trainer.stream = "idle" /\ trainer.sent = 0
      /\ trainer.dummy = "none" /\ trainer.read = 0 /\ trainer.clean \in BOOLEAN
  BY DEF TrainerInit
<1>4. trainer = [train |-> trainer.train, valid |-> trainer.valid, epochs |-> trainer.epochs,
                 name |-> trainer.name, state |-> trainer.state, plays |-> trainer.plays,
                 created |-> trainer.created, complete |-> trainer.complete,
                 epochDone |-> trainer.epochDone, cnt |-> trainer.cnt,
                 required |-> trainer.required, stream |-> trainer.stream,
                 sent |-> trainer.sent, out |-> trainer.out, dummy |-> trainer.dummy,
                 read |-> trainer.read, clean |-> trainer.clean, fw |-> trainer.fw]
  BY DEF TrainerInit
<1>5. trainer \in TrainerRecords
  BY <1>1, <1>2, <1>3, <1>4 DEF TrainerRecords
<1>6. Unplayed
  BY <1>1, <1>2, <1>3 DEF Unplayed
<1> QED
  BY <1>3, <1>5, <1>6 DEF TrainerInv, FirstPlay

\* The numbers of the record, and what is added to them.
LEMMA TrainerTypes ==
  ASSUME TrainerInv
  PROVE  /\ trainer \in TrainerRecords /\ trainer.fw \in FwType
         /\ trainer.out \in [n : Nat, epoch : Nat] /\ trainer.plays \in Nat
         /\ trainer.cnt \in Nat /\ trainer.sent \in Nat /\ trainer.read \in Nat
         /\ trainer.fw.got \in Int /\ trainer.fw.epoch \in Nat
         /\ trainer.out.n \in Nat /\ trainer.out.epoch \in Nat
         /\ trainer.plays + 1 \in Nat /\ trainer.cnt + 1 \in Nat /\ trainer.sent + 1 \in Nat
         /\ trainer.read + 1 \in Nat /\ trainer.fw.got + 1 \in Int
         /\ trainer.fw.epoch + 1 \in Nat /\ trainer.out.n + 1 \in Nat
         /\ Needed \in Nat
<1>1. /\ trainer \in TrainerRecords /\ trainer.fw \in FwType
      /\ trainer.out \in [n : Nat, epoch : Nat] /\ trainer.plays \in Nat
      /\ trainer.cnt \in Nat /\ trainer.sent \in Nat /\ trainer.read \in Nat
      /\ trainer.fw.got \in Int /\ trainer.fw.epoch \in Nat
      /\ trainer.out.n \in Nat /\ trainer.out.epoch \in Nat
  BY DEF TrainerInv, TrainerRecords, FwType
<1>2. trainer.train \in TrainSamples /\ trainer.valid \in ValidSamples
  BY <1>1 DEF TrainerRecords
<1>3. trainer.train \in Nat /\ trainer.valid \in Nat
  BY <1>2, TrainerAssumption
<1> QED
  BY <1>1, <1>3 DEF Needed

\* A step of the element that has been set to PLAYING and stays in its state.
Stays ==
  /\ trainer' \in TrainerRecords
  /\ trainer'.plays = trainer.plays /\ trainer'.state = trainer.state
  /\ trainer'.train = trainer.train /\ trainer'.valid = trainer.valid
  /\ trainer'.dummy = trainer.dummy

\* A step that does not change the state of the element has to keep Running only.
LEMMA TrainerStays ==
  ASSUME TrainerInv, Stays, ~Unplayed, Needed > 1 /\ Running => Running'
  PROVE  TrainerInv'
  BY DEF TrainerInv, FirstPlay, Needed, Stays

\* Set to PLAYING, the training starts from nothing: the counter, which is not reset, is
\* 0 the first time.
LEMMA PlayKeeps ==
  ASSUME TrainerInv, Play
  PROVE  TrainerInv'
<1>1. CASE InvalidParam
  <2>1. trainer' = [trainer EXCEPT !.state = "failed"]
    BY <1>1 DEF Play
  <2>2. trainer' \in TrainerRecords /\ trainer'.state = "failed" /\ trainer'.stream = trainer.stream
        /\ trainer'.plays = trainer.plays /\ trainer'.dummy = trainer.dummy /\ trainer'.cnt = trainer.cnt
        /\ trainer'.epochDone = trainer.epochDone /\ trainer'.out = trainer.out
        /\ trainer'.fw = trainer.fw
    BY TrainerTypes, <2>1 DEF TrainerRecords
  <2> QED
    BY <2>2 DEF TrainerInv, Unplayed, FirstPlay
<1>2. CASE ~InvalidParam
  <2> DEFINE fw == [run |-> TRUE, got |-> 0, epoch |-> 0, stop |-> FALSE, ending |-> FALSE]
  <2>1. fw \in FwType /\ fw.got = 0 /\ fw.epoch = 0
    BY DEF FwType
  <2> DEFINE c == [trainer EXCEPT !.created = TRUE]
             t == [c EXCEPT !.fw = fw]
  <2>2. trainer' = [t EXCEPT !.state = "playing", !.plays = @ + 1]
    BY <1>2 DEF Play, StartModelTraining, CreateModel
  <2> HIDE DEF fw
  <2>3. c \in TrainerRecords /\ c.plays = trainer.plays /\ c.stream = trainer.stream
        /\ c.dummy = trainer.dummy /\ c.cnt = trainer.cnt /\ c.train = trainer.train
        /\ c.valid = trainer.valid
        /\ c.epochDone = trainer.epochDone /\ c.out = trainer.out
    BY TrainerTypes DEF TrainerRecords
  <2> HIDE DEF c
  <2>4. t \in TrainerRecords /\ t.plays = trainer.plays /\ t.stream = trainer.stream
        /\ t.dummy = trainer.dummy /\ t.cnt = trainer.cnt /\ t.train = trainer.train
        /\ t.valid = trainer.valid
        /\ t.epochDone = trainer.epochDone /\ t.out = trainer.out /\ t.fw = fw
    BY <2>1, <2>3 DEF TrainerRecords
  <2> HIDE DEF t
  <2>5. trainer' \in TrainerRecords /\ trainer'.plays = trainer.plays + 1
        /\ trainer'.stream = trainer.stream
        /\ trainer'.dummy = trainer.dummy /\ trainer'.cnt = trainer.cnt
        /\ trainer'.train = trainer.train /\ trainer'.valid = trainer.valid
        /\ trainer'.epochDone = trainer.epochDone /\ trainer'.out = trainer.out
        /\ trainer'.fw = fw
    BY TrainerTypes, <2>2, <2>4 DEF TrainerRecords
  <2>6. ASSUME FirstPlay'
        PROVE  Running'
    <3>1. Unplayed
      BY TrainerTypes, <2>5, <2>6 DEF FirstPlay, TrainerInv
    <3>2. Phase'
      BY TrainerTypes, <2>1, <2>5, <2>6, <3>1 DEF Phase, Counted, Unplayed, FirstPlay, Needed
    <3> QED
      BY <2>5, <3>1, <3>2 DEF Running, Unplayed
  <2> QED
    BY TrainerTypes, <2>5, <2>6 DEF TrainerInv
<1> QED
  BY <1>1, <1>2

\* Paused, the element is none of those the property is about.
LEMMA PauseTrainingKeeps ==
  ASSUME TrainerInv, PauseTraining
  PROVE  TrainerInv'
<1>1. PICK d \in {"stop", trainer.dummy} :
        trainer' = [trainer EXCEPT !.state = "paused", !.dummy = d]
  BY DEF PauseTraining
<1>2. d \in {"none", "stop", "push", "count", "done"}
  BY TrainerTypes DEF TrainerRecords
<1>3. trainer' \in TrainerRecords /\ trainer'.state = "paused" /\ trainer'.plays = trainer.plays
  BY TrainerTypes, <1>1, <1>2 DEF TrainerRecords
<1>4. ~Unplayed
  BY DEF PauseTraining, Unplayed
<1> QED
  BY <1>3, <1>4 DEF TrainerInv, FirstPlay

\* Neither is one that is started again.
LEMMA RestartKeeps ==
  ASSUME TrainerInv, Restart
  PROVE  TrainerInv'
<1>1. trainer' = [trainer EXCEPT !.state = "ready", !.complete = FALSE, !.stream = "idle"]
  BY DEF Restart
<1>2. trainer' \in TrainerRecords /\ trainer'.state = "ready" /\ trainer'.plays = trainer.plays
  BY TrainerTypes, <1>1 DEF TrainerRecords
<1>3. ~Unplayed
  BY DEF Restart, Unplayed
<1> QED
  BY <1>2, <1>3 DEF TrainerInv, FirstPlay

\* A sample is given to the sub-plugin and counted.
LEMMA PushDataKeeps ==
  ASSUME TrainerInv, PushData
  PROVE  TrainerInv'
<1>1. CASE trainer.complete
  <2>1. trainer' = [trainer EXCEPT !.sent = @ + 1]
    BY <1>1 DEF PushData
  <2>3. /\ Stays /\ trainer'.stream = trainer.stream
      /\ trainer'.cnt = trainer.cnt
      /\ trainer'.epochDone = trainer.epochDone
      /\ trainer'.out = trainer.out
      /\ trainer'.fw = trainer.fw
    BY TrainerTypes, <2>1 DEF Stays, TrainerRecords
  <2>4. ~Unplayed
    BY <1>1 DEF PushData, Unplayed
  <2>5. Needed > 1 /\ Running => Running'
    BY <1>1, TrainerTypes, <2>3
       DEF PushData, Running, Phase, Counted, Trained, Needed, Stays
  <2> QED
    BY <2>3, <2>4, <2>5, TrainerStays
<1>2. CASE ~trainer.complete
  <2>1. trainer' = [trainer EXCEPT !.sent = @ + 1, !.fw.got = @ + 1, !.cnt = @ + 1,
                                     !.stream = "pushed"]
    BY <1>2 DEF PushData
  <2>2. /\ [trainer.fw EXCEPT !.got = @ + 1] \in FwType
        /\ [trainer.fw EXCEPT !.got = @ + 1].got = trainer.fw.got + 1
        /\ [trainer.fw EXCEPT !.got = @ + 1].epoch = trainer.fw.epoch
    BY TrainerTypes DEF FwType
  <2>3. /\ Stays /\ trainer'.stream = "pushed"
      /\ trainer'.cnt = trainer.cnt + 1
      /\ trainer'.epochDone = trainer.epochDone
      /\ trainer'.out = trainer.out
      /\ trainer'.fw = [trainer.fw EXCEPT !.got = @ + 1]
    BY TrainerTypes, <2>2, <2>1 DEF Stays, TrainerRecords
  <2>4. ~Unplayed
    BY <1>2 DEF PushData, Unplayed
  <2>5. Needed > 1 /\ Running => Running'
    BY <1>2, TrainerTypes, <2>2, <2>3
       DEF PushData, Running, Phase, Counted, Trained, Needed, Stays
  <2> QED
    BY <2>3, <2>4, <2>5, TrainerStays
<1> QED
  BY <1>1, <1>2

\* A sample that the sub-plugin does not take ends the stream.
LEMMA RefuseSampleKeeps ==
  ASSUME TrainerInv, RefuseSample
  PROVE  TrainerInv'
<1>1. trainer' = [trainer EXCEPT !.sent = @ + 1, !.stream = "error"]
  BY DEF RefuseSample
<1>3. /\ Stays /\ trainer'.stream = "error"
      /\ trainer'.cnt = trainer.cnt
      /\ trainer'.epochDone = trainer.epochDone
      /\ trainer'.out = trainer.out
      /\ trainer'.fw = trainer.fw
  BY TrainerTypes, <1>1 DEF Stays, TrainerRecords
<1>4. ~Unplayed
  BY DEF RefuseSample, Unplayed
<1>5. Needed > 1 /\ Running => Running'
  BY TrainerTypes, <1>3 DEF RefuseSample, Running, Phase, Counted, Trained, Needed, Stays
<1> QED
  BY <1>3, <1>4, <1>5, TrainerStays

\* So does one that it fails to store.
LEMMA PushFailsKeeps ==
  ASSUME TrainerInv, PushFails
  PROVE  TrainerInv'
<1>1. trainer' = [trainer EXCEPT !.sent = @ + 1, !.cnt = @ + 1, !.stream = "error"]
  BY DEF PushFails
<1>3. /\ Stays /\ trainer'.stream = "error"
      /\ trainer'.cnt = trainer.cnt + 1
      /\ trainer'.epochDone = trainer.epochDone
      /\ trainer'.out = trainer.out
      /\ trainer'.fw = trainer.fw
  BY TrainerTypes, <1>1 DEF Stays, TrainerRecords
<1>4. ~Unplayed
  BY DEF PushFails, Unplayed
<1>5. Needed > 1 /\ Running => Running'
  BY TrainerTypes, <1>3 DEF PushFails, Running, Phase, Counted, Trained, Needed, Stays
<1> QED
  BY <1>3, <1>4, <1>5, TrainerStays

\* chain looks at the counter: at the first sample and at the end of an epoch it has
\* something to push.
LEMMA EpochsIsCompleteKeeps ==
  ASSUME TrainerInv, EpochsIsComplete
  PROVE  TrainerInv'
<1>1. CASE trainer.cnt = 1
  <2>1. trainer' = [trainer EXCEPT !.stream = "output"]
    BY <1>1 DEF EpochsIsComplete
  <2>3. /\ Stays /\ trainer'.stream = "output"
      /\ trainer'.cnt = trainer.cnt
      /\ trainer'.epochDone = trainer.epochDone
      /\ trainer'.out = trainer.out
      /\ trainer'.fw = trainer.fw
    BY TrainerTypes, <2>1 DEF Stays, TrainerRecords
  <2>4. ~Unplayed
    BY <1>1 DEF EpochsIsComplete, Unplayed
  <2>5. Needed > 1 /\ Running => Running'
    BY <1>1, TrainerTypes, <2>3
       DEF EpochsIsComplete, Running, Phase, Counted, Trained, Needed, Stays
  <2> QED
    BY <2>3, <2>4, <2>5, TrainerStays
<1>2. CASE trainer.cnt # 1
  <2>1. trainer' = [trainer EXCEPT !.required = Needed,
                 !.stream = IF trainer.cnt = Needed THEN "waitEpoch" ELSE "idle"]
    BY <1>2 DEF EpochsIsComplete
  <2>3. /\ Stays /\ trainer'.stream = (IF trainer.cnt = Needed THEN "waitEpoch" ELSE "idle")
      /\ trainer'.cnt = trainer.cnt
      /\ trainer'.epochDone = trainer.epochDone
      /\ trainer'.out = trainer.out
      /\ trainer'.fw = trainer.fw
    BY TrainerTypes, <2>1 DEF Stays, TrainerRecords
  <2>4. ~Unplayed
    BY <1>2 DEF EpochsIsComplete, Unplayed
  <2>5. Needed > 1 /\ Running => Running'
    BY <1>2, TrainerTypes, <2>3
       DEF EpochsIsComplete, Running, Phase, Counted, Trained, Needed, Stays
  <2> QED
    BY <2>3, <2>4, <2>5, TrainerStays
<1> QED
  BY <1>1, <1>2

\* The wait for the end of the epoch is over: the counter starts again.
LEMMA WaitEpochKeeps ==
  ASSUME TrainerInv, WaitEpoch
  PROVE  TrainerInv'
<1>1. trainer' = [trainer EXCEPT !.epochDone = FALSE, !.cnt = 0, !.stream = "output"]
  BY DEF WaitEpoch
<1>3. /\ Stays /\ trainer'.stream = "output"
      /\ trainer'.cnt = 0
      /\ trainer'.epochDone = FALSE
      /\ trainer'.out = trainer.out
      /\ trainer'.fw = trainer.fw
  BY TrainerTypes, <1>1 DEF Stays, TrainerRecords
<1>4. ~Unplayed
  BY DEF WaitEpoch, Unplayed
<1>5. Needed > 1 /\ Running => Running'
  BY TrainerTypes, <1>3 DEF WaitEpoch, Running, Phase, Counted, Trained, Needed, Stays
<1> QED
  BY <1>3, <1>4, <1>5, TrainerStays

\* The statistics of the epochs trained so far are pushed.
LEMMA PushOutputKeeps ==
  ASSUME TrainerInv, PushOutput
  PROVE  TrainerInv'
<1>1. trainer' = [trainer EXCEPT !.out = [n |-> @.n + 1, epoch |-> trainer.fw.epoch],
                                !.stream = "idle"]
  BY DEF PushOutput
<1>3. /\ Stays /\ trainer'.stream = "idle"
      /\ trainer'.cnt = trainer.cnt
      /\ trainer'.epochDone = trainer.epochDone
      /\ trainer'.out = [n |-> trainer.out.n + 1, epoch |-> trainer.fw.epoch]
      /\ trainer'.fw = trainer.fw
  BY TrainerTypes, <1>1 DEF Stays, TrainerRecords
<1>4. ~Unplayed
  BY DEF PushOutput, Unplayed
<1>5. Needed > 1 /\ Running => Running'
  BY TrainerTypes, <1>3 DEF PushOutput, Running, Phase, Counted, Trained, Needed, Stays
<1> QED
  BY <1>3, <1>4, <1>5, TrainerStays

\* The end of the stream.
LEMMA EosEventKeeps ==
  ASSUME TrainerInv, EosEvent
  PROVE  TrainerInv'
<1>1. trainer' = [trainer EXCEPT !.stream = IF trainer.complete THEN "eos" ELSE "waitTraining"]
  BY DEF EosEvent
<1>3. /\ Stays /\ trainer'.stream = (IF trainer.complete THEN "eos" ELSE "waitTraining")
      /\ trainer'.cnt = trainer.cnt
      /\ trainer'.epochDone = trainer.epochDone
      /\ trainer'.out = trainer.out
      /\ trainer'.fw = trainer.fw
  BY TrainerTypes, <1>1 DEF Stays, TrainerRecords
<1>4. ~Unplayed
  BY DEF EosEvent, Unplayed
<1>5. Needed > 1 /\ Running => Running'
  BY TrainerTypes, <1>3 DEF EosEvent, Running, Phase, Counted, Trained, Needed, Stays
<1> QED
  BY <1>3, <1>4, <1>5, TrainerStays

\* The wait for the end of the training is over.
LEMMA WaitTrainingKeeps ==
  ASSUME TrainerInv, WaitTraining
  PROVE  TrainerInv'
<1>1. trainer' = [trainer EXCEPT !.stream = "eos"]
  BY DEF WaitTraining
<1>3. /\ Stays /\ trainer'.stream = "eos"
      /\ trainer'.cnt = trainer.cnt
      /\ trainer'.epochDone = trainer.epochDone
      /\ trainer'.out = trainer.out
      /\ trainer'.fw = trainer.fw
  BY TrainerTypes, <1>1 DEF Stays, TrainerRecords
<1>4. ~Unplayed
  BY DEF WaitTraining, Unplayed
<1>5. Needed > 1 /\ Running => Running'
  BY TrainerTypes, <1>3 DEF WaitTraining, Running, Phase, Counted, Trained, Needed, Stays
<1> QED
  BY <1>3, <1>4, <1>5, TrainerStays

\* The thread of the dummy data is there only after the element was paused.
LEMMA DummyKeeps ==
  ASSUME TrainerInv, DummyStop \/ DummyPush \/ DummyCount
  PROVE  TrainerInv'
<1>1. trainer.dummy # "none"
  BY DEF DummyStop, DummyPush, DummyCount
<1>2. ~Unplayed /\ ~FirstPlay
  BY <1>1 DEF TrainerInv, Unplayed, Running
<1>3. /\ trainer' \in TrainerRecords
      /\ trainer'.plays = trainer.plays /\ trainer'.state = trainer.state
      /\ trainer'.train = trainer.train /\ trainer'.valid = trainer.valid
  <2>1. CASE DummyStop
    <3>1. PICK b \in BOOLEAN :
            trainer' = [trainer EXCEPT !.dummy = "push", !.fw.stop = TRUE, !.clean = b]
      BY <2>1 DEF DummyStop
    <3>2. [trainer.fw EXCEPT !.stop = TRUE] \in FwType
      BY TrainerTypes DEF FwType
    <3> QED
      BY TrainerTypes, <3>1, <3>2 DEF TrainerRecords
  <2>2. CASE DummyPush
    <3>1. trainer' = [trainer EXCEPT !.dummy = "count", !.read = trainer.cnt, !.fw.got = @ + 1]
      BY <2>2 DEF DummyPush
    <3>2. [trainer.fw EXCEPT !.got = @ + 1] \in FwType
      BY TrainerTypes DEF FwType
    <3> QED
      BY TrainerTypes, <3>1, <3>2 DEF TrainerRecords
  <2>3. CASE DummyCount
    <3>1. PICK d \in {"push", "done"} :
            trainer' = [trainer EXCEPT !.cnt = trainer.read + 1, !.read = 0, !.dummy = d]
      BY <2>3 DEF DummyCount
    <3> QED
      BY TrainerTypes, <3>1 DEF TrainerRecords
  <2> QED
    BY <2>1, <2>2, <2>3
<1> QED
  BY <1>2, <1>3 DEF TrainerInv, FirstPlay, Needed

\* The sub-plugin trains an epoch when it has all its samples: the streaming thread has
\* counted the last of them and waits, or is about to.
LEMMA EpochCompletionKeeps ==
  ASSUME TrainerInv, EpochCompletion
  PROVE  TrainerInv'
<1>1. PICK b \in BOOLEAN :
        trainer' = [trainer EXCEPT !.fw.got = @ - Needed, !.fw.epoch = @ + 1,
                                   !.epochDone = TRUE, !.fw.ending = b]
  BY DEF EpochCompletion
<1> DEFINE fw == [trainer.fw EXCEPT !.got = @ - Needed, !.epoch = @ + 1, !.ending = b]
<1>2. /\ fw \in FwType /\ fw.got = trainer.fw.got - Needed
      /\ fw.epoch = trainer.fw.epoch + 1
  <2>1. trainer.fw.got - Needed \in Int
    BY TrainerTypes
  <2> QED
    BY TrainerTypes, <2>1 DEF FwType
<1>3. /\ Stays /\ trainer'.stream = trainer.stream
      /\ trainer'.cnt = trainer.cnt
      /\ trainer'.epochDone = TRUE
      /\ trainer'.out = trainer.out
      /\ trainer'.fw = fw
  BY TrainerTypes, <1>1, <1>2 DEF Stays, TrainerRecords
<1>4. ~Unplayed
  BY DEF EpochCompletion, Unplayed
<1>5. Needed > 1 /\ Running => Running'
  <2> SUFFICES ASSUME Needed > 1, Running
               PROVE  Running'
    OBVIOUS
  <2>1. trainer.fw.got >= Needed
    BY DEF EpochCompletion
  <2>2. /\ trainer.stream # "idle" /\ trainer.stream # "output"
        /\ trainer.stream \in {"pushed", "waitEpoch"} =>
             /\ trainer.cnt = Needed /\ trainer.fw.got = Needed /\ ~trainer.epochDone
             /\ trainer.out.n = 2 * trainer.fw.epoch + 1
    BY <2>1, TrainerTypes DEF Running, Phase, Counted, Trained
  <2>3. trainer.stream \in {"pushed", "waitEpoch"} => Trained'
    BY <1>2, <1>3, <2>2, TrainerTypes DEF Trained, Needed, Stays
  <2>4. Phase'
    BY <1>3, <2>2, <2>3, TrainerTypes DEF Phase, Needed, Stays
  <2> QED
    BY <1>3, <2>4 DEF Running, Stays
<1> QED
  BY <1>3, <1>4, <1>5, TrainerStays

\* The training has ended.
LEMMA TrainingCompletionKeeps ==
  ASSUME TrainerInv, TrainingCompletion
  PROVE  TrainerInv'
<1>1. trainer' = [trainer EXCEPT !.fw.run = FALSE, !.complete = TRUE]
  BY DEF TrainingCompletion
<1> DEFINE fw == [trainer.fw EXCEPT !.run = FALSE]
<1>2. fw \in FwType /\ fw.got = trainer.fw.got /\ fw.epoch = trainer.fw.epoch
  BY TrainerTypes DEF FwType
<1>3. /\ Stays /\ trainer'.stream = trainer.stream
      /\ trainer'.cnt = trainer.cnt
      /\ trainer'.epochDone = trainer.epochDone
      /\ trainer'.out = trainer.out
      /\ trainer'.fw = fw
  BY TrainerTypes, <1>1, <1>2 DEF Stays, TrainerRecords
<1>4. ~Unplayed
  BY DEF TrainingCompletion, Unplayed
<1>5. Needed > 1 /\ Running => Running'
  BY <1>2, <1>3, TrainerTypes DEF Running, Phase, Counted, Trained, Needed, Stays
<1> QED
  BY <1>3, <1>4, <1>5, TrainerStays

\* Every action of the element, its thread of dummy data and the sub-plugin keeps the
\* invariant.
LEMMA TrainerStep == TrainerInv /\ TrainerNext => TrainerInv'
<1> SUFFICES ASSUME TrainerInv, TrainerNext
             PROVE  TrainerInv'
  OBVIOUS
<1>1. CASE Play \/ PauseTraining \/ Restart
  BY <1>1, PlayKeeps, PauseTrainingKeeps, RestartKeeps
<1>2. CASE PushData \/ RefuseSample \/ PushFails \/ EpochsIsComplete
  BY <1>2, PushDataKeeps, RefuseSampleKeeps, PushFailsKeeps, EpochsIsCompleteKeeps
<1>3. CASE WaitEpoch \/ PushOutput \/ EosEvent \/ WaitTraining
  BY <1>3, WaitEpochKeeps, PushOutputKeeps, EosEventKeeps, WaitTrainingKeeps
<1>4. CASE DummyStop \/ DummyPush \/ DummyCount
  BY <1>4, DummyKeeps
<1>5. CASE EpochCompletion \/ TrainingCompletion
  BY <1>5, EpochCompletionKeeps, TrainingCompletionKeeps
<1> QED
  BY <1>1, <1>2, <1>3, <1>4, <1>5 DEF TrainerNext

\* The figures pushed last belong to the epoch.
LEMMA TrainerStats == TrainerInv /\ FirstPlay => trainer.out.epoch = trainer.out.n \div 2
<1> SUFFICES ASSUME TrainerInv, FirstPlay
             PROVE  trainer.out.epoch = trainer.out.n \div 2
  OBVIOUS
<1>1. trainer.out.n \in {2 * trainer.out.epoch, 2 * trainer.out.epoch + 1}
  BY DEF TrainerInv, Running
<1> DEFINE e == trainer.out.epoch
<1>2. e \in Nat
  BY TrainerTypes
<1> HIDE DEF e
<1>3. (2 * e) \div 2 = e /\ (2 * e + 1) \div 2 = e
  BY <1>2
<1> QED
  BY <1>1, <1>3 DEF e

-----------------------------------------------------------------------------
\* The record of mqttsink.
MqttSinkType ==
  [max : MqttMaxSizes, num : Int, others : BOOLEAN, static : BOOLEAN,
   proc : {"null", "starting", "started", "stopping", "waiting"}, starts : Nat,
   state : {"initializing", "connected", "failure", "lost", "disconnected",
            "disconnectFailed", "eos", "error", "stopped"},
   connected : BOOLEAN, lib : {"none", "connecting", "up", "broken", "down"},
   pending : BOOLEAN, render : {"idle", "test", "wait", "publish", "failed", "eos"},
   size : Nat, buf : Nat, renders : Nat, inflight : Nat, fits : BOOLEAN, stale : BOOLEAN]

\* Without a limit, here or at another element, the memory is as large as its message.
MqttMemory(s) == s.max = 0 /\ ~s.others => ~s.static /\ s.fits

\* The flag stands for a connection the handle has: a handle that is asked for one, or
\* to give it up, starts without.
MqttFlag(s) ==
  ~s.stale =>
    /\ s.connected => s.lib \in {"up", "broken"}
    /\ s.proc = "null" => ~s.connected /\ s.lib = "none"
    /\ s.proc = "starting" => s.lib # "none"
    /\ s.proc \in {"started", "stopping", "waiting"} => s.lib \notin {"connecting", "none"}
    /\ s.proc = "waiting" => ~s.connected
    /\ s.pending => ~s.connected /\ s.proc \in {"stopping", "waiting"}

\* The invariant of mqttsink.
MqttSinkInv == mqttsink \in MqttSinkType /\ MqttMemory(mqttsink) /\ MqttFlag(mqttsink)

\* Nothing has been started.
LEMMA MqttSinkInitInv == MqttSinkInit => MqttSinkInv
<1> SUFFICES ASSUME MqttSinkInit
             PROVE  MqttSinkInv
  OBVIOUS
<1>1. /\ mqttsink.max \in MqttMaxSizes /\ mqttsink.num \in Int /\ mqttsink.others \in BOOLEAN
      /\ mqttsink.static = mqttsink.others /\ mqttsink.proc = "null" /\ mqttsink.starts = 0
      /\ mqttsink.state = "initializing" /\ mqttsink.connected = FALSE
      /\ mqttsink.lib = "none" /\ mqttsink.pending = FALSE /\ mqttsink.render = "idle"
      /\ mqttsink.size = 0 /\ mqttsink.buf = 0 /\ mqttsink.renders = 0
      /\ mqttsink.inflight = 0 /\ mqttsink.fits = TRUE /\ mqttsink.stale = FALSE
  BY MqttSinkAssumption DEF MqttSinkInit
<1>2. mqttsink = [max |-> mqttsink.max, num |-> mqttsink.num, others |-> mqttsink.others,
                  static |-> mqttsink.static, proc |-> mqttsink.proc,
                  starts |-> mqttsink.starts, state |-> mqttsink.state,
                  connected |-> mqttsink.connected, lib |-> mqttsink.lib,
                  pending |-> mqttsink.pending, render |-> mqttsink.render,
                  size |-> mqttsink.size, buf |-> mqttsink.buf,
                  renders |-> mqttsink.renders, inflight |-> mqttsink.inflight,
                  fits |-> mqttsink.fits, stale |-> mqttsink.stale]
  BY DEF MqttSinkInit
<1>3. mqttsink \in MqttSinkType
  <2>1. 0 \in Nat
    OBVIOUS
  <2>2. /\ mqttsink.proc \in {"null", "starting", "started", "stopping", "waiting"}
        /\ mqttsink.state \in {"initializing", "connected", "failure", "lost",
              "disconnected", "disconnectFailed", "eos", "error", "stopped"}
        /\ mqttsink.lib \in {"none", "connecting", "up", "broken", "down"}
        /\ mqttsink.render \in {"idle", "test", "wait", "publish", "failed", "eos"}
    BY <1>1
  <2>3. /\ mqttsink.connected \in BOOLEAN /\ mqttsink.static \in BOOLEAN
        /\ mqttsink.pending \in BOOLEAN /\ mqttsink.fits \in BOOLEAN
        /\ mqttsink.stale \in BOOLEAN
    BY <1>1
  <2>4. /\ mqttsink.starts \in Nat /\ mqttsink.size \in Nat /\ mqttsink.buf \in Nat
        /\ mqttsink.renders \in Nat /\ mqttsink.inflight \in Nat
    BY <1>1, <2>1
  <2>5. mqttsink.max \in MqttMaxSizes /\ mqttsink.num \in Int /\ mqttsink.others \in BOOLEAN
    BY <1>1
  <2> QED
    BY <1>2, <2>2, <2>3, <2>4, <2>5 DEF MqttSinkType
<1> QED
  BY <1>1, <1>3 DEF MqttSinkInv, MqttMemory, MqttFlag

\* The fields that are numbers.
LEMMA MqttSinkNumbers ==
  ASSUME NEW s \in MqttSinkType
  PROVE  /\ s.max \in Nat /\ s.num \in Int /\ s.num - 1 \in Int /\ s.starts + 1 \in Nat
         /\ s.size \in Nat /\ s.buf \in Nat /\ s.renders + 1 \in Nat /\ s.inflight \in Nat
         /\ s.inflight > 0 => s.inflight - 1 \in Nat
<1>1. /\ s.max \in MqttMaxSizes /\ s.num \in Int /\ s.starts \in Nat /\ s.size \in Nat
      /\ s.buf \in Nat /\ s.renders \in Nat /\ s.inflight \in Nat
  BY DEF MqttSinkType
<1>2. s.max \in Nat
  BY <1>1, MqttSinkAssumption
<1> QED
  BY <1>1, <1>2

\* Starting, and what the library reports of the connection.
LEMMA MqttConnectionKeeps ==
  ASSUME MqttSinkInv,
         \/ SinkConnect \/ SinkStarted \/ SinkStartTimeout \/ SinkOnConnect
         \/ SinkOnConnectFailure \/ SinkBreaks \/ SinkOnConnectionLost
         \/ \E ok \in BOOLEAN : SinkOnDisconnect(ok) \/ SinkOnSend(ok)
  PROVE  MqttSinkInv'
<1> DEFINE s == mqttsink
<1>0. s \in MqttSinkType /\ MqttMemory(s) /\ MqttFlag(s)
  BY DEF MqttSinkInv
<1>1. s.starts + 1 \in Nat /\ (s.inflight > 0 => s.inflight - 1 \in Nat)
  BY <1>0, MqttSinkNumbers
<1>2. CASE SinkConnect
  BY <1>0, <1>1, <1>2 DEF SinkConnect, MqttSinkInv, MqttSinkType,
     MqttMemory, MqttFlag
<1>3. CASE SinkStarted
  BY <1>0, <1>3 DEF SinkStarted, MqttSinkInv, MqttSinkType,
     MqttMemory, MqttFlag
<1>4. CASE SinkStartTimeout
  BY <1>0, <1>4 DEF SinkStartTimeout, MqttSinkInv, MqttSinkType,
     MqttMemory, MqttFlag
<1>5. CASE SinkOnConnect
  <2> DEFINE t == mqttsink'
  <2>1. /\ t \in MqttSinkType /\ t.max = s.max /\ t.others = s.others
        /\ t.static = s.static /\ t.proc = s.proc /\ t.connected = TRUE /\ t.lib = "up"
        /\ t.pending = s.pending /\ t.fits = s.fits /\ t.stale = s.stale
    BY <1>0, <1>5 DEF SinkOnConnect, MqttSinkType
  <2>2. s.lib = "connecting"
    BY <1>5 DEF SinkOnConnect
  <2> HIDE DEF s, t
  <2>3. MqttMemory(t)
    BY <1>0, <2>1 DEF MqttMemory
  <2>4. MqttFlag(t)
    BY <1>0, <2>1, <2>2 DEF MqttFlag
  <2> QED
    BY <2>1, <2>3, <2>4 DEF MqttSinkInv, t
<1>6. CASE SinkOnConnectFailure
  BY <1>0, <1>6 DEF SinkOnConnectFailure, MqttSinkInv, MqttSinkType,
     MqttMemory, MqttFlag
<1>7. CASE SinkBreaks
  BY <1>0, <1>7 DEF SinkBreaks, MqttSinkInv, MqttSinkType,
     MqttMemory, MqttFlag
<1>8. CASE SinkOnConnectionLost
  BY <1>0, <1>8 DEF SinkOnConnectionLost, MqttSinkInv, MqttSinkType,
     MqttMemory, MqttFlag
<1>9. ASSUME NEW ok \in BOOLEAN, SinkOnDisconnect(ok)
      PROVE  MqttSinkInv'
  <2> DEFINE t == mqttsink'
  <2>1. /\ t \in MqttSinkType /\ t.max = s.max /\ t.others = s.others
        /\ t.static = s.static /\ t.proc = s.proc /\ t.connected = s.connected
        /\ t.lib = (IF ok THEN "down" ELSE s.lib) /\ t.pending = FALSE
        /\ t.fits = s.fits /\ t.stale = s.stale
    <3>1. (IF ok THEN "down" ELSE s.lib) \in {"none", "connecting", "up", "broken", "down"}
      BY <1>0 DEF MqttSinkType
    <3>2. (IF ok THEN "disconnected" ELSE "disconnectFailed")
            \in {"disconnected", "disconnectFailed"}
      OBVIOUS
    <3> DEFINE lib == IF ok THEN "down" ELSE s.lib
               state == IF ok THEN "disconnected" ELSE "disconnectFailed"
    <3>3. t = [s EXCEPT !.pending = FALSE, !.lib = lib, !.state = state]
      BY <1>9 DEF SinkOnDisconnect
    <3>4. lib = IF ok THEN "down" ELSE s.lib
      OBVIOUS
    <3> HIDE DEF lib, state
    <3> QED
      BY ZenonT(40), <1>0, <3>1, <3>2, <3>3, <3>4 DEF MqttSinkType, lib, state
  <2>2. s.pending
    BY <1>9 DEF SinkOnDisconnect
  <2> HIDE DEF s, t
  <2>3. MqttMemory(t)
    BY <1>0, <2>1 DEF MqttMemory
  <2>4. MqttFlag(t)
    BY <1>0, <2>1, <2>2 DEF MqttFlag
  <2> QED
    BY <2>1, <2>3, <2>4 DEF MqttSinkInv, t
<1>10. ASSUME NEW ok \in BOOLEAN, SinkOnSend(ok)
       PROVE  MqttSinkInv'
  <2> DEFINE t == mqttsink'
  <2>1. /\ t \in MqttSinkType /\ t.max = s.max /\ t.others = s.others
        /\ t.static = s.static /\ t.proc = s.proc /\ t.connected = s.connected
        /\ t.lib = s.lib /\ t.pending = s.pending /\ t.fits = s.fits
        /\ t.stale = s.stale
    BY <1>0, <1>10, <1>1 DEF SinkOnSend, MqttSinkType
  <2>2. s.lib # "none"
    BY <1>10 DEF SinkOnSend
  <2> HIDE DEF s, t
  <2>3. MqttMemory(t)
    BY <1>0, <2>1 DEF MqttMemory
  <2>4. MqttFlag(t)
    BY <1>0, <2>1, <2>2 DEF MqttFlag
  <2> QED
    BY <2>1, <2>3, <2>4 DEF MqttSinkInv, t
<1> QED
  BY <1>2, <1>3, <1>4, <1>5, <1>6, <1>7, <1>8, <1>9, <1>10

\* The loop of render, the end of the stream and stopping.
LEMMA MqttStoppingKeeps ==
  ASSUME MqttSinkInv,
         \/ \E n \in MqttSizes : SinkRender(n)
         \/ SinkTest \/ SinkWait \/ SinkEos \/ SinkStopping \/ SinkDisconnect
         \/ SinkStopWait \/ SinkStopNotConnected
  PROVE  MqttSinkInv'
<1> DEFINE s == mqttsink
<1>0. s \in MqttSinkType /\ MqttMemory(s) /\ MqttFlag(s)
  BY DEF MqttSinkInv
<1>1. s.renders + 1 \in Nat /\ MqttSizes \subseteq Nat
  BY <1>0, MqttSinkNumbers, MqttSinkAssumption
<1>2. ASSUME NEW n \in MqttSizes, SinkRender(n)
      PROVE  MqttSinkInv'
  BY <1>0, <1>1, <1>2 DEF SinkRender, MqttSinkInv, MqttSinkType,
     MqttMemory, MqttFlag
<1>3. CASE SinkTest
  BY <1>0, <1>3 DEF SinkTest, MqttSinkInv, MqttSinkType,
     MqttMemory, MqttFlag
<1>4. CASE SinkWait
  BY <1>0, <1>4 DEF SinkWait, MqttSinkInv, MqttSinkType,
     MqttMemory, MqttFlag
<1>5. CASE SinkEos
  BY <1>0, <1>5 DEF SinkEos, MqttSinkInv, MqttSinkType,
     MqttMemory, MqttFlag
<1>6. CASE SinkStopping
  BY ZenonT(40), <1>0, <1>6 DEF SinkStopping, MqttSinkInv, MqttSinkType,
     MqttMemory, MqttFlag
<1>7. CASE SinkDisconnect
  BY <1>0, <1>7 DEF SinkDisconnect, MqttSinkInv, MqttSinkType,
     MqttMemory, MqttFlag
<1>8. CASE SinkStopWait /\ s.state \in {"disconnected", "disconnectFailed", "eos", "error"}
  <2> DEFINE t == mqttsink'
  <2>1. /\ t \in MqttSinkType /\ t.max = s.max /\ t.others = s.others
        /\ t.static = s.static /\ t.proc = "null" /\ t.connected = s.connected
        /\ t.lib = "none" /\ t.pending = FALSE /\ t.fits = s.fits
        /\ t.stale = (s.stale \/ s.lib = "broken")
    BY ZenonT(40), <1>0, <1>8 DEF SinkStopWait, SinkStopped, MqttSinkType
  <2>2. s.proc = "waiting"
    BY <1>8 DEF SinkStopWait, SinkStopped
  <2> HIDE DEF s, t
  <2>3. MqttMemory(t)
    BY <1>0, <2>1 DEF MqttMemory
  <2>4. MqttFlag(t)
    BY <1>0, <2>1, <2>2 DEF MqttFlag
  <2> QED
    BY <2>1, <2>3, <2>4 DEF MqttSinkInv, t
<1>10. CASE SinkStopWait /\ s.state \notin {"disconnected", "disconnectFailed", "eos", "error"}
  <2> DEFINE t == mqttsink'
  <2>1. /\ t \in MqttSinkType /\ t.max = s.max /\ t.others = s.others
        /\ t.static = s.static /\ t.proc = "stopping" /\ t.connected = s.connected
        /\ t.lib = s.lib /\ t.pending = s.pending /\ t.fits = s.fits
        /\ t.stale = s.stale
    BY <1>0, <1>10 DEF SinkStopWait, MqttSinkType
  <2>2. s.proc = "waiting"
    BY <1>10 DEF SinkStopWait
  <2> HIDE DEF s, t
  <2>3. MqttMemory(t)
    BY <1>0, <2>1 DEF MqttMemory
  <2>4. MqttFlag(t)
    BY <1>0, <2>1, <2>2 DEF MqttFlag
  <2> QED
    BY <2>1, <2>3, <2>4 DEF MqttSinkInv, t
<1>9. CASE SinkStopNotConnected
  <2> DEFINE t == mqttsink'
  <2>1. /\ t \in MqttSinkType /\ t.max = s.max /\ t.others = s.others
        /\ t.static = s.static /\ t.proc = "null" /\ t.connected = s.connected
        /\ t.lib = "none" /\ t.pending = FALSE /\ t.fits = s.fits
        /\ t.stale = (s.stale \/ s.lib = "broken")
    BY ZenonT(40), <1>0, <1>9 DEF SinkStopNotConnected, SinkStopped, MqttSinkType
  <2>2. s.proc = "stopping" /\ s.lib # "up"
    BY <1>9 DEF SinkStopNotConnected, SinkStopped
  <2> HIDE DEF s, t
  <2>3. MqttMemory(t)
    BY <1>0, <2>1 DEF MqttMemory
  <2>4. MqttFlag(t)
    BY <1>0, <2>1, <2>2 DEF MqttFlag
  <2> QED
    BY <2>1, <2>3, <2>4 DEF MqttSinkInv, t
<1> QED
  BY <1>2, <1>3, <1>4, <1>5, <1>6, <1>7, <1>8, <1>9, <1>10

\* The memory for a message: it is kept only if it is large enough, or if there is a
\* limit.
LEMMA MqttBuffer ==
  ASSUME NEW s \in MqttSinkType
  PROVE  /\ SinkBuffer(s) \in MqttSinkType
         /\ SinkBuffer(s).max = s.max /\ SinkBuffer(s).others = s.others
         /\ SinkBuffer(s).fits = s.fits /\ SinkBuffer(s).size = s.size
         /\ SinkBuffer(s).stale = s.stale /\ SinkBuffer(s).connected = s.connected
         /\ SinkBuffer(s).lib = s.lib /\ SinkBuffer(s).proc = s.proc
         /\ SinkBuffer(s).pending = s.pending
         /\ s.max = 0 /\ ~s.static =>
              ~SinkBuffer(s).static /\ s.size + MqttHeader <= SinkBuffer(s).buf
<1> DEFINE buf == IF ~s.static /\ s.buf < s.size + MqttHeader THEN 0 ELSE s.buf
           new == IF s.max = 0 THEN s.size + MqttHeader ELSE s.max + MqttHeader
           static == s.static \/ s.max # 0
<1>1. /\ s.max \in Nat /\ s.size \in Nat /\ s.buf \in Nat /\ MqttHeader \in Nat \ {0}
      /\ s.static \in BOOLEAN
  BY MqttSinkNumbers, MqttSinkAssumption DEF MqttSinkType
<1>2. /\ buf \in Nat /\ new \in Nat /\ static \in BOOLEAN
      /\ s.max = 0 /\ ~s.static =>
           /\ ~static /\ s.size + MqttHeader <= new
           /\ buf # 0 => s.size + MqttHeader <= buf
  BY <1>1
<1>3. SinkBuffer(s) = IF buf # 0 THEN [s EXCEPT !.buf = buf]
                      ELSE [s EXCEPT !.buf = new, !.static = static]
  BY DEF SinkBuffer
<1> HIDE DEF buf, new, static
<1>4. CASE buf # 0
  BY <1>2, <1>3, <1>4 DEF MqttSinkType
<1>5. CASE buf = 0
  <2>1. SinkBuffer(s) = [s EXCEPT !.buf = new, !.static = static]
    BY <1>3, <1>5
  <2>2. /\ SinkBuffer(s) \in MqttSinkType
        /\ SinkBuffer(s).buf = new /\ SinkBuffer(s).static = static
        /\ SinkBuffer(s).max = s.max /\ SinkBuffer(s).others = s.others
        /\ SinkBuffer(s).fits = s.fits /\ SinkBuffer(s).size = s.size
        /\ SinkBuffer(s).stale = s.stale /\ SinkBuffer(s).connected = s.connected
        /\ SinkBuffer(s).lib = s.lib /\ SinkBuffer(s).proc = s.proc
        /\ SinkBuffer(s).pending = s.pending
    BY <1>2, <2>1 DEF MqttSinkType
  <2> QED
    BY <1>2, <2>2
<1> QED
  BY <1>4, <1>5

\* A message is written into the memory and given to the library.
LEMMA MqttPublishKeeps ==
  ASSUME MqttSinkInv, NEW ok \in BOOLEAN, SinkPublish(ok)
  PROVE  MqttSinkInv'
<1> DEFINE c == [mqttsink EXCEPT !.num = IF @ = -1 THEN @ ELSE @ - 1]
           s == SinkBuffer(c)
           t == mqttsink'
           fits == s.fits /\ s.size + MqttHeader <= s.buf
<1>0. mqttsink \in MqttSinkType /\ MqttMemory(mqttsink) /\ MqttFlag(mqttsink)
  BY DEF MqttSinkInv
<1>1. \/ t = [mqttsink EXCEPT !.render = "eos"]
      \/ t = [c EXCEPT !.render = "failed", !.buf = IF @ # 0 /\ ~mqttsink.static THEN 0 ELSE @]
      \/ t = [s EXCEPT !.fits = fits, !.inflight = IF ok THEN 1 ELSE @,
                       !.render = IF ok THEN "idle" ELSE "failed"]
  BY DEF SinkPublish
<1>2. /\ c \in MqttSinkType /\ c.max = mqttsink.max /\ c.others = mqttsink.others
      /\ c.static = mqttsink.static /\ c.fits = mqttsink.fits /\ c.stale = mqttsink.stale
      /\ c.connected = mqttsink.connected /\ c.lib = mqttsink.lib
      /\ c.proc = mqttsink.proc /\ c.pending = mqttsink.pending
  <2>1. mqttsink.num \in Int /\ mqttsink.num - 1 \in Int
    BY <1>0, MqttSinkNumbers
  <2> QED
    BY <1>0, <2>1 DEF MqttSinkType
<1> HIDE DEF c
<1>3. /\ s \in MqttSinkType /\ s.max = c.max /\ s.others = c.others /\ s.fits = c.fits
      /\ s.stale = c.stale /\ s.connected = c.connected /\ s.lib = c.lib
      /\ s.proc = c.proc /\ s.pending = c.pending /\ s.size = c.size
      /\ c.max = 0 /\ ~c.static => ~s.static /\ c.size + MqttHeader <= s.buf
  BY <1>2, MqttBuffer
<1>4. fits \in BOOLEAN /\ (c.max = 0 /\ ~c.static /\ c.fits => fits)
  BY <1>3
<1> HIDE DEF s, fits
<1>5. CASE t = [mqttsink EXCEPT !.render = "eos"]
  BY <1>0, <1>5 DEF MqttSinkInv, MqttSinkType, MqttMemory, MqttFlag
<1>6. CASE t = [c EXCEPT !.render = "failed",
                         !.buf = IF @ # 0 /\ ~mqttsink.static THEN 0 ELSE @]
  <2>1. /\ t \in MqttSinkType /\ t.max = c.max /\ t.others = c.others
        /\ t.static = c.static /\ t.fits = c.fits /\ t.stale = c.stale
        /\ t.connected = c.connected /\ t.lib = c.lib /\ t.proc = c.proc
        /\ t.pending = c.pending
    BY ZenonT(40), <1>2, <1>6 DEF MqttSinkType
  <2> HIDE DEF t
  <2>2. MqttMemory(t) /\ MqttFlag(t)
    BY <1>0, <1>2, <2>1 DEF MqttMemory, MqttFlag
  <2> QED
    BY <2>1, <2>2 DEF MqttSinkInv, t
<1>7. CASE t = [s EXCEPT !.fits = fits, !.inflight = IF ok THEN 1 ELSE @,
                         !.render = IF ok THEN "idle" ELSE "failed"]
  <2>1. /\ t \in MqttSinkType /\ t.max = s.max /\ t.others = s.others
        /\ t.static = s.static /\ t.fits = fits /\ t.stale = s.stale
        /\ t.connected = s.connected /\ t.lib = s.lib /\ t.proc = s.proc
        /\ t.pending = s.pending
    <3> DEFINE inflight == IF ok THEN 1 ELSE s.inflight
               render == IF ok THEN "idle" ELSE "failed"
    <3>1. s.inflight \in Nat
      BY <1>3, MqttSinkNumbers
    <3>2. inflight \in Nat /\ render \in {"idle", "failed"}
      BY <3>1
    <3>3. t = [s EXCEPT !.fits = fits, !.inflight = inflight, !.render = render]
      BY <1>7
    <3> HIDE DEF inflight, render
    <3>4. fits \in BOOLEAN /\ s \in MqttSinkType
      BY <1>3, <1>4
    <3>5. t \in MqttSinkType
      BY ZenonT(40), <3>2, <3>3, <3>4 DEF MqttSinkType
    <3> QED
      BY <3>3, <3>4, <3>5 DEF MqttSinkType
  <2> HIDE DEF t
  <2>2. MqttMemory(t)
    BY <1>0, <1>2, <1>3, <1>4, <2>1 DEF MqttMemory
  <2>3. MqttFlag(t)
    BY <1>0, <1>2, <1>3, <2>1 DEF MqttFlag
  <2> QED
    BY <2>1, <2>2, <2>3 DEF MqttSinkInv, t
<1> QED
  BY <1>1, <1>5, <1>6, <1>7

\* Every action of mqttsink and of its library keeps the invariant.
LEMMA MqttSinkStep == MqttSinkInv /\ MqttSinkNext => MqttSinkInv'
  BY MqttConnectionKeeps, MqttStoppingKeeps, MqttPublishKeeps DEF MqttSinkNext

-----------------------------------------------------------------------------
\* A message in the queue of mqttsrc, and a buffer as it was pushed.
MqttMessage ==
  [id : Nat, caps : MqttCaps \cup {NoCaps}, pts : Int, real : Int, base : Int]

MqttPushed ==
  [id : Nat, caps : MqttCaps \cup {NoCaps}, pts : Int, real : Int, base : Int,
   pad : MqttCaps \cup {NoCaps}]

\* The record of mqttsrc.
MqttSrcType ==
  [proc : {"null", "starting", "paused", "playing"}, plays : Nat, base : Int,
   lib : {"none", "connecting", "subscribing", "unsubscribing", "up", "down"},
   connected : BOOLEAN, subscribed : BOOLEAN, err : BOOLEAN,
   caps : MqttCaps \cup {NoCaps}, padCaps : MqttCaps \cup {NoCaps}, mixed : BOOLEAN,
   queue : Seq(MqttMessage), out : Seq(MqttPushed), arrived : SUBSET Nat, messages : Nat,
   create : {"idle", "connect", "pop", "failed"}, left : Int]

\* A time stamp stands for the publisher's moment, in the queue and outside.
MqttStamped(q, o) ==
  /\ \A i \in 1..Len(q) :
       q[i].pts # NoStamp => q[i].pts >= 0 /\ q[i].pts + q[i].base = q[i].real
  /\ \A i \in 1..Len(o) : o[i].pts >= 0 /\ o[i].pts + o[i].base = o[i].real

\* The pad has the caps of the messages in the queue, unless others came since.
MqttOwnCaps(mixed, caps, pad, q, o) ==
  /\ caps = pad
  /\ ~mixed => /\ \A i \in 1..Len(q) : q[i].caps = pad
               /\ \A i \in 1..Len(o) : o[i].caps = o[i].pad

\* Messages are numbered as they come, and leave in that order.
MqttOrder(q, o, messages) ==
  /\ \A i, j \in 1..Len(q) : i < j => q[i].id < q[j].id
  /\ \A i, j \in 1..Len(o) : i < j => o[i].id < o[j].id
  /\ \A i \in 1..Len(o), j \in 1..Len(q) : o[i].id < q[j].id
  /\ \A i \in 1..Len(q) : q[i].id < messages
  /\ \A i \in 1..Len(o) : o[i].id < messages

\* Those that count, and no others, are pushed or wait.
MqttPresent(q, o, x) ==
  \/ \E i \in 1..Len(o) : o[i].id = x
  \/ \E i \in 1..Len(q) : q[i].id = x /\ q[i].pts # NoStamp

MqttAccounted(q, o, arrived) == \A x \in Nat : x \in arrived <=> MqttPresent(q, o, x)

MqttData(s) ==
  /\ MqttStamped(s.queue, s.out)
  /\ MqttOwnCaps(s.mixed, s.caps, s.padCaps, s.queue, s.out)
  /\ MqttOrder(s.queue, s.out, s.messages)
  /\ MqttAccounted(s.queue, s.out, s.arrived)

\* The invariant of mqttsrc.
MqttSrcInv == mqttsrc \in MqttSrcType /\ MqttData(mqttsrc)

MqttSame(s, t) ==
  /\ t.caps = s.caps /\ t.padCaps = s.padCaps /\ t.mixed = s.mixed /\ t.queue = s.queue
  /\ t.out = s.out /\ t.arrived = s.arrived /\ t.messages = s.messages

\* What the steps of the connection leave as it is.
LEMMA MqttDataSame ==
  ASSUME NEW s, NEW t, MqttData(s), MqttSame(s, t)
  PROVE  MqttData(t)
  BY DEF MqttData, MqttSame

\* The fields that are sequences and numbers.
LEMMA MqttSrcFields ==
  ASSUME NEW s \in MqttSrcType
  PROVE  /\ s.queue \in Seq(MqttMessage) /\ s.out \in Seq(MqttPushed) /\ s.arrived \subseteq Nat
         /\ s.messages \in Nat /\ s.messages + 1 \in Nat /\ s.plays + 1 \in Nat
         /\ s.left \in Int /\ s.left - 1 \in Int /\ s.base \in Int
         /\ s.caps \in MqttCaps \cup {NoCaps} /\ s.padCaps \in MqttCaps \cup {NoCaps}
         /\ s.mixed \in BOOLEAN /\ s.err \in BOOLEAN
<1>1. s.messages \in Nat /\ s.plays \in Nat /\ s.left \in Int
  BY DEF MqttSrcType
<1>2. s.messages + 1 \in Nat /\ s.plays + 1 \in Nat /\ s.left - 1 \in Int
  BY <1>1
<1> QED
  BY <1>1, <1>2 DEF MqttSrcType

\* Nothing has been received.
LEMMA MqttSrcInitInv == MqttSrcInit => MqttSrcInv
<1> SUFFICES ASSUME MqttSrcInit
             PROVE  MqttSrcInv
  OBVIOUS
<1>1. mqttsrc = [proc |-> "null", plays |-> 0, base |-> NotPlayed, lib |-> "none",
                 connected |-> FALSE, subscribed |-> FALSE, err |-> FALSE,
                 caps |-> NoCaps, padCaps |-> NoCaps, mixed |-> FALSE, queue |-> << >>,
                 out |-> << >>, arrived |-> {}, messages |-> 0, create |-> "idle",
                 left |-> 0]
  BY DEF MqttSrcInit
<1>2. /\ 0 \in Nat /\ 0 \in Int /\ NotPlayed \in Int /\ {} \in SUBSET Nat
      /\ << >> \in Seq(MqttMessage) /\ << >> \in Seq(MqttPushed)
      /\ NoCaps \in MqttCaps \cup {NoCaps}
  BY DEF NotPlayed
<1>3. mqttsrc \in MqttSrcType
  BY <1>1, <1>2 DEF MqttSrcType
<1>4. /\ mqttsrc.queue = << >> /\ mqttsrc.out = << >> /\ mqttsrc.arrived = {}
      /\ mqttsrc.caps = mqttsrc.padCaps
  BY <1>1
<1>5. \A i \in 1..Len(<< >>) : FALSE
  OBVIOUS
<1>6. MqttStamped(mqttsrc.queue, mqttsrc.out)
  BY <1>4, <1>5 DEF MqttStamped
<1>7. MqttOwnCaps(mqttsrc.mixed, mqttsrc.caps, mqttsrc.padCaps, mqttsrc.queue, mqttsrc.out)
  BY <1>4, <1>5 DEF MqttOwnCaps
<1>8. MqttOrder(mqttsrc.queue, mqttsrc.out, mqttsrc.messages)
  BY <1>4, <1>5 DEF MqttOrder
<1>9. MqttAccounted(mqttsrc.queue, mqttsrc.out, mqttsrc.arrived)
  BY <1>4, <1>5 DEF MqttAccounted, MqttPresent
<1> QED
  BY <1>3, <1>6, <1>7, <1>8, <1>9 DEF MqttSrcInv, MqttData

-----------------------------------------------------------------------------
\* Connecting, subscribing and waiting leave the messages as they are.
LEMMA MqttControlKeeps ==
  ASSUME MqttSrcInv,
         \/ SrcConnect \/ SrcStarted \/ SrcStartTimeout \/ SrcToPaused \/ SrcDisconnect
         \/ \E e \in MqttEpochs : SrcToPlaying(e)
         \/ Answer \/ SrcOnConnectionLost
         \/ CreateWaits \/ CreateConnected \/ CreateTimesOut
  PROVE  MqttSrcInv'
<1> DEFINE libs == {"none", "connecting", "subscribing", "unsubscribing", "up", "down"}
           creates == {"idle", "connect", "pop", "failed"}
<1>1. SUFFICES mqttsrc' \in MqttSrcType /\ MqttSame(mqttsrc, mqttsrc')
  BY MqttDataSame DEF MqttSrcInv
<1>2. mqttsrc \in MqttSrcType /\ MqttPatience \in Int
  BY MqttSrcAssumption DEF MqttSrcInv
<1>3. /\ mqttsrc.plays + 1 \in Nat /\ mqttsrc.left - 1 \in Int /\ MqttEpochs \subseteq Int
      /\ 0 \in Int /\ mqttsrc.lib \in libs /\ mqttsrc.create \in creates
      /\ mqttsrc.err \in BOOLEAN /\ mqttsrc.subscribed \in BOOLEAN
  <2>1. /\ mqttsrc.lib \in libs /\ mqttsrc.create \in creates /\ mqttsrc.err \in BOOLEAN
        /\ mqttsrc.subscribed \in BOOLEAN
    BY <1>2 DEF MqttSrcType
  <2> QED
    BY <1>2, <2>1, MqttSrcFields, MqttSrcAssumption
<1>4. CASE SrcConnect
  BY <1>2, <1>3, <1>4 DEF SrcConnect, MqttSrcType, MqttSame
<1>5. CASE SrcStarted
  BY <1>2, <1>3, <1>5 DEF SrcStarted, MqttSrcType, MqttSame
<1>6. CASE SrcStartTimeout
  BY <1>2, <1>3, <1>6 DEF SrcStartTimeout, MqttSrcType, MqttSame
<1>7. ASSUME NEW e \in MqttEpochs, SrcToPlaying(e)
      PROVE  mqttsrc' \in MqttSrcType /\ MqttSame(mqttsrc, mqttsrc')
  <2> DEFINE lib == IF mqttsrc.connected THEN mqttsrc.lib ELSE "connecting"
             create == IF mqttsrc.create = "idle" THEN "connect" ELSE mqttsrc.create
             plays == mqttsrc.plays + 1
  <2>1. lib \in libs /\ create \in creates /\ plays \in Nat /\ e \in Int
    BY <1>3
  <2>2. mqttsrc' = [mqttsrc EXCEPT !.proc = "playing", !.plays = plays, !.base = e, !.lib = lib, !.create = create]
    BY <1>7 DEF SrcToPlaying
  <2> HIDE DEF lib, create, plays
  <2> QED
    BY <1>2, <2>1, <2>2 DEF MqttSrcType, MqttSame
<1>8. CASE SrcToPaused
  <2> DEFINE lib == IF mqttsrc.subscribed THEN "unsubscribing" ELSE mqttsrc.lib
  <2>1. lib \in libs
    BY <1>3
  <2>2. mqttsrc' = [mqttsrc EXCEPT !.proc = "paused", !.lib = lib]
    BY <1>8 DEF SrcToPaused
  <2> HIDE DEF lib
  <2> QED
    BY <1>2, <2>1, <2>2 DEF MqttSrcType, MqttSame
<1>9. CASE SrcDisconnect
  BY <1>2, <1>3, <1>9 DEF SrcDisconnect, MqttSrcType, MqttSame
<1>10. CASE SrcOnConnect
  BY <1>2, <1>3, <1>10 DEF SrcOnConnect, MqttSrcType, MqttSame
<1>11. CASE SrcOnConnectFailure
  BY <1>2, <1>3, <1>11 DEF SrcOnConnectFailure, MqttSrcType, MqttSame
<1>12. CASE SrcOnConnectionLost
  BY <1>2, <1>3, <1>12 DEF SrcOnConnectionLost, MqttSrcType, MqttSame
<1>13. CASE SrcOnSubscribe
  BY <1>2, <1>3, <1>13 DEF SrcOnSubscribe, MqttSrcType, MqttSame
<1>14. CASE SrcOnSubscribeFailure
  BY <1>2, <1>3, <1>14 DEF SrcOnSubscribeFailure, MqttSrcType, MqttSame
<1>15. ASSUME NEW ok \in BOOLEAN, SrcOnUnsubscribe(ok)
      PROVE  mqttsrc' \in MqttSrcType /\ MqttSame(mqttsrc, mqttsrc')
  <2> DEFINE subscribed == IF ok THEN FALSE ELSE mqttsrc.subscribed
             err == mqttsrc.err \/ ~ok
  <2>1. subscribed \in BOOLEAN /\ err \in BOOLEAN
    BY <1>3
  <2>2. mqttsrc' = [mqttsrc EXCEPT !.subscribed = subscribed, !.err = err, !.lib = "up"]
    BY <1>15 DEF SrcOnUnsubscribe
  <2> HIDE DEF subscribed, err
  <2> QED
    BY <1>2, <2>1, <2>2 DEF MqttSrcType, MqttSame
<1>16. CASE CreateWaits
  <2> DEFINE create == IF mqttsrc.err THEN "failed" ELSE mqttsrc.create
  <2>1. create \in creates
    BY <1>3
  <2>2. mqttsrc' = [mqttsrc EXCEPT !.create = create]
    BY <1>16 DEF CreateWaits
  <2> HIDE DEF create
  <2> QED
    BY <1>2, <2>1, <2>2 DEF MqttSrcType, MqttSame
<1>17. CASE CreateConnected
  BY <1>2, <1>3, <1>17 DEF CreateConnected, MqttSrcType, MqttSame
<1>18. CASE CreateTimesOut
  BY <1>2, <1>3, <1>18 DEF CreateTimesOut, MqttSrcType, MqttSame
<1> QED
  BY <1>4, <1>5, <1>6, <1>7, <1>8, <1>9, <1>10, <1>11, <1>12, <1>13, <1>14, <1>15, <1>16, <1>17, <1>18 DEF Answer

-----------------------------------------------------------------------------
\* The first message leaves.
LEMMA MqttTail ==
  ASSUME NEW q \in Seq(MqttMessage), q # << >>
  PROVE  /\ Tail(q) \in Seq(MqttMessage) /\ Len(Tail(q)) \in Nat /\ Len(q) \in Nat
         /\ Head(q) \in MqttMessage /\ Head(q) = q[1] /\ 1 \in 1..Len(q)
         /\ \A i \in 1..Len(Tail(q)) :
              Tail(q)[i] = q[i + 1] /\ i + 1 \in 1..Len(q) /\ 1 < i + 1 /\ i \in Nat
         /\ \A i \in 1..Len(q) : i # 1 =>
              i - 1 \in 1..Len(Tail(q)) /\ q[i] = Tail(q)[i - 1]
  OBVIOUS

\* A message comes in.
LEMMA MqttAppend ==
  ASSUME NEW q \in Seq(MqttMessage), NEW b \in MqttMessage
  PROVE  /\ Append(q, b) \in Seq(MqttMessage) /\ Len(Append(q, b)) = Len(q) + 1
         /\ Len(q) \in Nat /\ Append(q, b)[Len(q) + 1] = b
         /\ Len(q) + 1 \in 1..Len(Append(q, b))
         /\ \A i \in 1..Len(q) :
              Append(q, b)[i] = q[i] /\ i \in 1..Len(Append(q, b)) /\ i < Len(q) + 1
         /\ \A i \in 1..Len(Append(q, b)) : i \in 1..Len(q) \/ i = Len(q) + 1
  OBVIOUS

\* A buffer is pushed.
LEMMA MqttPush ==
  ASSUME NEW o \in Seq(MqttPushed), NEW b \in MqttPushed
  PROVE  /\ Append(o, b) \in Seq(MqttPushed) /\ Len(Append(o, b)) = Len(o) + 1
         /\ Len(o) \in Nat /\ Append(o, b)[Len(o) + 1] = b
         /\ Len(o) + 1 \in 1..Len(Append(o, b))
         /\ \A i \in 1..Len(o) :
              Append(o, b)[i] = o[i] /\ i \in 1..Len(Append(o, b)) /\ i < Len(o) + 1
         /\ \A i \in 1..Len(Append(o, b)) : i \in 1..Len(o) \/ i = Len(o) + 1
  OBVIOUS

\* A message without a time stamp is thrown away.
LEMMA MqttThrow ==
  ASSUME NEW q \in Seq(MqttMessage), q # << >>, NEW o \in Seq(MqttPushed), NEW m \in Nat,
         NEW arrived, NEW mixed, NEW caps, NEW pad, q[1].pts = NoStamp,
         MqttStamped(q, o), MqttOwnCaps(mixed, caps, pad, q, o), MqttOrder(q, o, m),
         MqttAccounted(q, o, arrived)
  PROVE  /\ MqttStamped(Tail(q), o) /\ MqttOwnCaps(mixed, caps, pad, Tail(q), o)
         /\ MqttOrder(Tail(q), o, m) /\ MqttAccounted(Tail(q), o, arrived)
<1> DEFINE r == Tail(q)
<1>1. /\ Len(r) \in Nat
      /\ \A i \in 1..Len(r) : r[i] = q[i + 1] /\ i + 1 \in 1..Len(q) /\ i \in Nat
      /\ \A i \in 1..Len(q) : i # 1 => i - 1 \in 1..Len(r) /\ q[i] = r[i - 1]
  BY MqttTail
<1> HIDE DEF r
<1>2. MqttStamped(r, o)
  BY <1>1 DEF MqttStamped
<1>3. MqttOwnCaps(mixed, caps, pad, r, o)
  BY <1>1 DEF MqttOwnCaps
<1>4. MqttOrder(r, o, m)
  <2>1. ASSUME NEW i \in 1..Len(r), NEW j \in 1..Len(r), i < j
        PROVE  r[i].id < r[j].id
    <3>1. /\ r[i] = q[i + 1] /\ r[j] = q[j + 1] /\ i + 1 \in 1..Len(q) /\ j + 1 \in 1..Len(q)
          /\ i + 1 < j + 1
      BY <1>1, <2>1
    <3> QED
      BY <3>1 DEF MqttOrder
  <2> QED
    BY <1>1, <2>1 DEF MqttOrder
<1>5. MqttAccounted(r, o, arrived)
  <2>1. ASSUME NEW x \in Nat
        PROVE  (\E i \in 1..Len(q) : q[i].id = x /\ q[i].pts # NoStamp)
                 <=> \E i \in 1..Len(r) : r[i].id = x /\ r[i].pts # NoStamp
    <3>1. ASSUME NEW i \in 1..Len(q), q[i].id = x, q[i].pts # NoStamp
          PROVE  \E k \in 1..Len(r) : r[k].id = x /\ r[k].pts # NoStamp
      <4>1. i - 1 \in 1..Len(r) /\ q[i] = r[i - 1]
        BY <1>1, <3>1
      <4> QED
        BY <3>1, <4>1
    <3>2. ASSUME NEW i \in 1..Len(r), r[i].id = x, r[i].pts # NoStamp
          PROVE  \E k \in 1..Len(q) : q[k].id = x /\ q[k].pts # NoStamp
      <4>1. i + 1 \in 1..Len(q) /\ r[i] = q[i + 1]
        BY <1>1
      <4> QED
        BY <3>2, <4>1
    <3> QED
      BY <3>1, <3>2
  <2> QED
    BY <2>1 DEF MqttAccounted, MqttPresent
<1> QED
  BY <1>2, <1>3, <1>4, <1>5 DEF r

\* A message with one is pushed.
LEMMA MqttTake ==
  ASSUME NEW q \in Seq(MqttMessage), q # << >>, NEW o \in Seq(MqttPushed), NEW m \in Nat,
         NEW arrived, NEW mixed, NEW caps, NEW pad \in MqttCaps \cup {NoCaps},
         q[1].pts # NoStamp,
         MqttStamped(q, o), MqttOwnCaps(mixed, caps, pad, q, o), MqttOrder(q, o, m),
         MqttAccounted(q, o, arrived)
  PROVE  LET p == Append(o, Pushed(Head(q), pad))
         IN /\ p \in Seq(MqttPushed)
            /\ MqttStamped(Tail(q), p) /\ MqttOwnCaps(mixed, caps, pad, Tail(q), p)
            /\ MqttOrder(Tail(q), p, m) /\ MqttAccounted(Tail(q), p, arrived)
<1> DEFINE r == Tail(q)  b == Pushed(Head(q), pad)  p == Append(o, b)  n == Len(o) + 1
<1>1. /\ Len(r) \in Nat /\ 1 \in 1..Len(q) /\ Head(q) = q[1] /\ q[1] \in MqttMessage
      /\ \A i \in 1..Len(r) : r[i] = q[i + 1] /\ i + 1 \in 1..Len(q) /\ i \in Nat /\ 1 < i + 1
      /\ \A i \in 1..Len(q) : i # 1 => i - 1 \in 1..Len(r) /\ q[i] = r[i - 1]
  BY MqttTail
<1>2. /\ b \in MqttPushed /\ b.id = q[1].id /\ b.caps = q[1].caps /\ b.pts = q[1].pts
      /\ b.real = q[1].real /\ b.base = q[1].base /\ b.pad = pad
  BY <1>1 DEF Pushed, MqttMessage, MqttPushed
<1> HIDE DEF b
<1>3. /\ p \in Seq(MqttPushed) /\ Len(p) = n /\ p[n] = b /\ n \in 1..Len(p)
      /\ \A i \in 1..Len(o) : p[i] = o[i] /\ i \in 1..Len(p) /\ i < n
      /\ \A i \in 1..Len(p) : i \in 1..Len(o) \/ i = n
  BY <1>2, MqttPush
<1> HIDE DEF r, p, n
<1>4. MqttStamped(r, p)
  <2>1. b.pts >= 0 /\ b.pts + b.base = b.real
    BY <1>1, <1>2 DEF MqttStamped
  <2>2. \A i \in 1..Len(r) :
          r[i].pts # NoStamp => r[i].pts >= 0 /\ r[i].pts + r[i].base = r[i].real
    BY <1>1 DEF MqttStamped
  <2>3. ASSUME NEW i \in 1..Len(p)
        PROVE  p[i].pts >= 0 /\ p[i].pts + p[i].base = p[i].real
    <3>1. CASE i = n
      BY <1>3, <2>1, <3>1
    <3>2. CASE i \in 1..Len(o)
      BY <1>3, <3>2 DEF MqttStamped
    <3> QED
      BY <1>3, <3>1, <3>2
  <2> QED
    BY <2>2, <2>3 DEF MqttStamped
<1>5. MqttOwnCaps(mixed, caps, pad, r, p)
  <2>1. ~mixed => b.caps = b.pad
    BY <1>1, <1>2 DEF MqttOwnCaps
  <2>2. ~mixed => \A i \in 1..Len(r) : r[i].caps = pad
    BY <1>1 DEF MqttOwnCaps
  <2>3. ASSUME ~mixed, NEW i \in 1..Len(p)
        PROVE  p[i].caps = p[i].pad
    <3>1. CASE i = n
      BY <1>3, <2>1, <2>3, <3>1
    <3>2. CASE i \in 1..Len(o)
      BY <1>3, <2>3, <3>2 DEF MqttOwnCaps
    <3> QED
      BY <1>3, <3>1, <3>2
  <2>4. caps = pad
    BY DEF MqttOwnCaps
  <2> QED
    BY <2>2, <2>3, <2>4 DEF MqttOwnCaps
<1>6. MqttOrder(r, p, m)
  <2>1. ASSUME NEW i \in 1..Len(r), NEW j \in 1..Len(r), i < j
        PROVE  r[i].id < r[j].id
    <3>1. /\ r[i] = q[i + 1] /\ r[j] = q[j + 1] /\ i + 1 \in 1..Len(q) /\ j + 1 \in 1..Len(q)
          /\ i + 1 < j + 1
      BY <1>1, <2>1
    <3> QED
      BY <3>1 DEF MqttOrder
  <2>2. \A i \in 1..Len(o) : o[i].id < b.id
    BY <1>1, <1>2 DEF MqttOrder
  <2>3. \A j \in 1..Len(r) : b.id < r[j].id
    <3> TAKE j \in 1..Len(r)
    <3>1. r[j] = q[j + 1] /\ j + 1 \in 1..Len(q) /\ 1 < j + 1
      BY <1>1
    <3> QED
      BY <1>1, <1>2, <3>1 DEF MqttOrder
  <2>4. b.id < m
    BY <1>1, <1>2 DEF MqttOrder
  <2>5. \A i, j \in 1..Len(p) : i < j => p[i].id < p[j].id
    <3> TAKE i, j \in 1..Len(p)
    <3>1. i \in 1..Len(o) /\ j = n => p[i].id < p[j].id
      BY <1>3, <2>2
    <3>2. i \in 1..Len(o) /\ j \in 1..Len(o) /\ i < j => p[i].id < p[j].id
      BY <1>3 DEF MqttOrder
    <3>3. i = n /\ j \in 1..Len(o) => ~(i < j)
      BY <1>3 DEF n
    <3>4. n \in Nat
      BY <1>3 DEF n
    <3> QED
      BY <1>3, <3>1, <3>2, <3>3, <3>4
  <2>6. \A i \in 1..Len(p), j \in 1..Len(r) : p[i].id < r[j].id
    <3> TAKE i \in 1..Len(p), j \in 1..Len(r)
    <3>1. i = n => p[i].id < r[j].id
      BY <1>3, <2>3
    <3>2. i \in 1..Len(o) => p[i].id < r[j].id
      BY <1>1, <1>3 DEF MqttOrder
    <3> QED
      BY <1>3, <3>1, <3>2
  <2>7. \A i \in 1..Len(r) : r[i].id < m
    BY <1>1 DEF MqttOrder
  <2>8. \A i \in 1..Len(p) : p[i].id < m
    BY <1>3, <2>4 DEF MqttOrder
  <2> QED
    BY <2>1, <2>5, <2>6, <2>7, <2>8 DEF MqttOrder
<1>7. MqttAccounted(r, p, arrived)
  <2>1. ASSUME NEW x \in Nat
        PROVE  MqttPresent(q, o, x) <=> MqttPresent(r, p, x)
    <3>1. ASSUME NEW i \in 1..Len(q), q[i].id = x, q[i].pts # NoStamp
          PROVE  MqttPresent(r, p, x)
      <4>1. CASE i = 1
        BY <1>2, <1>3, <3>1, <4>1 DEF MqttPresent
      <4>2. CASE i # 1
        <5>1. i - 1 \in 1..Len(r) /\ q[i] = r[i - 1]
          BY <1>1, <4>2
        <5> QED
          BY <3>1, <5>1 DEF MqttPresent
      <4> QED
        BY <4>1, <4>2
    <3>2. ASSUME NEW i \in 1..Len(o), o[i].id = x
          PROVE  MqttPresent(r, p, x)
      BY <1>3, <3>2 DEF MqttPresent
    <3>3. ASSUME NEW i \in 1..Len(r), r[i].id = x, r[i].pts # NoStamp
          PROVE  MqttPresent(q, o, x)
      <4>1. i + 1 \in 1..Len(q) /\ r[i] = q[i + 1]
        BY <1>1
      <4> QED
        BY <3>3, <4>1 DEF MqttPresent
    <3>4. ASSUME NEW i \in 1..Len(p), p[i].id = x
          PROVE  MqttPresent(q, o, x)
      <4>1. CASE i = n
        BY <1>1, <1>2, <1>3, <3>4, <4>1 DEF MqttPresent
      <4>2. CASE i \in 1..Len(o)
        BY <1>3, <3>4, <4>2 DEF MqttPresent
      <4> QED
        BY <1>3, <4>1, <4>2
    <3> QED
      BY <3>1, <3>2, <3>3, <3>4 DEF MqttPresent
  <2> QED
    BY <2>1 DEF MqttAccounted
<1> QED
  BY <1>3, <1>4, <1>5, <1>6, <1>7 DEF r, p, b

\* create takes the first message of the queue.
LEMMA MqttTakesKeeps ==
  ASSUME MqttSrcInv, CreateTakes
  PROVE  MqttSrcInv'
<1> DEFINE s == mqttsrc  t == mqttsrc'  b == Head(s.queue)  r == Tail(s.queue)
           p == Append(s.out, Pushed(b, s.padCaps))
<1>1. s \in MqttSrcType /\ MqttData(s) /\ s.queue # << >> /\ s.create = "pop"
  BY DEF MqttSrcInv, CreateTakes
<1>2. /\ s.queue \in Seq(MqttMessage) /\ s.out \in Seq(MqttPushed) /\ s.messages \in Nat
      /\ s.padCaps \in MqttCaps \cup {NoCaps} /\ s.caps \in MqttCaps \cup {NoCaps}
      /\ MqttPatience \in Int
  BY <1>1, MqttSrcFields, MqttSrcAssumption
<1>3. r \in Seq(MqttMessage) /\ b = s.queue[1]
  BY <1>1, <1>2, MqttTail
<1>4. CASE b.pts = NoStamp
  <2>1. t = [s EXCEPT !.queue = r, !.left = MqttPatience]
    BY <1>1, <1>4 DEF CreateTakes, MqttSrcType
  <2> HIDE DEF s, t, b, r, p
  <2>2. /\ t \in MqttSrcType /\ t.queue = r /\ t.out = s.out /\ t.caps = s.caps
        /\ t.padCaps = s.padCaps /\ t.mixed = s.mixed /\ t.arrived = s.arrived
        /\ t.messages = s.messages
    BY <1>1, <1>2, <1>3, <2>1 DEF MqttSrcType
  <2>3. MqttData(t)
    BY <1>1, <1>2, <1>3, <1>4, <2>2, MqttThrow DEF MqttData, r
  <2> QED
    BY <2>2, <2>3 DEF MqttSrcInv, t
<1>5. CASE b.pts # NoStamp
  <2>1. t = [s EXCEPT !.queue = r, !.left = MqttPatience, !.create = "connect", !.out = p]
    BY <1>1, <1>5 DEF CreateTakes, MqttSrcType
  <2> HIDE DEF s, t, b, r, p
  <2>2. /\ p \in Seq(MqttPushed)
        /\ MqttStamped(r, p) /\ MqttOwnCaps(s.mixed, s.caps, s.padCaps, r, p)
        /\ MqttOrder(r, p, s.messages) /\ MqttAccounted(r, p, s.arrived)
    BY <1>1, <1>2, <1>3, <1>5, MqttTake DEF MqttData, b, r, p
  <2>3. /\ t \in MqttSrcType /\ t.queue = r /\ t.out = p /\ t.caps = s.caps
        /\ t.padCaps = s.padCaps /\ t.mixed = s.mixed /\ t.arrived = s.arrived
        /\ t.messages = s.messages
    BY <1>1, <1>2, <1>3, <2>1, <2>2 DEF MqttSrcType
  <2>4. MqttData(t)
    BY <2>2, <2>3 DEF MqttData
  <2> QED
    BY <2>3, <2>4 DEF MqttSrcInv, t
<1> QED
  BY <1>4, <1>5

\* A message comes in, with the number it is given.
LEMMA MqttArrive ==
  ASSUME NEW s \in MqttSrcType, MqttData(s), NEW b \in MqttMessage, b.id = s.messages,
         b.pts # NoStamp => b.pts >= 0 /\ b.pts + b.base = b.real
  PROVE  LET a == Append(s.queue, b)
             all == IF b.pts = NoStamp THEN s.arrived ELSE s.arrived \cup {s.messages}
             mixed == s.mixed \/ (s.caps # b.caps /\ s.queue # << >>)
         IN /\ MqttStamped(a, s.out) /\ MqttOwnCaps(mixed, b.caps, b.caps, a, s.out)
            /\ MqttOrder(a, s.out, s.messages + 1) /\ MqttAccounted(a, s.out, all)
<1> DEFINE q == s.queue  o == s.out  m == s.messages  arrived == s.arrived
           mixed == s.mixed  old == s.caps  pad == s.padCaps  caps == b.caps
           mixed2 == mixed \/ (old # caps /\ q # << >>)
           a == Append(q, b)  n == Len(q) + 1
           all == IF b.pts = NoStamp THEN arrived ELSE arrived \cup {m}
<1>0. /\ MqttStamped(q, o) /\ MqttOwnCaps(mixed, old, pad, q, o) /\ MqttOrder(q, o, m)
      /\ MqttAccounted(q, o, arrived) /\ q \in Seq(MqttMessage) /\ o \in Seq(MqttPushed)
      /\ m \in Nat /\ b.id = m
  BY MqttSrcFields DEF MqttData
<1> HIDE DEF q, o, m, arrived, mixed, old, pad, caps
<1>1. /\ Len(a) = n /\ a[n] = b /\ n \in 1..Len(a) /\ n \in Nat /\ Len(q) \in Nat
      /\ \A i \in 1..Len(q) : a[i] = q[i] /\ i \in 1..Len(a) /\ i < n
      /\ \A i \in 1..Len(a) : i \in 1..Len(q) \/ i = n
  BY <1>0, MqttAppend
<1>2. /\ \A i \in 1..Len(q) : q[i].id \in Nat /\ q[i].id < m
      /\ \A i \in 1..Len(o) : o[i].id \in Nat /\ o[i].id < m
  <2>1. /\ \A i \in 1..Len(q) : q[i] \in MqttMessage
        /\ \A i \in 1..Len(o) : o[i] \in MqttPushed
    BY <1>0
  <2>2. (\A x \in MqttMessage : x.id \in Nat) /\ (\A x \in MqttPushed : x.id \in Nat)
    BY DEF MqttMessage, MqttPushed
  <2> QED
    BY <1>0, <2>1, <2>2 DEF MqttOrder
<1> HIDE DEF a, n, all, mixed2
<1>4. MqttStamped(a, o)
  <2>1. ASSUME NEW i \in 1..Len(a), a[i].pts # NoStamp
        PROVE  a[i].pts >= 0 /\ a[i].pts + a[i].base = a[i].real
    <3>1. CASE i = n
      BY <1>0, <1>1, <2>1, <3>1
    <3>2. CASE i \in 1..Len(q)
      BY <1>0, <1>1, <2>1, <3>2 DEF MqttStamped
    <3> QED
      BY <1>0, <1>1, <3>1, <3>2
  <2> QED
    BY <1>0, <2>1 DEF MqttStamped
<1>5. MqttOwnCaps(mixed2, caps, caps, a, o)
  <2> SUFFICES ASSUME ~mixed2
               PROVE  /\ \A i \in 1..Len(a) : a[i].caps = caps
                      /\ \A i \in 1..Len(o) : o[i].caps = o[i].pad
    BY <1>0 DEF MqttOwnCaps
  <2>1. ~mixed /\ old = pad /\ (old = caps \/ q = << >>)
    BY <1>0 DEF MqttOwnCaps, mixed2
  <2>2. \A i \in 1..Len(q) : q[i].caps = caps
    <3>1. CASE old = caps
      BY <1>0, <2>1, <3>1 DEF MqttOwnCaps
    <3>2. CASE q = << >>
      <4>1. 1..Len(q) = {}
        BY <3>2
      <4> QED
        BY <4>1
    <3> QED
      BY <1>0, <2>1, <3>1, <3>2
  <2>3. ASSUME NEW i \in 1..Len(a)
        PROVE  a[i].caps = caps
    <3>1. b.caps = caps
      BY DEF caps
    <3>2. CASE i = n
      BY <1>1, <3>1, <3>2
    <3>3. CASE i \in 1..Len(q)
      BY <1>1, <2>2, <3>3
    <3> QED
      BY <1>1, <3>2, <3>3
  <2> QED
    BY <1>0, <2>1, <2>3 DEF MqttOwnCaps
<1>6. MqttOrder(a, o, m + 1)
  <2>1. \A i, j \in 1..Len(a) : i < j => a[i].id < a[j].id
    <3> TAKE i, j \in 1..Len(a)
    <3>1. i \in 1..Len(q) /\ j = n => a[i].id < a[j].id
      BY <1>0, <1>1, <1>2
    <3>2. i \in 1..Len(q) /\ j \in 1..Len(q) /\ i < j => a[i].id < a[j].id
      BY <1>0, <1>1 DEF MqttOrder
    <3>3. i = n /\ j \in 1..Len(q) => ~(i < j)
      BY <1>0, <1>1
    <3> QED
      BY <1>0, <1>1, <3>1, <3>2, <3>3
  <2>2. \A i \in 1..Len(o), j \in 1..Len(a) : o[i].id < a[j].id
    <3> TAKE i \in 1..Len(o), j \in 1..Len(a)
    <3>1. j = n => o[i].id < a[j].id
      BY <1>0, <1>1, <1>2
    <3>2. j \in 1..Len(q) => o[i].id < a[j].id
      BY <1>0, <1>1 DEF MqttOrder
    <3> QED
      BY <1>0, <1>1, <3>1, <3>2
  <2>3. \A i \in 1..Len(a) : a[i].id < m + 1
    <3> TAKE i \in 1..Len(a)
    <3>1. i \in 1..Len(q) => a[i].id < m + 1
      BY <1>0, <1>1, <1>2
    <3> QED
      BY <1>0, <1>1, <3>1
  <2>4. \A i \in 1..Len(o) : o[i].id < m + 1
    BY <1>0, <1>2
  <2> QED
    BY <1>0, <2>1, <2>2, <2>3, <2>4 DEF MqttOrder
<1>7. MqttAccounted(a, o, all)
  <2>1. ASSUME NEW x \in Nat
        PROVE  MqttPresent(a, o, x) <=> MqttPresent(q, o, x) \/ (x = m /\ b.pts # NoStamp)
    <3>1. ASSUME NEW i \in 1..Len(q), q[i].id = x, q[i].pts # NoStamp
          PROVE  MqttPresent(a, o, x)
      BY <1>0, <1>1, <3>1 DEF MqttPresent
    <3>2. x = m /\ b.pts # NoStamp => MqttPresent(a, o, x)
      BY <1>0, <1>1 DEF MqttPresent
    <3>3. ASSUME NEW i \in 1..Len(a), a[i].id = x, a[i].pts # NoStamp
          PROVE  MqttPresent(q, o, x) \/ (x = m /\ b.pts # NoStamp)
      <4>1. CASE i = n
        BY <1>0, <1>1, <3>3, <4>1
      <4>2. CASE i \in 1..Len(q)
        BY <1>0, <1>1, <3>3, <4>2 DEF MqttPresent
      <4> QED
        BY <1>0, <1>1, <4>1, <4>2
    <3> QED
      BY <3>1, <3>2, <3>3 DEF MqttPresent
  <2>2. \A x : x \in all <=> x \in arrived \/ (x = m /\ b.pts # NoStamp)
    BY DEF all
  <2> QED
    BY <1>0, <2>1, <2>2 DEF MqttAccounted
<1> QED
  BY <1>4, <1>5, <1>6, <1>7 DEF a, all, mixed2, q, o, m, arrived, mixed, old, caps

\* The moment a time stamp stands for is kept, if the message keeps it.
LEMMA MqttStamp ==
  ASSUME NEW pts \in Int, NEW base \in Nat, NEW sent \in Nat, NEW own \in Int
  PROVE  /\ PutTimestamp(pts, base, sent, own) \in Int
         /\ PutTimestamp(pts, base, sent, own) # NoStamp =>
              /\ pts # NoStamp /\ PutTimestamp(pts, base, sent, own) >= 0
              /\ PutTimestamp(pts, base, sent, own) + own = base + pts
  BY DEF PutTimestamp, NoStamp

\* The library hands over a message.
LEMMA MqttMessageKeeps ==
  ASSUME MqttSrcInv, NEW c \in MqttCaps, NEW pts \in MqttStamps \cup {NoStamp},
         NEW base \in MqttEpochs, NEW sent \in MqttEpochs, SrcOnMessage(c, pts, base, sent)
  PROVE  MqttSrcInv'
<1> DEFINE s == mqttsrc  t == mqttsrc'
           stamp == PutTimestamp(pts, base, sent, s.base)
           b == [id |-> s.messages, caps |-> c, pts |-> stamp,
                 real |-> IF pts = NoStamp THEN NoStamp ELSE base + pts, base |-> s.base]
           arrived == IF stamp = NoStamp THEN s.arrived ELSE s.arrived \cup {s.messages}
           mixed == s.mixed \/ (s.caps # c /\ s.queue # << >>)
           a == Append(s.queue, b)
           next == s.messages + 1
<1>1. s \in MqttSrcType /\ MqttData(s)
  BY DEF MqttSrcInv
<1>2. /\ s.queue \in Seq(MqttMessage) /\ s.out \in Seq(MqttPushed) /\ s.messages \in Nat
      /\ next \in Nat /\ s.base \in Int /\ s.mixed \in BOOLEAN /\ s.arrived \subseteq Nat
  BY <1>1, MqttSrcFields
<1>3. /\ pts \in Int /\ base \in Nat /\ sent \in Nat
      /\ (IF pts = NoStamp THEN NoStamp ELSE base + pts) \in Int
  BY MqttSrcAssumption DEF NoStamp
<1>4. /\ b \in MqttMessage /\ b.id = s.messages /\ b.caps = c /\ b.pts = stamp
      /\ b.pts # NoStamp => b.pts >= 0 /\ b.pts + b.base = b.real
  <2> DEFINE own == s.base
  <2>0. own \in Int
    BY <1>2
  <2> HIDE DEF own
  <2>a. /\ PutTimestamp(pts, base, sent, own) \in Int
        /\ PutTimestamp(pts, base, sent, own) # NoStamp =>
             /\ pts # NoStamp /\ PutTimestamp(pts, base, sent, own) >= 0
             /\ PutTimestamp(pts, base, sent, own) + own = base + pts
    BY <1>3, <2>0, MqttStamp
  <2>1. stamp \in Int
    BY <2>a DEF own
  <2>2. stamp # NoStamp => pts # NoStamp /\ stamp >= 0 /\ stamp + s.base = base + pts
    BY <2>a DEF own
  <2> HIDE DEF stamp
  <2>3. b \in MqttMessage
    BY <1>2, <1>3, <2>1 DEF MqttMessage
  <2>4. /\ b.id = s.messages /\ b.caps = c /\ b.pts = stamp /\ b.base = s.base
        /\ b.real = IF pts = NoStamp THEN NoStamp ELSE base + pts
    OBVIOUS
  <2> HIDE DEF b
  <2> QED
    BY <2>2, <2>3, <2>4
<1>5. mixed \in BOOLEAN /\ arrived \in SUBSET Nat
  BY <1>2
<1>6. a \in Seq(MqttMessage)
  BY <1>2, <1>4, MqttAppend
<1>7. s.caps = s.padCaps
  BY <1>1 DEF MqttData, MqttOwnCaps
<1>8. CASE t = [s EXCEPT !.messages = next]
  <2> HIDE DEF s, t, next
  <2>1. t \in MqttSrcType
    BY <1>1, <1>2, <1>8 DEF MqttSrcType
  <2>2. /\ t.queue = s.queue /\ t.out = s.out /\ t.arrived = s.arrived /\ t.caps = s.caps
        /\ t.padCaps = s.padCaps /\ t.mixed = s.mixed /\ t.messages = s.messages + 1
    BY <1>1, <1>8 DEF MqttSrcType, next
  <2>3. MqttOrder(t.queue, t.out, t.messages)
    <3>1. /\ \A i \in 1..Len(s.queue) : s.queue[i].id \in Nat
          /\ \A i \in 1..Len(s.out) : s.out[i].id \in Nat
      <4>1. /\ \A i \in 1..Len(s.queue) : s.queue[i] \in MqttMessage
            /\ \A i \in 1..Len(s.out) : s.out[i] \in MqttPushed
        BY <1>2
      <4>2. (\A x \in MqttMessage : x.id \in Nat) /\ (\A x \in MqttPushed : x.id \in Nat)
        BY DEF MqttMessage, MqttPushed
      <4> QED
        BY <4>1, <4>2
    <3>2. MqttOrder(s.queue, s.out, s.messages)
      BY <1>1 DEF MqttData
    <3> QED
      BY <1>2, <2>2, <3>1, <3>2 DEF MqttOrder
  <2> QED
    BY <1>1, <2>1, <2>2, <2>3 DEF MqttData, MqttSrcInv, t
<1>9. CASE t = [s EXCEPT !.caps = c, !.padCaps = c, !.mixed = mixed, !.messages = next,
                         !.queue = a, !.arrived = arrived]
  <2>1. /\ MqttStamped(a, s.out) /\ MqttOwnCaps(mixed, c, c, a, s.out)
        /\ MqttOrder(a, s.out, next) /\ MqttAccounted(a, s.out, arrived)
    <3> HIDE DEF s, b, stamp
    <3>1. /\ MqttStamped(Append(s.queue, b), s.out)
          /\ MqttOwnCaps(s.mixed \/ (s.caps # b.caps /\ s.queue # << >>), b.caps, b.caps,
                         Append(s.queue, b), s.out)
          /\ MqttOrder(Append(s.queue, b), s.out, s.messages + 1)
          /\ MqttAccounted(Append(s.queue, b), s.out,
               IF b.pts = NoStamp THEN s.arrived ELSE s.arrived \cup {s.messages})
      BY <1>1, <1>4, MqttArrive
    <3> QED
      BY <1>4, <3>1
  <2>2. c \in MqttCaps \cup {NoCaps}
    OBVIOUS
  <2> HIDE DEF s, t, a, mixed, arrived, next
  <2>3. t \in MqttSrcType
    BY <1>1, <1>2, <1>5, <1>6, <1>9, <2>2 DEF MqttSrcType
  <2>4. /\ t.queue = a /\ t.out = s.out /\ t.arrived = arrived /\ t.caps = c
        /\ t.padCaps = c /\ t.mixed = mixed /\ t.messages = next
    BY <1>1, <1>9 DEF MqttSrcType
  <2> QED
    BY <2>1, <2>3, <2>4 DEF MqttData, MqttSrcInv, t
<1>10. CASE s.subscribed
  <2>1. t = [Renegotiate(s, c) EXCEPT !.messages = @ + 1, !.queue = Append(@, b),
               !.arrived = IF stamp = NoStamp THEN @ ELSE @ \cup {b.id}]
    BY <1>10 DEF SrcOnMessage
  <2>2. Renegotiate(s, c) = [s EXCEPT !.caps = c, !.padCaps = c, !.mixed = mixed]
    <3>1. CASE s.caps = c
      <4>1. s.mixed = mixed /\ s.padCaps = c
        BY <1>2, <1>7, <3>1
      <4> HIDE DEF mixed, s
      <4> QED
        BY <1>1, <3>1, <4>1 DEF Renegotiate, MqttSrcType
    <3>2. CASE s.caps # c
      BY <1>2, <3>2 DEF Renegotiate
    <3> QED
      BY <3>1, <3>2
  <2>3. t = [s EXCEPT !.caps = c, !.padCaps = c, !.mixed = mixed, !.messages = next,
                      !.queue = a, !.arrived = arrived]
    <3>1. b.id = s.messages
      BY <1>4
    <3> DEFINE r == Renegotiate(s, c)
    <3>2. /\ r.messages = s.messages /\ r.queue = s.queue /\ r.arrived = s.arrived
          /\ r = [s EXCEPT !.caps = c, !.padCaps = c, !.mixed = mixed]
      <4> HIDE DEF mixed, s
      <4> QED
        BY <1>1, <2>2 DEF MqttSrcType
    <3>3. t = [r EXCEPT !.messages = r.messages + 1, !.queue = Append(r.queue, b),
                 !.arrived = IF stamp = NoStamp THEN r.arrived ELSE r.arrived \cup {b.id}]
      BY <2>1
    <3> HIDE DEF r
    <3>4. t = [r EXCEPT !.messages = next, !.queue = a, !.arrived = arrived]
      BY <3>1, <3>2, <3>3
    <3> HIDE DEF s, t, next, a, arrived, mixed
    <3> QED
      BY <1>1, <3>2, <3>4 DEF MqttSrcType
  <2> QED
    BY <1>9, <2>3
<1> QED
  BY <1>8, <1>10 DEF SrcOnMessage

\* Every action of mqttsrc and of its library keeps the invariant.
LEMMA MqttSrcStep == MqttSrcInv /\ MqttSrcNext => MqttSrcInv'
<1> SUFFICES ASSUME MqttSrcInv, MqttSrcNext
             PROVE  MqttSrcInv'
  OBVIOUS
<1>1. CASE \E c \in MqttCaps, p \in MqttStamps \cup {NoStamp}, b, s \in MqttEpochs :
             SrcOnMessage(c, p, b, s)
  BY <1>1, MqttMessageKeeps
<1>2. CASE CreateTakes
  BY <1>2, MqttTakesKeeps
<1>3. CASE \/ SrcConnect \/ SrcStarted \/ SrcStartTimeout \/ SrcToPaused \/ SrcDisconnect
           \/ \E e \in MqttEpochs : SrcToPlaying(e)
           \/ Answer \/ SrcOnConnectionLost
           \/ CreateWaits \/ CreateConnected \/ CreateTimesOut
  BY <1>3, MqttControlKeeps
<1> QED
  BY <1>1, <1>2, <1>3 DEF MqttSrcNext, Creating

-----------------------------------------------------------------------------
\* The order of the messages that were pushed and of those that wait is one order.
LEMMA MqttInOrderHolds ==
  ASSUME MqttSrcInv
  PROVE  MqttInOrder
<1> DEFINE s == mqttsrc  q == s.queue  o == s.out  k == Len(o)  n == Len(q)
           all == o \o q  X == MqttPushed \cup MqttMessage
<1>1. /\ q \in Seq(MqttMessage) /\ o \in Seq(MqttPushed) /\ s.arrived \subseteq Nat
      /\ MqttStamped(q, o) /\ MqttOrder(q, o, s.messages) /\ MqttAccounted(q, o, s.arrived)
  BY MqttSrcFields DEF MqttSrcInv, MqttData
<1>2. /\ k \in Nat /\ n \in Nat
      /\ \A i \in 1..n : q[i].id \in Nat
      /\ \A i \in 1..k : o[i].id \in Nat
  <2>1. /\ k \in Nat /\ n \in Nat /\ \A i \in 1..n : q[i] \in MqttMessage
        /\ \A i \in 1..k : o[i] \in MqttPushed
    BY <1>1
  <2>2. (\A x \in MqttMessage : x.id \in Nat) /\ (\A x \in MqttPushed : x.id \in Nat)
    BY DEF MqttMessage, MqttPushed
  <2> QED
    BY <2>1, <2>2
<1>3. /\ Len(all) = k + n
      /\ \A i \in 1..Len(all) : (i \in 1..k /\ all[i] = o[i])
                                \/ (i - k \in 1..n /\ i > k /\ all[i] = q[i - k])
      /\ \A i \in 1..k : i \in 1..Len(all) /\ all[i] = o[i]
      /\ \A i \in 1..n : k + i \in 1..Len(all) /\ all[k + i] = q[i]
  <2>1. q \in Seq(X) /\ o \in Seq(X)
    <3> HIDE DEF q, o
    <3> QED
      BY <1>1
  <2> HIDE DEF q, o, X
  <2> QED
    BY <2>1
<1> HIDE DEF s, q, o, k, n, all
<1>4. ASSUME NEW i \in 1..Len(all), NEW j \in 1..Len(all), i < j
      PROVE  all[i].id < all[j].id
  <2>1. CASE i \in 1..k /\ j \in 1..k
    BY <1>1, <1>3, <1>4, <2>1 DEF MqttOrder, k
  <2>2. CASE i \in 1..k /\ j - k \in 1..n /\ j > k
    <3>1. all[i] = o[i] /\ all[j] = q[j - k]
      BY <1>2, <1>3, <2>2
    <3> QED
      BY <1>1, <2>2, <3>1 DEF MqttOrder, k, n
  <2>3. CASE i - k \in 1..n /\ j - k \in 1..n /\ i > k /\ j > k
    <3>1. all[i] = q[i - k] /\ all[j] = q[j - k] /\ i - k < j - k
      BY <1>2, <1>3, <1>4, <2>3
    <3> QED
      BY <1>1, <2>3, <3>1 DEF MqttOrder, n
  <2>4. ~(i > k /\ j \in 1..k)
    BY <1>2, <1>3, <1>4
  <2> QED
    BY <1>3, <2>1, <2>2, <2>3, <2>4
<1>5. ASSUME NEW x \in s.arrived
      PROVE  \E i \in 1..Len(all) : all[i].pts # NoStamp /\ all[i].id = x
  <2>1. MqttPresent(q, o, x)
    BY <1>1 DEF MqttAccounted
  <2>2. CASE \E i \in 1..k : o[i].id = x
    <3>1. PICK i \in 1..k : o[i].id = x
      BY <2>2
    <3>2. o[i].pts # NoStamp
      BY <1>1 DEF MqttStamped, NoStamp, k
    <3> QED
      BY <1>3, <3>1, <3>2
  <2>3. CASE \E i \in 1..n : q[i].id = x /\ q[i].pts # NoStamp
    BY <1>3, <2>3
  <2> QED
    BY <2>1, <2>2, <2>3 DEF MqttPresent, k, n
<1>6. ASSUME NEW i \in 1..Len(all), all[i].pts # NoStamp
      PROVE  all[i].id \in s.arrived
  <2>1. all[i].id \in Nat /\ MqttPresent(q, o, all[i].id)
    <3>1. CASE i \in 1..k /\ all[i] = o[i]
      BY <1>2, <3>1 DEF MqttPresent, k
    <3>2. CASE i - k \in 1..n /\ all[i] = q[i - k]
      <4>1. q[i - k].id \in Nat /\ q[i - k].pts # NoStamp
        BY <1>2, <1>6, <3>2
      <4> QED
        BY <3>2, <4>1 DEF MqttPresent, n
    <3> QED
      BY <1>3, <3>1, <3>2
  <2> QED
    BY <1>1, <2>1 DEF MqttAccounted
<1>7. {all[i].id : i \in {m \in 1..Len(all) : all[m].pts # NoStamp}} = s.arrived
  BY <1>5, <1>6
<1> QED
  BY <1>4, <1>7 DEF MqttInOrder, all, q, o, s

\* What the invariants mean.
LEMMA MqttHolds ==
  ASSUME mqttsink # Absent => MqttSinkInv, mqttsrc # Absent => MqttSrcInv
  PROVE  MqttCorrect
<1>1. MqttFits /\ MqttStartConnects
  BY DEF MqttFits, MqttStartConnects, MqttSinkInv, MqttMemory, MqttFlag
<1>2. MqttSameTime
  BY DEF MqttSameTime, MqttSrcInv, MqttData, MqttStamped
<1>3. MqttCapsOfBuffer
  BY DEF MqttCapsOfBuffer, MqttSrcInv, MqttData, MqttOwnCaps
<1>4. MqttInOrder
  BY MqttInOrderHolds DEF MqttInOrder
<1> QED
  BY <1>1, <1>2, <1>3, <1>4 DEF MqttCorrect

-----------------------------------------------------------------------------
\* Subscribers get what is published in order, each buffer once and without a gap,
\* and a publisher that waits for a connection sends to nobody only when one has left:
\* gst_edgesink_render, gst_edgesrc_create and their event callbacks.
THEOREM ServicesEdge == ServicesSpec => []EdgeCorrect
<1> DEFINE I == edge # Absent => EdgeInv
<1>1. ServicesInit => I
  BY EdgeInitInv DEF ServicesInit
<1>2. I /\ [ServicesNext]_vars => I'
  <2> SUFFICES ASSUME I, [ServicesNext]_vars, edge' # Absent
               PROVE  EdgeInv'
    OBVIOUS
  <2>1. CASE edge # Absent /\ EdgeNext
    BY <2>1, EdgeStep
  <2>2. CASE UNCHANGED edge
    BY <2>2 DEF EdgeInv, EdgeType
  <2> QED
    BY <2>1, <2>2 DEF ServicesNext, vars
<1>3. I => EdgeCorrect
  BY DEF EdgeInv, SrcInv, EdgeCorrect, EdgeInOrder, EdgeWaits
<1> QED
  BY <1>1, <1>2, <1>3, PTL DEF ServicesSpec

\* The figures gst_tensor_trainer_chain pushes downstream belong to their epoch, for an
\* element that is not paused: however the sub-plugin's thread and the streaming thread
\* interleave, neither is an epoch ahead.
THEOREM ServicesTrainer == ServicesSpec => []StatsOfEpoch
<1> DEFINE I == trainer # Absent => TrainerInv
<1>1. ServicesInit => I
  BY TrainerInitInv DEF ServicesInit
<1>2. I /\ [ServicesNext]_vars => I'
  <2> SUFFICES ASSUME I, [ServicesNext]_vars, trainer' # Absent
               PROVE  TrainerInv'
    OBVIOUS
  <2>1. CASE trainer # Absent /\ TrainerNext
    BY <2>1, TrainerStep
  <2>2. CASE UNCHANGED trainer
    BY <2>2 DEF TrainerInv, TrainerRecords, Unplayed, FirstPlay, Running, Phase, Counted,
       Trained, Needed
  <2> QED
    BY <2>1, <2>2 DEF ServicesNext, vars
<1>3. I => StatsOfEpoch
  BY TrainerStats DEF StatsOfEpoch, FirstPlay
<1> QED
  BY <1>1, <1>2, <1>3, PTL DEF ServicesSpec

\* Over connections that fail, break and come back: the message of gst_mqtt_sink_render
\* fits its memory, a started mqttsink has had its connection, and mqttsrc pushes what
\* comes in order, under its own caps and for the moment it was published for.
THEOREM ServicesMqtt == ServicesSpec => []MqttCorrect
<1> DEFINE SinkKept == mqttsink # Absent => MqttSinkInv
           SrcKept == mqttsrc # Absent => MqttSrcInv
           I == SinkKept /\ SrcKept
<1>1. ServicesInit => I
  BY MqttSinkInitInv, MqttSrcInitInv DEF ServicesInit
<1>2. I /\ [ServicesNext]_vars => I'
  <2>1. SinkKept /\ [ServicesNext]_vars => SinkKept'
    <3> SUFFICES ASSUME SinkKept, [ServicesNext]_vars, mqttsink' # Absent
                 PROVE  MqttSinkInv'
      OBVIOUS
    <3>1. CASE mqttsink # Absent /\ MqttSinkNext
      BY <3>1, MqttSinkStep
    <3>2. CASE UNCHANGED mqttsink
      BY <3>2 DEF MqttSinkInv, MqttSinkType
    <3> QED
      BY <3>1, <3>2 DEF ServicesNext, vars
  <2>2. SrcKept /\ [ServicesNext]_vars => SrcKept'
    <3> SUFFICES ASSUME SrcKept, [ServicesNext]_vars, mqttsrc' # Absent
                 PROVE  MqttSrcInv'
      OBVIOUS
    <3>1. CASE mqttsrc # Absent /\ MqttSrcNext
      BY <3>1, MqttSrcStep
    <3>2. CASE UNCHANGED mqttsrc
      BY <3>2 DEF MqttSrcInv, MqttSrcType
    <3> QED
      BY <3>1, <3>2 DEF ServicesNext, vars
  <2> QED
    BY <2>1, <2>2
<1>3. I => MqttCorrect
  BY MqttHolds
<1> QED
  BY <1>1, <1>2, <1>3, PTL DEF ServicesSpec

-----------------------------------------------------------------------------
(* tensor_sink_grpc and tensor_src_grpc *)

\* An element: its start and stop, and where its worker is.
EndType ==
  [started : BOOLEAN, stop : BOOLEAN, flushing : BOOLEAN,
   stopping : {"no", "waiting", "drained", "joining", "done"},
   worker : {"none", "calling", "run", "loop", "closing", "ended"}]

\* A buffer of the source.
ItemType == [frame : Nat, pts : Nat]

\* The record of GrpcStream.
GrpcType ==
  [mode : GrpcModes, sink : EndType, src : EndType, configured : BOOLEAN, queue : Seq(Nat),
   call : {"none", "open", "refused", "half", "over"}, net : Seq(Nat), held : Nat,
   out : Nat, items : Seq(ItemType), eos : BOOLEAN, sent : Nat, got : Seq(ItemType),
   late : SUBSET Nat, lost : SUBSET Nat]

\* What the source has taken: handed on, or in its queue.
Taken(s) == s.got \o s.items

\* Numbers that grow.
Increasing(q) == \A i, j \in 1..Len(q) : i < j => q[i] < q[j]

\* The frames on their way grow from the one read last to the one rendered last.
WayOrder(s) ==
  /\ s.held <= s.sent
  /\ Increasing(s.net) /\ Increasing(s.queue)
  /\ \A i \in 1..Len(s.net) : s.held < s.net[i] /\ s.net[i] <= s.sent
  /\ \A j \in 1..Len(s.queue) : s.held < s.queue[j] /\ s.queue[j] <= s.sent
  /\ \A i \in 1..Len(s.net), j \in 1..Len(s.queue) : s.net[i] < s.queue[j]

\* Those taken grow, too, up to the one read last, which may be there twice.
TakenOrder(s) ==
  /\ \A i \in 1..Len(Taken(s)) : Taken(s)[i].frame <= s.held
  /\ \A i, j \in 1..Len(Taken(s)) : i < j =>
       \/ Taken(s)[i].frame < Taken(s)[j].frame
       \/ /\ Taken(s)[i].frame = Taken(s)[j].frame /\ j = Len(Taken(s))
          /\ ~s.mode.srcBlocks /\ s.src.worker = "ended"

\* A buffer that was rendered is on its way, taken or known to be lost.
Present(s, x) ==
  \/ x \in s.lost
  \/ \E i \in 1..Len(s.queue) : s.queue[i] = x
  \/ \E i \in 1..Len(s.net) : s.net[i] = x
  \/ \E i \in 1..Len(Taken(s)) : Taken(s)[i].frame = x

\* None is forgotten and none invented.
Accounted(s) ==
  /\ s.lost \subseteq 0..s.sent
  /\ \A x \in 1..s.sent : Present(s, x)

\* Time stamps count what was taken, until the source stops.
Stamped(s) ==
  ~s.mode.still =>
    /\ \A i \in 1..Len(Taken(s)) : Taken(s)[i].pts = i - 1
    /\ s.src.stopping # "done" => s.out = Len(Taken(s)) /\ ~s.eos
    /\ s.eos => s.items = << >>

\* What GrpcLossless needs: nothing has been lost but what was rendered late, or the
\* first buffer was lost because the source had no caps then.
Lossless(s) ==
  /\ s.mode.sinkBlocks /\ s.mode.srcBlocks /\ ~s.mode.flat /\ ~s.mode.still
  /\ s.call # "refused" /\ s.src.stopping # "done"
  => \/ s.lost \subseteq s.late
     \/ s.held >= 1 /\ \A i \in 1..Len(Taken(s)) : Taken(s)[i].frame # 1

\* An element that was not started.
Fresh(e) == ~e.started /\ e.stopping = "no"

\* Where the two workers, the two stopping threads and the call can be at one time.
Control(s) ==
  /\ s.src.started => s.src.stopping # "done"
  /\ s.src.flushing => s.src.stopping = "done"
  /\ s.src.worker \in {"run", "calling"} => s.src.started
  /\ s.sink.worker = "calling" => s.sink.started
  /\ s.mode.server = "sink" /\ Fresh(s.src) => s.call = "none"
  /\ s.mode.server = "src" /\ Fresh(s.sink) => s.call = "none"
  /\ s.sink.worker = "loop" => ~s.mode.sinkBlocks
  /\ s.src.worker = "ended" => ~Fresh(s.src)
  /\ s.src.worker = "calling" => s.mode.server = "sink"
  /\ s.sink.worker = "calling" => s.mode.server = "src"
  /\ s.src.worker = "calling" \/ s.sink.worker = "calling" => s.call = "none"
  /\ s.call = "none" => /\ s.sink.worker \in {"none", "calling"}
                        /\ s.src.worker \in {"none", "calling"}
  /\ s.mode.sinkBlocks /\ s.sink.worker = "run" => s.call \in {"open", "refused"}
  /\ s.sink.worker = "closing" => s.call \in {"half", "over"}
  /\ s.sink.stopping # "no" => s.sink.stop
  /\ s.sink.stopping \in {"drained", "joining", "done"} =>
       \A i \in 1..Len(s.queue) : s.queue[i] \in s.late
  /\ s.sink.flushing => s.sink.stopping \in {"joining", "done"}
  /\ ~s.configured => Taken(s) = << >>

\* What holds of the buffers.
DataInv(s) ==
  WayOrder(s) /\ TakenOrder(s) /\ Accounted(s) /\ Stamped(s) /\ Lossless(s)

\* The invariant.
GrpcInv == grpc \in GrpcType /\ Control(grpc) /\ DataInv(grpc)

-----------------------------------------------------------------------------
\* The modes of the elements.
LEMMA GrpcModeType ==
  ASSUME NEW m \in GrpcModes
  PROVE  /\ m.server \in {"sink", "src"} /\ m.sinkBlocks \in BOOLEAN
         /\ m.srcBlocks \in BOOLEAN /\ m.flat \in BOOLEAN /\ m.still \in BOOLEAN
  BY GrpcAssumption

\* The fields of the record.
LEMMA GrpcTypes ==
  ASSUME NEW s \in GrpcType
  PROVE  /\ s.mode \in GrpcModes /\ s.mode.server \in {"sink", "src"}
         /\ s.mode.sinkBlocks \in BOOLEAN /\ s.mode.srcBlocks \in BOOLEAN
         /\ s.mode.flat \in BOOLEAN /\ s.mode.still \in BOOLEAN
         /\ s.sink \in EndType /\ s.src \in EndType /\ s.configured \in BOOLEAN
         /\ s.queue \in Seq(Nat) /\ s.net \in Seq(Nat) /\ s.held \in Nat /\ s.out \in Nat
         /\ s.items \in Seq(ItemType) /\ s.eos \in BOOLEAN /\ s.sent \in Nat
         /\ s.got \in Seq(ItemType) /\ s.late \in SUBSET Nat /\ s.lost \in SUBSET Nat
  BY GrpcModeType DEF GrpcType

\* What was handed on and what is queued, one after the other.
LEMMA TakenFacts ==
  ASSUME NEW s \in GrpcType
  PROVE  /\ Taken(s) \in Seq(ItemType) /\ Len(Taken(s)) = Len(s.got) + Len(s.items)
         /\ Len(Taken(s)) \in Nat
         /\ Len(s.got) \in Nat /\ Len(s.items) \in Nat
         /\ \A i \in 1..Len(s.got) : Taken(s)[i] = s.got[i]
         /\ \A i \in 1..Len(s.items) : Taken(s)[Len(s.got) + i] = s.items[i]
         /\ \A i \in 1..Len(Taken(s)) : Taken(s)[i].frame \in Nat /\ Taken(s)[i].pts \in Nat
<1> DEFINE g == s.got  r == s.items  a == g \o r
<1>1. g \in Seq(ItemType) /\ r \in Seq(ItemType)
  BY GrpcTypes
<1> HIDE DEF g, r
<1>2. /\ a \in Seq(ItemType) /\ Len(a) = Len(g) + Len(r) /\ Len(a) \in Nat
      /\ Len(g) \in Nat /\ Len(r) \in Nat
      /\ \A i \in 1..Len(g) : a[i] = g[i]
      /\ \A i \in 1..Len(r) : a[Len(g) + i] = r[i]
  BY <1>1
<1>3. \A i \in 1..Len(a) : a[i] \in ItemType
  BY <1>2
<1> QED
  BY <1>2, <1>3 DEF Taken, g, r, ItemType

\* A step that moves no buffer.
SameData(s, t) ==
  /\ t.mode = s.mode /\ t.queue = s.queue /\ t.net = s.net /\ t.held = s.held
  /\ t.out = s.out /\ t.items = s.items /\ t.eos = s.eos /\ t.sent = s.sent
  /\ t.got = s.got /\ t.late = s.late /\ t.lost = s.lost

\* Such a step keeps what holds of the buffers.
LEMMA DataSame ==
  ASSUME NEW s, NEW t, DataInv(s), SameData(s, t),
         s.src.worker = "ended" => t.src.worker = "ended",
         t.src.stopping # "done" => s.src.stopping # "done",
         t.call # "refused" => s.call # "refused"
  PROVE  DataInv(t)
<1>1. Taken(t) = Taken(s)
  BY DEF SameData, Taken
<1>2. WayOrder(t)
  BY DEF SameData, DataInv, WayOrder
<1>3. TakenOrder(t)
  BY <1>1 DEF SameData, DataInv, TakenOrder
<1>4. Accounted(t)
  <2>1. \A x : Present(s, x) => Present(t, x)
    BY <1>1 DEF SameData, Present
  <2> QED
    BY <2>1 DEF SameData, DataInv, Accounted
<1>5. Stamped(t)
  BY <1>1 DEF SameData, DataInv, Stamped
<1>6. Lossless(t)
  BY <1>1 DEF SameData, DataInv, Lossless
<1> QED
  BY <1>2, <1>3, <1>4, <1>5, <1>6 DEF DataInv

\* The source learns its caps.
LEMMA GrpcSetCapsKeeps ==
  ASSUME GrpcInv, GrpcSetCaps
  PROVE  GrpcInv'
<1>1. grpc' = [grpc EXCEPT !.configured = TRUE]
  BY DEF GrpcSetCaps
<1>3. /\ grpc' \in GrpcType /\ SameData(grpc, grpc') /\ grpc'.sink = grpc.sink
      /\ grpc'.src = grpc.src /\ grpc'.call = grpc.call /\ grpc'.configured = TRUE
  BY <1>1, GrpcTypes DEF GrpcInv, GrpcType, SameData
<1>4. /\ grpc'.sink.started = grpc.sink.started /\ grpc'.sink.stop = grpc.sink.stop
      /\ grpc'.sink.flushing = grpc.sink.flushing
      /\ grpc'.sink.stopping = grpc.sink.stopping
      /\ grpc'.sink.worker = grpc.sink.worker /\ grpc'.src.started = grpc.src.started
      /\ grpc'.src.stop = grpc.src.stop /\ grpc'.src.flushing = grpc.src.flushing
      /\ grpc'.src.stopping = grpc.src.stopping /\ grpc'.src.worker = grpc.src.worker
      /\ grpc'.call = grpc.call /\ grpc'.configured = TRUE /\ grpc'.mode = grpc.mode
      /\ grpc'.queue = grpc.queue /\ grpc'.late = grpc.late
  BY <1>3, GrpcTypes DEF GrpcInv, EndType, SameData
<1>5. Taken(grpc') = Taken(grpc)
  BY <1>3 DEF SameData, Taken
<1>6. Control(grpc')
  BY <1>4, <1>5 DEF GrpcInv, Control, GrpcSetCaps, Fresh
<1>7. /\ grpc.src.worker = "ended" => grpc'.src.worker = "ended"
      /\ grpc'.src.stopping # "done" => grpc.src.stopping # "done"
      /\ grpc'.call # "refused" => grpc.call # "refused"
  BY <1>4 DEF GrpcInv, Control, GrpcSetCaps, Fresh
<1> QED
  BY <1>3, <1>6, <1>7, DataSame DEF GrpcInv

\* The loop of the sink's worker looks at stop_.
LEMMA GrpcSinkLoopKeeps ==
  ASSUME GrpcInv, GrpcSinkLoop
  PROVE  GrpcInv'
<1>1. grpc' = [grpc EXCEPT !.sink.worker = (IF grpc.sink.stop THEN "ended" ELSE "run")]
  BY DEF GrpcSinkLoop
<1>2. /\ [grpc.sink EXCEPT !.worker = (IF grpc.sink.stop THEN "ended" ELSE "run")] \in EndType
  BY GrpcTypes DEF GrpcInv, EndType
<1>3. /\ grpc' \in GrpcType /\ SameData(grpc, grpc')
      /\ grpc'.sink = [grpc.sink EXCEPT !.worker = (IF grpc.sink.stop THEN "ended" ELSE "run")]
      /\ grpc'.src = grpc.src /\ grpc'.call = grpc.call
      /\ grpc'.configured = grpc.configured
  BY <1>1, <1>2, GrpcTypes DEF GrpcInv, GrpcType, SameData
<1>4. /\ grpc'.sink.started = grpc.sink.started /\ grpc'.sink.stop = grpc.sink.stop
      /\ grpc'.sink.flushing = grpc.sink.flushing
      /\ grpc'.sink.stopping = grpc.sink.stopping
      /\ grpc'.sink.worker = (IF grpc.sink.stop THEN "ended" ELSE "run")
      /\ grpc'.src.started = grpc.src.started /\ grpc'.src.stop = grpc.src.stop
      /\ grpc'.src.flushing = grpc.src.flushing
      /\ grpc'.src.stopping = grpc.src.stopping /\ grpc'.src.worker = grpc.src.worker
      /\ grpc'.call = grpc.call /\ grpc'.configured = grpc.configured
      /\ grpc'.mode = grpc.mode /\ grpc'.queue = grpc.queue /\ grpc'.late = grpc.late
  BY <1>3, GrpcTypes DEF GrpcInv, EndType, SameData
<1>5. Taken(grpc') = Taken(grpc)
  BY <1>3 DEF SameData, Taken
<1>6. Control(grpc')
  BY <1>4, <1>5 DEF GrpcInv, Control, GrpcSinkLoop, Fresh
<1>7. /\ grpc.src.worker = "ended" => grpc'.src.worker = "ended"
      /\ grpc'.src.stopping # "done" => grpc.src.stopping # "done"
      /\ grpc'.call # "refused" => grpc.call # "refused"
  BY <1>4 DEF GrpcInv, Control, GrpcSinkLoop, Fresh
<1> QED
  BY <1>3, <1>6, <1>7, DataSame DEF GrpcInv

\* Finish of the sink returns when the source has read everything.
LEMMA GrpcFinishedKeeps ==
  ASSUME GrpcInv, GrpcFinished
  PROVE  GrpcInv'
<1>1. grpc' = [grpc EXCEPT !.sink.worker = "ended"]
  BY DEF GrpcFinished
<1>2. /\ [grpc.sink EXCEPT !.worker = "ended"] \in EndType
  BY GrpcTypes DEF GrpcInv, EndType
<1>3. /\ grpc' \in GrpcType /\ SameData(grpc, grpc')
      /\ grpc'.sink = [grpc.sink EXCEPT !.worker = "ended"] /\ grpc'.src = grpc.src
      /\ grpc'.call = grpc.call /\ grpc'.configured = grpc.configured
  BY <1>1, <1>2, GrpcTypes DEF GrpcInv, GrpcType, SameData
<1>4. /\ grpc'.sink.started = grpc.sink.started /\ grpc'.sink.stop = grpc.sink.stop
      /\ grpc'.sink.flushing = grpc.sink.flushing
      /\ grpc'.sink.stopping = grpc.sink.stopping /\ grpc'.sink.worker = "ended"
      /\ grpc'.src.started = grpc.src.started /\ grpc'.src.stop = grpc.src.stop
      /\ grpc'.src.flushing = grpc.src.flushing
      /\ grpc'.src.stopping = grpc.src.stopping /\ grpc'.src.worker = grpc.src.worker
      /\ grpc'.call = grpc.call /\ grpc'.configured = grpc.configured
      /\ grpc'.mode = grpc.mode /\ grpc'.queue = grpc.queue /\ grpc'.late = grpc.late
  BY <1>3, GrpcTypes DEF GrpcInv, EndType, SameData
<1>5. Taken(grpc') = Taken(grpc)
  BY <1>3 DEF SameData, Taken
<1>6. Control(grpc')
  BY <1>4, <1>5 DEF GrpcInv, Control, GrpcFinished, Fresh
<1>7. /\ grpc.src.worker = "ended" => grpc'.src.worker = "ended"
      /\ grpc'.src.stopping # "done" => grpc.src.stopping # "done"
      /\ grpc'.call # "refused" => grpc.call # "refused"
  BY <1>4 DEF GrpcInv, Control, GrpcFinished, Fresh
<1> QED
  BY <1>3, <1>6, <1>7, DataSame DEF GrpcInv

\* The sink is asked to stop.
LEMMA GrpcSinkUnlockKeeps ==
  ASSUME GrpcInv, GrpcSinkUnlock
  PROVE  GrpcInv'
<1>1. grpc' = [grpc EXCEPT !.sink.stop = TRUE, !.sink.stopping = "waiting"]
  BY DEF GrpcSinkUnlock
<1>2. /\ [grpc.sink EXCEPT !.stop = TRUE, !.stopping = "waiting"] \in EndType
  BY GrpcTypes DEF GrpcInv, EndType
<1>3. /\ grpc' \in GrpcType /\ SameData(grpc, grpc')
      /\ grpc'.sink = [grpc.sink EXCEPT !.stop = TRUE, !.stopping = "waiting"]
      /\ grpc'.src = grpc.src /\ grpc'.call = grpc.call
      /\ grpc'.configured = grpc.configured
  BY <1>1, <1>2, GrpcTypes DEF GrpcInv, GrpcType, SameData
<1>4. /\ grpc'.sink.started = grpc.sink.started /\ grpc'.sink.stop = TRUE
      /\ grpc'.sink.flushing = grpc.sink.flushing /\ grpc'.sink.stopping = "waiting"
      /\ grpc'.sink.worker = grpc.sink.worker /\ grpc'.src.started = grpc.src.started
      /\ grpc'.src.stop = grpc.src.stop /\ grpc'.src.flushing = grpc.src.flushing
      /\ grpc'.src.stopping = grpc.src.stopping /\ grpc'.src.worker = grpc.src.worker
      /\ grpc'.call = grpc.call /\ grpc'.configured = grpc.configured
      /\ grpc'.mode = grpc.mode /\ grpc'.queue = grpc.queue /\ grpc'.late = grpc.late
  BY <1>3, GrpcTypes DEF GrpcInv, EndType, SameData
<1>5. Taken(grpc') = Taken(grpc)
  BY <1>3 DEF SameData, Taken
<1>6. Control(grpc')
  <2>1. Control(grpc) /\ grpc.sink.started /\ grpc.sink.stopping = "no"
    BY DEF GrpcInv, GrpcSinkUnlock
  <2>2. ~grpc'.sink.flushing /\ ~Fresh(grpc'.sink)
    BY <1>4, <2>1 DEF Control, Fresh
  <2>3. Fresh(grpc'.src) => Fresh(grpc.src)
    BY <1>4 DEF Fresh
  <2>4. grpc'.sink.stopping \notin {"drained", "joining", "done"}
    BY <1>4
  <2> QED
    BY <1>4, <1>5, <2>1, <2>2, <2>3, <2>4 DEF Control, Fresh
<1>7. /\ grpc.src.worker = "ended" => grpc'.src.worker = "ended"
      /\ grpc'.src.stopping # "done" => grpc.src.stopping # "done"
      /\ grpc'.call # "refused" => grpc.call # "refused"
  BY <1>4 DEF GrpcInv, Control, GrpcSinkUnlock, Fresh
<1> QED
  BY <1>3, <1>6, <1>7, DataSame DEF GrpcInv

\* Its queue was seen empty: what is in it from now on is late.
LEMMA GrpcSinkDrainedKeeps ==
  ASSUME GrpcInv, GrpcSinkDrained
  PROVE  GrpcInv'
<1>1. grpc' = [grpc EXCEPT !.sink.stopping = "drained"]
  BY DEF GrpcSinkDrained
<1>2. /\ [grpc.sink EXCEPT !.stopping = "drained"] \in EndType
  BY GrpcTypes DEF GrpcInv, EndType
<1>3. /\ grpc' \in GrpcType /\ SameData(grpc, grpc')
      /\ grpc'.sink = [grpc.sink EXCEPT !.stopping = "drained"] /\ grpc'.src = grpc.src
      /\ grpc'.call = grpc.call /\ grpc'.configured = grpc.configured
  BY <1>1, <1>2, GrpcTypes DEF GrpcInv, GrpcType, SameData
<1>4. /\ grpc'.sink.started = grpc.sink.started /\ grpc'.sink.stop = grpc.sink.stop
      /\ grpc'.sink.flushing = grpc.sink.flushing /\ grpc'.sink.stopping = "drained"
      /\ grpc'.sink.worker = grpc.sink.worker /\ grpc'.src.started = grpc.src.started
      /\ grpc'.src.stop = grpc.src.stop /\ grpc'.src.flushing = grpc.src.flushing
      /\ grpc'.src.stopping = grpc.src.stopping /\ grpc'.src.worker = grpc.src.worker
      /\ grpc'.call = grpc.call /\ grpc'.configured = grpc.configured
      /\ grpc'.mode = grpc.mode /\ grpc'.queue = grpc.queue /\ grpc'.late = grpc.late
  BY <1>3, GrpcTypes DEF GrpcInv, EndType, SameData
<1>5. Taken(grpc') = Taken(grpc)
  BY <1>3 DEF SameData, Taken
<1>6. Control(grpc')
  BY <1>4, <1>5 DEF GrpcInv, Control, GrpcSinkDrained, Fresh
<1>7. /\ grpc.src.worker = "ended" => grpc'.src.worker = "ended"
      /\ grpc'.src.stopping # "done" => grpc.src.stopping # "done"
      /\ grpc'.call # "refused" => grpc.call # "refused"
  BY <1>4 DEF GrpcInv, Control, GrpcSinkDrained, Fresh
<1> QED
  BY <1>3, <1>6, <1>7, DataSame DEF GrpcInv

\* It takes no more buffers.
LEMMA GrpcSinkFlushKeeps ==
  ASSUME GrpcInv, GrpcSinkFlush
  PROVE  GrpcInv'
<1>1. grpc' = [grpc EXCEPT !.sink.stopping = "joining", !.sink.flushing = TRUE]
  BY DEF GrpcSinkFlush
<1>2. /\ [grpc.sink EXCEPT !.stopping = "joining", !.flushing = TRUE] \in EndType
  BY GrpcTypes DEF GrpcInv, EndType
<1>3. /\ grpc' \in GrpcType /\ SameData(grpc, grpc')
      /\ grpc'.sink = [grpc.sink EXCEPT !.stopping = "joining", !.flushing = TRUE]
      /\ grpc'.src = grpc.src /\ grpc'.call = grpc.call
      /\ grpc'.configured = grpc.configured
  BY <1>1, <1>2, GrpcTypes DEF GrpcInv, GrpcType, SameData
<1>4. /\ grpc'.sink.started = grpc.sink.started /\ grpc'.sink.stop = grpc.sink.stop
      /\ grpc'.sink.flushing = TRUE /\ grpc'.sink.stopping = "joining"
      /\ grpc'.sink.worker = grpc.sink.worker /\ grpc'.src.started = grpc.src.started
      /\ grpc'.src.stop = grpc.src.stop /\ grpc'.src.flushing = grpc.src.flushing
      /\ grpc'.src.stopping = grpc.src.stopping /\ grpc'.src.worker = grpc.src.worker
      /\ grpc'.call = grpc.call /\ grpc'.configured = grpc.configured
      /\ grpc'.mode = grpc.mode /\ grpc'.queue = grpc.queue /\ grpc'.late = grpc.late
  BY <1>3, GrpcTypes DEF GrpcInv, EndType, SameData
<1>5. Taken(grpc') = Taken(grpc)
  BY <1>3 DEF SameData, Taken
<1>6. Control(grpc')
  BY <1>4, <1>5 DEF GrpcInv, Control, GrpcSinkFlush, Fresh
<1>7. /\ grpc.src.worker = "ended" => grpc'.src.worker = "ended"
      /\ grpc'.src.stopping # "done" => grpc.src.stopping # "done"
      /\ grpc'.call # "refused" => grpc.call # "refused"
  BY <1>4 DEF GrpcInv, Control, GrpcSinkFlush, Fresh
<1> QED
  BY <1>3, <1>6, <1>7, DataSame DEF GrpcInv

\* Its worker has ended.
LEMMA GrpcSinkJoinedKeeps ==
  ASSUME GrpcInv, GrpcSinkJoined
  PROVE  GrpcInv'
<1>1. grpc' = [grpc EXCEPT !.sink.stopping = "done", !.sink.started = FALSE]
  BY DEF GrpcSinkJoined
<1>2. /\ [grpc.sink EXCEPT !.stopping = "done", !.started = FALSE] \in EndType
  BY GrpcTypes DEF GrpcInv, EndType
<1>3. /\ grpc' \in GrpcType /\ SameData(grpc, grpc')
      /\ grpc'.sink = [grpc.sink EXCEPT !.stopping = "done", !.started = FALSE]
      /\ grpc'.src = grpc.src /\ grpc'.call = grpc.call
      /\ grpc'.configured = grpc.configured
  BY <1>1, <1>2, GrpcTypes DEF GrpcInv, GrpcType, SameData
<1>4. /\ grpc'.sink.started = FALSE /\ grpc'.sink.stop = grpc.sink.stop
      /\ grpc'.sink.flushing = grpc.sink.flushing /\ grpc'.sink.stopping = "done"
      /\ grpc'.sink.worker = grpc.sink.worker /\ grpc'.src.started = grpc.src.started
      /\ grpc'.src.stop = grpc.src.stop /\ grpc'.src.flushing = grpc.src.flushing
      /\ grpc'.src.stopping = grpc.src.stopping /\ grpc'.src.worker = grpc.src.worker
      /\ grpc'.call = grpc.call /\ grpc'.configured = grpc.configured
      /\ grpc'.mode = grpc.mode /\ grpc'.queue = grpc.queue /\ grpc'.late = grpc.late
  BY <1>3, GrpcTypes DEF GrpcInv, EndType, SameData
<1>5. Taken(grpc') = Taken(grpc)
  BY <1>3 DEF SameData, Taken
<1>6. Control(grpc')
  BY <1>4, <1>5 DEF GrpcInv, Control, GrpcSinkJoined, Fresh
<1>7. /\ grpc.src.worker = "ended" => grpc'.src.worker = "ended"
      /\ grpc'.src.stopping # "done" => grpc.src.stopping # "done"
      /\ grpc'.call # "refused" => grpc.call # "refused"
  BY <1>4 DEF GrpcInv, Control, GrpcSinkJoined, Fresh
<1> QED
  BY <1>3, <1>6, <1>7, DataSame DEF GrpcInv

\* The source is asked to stop.
LEMMA GrpcSrcUnlockKeeps ==
  ASSUME GrpcInv, GrpcSrcUnlock
  PROVE  GrpcInv'
<1>1. grpc' = [grpc EXCEPT !.src.stop = TRUE, !.src.stopping = "joining"]
  BY DEF GrpcSrcUnlock
<1>2. /\ [grpc.src EXCEPT !.stop = TRUE, !.stopping = "joining"] \in EndType
  BY GrpcTypes DEF GrpcInv, EndType
<1>3. /\ grpc' \in GrpcType /\ SameData(grpc, grpc') /\ grpc'.sink = grpc.sink
      /\ grpc'.src = [grpc.src EXCEPT !.stop = TRUE, !.stopping = "joining"]
      /\ grpc'.call = grpc.call /\ grpc'.configured = grpc.configured
  BY <1>1, <1>2, GrpcTypes DEF GrpcInv, GrpcType, SameData
<1>4. /\ grpc'.sink.started = grpc.sink.started /\ grpc'.sink.stop = grpc.sink.stop
      /\ grpc'.sink.flushing = grpc.sink.flushing
      /\ grpc'.sink.stopping = grpc.sink.stopping
      /\ grpc'.sink.worker = grpc.sink.worker /\ grpc'.src.started = grpc.src.started
      /\ grpc'.src.stop = TRUE /\ grpc'.src.flushing = grpc.src.flushing
      /\ grpc'.src.stopping = "joining" /\ grpc'.src.worker = grpc.src.worker
      /\ grpc'.call = grpc.call /\ grpc'.configured = grpc.configured
      /\ grpc'.mode = grpc.mode /\ grpc'.queue = grpc.queue /\ grpc'.late = grpc.late
  BY <1>3, GrpcTypes DEF GrpcInv, EndType, SameData
<1>5. Taken(grpc') = Taken(grpc)
  BY <1>3 DEF SameData, Taken
<1>6. Control(grpc')
  <2>1. Control(grpc) /\ grpc.src.started /\ grpc.src.stopping = "no"
    BY DEF GrpcInv, GrpcSrcUnlock
  <2>2. /\ ~grpc'.src.flushing /\ grpc'.src.started /\ grpc'.src.stopping # "done"
        /\ Fresh(grpc'.src) => Fresh(grpc.src)
    BY <1>4, <2>1 DEF Control, Fresh
  <2>3. Fresh(grpc'.sink) => Fresh(grpc.sink)
    BY <1>4 DEF Fresh
  <2>4. \A i \in 1..Len(grpc'.queue) :
          grpc.queue[i] \in grpc.late => grpc'.queue[i] \in grpc'.late
    BY <1>4
  <2> QED
    BY <1>4, <1>5, <2>1, <2>2, <2>3, <2>4 DEF Control
<1>7. /\ grpc.src.worker = "ended" => grpc'.src.worker = "ended"
      /\ grpc'.src.stopping # "done" => grpc.src.stopping # "done"
      /\ grpc'.call # "refused" => grpc.call # "refused"
  BY <1>4 DEF GrpcInv, Control, GrpcSrcUnlock, Fresh
<1> QED
  BY <1>3, <1>6, <1>7, DataSame DEF GrpcInv

\* The sink starts, as a server or with a worker that calls one.
LEMMA GrpcSinkStartKeeps ==
  ASSUME GrpcInv, GrpcSinkStart
  PROVE  GrpcInv'
<1>1. CASE grpc.mode.server = "src"
  <2>1. grpc' = [grpc EXCEPT !.sink = [grpc.sink EXCEPT !.started = TRUE, !.worker = "calling"]]
    BY <1>1, GrpcTypes DEF GrpcSinkStart, Started, Client, GrpcInv
  <2>2. /\ [grpc.sink EXCEPT !.started = TRUE, !.worker = "calling"] \in EndType
    BY GrpcTypes DEF GrpcInv, EndType
  <2>3. /\ grpc' \in GrpcType /\ SameData(grpc, grpc')
        /\ grpc'.sink = [grpc.sink EXCEPT !.started = TRUE, !.worker = "calling"]
        /\ grpc'.src = grpc.src /\ grpc'.call = grpc.call
        /\ grpc'.configured = grpc.configured
    BY <2>1, <2>2, GrpcTypes DEF GrpcInv, GrpcType, SameData
  <2>4. /\ grpc'.sink.started = TRUE /\ grpc'.sink.stop = grpc.sink.stop
        /\ grpc'.sink.flushing = grpc.sink.flushing
        /\ grpc'.sink.stopping = grpc.sink.stopping /\ grpc'.sink.worker = "calling"
        /\ grpc'.src.started = grpc.src.started /\ grpc'.src.stop = grpc.src.stop
        /\ grpc'.src.flushing = grpc.src.flushing
        /\ grpc'.src.stopping = grpc.src.stopping /\ grpc'.src.worker = grpc.src.worker
        /\ grpc'.call = grpc.call /\ grpc'.configured = grpc.configured
        /\ grpc'.mode = grpc.mode /\ grpc'.queue = grpc.queue /\ grpc'.late = grpc.late
    BY <2>3, GrpcTypes DEF GrpcInv, EndType, SameData
  <2>5. Taken(grpc') = Taken(grpc)
    BY <2>3 DEF SameData, Taken
  <2>6. Control(grpc')
    BY <1>1, <2>4, <2>5 DEF GrpcInv, Control, GrpcSinkStart, Fresh
  <2>7. /\ grpc.src.worker = "ended" => grpc'.src.worker = "ended"
        /\ grpc'.src.stopping # "done" => grpc.src.stopping # "done"
        /\ grpc'.call # "refused" => grpc.call # "refused"
    BY <1>1, <2>4 DEF GrpcInv, Control, GrpcSinkStart, Fresh
  <2> QED
    BY <2>3, <2>6, <2>7, DataSame DEF GrpcInv
<1>2. CASE grpc.mode.server # "src"
  <2>1. grpc' = [grpc EXCEPT !.sink = [grpc.sink EXCEPT !.started = TRUE, !.worker = "none"]]
    BY <1>2, GrpcTypes DEF GrpcSinkStart, Started, Client, GrpcInv
  <2>2. /\ [grpc.sink EXCEPT !.started = TRUE, !.worker = "none"] \in EndType
    BY GrpcTypes DEF GrpcInv, EndType
  <2>3. /\ grpc' \in GrpcType /\ SameData(grpc, grpc')
        /\ grpc'.sink = [grpc.sink EXCEPT !.started = TRUE, !.worker = "none"]
        /\ grpc'.src = grpc.src /\ grpc'.call = grpc.call
        /\ grpc'.configured = grpc.configured
    BY <2>1, <2>2, GrpcTypes DEF GrpcInv, GrpcType, SameData
  <2>4. /\ grpc'.sink.started = TRUE /\ grpc'.sink.stop = grpc.sink.stop
        /\ grpc'.sink.flushing = grpc.sink.flushing
        /\ grpc'.sink.stopping = grpc.sink.stopping /\ grpc'.sink.worker = "none"
        /\ grpc'.src.started = grpc.src.started /\ grpc'.src.stop = grpc.src.stop
        /\ grpc'.src.flushing = grpc.src.flushing
        /\ grpc'.src.stopping = grpc.src.stopping /\ grpc'.src.worker = grpc.src.worker
        /\ grpc'.call = grpc.call /\ grpc'.configured = grpc.configured
        /\ grpc'.mode = grpc.mode /\ grpc'.queue = grpc.queue /\ grpc'.late = grpc.late
    BY <2>3, GrpcTypes DEF GrpcInv, EndType, SameData
  <2>5. Taken(grpc') = Taken(grpc)
    BY <2>3 DEF SameData, Taken
  <2>6. Control(grpc')
    BY <1>2, <2>4, <2>5 DEF GrpcInv, Control, GrpcSinkStart, Fresh
  <2>7. /\ grpc.src.worker = "ended" => grpc'.src.worker = "ended"
        /\ grpc'.src.stopping # "done" => grpc.src.stopping # "done"
        /\ grpc'.call # "refused" => grpc.call # "refused"
    BY <1>2, <2>4 DEF GrpcInv, Control, GrpcSinkStart, Fresh
  <2> QED
    BY <2>3, <2>6, <2>7, DataSame DEF GrpcInv
<1> QED
  BY <1>1, <1>2

\* The source starts.
LEMMA GrpcSrcStartKeeps ==
  ASSUME GrpcInv, GrpcSrcStart
  PROVE  GrpcInv'
<1>1. CASE grpc.mode.server = "sink"
  <2>1. grpc' = [grpc EXCEPT !.src = [grpc.src EXCEPT !.started = TRUE, !.worker = "calling"]]
    BY <1>1, GrpcTypes DEF GrpcSrcStart, Started, Client, GrpcInv
  <2>2. /\ [grpc.src EXCEPT !.started = TRUE, !.worker = "calling"] \in EndType
    BY GrpcTypes DEF GrpcInv, EndType
  <2>3. /\ grpc' \in GrpcType /\ SameData(grpc, grpc') /\ grpc'.sink = grpc.sink
        /\ grpc'.src = [grpc.src EXCEPT !.started = TRUE, !.worker = "calling"]
        /\ grpc'.call = grpc.call /\ grpc'.configured = grpc.configured
    BY <2>1, <2>2, GrpcTypes DEF GrpcInv, GrpcType, SameData
  <2>4. /\ grpc'.sink.started = grpc.sink.started /\ grpc'.sink.stop = grpc.sink.stop
        /\ grpc'.sink.flushing = grpc.sink.flushing
        /\ grpc'.sink.stopping = grpc.sink.stopping
        /\ grpc'.sink.worker = grpc.sink.worker /\ grpc'.src.started = TRUE
        /\ grpc'.src.stop = grpc.src.stop /\ grpc'.src.flushing = grpc.src.flushing
        /\ grpc'.src.stopping = grpc.src.stopping /\ grpc'.src.worker = "calling"
        /\ grpc'.call = grpc.call /\ grpc'.configured = grpc.configured
        /\ grpc'.mode = grpc.mode /\ grpc'.queue = grpc.queue /\ grpc'.late = grpc.late
    BY <2>3, GrpcTypes DEF GrpcInv, EndType, SameData
  <2>5. Taken(grpc') = Taken(grpc)
    BY <2>3 DEF SameData, Taken
  <2>6. Control(grpc')
    BY <1>1, <2>4, <2>5 DEF GrpcInv, Control, GrpcSrcStart, Fresh
  <2>7. /\ grpc.src.worker = "ended" => grpc'.src.worker = "ended"
        /\ grpc'.src.stopping # "done" => grpc.src.stopping # "done"
        /\ grpc'.call # "refused" => grpc.call # "refused"
    BY <1>1, <2>4 DEF GrpcInv, Control, GrpcSrcStart, Fresh
  <2> QED
    BY <2>3, <2>6, <2>7, DataSame DEF GrpcInv
<1>2. CASE grpc.mode.server # "sink"
  <2>1. grpc' = [grpc EXCEPT !.src = [grpc.src EXCEPT !.started = TRUE, !.worker = "none"]]
    BY <1>2, GrpcTypes DEF GrpcSrcStart, Started, Client, GrpcInv
  <2>2. /\ [grpc.src EXCEPT !.started = TRUE, !.worker = "none"] \in EndType
    BY GrpcTypes DEF GrpcInv, EndType
  <2>3. /\ grpc' \in GrpcType /\ SameData(grpc, grpc') /\ grpc'.sink = grpc.sink
        /\ grpc'.src = [grpc.src EXCEPT !.started = TRUE, !.worker = "none"]
        /\ grpc'.call = grpc.call /\ grpc'.configured = grpc.configured
    BY <2>1, <2>2, GrpcTypes DEF GrpcInv, GrpcType, SameData
  <2>4. /\ grpc'.sink.started = grpc.sink.started /\ grpc'.sink.stop = grpc.sink.stop
        /\ grpc'.sink.flushing = grpc.sink.flushing
        /\ grpc'.sink.stopping = grpc.sink.stopping
        /\ grpc'.sink.worker = grpc.sink.worker /\ grpc'.src.started = TRUE
        /\ grpc'.src.stop = grpc.src.stop /\ grpc'.src.flushing = grpc.src.flushing
        /\ grpc'.src.stopping = grpc.src.stopping /\ grpc'.src.worker = "none"
        /\ grpc'.call = grpc.call /\ grpc'.configured = grpc.configured
        /\ grpc'.mode = grpc.mode /\ grpc'.queue = grpc.queue /\ grpc'.late = grpc.late
    BY <2>3, GrpcTypes DEF GrpcInv, EndType, SameData
  <2>5. Taken(grpc') = Taken(grpc)
    BY <2>3 DEF SameData, Taken
  <2>6. Control(grpc')
    BY <1>2, <2>4, <2>5 DEF GrpcInv, Control, GrpcSrcStart, Fresh
  <2>7. /\ grpc.src.worker = "ended" => grpc'.src.worker = "ended"
        /\ grpc'.src.stopping # "done" => grpc.src.stopping # "done"
        /\ grpc'.call # "refused" => grpc.call # "refused"
    BY <1>2, <2>4 DEF GrpcInv, Control, GrpcSrcStart, Fresh
  <2> QED
    BY <2>3, <2>6, <2>7, DataSame DEF GrpcInv
<1> QED
  BY <1>1, <1>2

\* Who calls, and whom.
LEMMA GrpcCalling ==
  ASSUME GrpcInv, GrpcCall \/ GrpcRefused
  PROVE  /\ grpc.call = "none" /\ grpc.src.worker \in {"none", "calling"}
         /\ \/ grpc.mode.server = "sink" /\ grpc.src.worker = "calling"
               /\ grpc.src.started
            \/ grpc.mode.server = "src" /\ grpc.sink.worker = "calling"
               /\ grpc.sink.started /\ (GrpcCall => grpc.src.started)
<1>1. CASE grpc.mode.server = "sink"
  <2>1. grpc.src.worker = "calling"
    BY <1>1 DEF GrpcCall, GrpcRefused, Caller
  <2> QED
    BY <1>1, <2>1 DEF GrpcInv, Control
<1>2. CASE grpc.mode.server = "src"
  <2>1. grpc.sink.worker = "calling" /\ (GrpcCall => grpc.src.started)
    BY <1>2 DEF GrpcCall, GrpcRefused, Caller
  <2> QED
    BY <1>2, <2>1 DEF GrpcInv, Control
<1> QED
  BY <1>1, <1>2, GrpcTypes DEF GrpcInv

\* The call reaches the server, and both workers work.
LEMMA GrpcCallKeeps ==
  ASSUME GrpcInv, GrpcCall
  PROVE  GrpcInv'
<1>1. CASE SinkAsyncClient
  <2>1. grpc' = [grpc EXCEPT !.call = "open", !.sink.worker = "loop", !.src.worker = "run"]
    BY <1>1 DEF GrpcCall
  <2>2. /\ [grpc.sink EXCEPT !.worker = "loop"] \in EndType
        /\ [grpc.src EXCEPT !.worker = "run"] \in EndType
    BY GrpcTypes DEF GrpcInv, EndType
  <2>3. /\ grpc' \in GrpcType /\ SameData(grpc, grpc')
        /\ grpc'.sink = [grpc.sink EXCEPT !.worker = "loop"]
        /\ grpc'.src = [grpc.src EXCEPT !.worker = "run"] /\ grpc'.call = "open"
        /\ grpc'.configured = grpc.configured
    BY <2>1, <2>2, GrpcTypes DEF GrpcInv, GrpcType, SameData
  <2>4. /\ grpc'.sink.started = grpc.sink.started /\ grpc'.sink.stop = grpc.sink.stop
        /\ grpc'.sink.flushing = grpc.sink.flushing
        /\ grpc'.sink.stopping = grpc.sink.stopping /\ grpc'.sink.worker = "loop"
        /\ grpc'.src.started = grpc.src.started /\ grpc'.src.stop = grpc.src.stop
        /\ grpc'.src.flushing = grpc.src.flushing
        /\ grpc'.src.stopping = grpc.src.stopping /\ grpc'.src.worker = "run"
        /\ grpc'.call = "open" /\ grpc'.configured = grpc.configured
        /\ grpc'.mode = grpc.mode /\ grpc'.queue = grpc.queue /\ grpc'.late = grpc.late
    BY <2>3, GrpcTypes DEF GrpcInv, EndType, SameData
  <2>5. Taken(grpc') = Taken(grpc)
    BY <2>3 DEF SameData, Taken
  <2>6. Control(grpc')
    BY <1>1, GrpcCalling, <2>4, <2>5 DEF GrpcInv, Control, Fresh, SinkAsyncClient, Client
  <2>7. /\ grpc.src.worker = "ended" => grpc'.src.worker = "ended"
        /\ grpc'.src.stopping # "done" => grpc.src.stopping # "done"
        /\ grpc'.call # "refused" => grpc.call # "refused"
    BY <1>1, GrpcCalling, <2>4 DEF GrpcInv, Control, Fresh, SinkAsyncClient, Client
  <2> QED
    BY <2>3, <2>6, <2>7, DataSame DEF GrpcInv
<1>2. CASE ~SinkAsyncClient
  <2>1. grpc' = [grpc EXCEPT !.call = "open", !.sink.worker = "run", !.src.worker = "run"]
    BY <1>2 DEF GrpcCall
  <2>2. /\ [grpc.sink EXCEPT !.worker = "run"] \in EndType
        /\ [grpc.src EXCEPT !.worker = "run"] \in EndType
    BY GrpcTypes DEF GrpcInv, EndType
  <2>3. /\ grpc' \in GrpcType /\ SameData(grpc, grpc')
        /\ grpc'.sink = [grpc.sink EXCEPT !.worker = "run"]
        /\ grpc'.src = [grpc.src EXCEPT !.worker = "run"] /\ grpc'.call = "open"
        /\ grpc'.configured = grpc.configured
    BY <2>1, <2>2, GrpcTypes DEF GrpcInv, GrpcType, SameData
  <2>4. /\ grpc'.sink.started = grpc.sink.started /\ grpc'.sink.stop = grpc.sink.stop
        /\ grpc'.sink.flushing = grpc.sink.flushing
        /\ grpc'.sink.stopping = grpc.sink.stopping /\ grpc'.sink.worker = "run"
        /\ grpc'.src.started = grpc.src.started /\ grpc'.src.stop = grpc.src.stop
        /\ grpc'.src.flushing = grpc.src.flushing
        /\ grpc'.src.stopping = grpc.src.stopping /\ grpc'.src.worker = "run"
        /\ grpc'.call = "open" /\ grpc'.configured = grpc.configured
        /\ grpc'.mode = grpc.mode /\ grpc'.queue = grpc.queue /\ grpc'.late = grpc.late
    BY <2>3, GrpcTypes DEF GrpcInv, EndType, SameData
  <2>5. Taken(grpc') = Taken(grpc)
    BY <2>3 DEF SameData, Taken
  <2>6. Control(grpc')
    BY <1>2, GrpcCalling, <2>4, <2>5 DEF GrpcInv, Control, Fresh, SinkAsyncClient, Client
  <2>7. /\ grpc.src.worker = "ended" => grpc'.src.worker = "ended"
        /\ grpc'.src.stopping # "done" => grpc.src.stopping # "done"
        /\ grpc'.call # "refused" => grpc.call # "refused"
    BY <1>2, GrpcCalling, <2>4 DEF GrpcInv, Control, Fresh, SinkAsyncClient, Client
  <2> QED
    BY <2>3, <2>6, <2>7, DataSame DEF GrpcInv
<1> QED
  BY <1>1, <1>2

\* The call is refused.
LEMMA GrpcRefusedKeeps ==
  ASSUME GrpcInv, GrpcRefused
  PROVE  GrpcInv'
<1>1. CASE grpc.mode.server = "src"
  <2>1. grpc' = [grpc EXCEPT !.call = "refused", !.sink.worker = (IF grpc.mode.sinkBlocks THEN "run" ELSE "ended")]
    BY <1>1 DEF GrpcRefused, Caller
  <2>2. /\ [grpc.sink EXCEPT !.worker = (IF grpc.mode.sinkBlocks THEN "run" ELSE "ended")] \in EndType
    BY GrpcTypes DEF GrpcInv, EndType
  <2>3. /\ grpc' \in GrpcType /\ SameData(grpc, grpc')
        /\ grpc'.sink = [grpc.sink EXCEPT !.worker = (IF grpc.mode.sinkBlocks THEN "run" ELSE "ended")]
        /\ grpc'.src = grpc.src /\ grpc'.call = "refused"
        /\ grpc'.configured = grpc.configured
    BY <2>1, <2>2, GrpcTypes DEF GrpcInv, GrpcType, SameData
  <2>4. /\ grpc'.sink.started = grpc.sink.started /\ grpc'.sink.stop = grpc.sink.stop
        /\ grpc'.sink.flushing = grpc.sink.flushing
        /\ grpc'.sink.stopping = grpc.sink.stopping
        /\ grpc'.sink.worker = (IF grpc.mode.sinkBlocks THEN "run" ELSE "ended")
        /\ grpc'.src.started = grpc.src.started /\ grpc'.src.stop = grpc.src.stop
        /\ grpc'.src.flushing = grpc.src.flushing
        /\ grpc'.src.stopping = grpc.src.stopping /\ grpc'.src.worker = grpc.src.worker
        /\ grpc'.call = "refused" /\ grpc'.configured = grpc.configured
        /\ grpc'.mode = grpc.mode /\ grpc'.queue = grpc.queue /\ grpc'.late = grpc.late
    BY <2>3, GrpcTypes DEF GrpcInv, EndType, SameData
  <2>5. Taken(grpc') = Taken(grpc)
    BY <2>3 DEF SameData, Taken
  <2>6. Control(grpc')
    BY <1>1, GrpcCalling, <2>4, <2>5 DEF GrpcInv, Control, Fresh
  <2>7. /\ grpc.src.worker = "ended" => grpc'.src.worker = "ended"
        /\ grpc'.src.stopping # "done" => grpc.src.stopping # "done"
        /\ grpc'.call # "refused" => grpc.call # "refused"
    BY <1>1, GrpcCalling, <2>4 DEF GrpcInv, Control, Fresh
  <2> QED
    BY <2>3, <2>6, <2>7, DataSame DEF GrpcInv
<1>2. CASE grpc.mode.server = "sink"
  <2>1. grpc' = [grpc EXCEPT !.call = "refused", !.src.worker = "ended"]
    BY <1>2 DEF GrpcRefused, Caller
  <2>2. /\ [grpc.src EXCEPT !.worker = "ended"] \in EndType
    BY GrpcTypes DEF GrpcInv, EndType
  <2>3. /\ grpc' \in GrpcType /\ SameData(grpc, grpc') /\ grpc'.sink = grpc.sink
        /\ grpc'.src = [grpc.src EXCEPT !.worker = "ended"] /\ grpc'.call = "refused"
        /\ grpc'.configured = grpc.configured
    BY <2>1, <2>2, GrpcTypes DEF GrpcInv, GrpcType, SameData
  <2>4. /\ grpc'.sink.started = grpc.sink.started /\ grpc'.sink.stop = grpc.sink.stop
        /\ grpc'.sink.flushing = grpc.sink.flushing
        /\ grpc'.sink.stopping = grpc.sink.stopping
        /\ grpc'.sink.worker = grpc.sink.worker /\ grpc'.src.started = grpc.src.started
        /\ grpc'.src.stop = grpc.src.stop /\ grpc'.src.flushing = grpc.src.flushing
        /\ grpc'.src.stopping = grpc.src.stopping /\ grpc'.src.worker = "ended"
        /\ grpc'.call = "refused" /\ grpc'.configured = grpc.configured
        /\ grpc'.mode = grpc.mode /\ grpc'.queue = grpc.queue /\ grpc'.late = grpc.late
    BY <2>3, GrpcTypes DEF GrpcInv, EndType, SameData
  <2>5. Taken(grpc') = Taken(grpc)
    BY <2>3 DEF SameData, Taken
  <2>6. Control(grpc')
    BY <1>2, GrpcCalling, <2>4, <2>5 DEF GrpcInv, Control, Fresh
  <2>7. /\ grpc.src.worker = "ended" => grpc'.src.worker = "ended"
        /\ grpc'.src.stopping # "done" => grpc.src.stopping # "done"
        /\ grpc'.call # "refused" => grpc.call # "refused"
    BY <1>2, GrpcCalling, <2>4 DEF GrpcInv, Control, Fresh
  <2> QED
    BY <2>3, <2>6, <2>7, DataSame DEF GrpcInv
<1> QED
  BY <1>1, <1>2, GrpcTypes DEF GrpcInv

-----------------------------------------------------------------------------
\* Sequences of numbers.
LEMMA TailFacts ==
  ASSUME NEW q \in Seq(Nat), q # << >>
  PROVE  /\ Tail(q) \in Seq(Nat) /\ Head(q) \in Nat /\ Head(q) = q[1] /\ Len(q) \in Nat \ {0}
         /\ Len(Tail(q)) = Len(q) - 1 /\ 1 \in 1..Len(q)
         /\ \A i \in 1..Len(Tail(q)) : Tail(q)[i] = q[i + 1] /\ i + 1 \in 1..Len(q)
         /\ \A i \in 1..Len(q) : i # 1 => q[i] = Tail(q)[i - 1] /\ i - 1 \in 1..Len(Tail(q))
  OBVIOUS

\* A number is appended to a queue.
LEMMA AppendFacts ==
  ASSUME NEW q \in Seq(Nat), NEW x \in Nat
  PROVE  /\ Append(q, x) \in Seq(Nat) /\ Len(Append(q, x)) = Len(q) + 1 /\ Len(q) \in Nat
         /\ \A i \in 1..Len(q) : Append(q, x)[i] = q[i] /\ i \in 1..(Len(q) + 1)
         /\ Append(q, x)[Len(q) + 1] = x /\ Len(q) + 1 \in 1..(Len(q) + 1)
         /\ \A i \in 1..(Len(q) + 1) : i \in 1..Len(q) \/ i = Len(q) + 1
  OBVIOUS

\* The numbers of a queue.
LEMMA ToSetFacts ==
  ASSUME NEW q \in Seq(Nat)
  PROVE  /\ ToSet(q) \subseteq Nat
         /\ \A x : x \in ToSet(q) <=> \E i \in 1..Len(q) : q[i] = x
  BY DEF ToSet

\* A queue grows on if the number appended is greater than all.
LEMMA IncreasingAppend ==
  ASSUME NEW q \in Seq(Nat), NEW x \in Nat, Increasing(q), \A i \in 1..Len(q) : q[i] < x
  PROVE  Increasing(Append(q, x))
<1> DEFINE a == Append(q, x)
<1>1. /\ Len(a) = Len(q) + 1 /\ a[Len(q) + 1] = x /\ Len(q) \in Nat
      /\ \A i \in 1..Len(q) : a[i] = q[i]
  BY AppendFacts
<1> HIDE DEF a
<1>2. \A i, j \in 1..Len(a) : i < j => a[i] < a[j]
  <2> SUFFICES ASSUME NEW i \in 1..Len(a), NEW j \in 1..Len(a), i < j
               PROVE  a[i] < a[j]
    OBVIOUS
  <2>1. i \in 1..Len(q) /\ a[i] = q[i]
    BY <1>1
  <2>2. CASE j \in 1..Len(q)
    BY <1>1, <2>1, <2>2 DEF Increasing
  <2>3. CASE j = Len(q) + 1
    BY <1>1, <2>1, <2>3
  <2> QED
    BY <1>1, <2>2, <2>3
<1> QED
  BY <1>2 DEF Increasing, a

\* Without its first it grows, too, and the first was the least.
LEMMA IncreasingTail ==
  ASSUME NEW q \in Seq(Nat), q # << >>, Increasing(q)
  PROVE  /\ Increasing(Tail(q))
         /\ \A i \in 1..Len(Tail(q)) : Head(q) < Tail(q)[i]
<1> DEFINE t == Tail(q)
<1>1. /\ Len(q) \in Nat \ {0} /\ Len(t) = Len(q) - 1 /\ Head(q) = q[1]
      /\ \A i \in 1..Len(t) : t[i] = q[i + 1] /\ i + 1 \in 1..Len(q)
  BY TailFacts
<1> HIDE DEF t
<1>2. \A i, j \in 1..Len(t) : i < j => t[i] < t[j]
  <2> SUFFICES ASSUME NEW i \in 1..Len(t), NEW j \in 1..Len(t), i < j
               PROVE  t[i] < t[j]
    OBVIOUS
  <2>1. /\ t[i] = q[i + 1] /\ t[j] = q[j + 1] /\ i + 1 < j + 1
        /\ i + 1 \in 1..Len(q) /\ j + 1 \in 1..Len(q)
    BY <1>1
  <2> QED
    BY <2>1 DEF Increasing
<1>3. \A i \in 1..Len(t) : q[1] < t[i]
  <2> SUFFICES ASSUME NEW i \in 1..Len(t)
               PROVE  q[1] < t[i]
    OBVIOUS
  <2>1. 1 \in 1..Len(q) /\ i + 1 \in 1..Len(q) /\ 1 < i + 1 /\ t[i] = q[i + 1]
    BY <1>1
  <2> QED
    BY <2>1 DEF Increasing
<1> QED
  BY <1>1, <1>2, <1>3 DEF t, Increasing

-----------------------------------------------------------------------------
\* What Received does to the state.
LEMMA ReceivedFacts ==
  ASSUME NEW s \in GrpcType, NEW f \in Nat
  PROVE  /\ Received(s, f) \in GrpcType
         /\ Received(s, f).mode = s.mode /\ Received(s, f).sink = s.sink
         /\ Received(s, f).src = s.src /\ Received(s, f).configured = s.configured
         /\ Received(s, f).queue = s.queue /\ Received(s, f).call = s.call
         /\ Received(s, f).net = s.net /\ Received(s, f).held = s.held
         /\ Received(s, f).sent = s.sent /\ Received(s, f).got = s.got
         /\ Received(s, f).late = s.late
         /\ \/ /\ Received(s, f).lost = s.lost \cup {f} /\ Received(s, f).items = s.items
               /\ Received(s, f).out = s.out /\ Received(s, f).eos = s.eos
               /\ ~s.src.started \/ ~s.configured \/ s.src.flushing
            \/ /\ Received(s, f).lost = s.lost
               /\ Received(s, f).items = Append(s.items, [frame |-> f, pts |-> s.out])
               /\ ~s.mode.still => /\ Received(s, f).out = s.out + 1
                                   /\ Received(s, f).eos = s.eos
               /\ s.src.started /\ s.configured
<1>0. s.out + 1 \in Nat /\ s.lost \cup {f} \in SUBSET Nat
  BY GrpcTypes
<1>1. CASE ~s.src.started \/ ~s.configured \/ s.src.flushing
  <2>1. Received(s, f) = [s EXCEPT !.lost = @ \cup {f}]
    BY <1>1 DEF Received
  <2> QED
    BY <1>0, <1>1, <2>1 DEF GrpcType
<1>2. CASE ~(~s.src.started \/ ~s.configured \/ s.src.flushing)
  <2> DEFINE it == [frame |-> f, pts |-> s.out]
             items == Append(s.items, it)
             out == IF s.mode.still THEN s.out ELSE s.out + 1
             eos == s.eos \/ s.mode.still
  <2>1. Received(s, f) = [s EXCEPT !.items = items, !.out = out, !.eos = eos]
    BY <1>2 DEF Received
  <2>2. it \in ItemType
    BY GrpcTypes DEF ItemType
  <2>3. items \in Seq(ItemType)
    BY <2>2, GrpcTypes
  <2>4. out \in Nat /\ eos \in BOOLEAN
    BY <1>0, GrpcTypes
  <2>5. ~s.mode.still => out = s.out + 1 /\ eos = s.eos
    BY GrpcTypes
  <2> HIDE DEF items, out, eos
  <2>6. /\ Received(s, f) \in GrpcType
        /\ Received(s, f).mode = s.mode /\ Received(s, f).sink = s.sink
        /\ Received(s, f).src = s.src /\ Received(s, f).configured = s.configured
        /\ Received(s, f).queue = s.queue /\ Received(s, f).call = s.call
        /\ Received(s, f).net = s.net /\ Received(s, f).held = s.held
        /\ Received(s, f).sent = s.sent /\ Received(s, f).got = s.got
        /\ Received(s, f).late = s.late /\ Received(s, f).lost = s.lost
        /\ Received(s, f).items = items
        /\ Received(s, f).out = out /\ Received(s, f).eos = eos
    BY ZenonT(40), <2>1, <2>3, <2>4 DEF GrpcType
  <2> QED
    BY <1>2, <2>5, <2>6 DEF items
<1> QED
  BY <1>1, <1>2

\* The source takes a buffer.
LEMMA TakenAppend ==
  ASSUME NEW s \in GrpcType, NEW t \in GrpcType, NEW it \in ItemType,
         t.got = s.got, t.items = Append(s.items, it)
  PROVE  Taken(t) = Append(Taken(s), it)
<1> DEFINE g == s.got  r == s.items
<1>1. g \in Seq(ItemType) /\ r \in Seq(ItemType)
  BY GrpcTypes
<1> HIDE DEF g, r
<1>2. g \o Append(r, it) = Append(g \o r, it)
  BY <1>1
<1> QED
  BY <1>2 DEF g, r, Taken

-----------------------------------------------------------------------------
\* Parts of the invariant that a step leaves as they are.
LEMMA TakenSame ==
  ASSUME NEW s, NEW t, TakenOrder(s), Taken(t) = Taken(s), t.mode = s.mode, t.held = s.held,
         s.src.worker = "ended" => t.src.worker = "ended"
  PROVE  TakenOrder(t)
  BY DEF TakenOrder

\* A step of the sink leaves the time stamps.
LEMMA StampedSame ==
  ASSUME NEW s, NEW t, Stamped(s), t.items = s.items, t.got = s.got, t.mode = s.mode,
         t.out = s.out, t.eos = s.eos, t.src.stopping = s.src.stopping
  PROVE  Stamped(t)
  BY DEF Stamped, Taken

\* What is on its way may be thrown away.
LEMMA WayShrinks ==
  ASSUME NEW s, NEW t, WayOrder(s), t.held = s.held, t.sent = s.sent,
         t.net = s.net \/ t.net = << >>, t.queue = s.queue \/ t.queue = << >>
  PROVE  WayOrder(t)
<1>1. Len(<< >>) = 0
  OBVIOUS
<1>2. Increasing(<< >>)
  BY DEF Increasing
<1> QED
  BY <1>1, <1>2 DEF WayOrder

\* A buffer that was not lost and not taken is on its way.
LEMMA GrpcRenderKeeps ==
  ASSUME GrpcInv, GrpcRender
  PROVE  GrpcInv'
<1> DEFINE s == grpc  t == grpc'  f == s.sent + 1
<1>0. /\ s \in GrpcType /\ Control(s) /\ WayOrder(s) /\ TakenOrder(s) /\ Accounted(s)
      /\ Stamped(s) /\ Lossless(s)
  BY DEF GrpcInv, DataInv
<1>1. grpc' = [grpc EXCEPT !.sent = f, !.queue = Append(@, f),
                           !.late = IF grpc.sink.stop THEN @ \cup {f} ELSE @]
  BY DEF GrpcRender
<1>2. /\ f \in Nat /\ Append(s.queue, f) \in Seq(Nat)
      /\ (IF s.sink.stop THEN s.late \cup {f} ELSE s.late) \in SUBSET Nat
  BY <1>0, GrpcTypes
<1>3. /\ t \in GrpcType /\ t.mode = s.mode /\ t.sink = s.sink /\ t.src = s.src
      /\ t.configured = s.configured /\ t.queue = Append(s.queue, f) /\ t.call = s.call
      /\ t.net = s.net /\ t.held = s.held /\ t.out = s.out /\ t.items = s.items
      /\ t.eos = s.eos /\ t.sent = f /\ t.got = s.got /\ t.lost = s.lost
      /\ t.late = IF s.sink.stop THEN s.late \cup {f} ELSE s.late
  BY <1>0, <1>1, <1>2 DEF GrpcType
<1>4. Taken(t) = Taken(s)
  BY <1>3 DEF Taken
<1>5. /\ Len(t.queue) = Len(s.queue) + 1 /\ t.queue[Len(s.queue) + 1] = f
      /\ \A i \in 1..Len(s.queue) : t.queue[i] = s.queue[i] /\ i \in 1..Len(t.queue)
      /\ Len(s.queue) + 1 \in 1..Len(t.queue)
      /\ \A i \in 1..Len(t.queue) : i \in 1..Len(s.queue) \/ i = Len(s.queue) + 1
  <2>1. s.queue \in Seq(Nat)
    BY <1>0, GrpcTypes
  <2> QED
    BY <1>2, <1>3, <2>1, AppendFacts
<1>6. s.sent \in Nat /\ s.held \in Nat /\ s.net \in Seq(Nat) /\ s.queue \in Seq(Nat)
  BY <1>0, GrpcTypes
<1> HIDE DEF s, t
<1>7. WayOrder(t)
  <2>1. \A i \in 1..Len(s.queue) : s.queue[i] < f
    BY <1>0, <1>6 DEF WayOrder
  <2>2. Increasing(t.queue)
    BY <1>0, <1>2, <1>3, <1>6, <2>1, IncreasingAppend DEF WayOrder
  <2>3. \A i \in 1..Len(t.queue) : t.held < t.queue[i] /\ t.queue[i] <= t.sent
    BY SMTT(30), <1>0, <1>3, <1>5, <1>6 DEF WayOrder
  <2>4. \A i \in 1..Len(t.net) : t.held < t.net[i] /\ t.net[i] <= t.sent
    BY <1>0, <1>3, <1>6 DEF WayOrder
  <2>5. \A i \in 1..Len(t.net), j \in 1..Len(t.queue) : t.net[i] < t.queue[j]
    BY SMTT(30), <1>0, <1>3, <1>5, <1>6 DEF WayOrder
  <2>6. t.held <= t.sent /\ Increasing(t.net)
    BY <1>0, <1>3, <1>6 DEF WayOrder
  <2> QED
    BY <2>2, <2>3, <2>4, <2>5, <2>6 DEF WayOrder
<1>8. TakenOrder(t)
  BY <1>0, <1>3, <1>4, TakenSame
<1>9. Accounted(t)
  <2>1. t.lost \subseteq 0..t.sent
    BY <1>0, <1>3, <1>6 DEF Accounted
  <2>2. ASSUME NEW x \in 1..t.sent
        PROVE  Present(t, x)
    <3>1. CASE x = f
      BY <1>5, <3>1 DEF Present
    <3>2. CASE x # f
      <4>1. x \in 1..s.sent
        BY <1>3, <1>6, <3>2
      <4>2. Present(s, x)
        BY <1>0, <4>1 DEF Accounted
      <4> QED
        BY <1>3, <1>4, <1>5, <4>2 DEF Present
    <3> QED
      BY <3>1, <3>2
  <2> QED
    BY <2>1, <2>2 DEF Accounted
<1>10. Stamped(t)
  BY <1>0, <1>3, StampedSame
<1>11. Lossless(t)
  <2>1. s.late \subseteq t.late
    BY <1>3
  <2> QED
    BY <1>0, <1>3, <1>4, <2>1 DEF Lossless
<1>12. Control(t)
  <2>1. s.late \subseteq t.late /\ (s.sink.stop => f \in t.late)
    BY <1>3
  <2>2. t.sink.stopping \in {"drained", "joining", "done"} =>
          \A i \in 1..Len(t.queue) : t.queue[i] \in t.late
    BY <1>0, <1>3, <1>5, <2>1 DEF Control
  <2> QED
    BY <1>0, <1>3, <1>4, <2>2 DEF Control
<1> QED
  BY <1>3, <1>7, <1>8, <1>9, <1>10, <1>11, <1>12 DEF GrpcInv, DataInv, s, t

\* The rest of a queue or of a call is thrown away.
LEMMA GrpcDrops ==
  ASSUME NEW s \in GrpcType, NEW t \in GrpcType, Control(s), DataInv(s),
         t.mode = s.mode, t.configured = s.configured, t.held = s.held,
         t.out = s.out, t.items = s.items, t.eos = s.eos, t.sent = s.sent, t.got = s.got,
         t.late = s.late, t.src.stopping = s.src.stopping,
         s.src.worker = "ended" => t.src.worker = "ended",
         \/ /\ t.queue = << >> /\ t.net = s.net /\ t.lost = s.lost \cup ToSet(s.queue)
            /\ \A i \in 1..Len(s.queue) : s.queue[i] \in s.late
         \/ /\ t.net = << >> /\ t.queue = s.queue /\ t.lost = s.lost \cup ToSet(s.net)
            /\ s.mode.flat \/ ~s.mode.srcBlocks,
         t.call # "refused" => s.call # "refused"
  PROVE  DataInv(t)
<1>0. /\ WayOrder(s) /\ TakenOrder(s) /\ Accounted(s) /\ Stamped(s) /\ Lossless(s)
  BY DEF DataInv
<1>1. s.sent \in Nat /\ s.held \in Nat /\ s.net \in Seq(Nat) /\ s.queue \in Seq(Nat)
  BY GrpcTypes
<1>2. Taken(t) = Taken(s)
  BY DEF Taken
<1>3. WayOrder(t)
  BY <1>0, WayShrinks
<1>4. TakenOrder(t)
  BY <1>0, <1>2, TakenSame
<1>5. /\ \A x : x \in ToSet(s.queue) <=> \E i \in 1..Len(s.queue) : s.queue[i] = x
      /\ \A x : x \in ToSet(s.net) <=> \E i \in 1..Len(s.net) : s.net[i] = x
      /\ ToSet(s.queue) \subseteq Nat /\ ToSet(s.net) \subseteq Nat
  <2>1. s.queue \in Seq(Nat) /\ s.net \in Seq(Nat)
    BY <1>1
  <2> QED
    BY <2>1, ToSetFacts
<1>6. Accounted(t)
  <2>1. /\ \A x \in ToSet(s.queue) : x \in 0..s.sent
        /\ \A x \in ToSet(s.net) : x \in 0..s.sent
    <3>1. ASSUME NEW x \in ToSet(s.queue)
          PROVE  x \in 0..s.sent
      <4>1. PICK i \in 1..Len(s.queue) : s.queue[i] = x
        BY <1>5
      <4> QED
        BY <1>0, <1>1, <1>5, <4>1 DEF WayOrder
    <3>2. ASSUME NEW x \in ToSet(s.net)
          PROVE  x \in 0..s.sent
      <4>1. PICK i \in 1..Len(s.net) : s.net[i] = x
        BY <1>5
      <4> QED
        BY <1>0, <1>1, <1>5, <4>1 DEF WayOrder
    <3> QED
      BY <3>1, <3>2
  <2>2. t.lost \subseteq 0..t.sent
    BY <1>0, <2>1 DEF Accounted
  <2>3. ASSUME NEW x \in 1..t.sent
        PROVE  Present(t, x)
    <3>1. Present(s, x)
      BY <1>0 DEF Accounted
    <3> QED
      BY <1>2, <1>5, <3>1 DEF Present
  <2> QED
    BY <2>2, <2>3 DEF Accounted
<1>7. Stamped(t)
  BY <1>0, StampedSame
<1>8. Lossless(t)
  <2>1. s.mode.flat \/ ~s.mode.srcBlocks \/ t.lost \subseteq s.lost \cup s.late
    BY <1>5
  <2> QED
    BY <1>0, <1>2, <2>1 DEF Lossless
<1> QED
  BY <1>3, <1>4, <1>6, <1>7, <1>8 DEF DataInv

\* The queue is flushing: what it holds came while the sink was being stopped.
LEMMA GrpcWriteEndKeeps ==
  ASSUME GrpcInv, GrpcWriteEnd
  PROVE  GrpcInv'
<1> DEFINE s == grpc  t == grpc'
           end == IF Client("sink") /\ s.mode.sinkBlocks /\ s.call = "open" THEN "closing"
                  ELSE "ended"
<1>0. s \in GrpcType /\ Control(s) /\ DataInv(s)
  BY DEF GrpcInv
<1>1. grpc' = [grpc EXCEPT !.call = IF @ = "open" THEN "half" ELSE @,
                 !.lost = @ \cup ToSet(grpc.queue), !.queue = << >>,
                 !.sink.worker = end]
  BY DEF GrpcWriteEnd
<1>2. ToSet(s.queue) \subseteq Nat
  <2>1. s.queue \in Seq(Nat)
    BY <1>0, GrpcTypes
  <2> QED
    BY <2>1, ToSetFacts
<1>3. s.lost \cup ToSet(s.queue) \in SUBSET Nat /\ << >> \in Seq(Nat)
  BY <1>0, <1>2, GrpcTypes
<1>4. /\ [s.sink EXCEPT !.worker = end] \in EndType
  BY <1>0, GrpcTypes DEF EndType
<1>5. /\ t \in GrpcType
      /\ t.sink = [s.sink EXCEPT !.worker = end]
      /\ t.src = s.src /\ t.mode = s.mode /\ t.configured = s.configured
      /\ t.queue = << >> /\ t.call = (IF s.call = "open" THEN "half" ELSE s.call)
      /\ t.net = s.net /\ t.held = s.held /\ t.out = s.out /\ t.items = s.items
      /\ t.eos = s.eos /\ t.sent = s.sent /\ t.got = s.got /\ t.late = s.late
      /\ t.lost = s.lost \cup ToSet(s.queue)
  BY <1>0, <1>1, <1>3, <1>4, GrpcTypes DEF GrpcType
<1>6. /\ t.sink.started = s.sink.started /\ t.sink.stop = s.sink.stop
      /\ t.sink.flushing = s.sink.flushing /\ t.sink.stopping = s.sink.stopping
      /\ t.sink.worker = end
      /\ t.src.started = s.src.started /\ t.src.stop = s.src.stop
      /\ t.src.flushing = s.src.flushing /\ t.src.stopping = s.src.stopping
      /\ t.src.worker = s.src.worker /\ Taken(t) = Taken(s) /\ Len(t.queue) = 0
  BY <1>0, <1>5, GrpcTypes DEF EndType, Taken
<1>7. \A i \in 1..Len(s.queue) : s.queue[i] \in s.late
  BY <1>0, GrpcTypes DEF GrpcWriteEnd, Control, SinkAsyncClient, SrcAsyncClient
<1>8. Control(t)
  <2> HIDE DEF t
  <2> QED
    BY <1>0, <1>5, <1>6, <1>7 DEF GrpcWriteEnd, Control, Fresh
<1>9. DataInv(t)
  BY <1>0, <1>5, <1>6, <1>7, GrpcDrops
<1> QED
  BY <1>5, <1>8, <1>9 DEF GrpcInv

\* What the server has not read goes with the call.
LEMMA GrpcFlatEndKeeps ==
  ASSUME GrpcInv, GrpcFlatEnd
  PROVE  GrpcInv'
<1> DEFINE s == grpc  t == grpc'
<1>0. s \in GrpcType /\ Control(s) /\ DataInv(s)
  BY DEF GrpcInv
<1>1. grpc' = [grpc EXCEPT !.sink.worker = "ended", !.call = "half",
                 !.lost = @ \cup ToSet(grpc.net), !.net = << >>]
  BY DEF GrpcFlatEnd
<1>2. ToSet(s.net) \subseteq Nat
  <2>1. s.net \in Seq(Nat)
    BY <1>0, GrpcTypes
  <2> QED
    BY <2>1, ToSetFacts
<1>3. s.lost \cup ToSet(s.net) \in SUBSET Nat /\ << >> \in Seq(Nat)
  BY <1>0, <1>2, GrpcTypes
<1>4. /\ [s.sink EXCEPT !.worker = "ended"] \in EndType
  BY <1>0, GrpcTypes DEF EndType
<1>5. /\ t \in GrpcType /\ t.sink = [s.sink EXCEPT !.worker = "ended"] /\ t.src = s.src
      /\ t.mode = s.mode /\ t.configured = s.configured /\ t.queue = s.queue
      /\ t.call = "half" /\ t.net = << >> /\ t.held = s.held /\ t.out = s.out
      /\ t.items = s.items /\ t.eos = s.eos /\ t.sent = s.sent /\ t.got = s.got
      /\ t.late = s.late /\ t.lost = s.lost \cup ToSet(s.net)
  BY <1>0, <1>1, <1>3, <1>4, GrpcTypes DEF GrpcType
<1>6. /\ t.sink.started = s.sink.started /\ t.sink.stop = s.sink.stop
      /\ t.sink.flushing = s.sink.flushing /\ t.sink.stopping = s.sink.stopping
      /\ t.sink.worker = "ended" /\ t.src.started = s.src.started
      /\ t.src.stop = s.src.stop /\ t.src.flushing = s.src.flushing
      /\ t.src.stopping = s.src.stopping /\ t.src.worker = s.src.worker
      /\ Taken(t) = Taken(s) /\ Len(t.net) = 0
  BY <1>0, <1>5, GrpcTypes DEF EndType, Taken
<1>7. s.mode.flat /\ s.call \in {"half", "over"}
  BY <1>0, GrpcTypes DEF GrpcFlatEnd, Control, SinkAsyncClient, SrcAsyncClient
<1>8. Control(t)
  <2> HIDE DEF t
  <2> QED
    BY <1>0, <1>5, <1>6, <1>7 DEF GrpcFlatEnd, Control, Fresh
<1>9. DataInv(t)
  BY <1>0, <1>5, <1>6, <1>7, GrpcDrops
<1> QED
  BY <1>5, <1>8, <1>9 DEF GrpcInv

\* A source that does not block leaves its call when it is stopped.
LEMMA GrpcSrcLoopKeeps ==
  ASSUME GrpcInv, GrpcSrcLoop
  PROVE  GrpcInv'
<1> DEFINE s == grpc  t == grpc'
<1>0. s \in GrpcType /\ Control(s) /\ DataInv(s)
  BY DEF GrpcInv
<1>1. grpc' = [grpc EXCEPT !.src.worker = "ended", !.lost = @ \cup ToSet(grpc.net), !.net = << >>]
  BY DEF GrpcSrcLoop
<1>2. ToSet(s.net) \subseteq Nat
  <2>1. s.net \in Seq(Nat)
    BY <1>0, GrpcTypes
  <2> QED
    BY <2>1, ToSetFacts
<1>3. s.lost \cup ToSet(s.net) \in SUBSET Nat /\ << >> \in Seq(Nat)
  BY <1>0, <1>2, GrpcTypes
<1>4. /\ [s.src EXCEPT !.worker = "ended"] \in EndType
  BY <1>0, GrpcTypes DEF EndType
<1>5. /\ t \in GrpcType /\ t.sink = s.sink /\ t.src = [s.src EXCEPT !.worker = "ended"]
      /\ t.mode = s.mode /\ t.configured = s.configured /\ t.queue = s.queue
      /\ t.call = s.call /\ t.net = << >> /\ t.held = s.held /\ t.out = s.out
      /\ t.items = s.items /\ t.eos = s.eos /\ t.sent = s.sent /\ t.got = s.got
      /\ t.late = s.late /\ t.lost = s.lost \cup ToSet(s.net)
  BY <1>0, <1>1, <1>3, <1>4, GrpcTypes DEF GrpcType
<1>6. /\ t.sink.started = s.sink.started /\ t.sink.stop = s.sink.stop
      /\ t.sink.flushing = s.sink.flushing /\ t.sink.stopping = s.sink.stopping
      /\ t.sink.worker = s.sink.worker /\ t.src.started = s.src.started
      /\ t.src.stop = s.src.stop /\ t.src.flushing = s.src.flushing
      /\ t.src.stopping = s.src.stopping /\ t.src.worker = "ended"
      /\ Taken(t) = Taken(s) /\ Len(t.net) = 0
  BY <1>0, <1>5, GrpcTypes DEF EndType, Taken
<1>7. ~s.mode.srcBlocks /\ s.call # "none"
  BY <1>0, GrpcTypes DEF GrpcSrcLoop, Control, SinkAsyncClient, SrcAsyncClient
<1>8. Control(t)
  <2> HIDE DEF t
  <2> QED
    BY <1>0, <1>5, <1>6, <1>7 DEF GrpcSrcLoop, Control, Fresh
<1>9. DataInv(t)
  BY <1>0, <1>5, <1>6, <1>7, GrpcDrops
<1> QED
  BY <1>5, <1>8, <1>9 DEF GrpcInv

\* The first of the queue goes onto the call, or nowhere when there is none.
LEMMA GrpcWriteKeeps ==
  ASSUME GrpcInv, GrpcWrite
  PROVE  GrpcInv'
<1> DEFINE s == grpc  t == grpc'  f == Head(s.queue)  on == s.call = "open"
           net == IF on THEN Append(s.net, f) ELSE s.net
           lost == IF on THEN s.lost ELSE s.lost \cup {f}
           worker == IF SinkAsyncClient THEN "loop" ELSE "run"
           sink == [s.sink EXCEPT !.worker = worker]
<1>0. /\ s \in GrpcType /\ Control(s) /\ WayOrder(s) /\ TakenOrder(s) /\ Accounted(s)
      /\ Stamped(s) /\ Lossless(s)
  BY DEF GrpcInv, DataInv
<1>1. grpc' = [grpc EXCEPT !.queue = Tail(@), !.net = net, !.lost = lost,
                           !.sink.worker = worker]
  BY DEF GrpcWrite
<1>2. /\ s.sink.worker = "run" /\ s.queue # << >>
      /\ s.queue \in Seq(Nat) /\ s.net \in Seq(Nat) /\ s.sent \in Nat /\ s.held \in Nat
      /\ s.lost \subseteq Nat
  BY <1>0, GrpcTypes DEF GrpcWrite
<1>3. /\ Tail(s.queue) \in Seq(Nat) /\ f \in Nat /\ f = s.queue[1] /\ 1 \in 1..Len(s.queue)
      /\ \A i \in 1..Len(Tail(s.queue)) :
           Tail(s.queue)[i] = s.queue[i + 1] /\ i + 1 \in 1..Len(s.queue)
      /\ \A i \in 1..Len(s.queue) : i # 1 =>
           s.queue[i] = Tail(s.queue)[i - 1] /\ i - 1 \in 1..Len(Tail(s.queue))
  BY <1>2, TailFacts
<1>4. /\ Append(s.net, f) \in Seq(Nat) /\ Len(Append(s.net, f)) = Len(s.net) + 1
      /\ \A i \in 1..Len(s.net) : Append(s.net, f)[i] = s.net[i] /\ i \in 1..(Len(s.net) + 1)
      /\ Append(s.net, f)[Len(s.net) + 1] = f /\ Len(s.net) + 1 \in 1..(Len(s.net) + 1)
      /\ \A i \in 1..(Len(s.net) + 1) : i \in 1..Len(s.net) \/ i = Len(s.net) + 1
  BY <1>2, <1>3, AppendFacts
<1>5. net \in Seq(Nat) /\ lost \in SUBSET Nat /\ sink \in EndType
  BY <1>0, <1>2, <1>3, <1>4, GrpcTypes DEF EndType
<1>6. /\ t \in GrpcType /\ t.sink = sink
      /\ t.src = s.src /\ t.mode = s.mode /\ t.configured = s.configured
      /\ t.queue = Tail(s.queue) /\ t.call = s.call /\ t.net = net /\ t.held = s.held
      /\ t.out = s.out /\ t.items = s.items /\ t.eos = s.eos /\ t.sent = s.sent
      /\ t.got = s.got /\ t.late = s.late /\ t.lost = lost
  BY <1>0, <1>1, <1>3, <1>5, GrpcTypes DEF GrpcType
<1>7. /\ t.sink.started = s.sink.started /\ t.sink.stop = s.sink.stop
      /\ t.sink.flushing = s.sink.flushing /\ t.sink.stopping = s.sink.stopping
      /\ t.sink.worker = worker /\ Taken(t) = Taken(s)
  BY <1>0, <1>6, GrpcTypes DEF EndType, Taken
<1> HIDE DEF s, t, f, sink, worker
<1>8. WayOrder(t)
  <2>1. /\ Increasing(Tail(s.queue))
        /\ \A i \in 1..Len(Tail(s.queue)) : f < Tail(s.queue)[i]
    BY <1>0, <1>2, IncreasingTail DEF WayOrder, f
  <2>2. /\ s.held < f /\ f <= s.sent
        /\ \A i \in 1..Len(s.net) : s.net[i] < f
    BY <1>0, <1>3 DEF WayOrder
  <2>3. \A j \in 1..Len(t.queue) : t.held < t.queue[j] /\ t.queue[j] <= t.sent
    BY <1>0, <1>3, <1>6 DEF WayOrder
  <2>4. \A i \in 1..Len(s.net), j \in 1..Len(t.queue) : s.net[i] < t.queue[j]
    BY <1>0, <1>3, <1>6 DEF WayOrder
  <2>5. /\ s.held <= s.sent /\ Increasing(s.net)
        /\ \A i \in 1..Len(s.net) : s.held < s.net[i] /\ s.net[i] <= s.sent
    BY <1>0 DEF WayOrder
  <2>6. CASE on
    <3>1. t.net = Append(s.net, f)
      BY <1>6, <2>6
    <3>2. Increasing(t.net)
      BY <1>2, <1>3, <2>2, <2>5, <3>1, IncreasingAppend
    <3>3. \A i \in 1..Len(t.net) : t.held < t.net[i] /\ t.net[i] <= t.sent
      BY <1>4, <1>6, <2>2, <2>5, <3>1
    <3>4. \A i \in 1..Len(t.net), j \in 1..Len(t.queue) : t.net[i] < t.queue[j]
      BY <1>4, <1>6, <2>1, <2>4, <3>1
    <3> QED
      BY <1>6, <2>1, <2>3, <2>5, <3>2, <3>3, <3>4 DEF WayOrder
  <2>7. CASE ~on
    <3>1. t.net = s.net
      BY <1>6, <2>7
    <3> QED
      BY <1>6, <2>1, <2>3, <2>4, <2>5, <3>1 DEF WayOrder
  <2> QED
    BY <2>6, <2>7
<1>9. TakenOrder(t)
  BY <1>0, <1>6, <1>7, TakenSame
<1>10. Accounted(t)
  <2>1. f \in 0..s.sent
    BY <1>0, <1>2, <1>3 DEF WayOrder
  <2>2. t.lost \subseteq 0..t.sent
    BY <1>0, <1>6, <2>1 DEF Accounted
  <2>3. ASSUME NEW x \in 1..t.sent
        PROVE  Present(t, x)
    <3>1. Present(s, x)
      BY <1>0, <1>6 DEF Accounted
    <3>2. Present(t, f)
      BY <1>4, <1>6 DEF Present
    <3>3. CASE \E i \in 1..Len(s.queue) : s.queue[i] = x
      <4>1. PICK i \in 1..Len(s.queue) : s.queue[i] = x
        BY <3>3
      <4>2. CASE i = 1
        BY <1>3, <3>2, <4>1, <4>2
      <4>3. CASE i # 1
        <5>1. i - 1 \in 1..Len(Tail(s.queue)) /\ Tail(s.queue)[i - 1] = x
          BY <1>3, <4>1, <4>3
        <5>2. i - 1 \in 1..Len(t.queue) /\ t.queue[i - 1] = x
          BY <1>6, <5>1
        <5> QED
          BY <5>2 DEF Present
      <4> QED
        BY <4>2, <4>3
    <3>4. CASE x \in s.lost
      BY <1>6, <3>4 DEF Present
    <3>5. CASE \E i \in 1..Len(s.net) : s.net[i] = x
      <4>1. PICK i \in 1..Len(s.net) : s.net[i] = x
        BY <3>5
      <4> QED
        BY <1>4, <1>6, <4>1 DEF Present
    <3>6. CASE \E i \in 1..Len(Taken(s)) : Taken(s)[i].frame = x
      BY <1>7, <3>6 DEF Present
    <3> QED
      BY <3>1, <3>3, <3>4, <3>5, <3>6 DEF Present
  <2> QED
    BY <2>2, <2>3 DEF Accounted
<1>11. Stamped(t)
  BY <1>0, <1>6, StampedSame
<1>12. Lossless(t)
  <2>1. s.mode.sinkBlocks /\ s.call # "refused" => t.lost = s.lost
    BY <1>0, <1>2, <1>6 DEF Control
  <2> QED
    BY <1>0, <1>6, <1>7, <2>1 DEF Lossless
<1>13. Control(t)
  <2>1. \A i \in 1..Len(t.queue) : \E j \in 1..Len(s.queue) : t.queue[i] = s.queue[j]
    BY <1>3, <1>6
  <2>2. t.sink.stopping \in {"drained", "joining", "done"} =>
          \A i \in 1..Len(t.queue) : t.queue[i] \in t.late
    BY <1>0, <1>6, <1>7, <2>1 DEF Control
  <2>3. /\ worker \in {"loop", "run"} /\ (worker = "loop" => ~s.mode.sinkBlocks)
        /\ s.call # "none" /\ s.sink.worker = "run"
    BY <1>0, <1>2 DEF worker, SinkAsyncClient, s, Control
  <2>4. /\ t.mode = s.mode /\ t.src = s.src /\ t.configured = s.configured /\ t.call = s.call
        /\ t.late = s.late
    BY <1>6
  <2> HIDE DEF net, lost
  <2> QED
    BY <1>0, <1>7, <2>2, <2>3, <2>4 DEF Control, Fresh
<1> QED
  BY <1>6, <1>8, <1>9, <1>10, <1>11, <1>12, <1>13 DEF GrpcInv, DataInv, s, t

-----------------------------------------------------------------------------
\* A buffer is taken from the call, or the one read last is given again. In both cases
\* it is read, not less than any that was taken.
LEMMA ReceivedKeeps ==
  ASSUME NEW s \in GrpcType, NEW t \in GrpcType, Control(s), WayOrder(s), Stamped(s),
         NEW f \in Nat, s.held = f, t = Received(s, f),
         \A i \in 1..Len(Taken(s)) : Taken(s)[i].frame <= f,
         \A i, j \in 1..Len(Taken(s)) : i < j => Taken(s)[i].frame < Taken(s)[j].frame,
         \/ \A i \in 1..Len(Taken(s)) : Taken(s)[i].frame < f
         \/ ~s.mode.srcBlocks /\ s.src.worker = "ended",
         s.lost \subseteq 0..s.sent,
         \A x \in 1..s.sent : Present(s, x) \/ x = f
  PROVE  Control(t) /\ WayOrder(t) /\ TakenOrder(t) /\ Accounted(t) /\ Stamped(t)
<1> DEFINE it == [frame |-> f, pts |-> s.out]
           drop == ~s.src.started \/ ~s.configured \/ s.src.flushing
<1>1. /\ t.mode = s.mode /\ t.sink = s.sink /\ t.src = s.src /\ t.configured = s.configured
      /\ t.queue = s.queue /\ t.call = s.call /\ t.net = s.net /\ t.held = s.held
      /\ t.sent = s.sent /\ t.got = s.got /\ t.late = s.late
      /\ \/ /\ t.lost = s.lost \cup {f} /\ t.items = s.items
            /\ t.out = s.out /\ t.eos = s.eos /\ drop
         \/ /\ t.lost = s.lost /\ t.items = Append(s.items, it)
            /\ ~s.mode.still => t.out = s.out + 1 /\ t.eos = s.eos
            /\ s.src.started /\ s.configured
  BY ReceivedFacts
<1>2. /\ s.sent \in Nat /\ s.out \in Nat /\ it \in ItemType /\ s.mode.still \in BOOLEAN
      /\ it.frame = f /\ it.pts = s.out
  BY GrpcTypes DEF ItemType
<1>3. f \in 0..s.sent
  BY <1>2 DEF WayOrder
<1> HIDE DEF it, drop
<1>4. WayOrder(t)
  BY <1>1 DEF WayOrder
<1>5. CASE t.items = s.items /\ t.lost = s.lost \cup {f} /\ t.out = s.out /\ t.eos = s.eos
  <2>1. Taken(t) = Taken(s)
    BY <1>1, <1>5 DEF Taken
  <2>2. Control(t)
    BY <1>1, <2>1 DEF Control
  <2>3. TakenOrder(t)
    BY <1>1, <2>1 DEF TakenOrder
  <2>4. Accounted(t)
    BY <1>1, <1>3, <1>5, <2>1 DEF Accounted, Present
  <2>5. Stamped(t)
    BY <1>1, <1>5, StampedSame
  <2> QED
    BY <1>4, <2>2, <2>3, <2>4, <2>5
<1>6. CASE /\ t.lost = s.lost /\ t.items = Append(s.items, it)
           /\ ~s.mode.still => t.out = s.out + 1 /\ t.eos = s.eos
           /\ s.src.started /\ s.configured
  <2> DEFINE a == Taken(s)  n == Len(a)
  <2>1. Taken(t) = Append(a, it)
    BY <1>1, <1>2, <1>6, TakenAppend
  <2>2. a \in Seq(ItemType) /\ n \in Nat /\ \A i \in 1..n : a[i].frame \in Nat
    BY TakenFacts
  <2>3. /\ Len(Taken(t)) = n + 1 /\ Taken(t)[n + 1] = it
        /\ \A i \in 1..n : Taken(t)[i] = a[i] /\ i \in 1..(n + 1)
        /\ n + 1 \in 1..(n + 1)
        /\ \A i \in 1..(n + 1) : i \in 1..n \/ i = n + 1
    <3> HIDE DEF a
    <3> QED
      BY <1>2, <2>1, <2>2
  <2> HIDE DEF a, n
  <2>4. Control(t)
    BY <1>1, <1>6 DEF Control
  <2>5. TakenOrder(t)
    <3>1. \A i \in 1..Len(Taken(t)) : Taken(t)[i].frame <= t.held
      BY <1>1, <1>2, <2>3 DEF a, n
    <3>2. ASSUME NEW i \in 1..Len(Taken(t)), NEW j \in 1..Len(Taken(t)), i < j
          PROVE  \/ Taken(t)[i].frame < Taken(t)[j].frame
                 \/ /\ Taken(t)[i].frame = Taken(t)[j].frame /\ j = Len(Taken(t))
                    /\ ~t.mode.srcBlocks /\ t.src.worker = "ended"
      <4>1. i \in 1..n /\ Taken(t)[i] = a[i]
        BY <2>2, <2>3, <3>2
      <4>2. CASE j \in 1..n
        <5>1. a[i].frame < a[j].frame /\ Taken(t)[j] = a[j]
          BY <2>3, <3>2, <4>1, <4>2 DEF a, n
        <5> QED
          BY <4>1, <5>1
      <4>3. CASE j = n + 1
        <5>1. Taken(t)[j].frame = f /\ j = Len(Taken(t))
          BY <1>2, <2>3, <4>3
        <5>2. a[i].frame <= f /\ a[i].frame \in Nat
          BY <2>2, <4>1 DEF a, n
        <5>3. a[i].frame < f \/ (~t.mode.srcBlocks /\ t.src.worker = "ended")
          BY <1>1, <4>1 DEF a, n
        <5> QED
          BY <4>1, <5>1, <5>2, <5>3
      <4> QED
        BY <2>3, <4>2, <4>3
    <3> QED
      BY <3>1, <3>2 DEF TakenOrder
  <2>6. Accounted(t)
    <3>1. Present(t, f)
      BY <1>2, <2>3 DEF Present
    <3>2. \A x : Present(s, x) => Present(t, x)
      <4> TAKE x
      <4>1. (\E i \in 1..Len(Taken(s)) : Taken(s)[i].frame = x)
              => \E i \in 1..Len(Taken(t)) : Taken(t)[i].frame = x
        BY <2>3 DEF a, n
      <4>2. t.lost = s.lost /\ t.queue = s.queue /\ t.net = s.net
        BY <1>1, <1>6
      <4> QED
        BY <4>1, <4>2 DEF Present
    <3> QED
      BY <1>1, <1>6, <3>1, <3>2 DEF Accounted
  <2>7. Stamped(t)
    <3> SUFFICES ASSUME ~t.mode.still
                 PROVE  /\ \A i \in 1..Len(Taken(t)) : Taken(t)[i].pts = i - 1
                        /\ t.src.stopping # "done" => t.out = Len(Taken(t)) /\ ~t.eos
                        /\ t.eos => t.items = << >>
      BY DEF Stamped
    <3>1. s.src.stopping # "done" /\ ~s.mode.still
      BY <1>1, <1>6 DEF Control
    <3>2. s.out = n /\ ~s.eos /\ \A i \in 1..n : a[i].pts = i - 1
      BY <3>1 DEF Stamped, a, n
    <3>3. t.out = n + 1 /\ ~t.eos
      BY <1>6, <3>1, <3>2
    <3> QED
      BY <1>2, <2>2, <2>3, <3>2, <3>3
  <2> QED
    BY <1>4, <2>4, <2>5, <2>6, <2>7
<1> QED
  BY <1>1, <1>5, <1>6

\* A buffer is read: it is greater than all before and less than all to come.
LEMMA GrpcReadKeeps ==
  ASSUME GrpcInv, GrpcRead
  PROVE  GrpcInv'
<1> DEFINE s == grpc  t == grpc'  f == Head(s.net)
           r == [grpc EXCEPT !.net = Tail(@), !.held = f]
<1>0. /\ s \in GrpcType /\ Control(s) /\ WayOrder(s) /\ TakenOrder(s) /\ Accounted(s)
      /\ Stamped(s) /\ Lossless(s)
  BY DEF GrpcInv, DataInv
<1>1. t = Received(r, f) /\ s.src.worker = "run" /\ s.net # << >>
  BY DEF GrpcRead
<1>2. /\ s.queue \in Seq(Nat) /\ s.net \in Seq(Nat) /\ s.sent \in Nat /\ s.held \in Nat
      /\ s.lost \subseteq Nat
  BY <1>0, GrpcTypes
<1>3. /\ Tail(s.net) \in Seq(Nat) /\ f \in Nat /\ f = s.net[1] /\ 1 \in 1..Len(s.net)
      /\ \A i \in 1..Len(Tail(s.net)) :
           Tail(s.net)[i] = s.net[i + 1] /\ i + 1 \in 1..Len(s.net)
      /\ \A i \in 1..Len(s.net) : i # 1 =>
           s.net[i] = Tail(s.net)[i - 1] /\ i - 1 \in 1..Len(Tail(s.net))
  BY <1>1, <1>2, TailFacts
<1>4. /\ r \in GrpcType /\ r.sink = s.sink
      /\ r.src = s.src /\ r.mode = s.mode /\ r.configured = s.configured
      /\ r.queue = s.queue /\ r.call = s.call /\ r.net = Tail(s.net) /\ r.held = f
      /\ r.out = s.out /\ r.items = s.items /\ r.eos = s.eos /\ r.sent = s.sent
      /\ r.got = s.got /\ r.late = s.late /\ r.lost = s.lost
  BY <1>0, <1>3 DEF GrpcType
<1>5. Taken(r) = Taken(s)
  BY <1>4 DEF Taken
<1>6. /\ Len(Taken(s)) \in Nat
      /\ \A i \in 1..Len(Taken(s)) : Taken(s)[i].frame \in Nat
  BY <1>0, TakenFacts
<1> HIDE DEF s, t, f, r
<1>7. Control(r)
  BY <1>0, <1>4, <1>5 DEF Control
<1>8. WayOrder(r)
  <2>1. Increasing(Tail(s.net)) /\ \A i \in 1..Len(Tail(s.net)) : f < Tail(s.net)[i]
    BY <1>0, <1>1, <1>2, IncreasingTail DEF WayOrder, f
  <2>2. f <= s.sent /\ Increasing(s.queue)
    BY <1>0, <1>3 DEF WayOrder
  <2>3. \A i \in 1..Len(r.net) : r.held < r.net[i] /\ r.net[i] <= r.sent
    BY <1>0, <1>3, <1>4, <2>1 DEF WayOrder
  <2>4. \A j \in 1..Len(r.queue) : r.held < r.queue[j] /\ r.queue[j] <= r.sent
    BY <1>0, <1>3, <1>4 DEF WayOrder
  <2>5. \A i \in 1..Len(r.net), j \in 1..Len(r.queue) : r.net[i] < r.queue[j]
    BY <1>0, <1>3, <1>4 DEF WayOrder
  <2> QED
    BY <1>4, <2>1, <2>2, <2>3, <2>4, <2>5 DEF WayOrder
<1>9. Stamped(r)
  BY <1>0, <1>4, StampedSame
<1>10. s.held < f
  BY <1>0, <1>3 DEF WayOrder
<1>11. \A i \in 1..Len(Taken(r)) : Taken(r)[i].frame < f
  BY <1>0, <1>2, <1>3, <1>5, <1>6, <1>10 DEF TakenOrder
<1>12. \A i, j \in 1..Len(Taken(r)) : i < j => Taken(r)[i].frame < Taken(r)[j].frame
  BY <1>0, <1>1, <1>5 DEF TakenOrder
<1>13. r.lost \subseteq 0..r.sent
  BY <1>0, <1>4 DEF Accounted
<1>14. ASSUME NEW x \in 1..r.sent
       PROVE  Present(r, x) \/ x = f
  <2>1. Present(s, x)
    BY <1>0, <1>4 DEF Accounted
  <2>2. CASE \E i \in 1..Len(s.net) : s.net[i] = x
    <3>1. PICK i \in 1..Len(s.net) : s.net[i] = x
      BY <2>2
    <3>2. CASE i = 1
      BY <1>3, <3>1, <3>2
    <3>3. CASE i # 1
      <4>1. i - 1 \in 1..Len(Tail(s.net)) /\ Tail(s.net)[i - 1] = x
        BY <1>3, <3>1, <3>3
      <4>2. i - 1 \in 1..Len(r.net) /\ r.net[i - 1] = x
        BY <1>4, <4>1
      <4> QED
        BY <4>2 DEF Present
    <3> QED
      BY <3>2, <3>3
  <2>3. CASE ~(\E i \in 1..Len(s.net) : s.net[i] = x)
    BY <1>4, <1>5, <2>1, <2>3 DEF Present
  <2> QED
    BY <2>2, <2>3
<1>15. \A i \in 1..Len(Taken(r)) : Taken(r)[i].frame <= f
  BY <1>3, <1>5, <1>6, <1>11
<1>16. Control(t) /\ WayOrder(t) /\ TakenOrder(t) /\ Accounted(t) /\ Stamped(t) /\ t \in GrpcType
  <2>1. t \in GrpcType
    BY <1>1, <1>3, <1>4, ReceivedFacts
  <2> QED
    BY <1>1, <1>3, <1>4, <1>7, <1>8, <1>9, <1>11, <1>12, <1>13, <1>14, <1>15, <2>1, ReceivedKeeps
<1>17. Lossless(t)
  <2> DEFINE it == [frame |-> f, pts |-> r.out]
  <2>1. /\ t.mode = r.mode /\ t.src = r.src /\ t.call = r.call /\ t.held = r.held
        /\ t.got = r.got /\ t.late = r.late
        /\ \/ t.lost = r.lost \cup {f} /\ t.items = r.items
              /\ (~r.src.started \/ ~r.configured \/ r.src.flushing)
           \/ t.lost = r.lost /\ t.items = Append(r.items, it)
    BY <1>1, <1>3, <1>4, ReceivedFacts
  <2>2. r.out \in Nat
    BY <1>4, GrpcTypes
  <2>3. f >= 1 /\ f \in Nat
    BY <1>2, <1>3, <1>10
  <2> SUFFICES ASSUME s.mode.sinkBlocks, s.mode.srcBlocks, ~s.mode.flat, ~s.mode.still,
                      s.call # "refused", s.src.stopping # "done"
               PROVE  \/ t.lost \subseteq t.late
                      \/ t.held >= 1 /\ \A i \in 1..Len(Taken(t)) : Taken(t)[i].frame # 1
    BY <1>4, <2>1 DEF Lossless
  <2>4. CASE t.lost = r.lost \cup {f} /\ t.items = r.items
              /\ (~r.src.started \/ ~r.configured \/ r.src.flushing)
    <3>1. Taken(t) = Taken(s)
      BY <1>4, <2>1, <2>4 DEF Taken
    <3>2. ~s.configured
      BY <1>0, <1>1, <1>4, <2>4 DEF Control
    <3>3. Taken(t) = << >>
      BY <1>0, <3>1, <3>2 DEF Control
    <3>4. Len(Taken(t)) = 0
      BY <3>3
    <3> QED
      BY <1>4, <2>1, <2>3, <3>4
  <2>5. CASE t.lost = r.lost /\ t.items = Append(r.items, it)
    <3>1. CASE s.lost \subseteq s.late
      BY <1>4, <2>1, <2>5, <3>1
    <3>2. CASE s.held >= 1 /\ \A i \in 1..Len(Taken(s)) : Taken(s)[i].frame # 1
      <4>1. it \in ItemType /\ it.frame = f
        BY <2>2, <2>3 DEF ItemType
      <4> HIDE DEF it
      <4>2. Taken(t) = Append(Taken(s), it)
        BY <1>4, <1>5, <1>16, <2>1, <2>5, <4>1, TakenAppend
      <4>3. Taken(s) \in Seq(ItemType)
        BY <1>0, TakenFacts
      <4>4. \A i \in 1..Len(Taken(t)) : Taken(t)[i].frame # 1
        <5> DEFINE a == Taken(s)
        <5>1. a \in Seq(ItemType) /\ \A i \in 1..Len(a) : a[i].frame # 1
          BY <3>2, <4>3
        <5> HIDE DEF a
        <5>2. \A i \in 1..Len(Append(a, it)) : Append(a, it)[i].frame # 1
          <6>1. /\ Len(Append(a, it)) = Len(a) + 1 /\ Len(a) \in Nat
                /\ Append(a, it)[Len(a) + 1] = it
                /\ \A i \in 1..Len(a) : Append(a, it)[i] = a[i]
            BY <4>1, <5>1
          <6>2. it.frame # 1
            BY <1>2, <1>3, <1>10, <3>2, <4>1
          <6> QED
            BY <5>1, <6>1, <6>2
        <5> QED
          BY <4>2, <5>2 DEF a
      <4> QED
        BY <1>4, <2>1, <2>3, <4>4
    <3> QED
      BY <1>0, <3>1, <3>2 DEF Lossless
  <2> QED
    BY <2>1, <2>4, <2>5
<1> QED
  BY <1>16, <1>17 DEF GrpcInv, DataInv, s, t

\* A Read has failed: a source that does not block takes the last buffer again.
LEMMA GrpcReadEndKeeps ==
  ASSUME GrpcInv, GrpcReadEnd
  PROVE  GrpcInv'
<1> DEFINE s == grpc  t == grpc'  f == s.held
           src == [s.src EXCEPT !.worker = "ended"]
           r == [grpc EXCEPT !.src.worker = "ended", !.call = "over"]
<1>0. /\ s \in GrpcType /\ Control(s) /\ WayOrder(s) /\ TakenOrder(s) /\ Accounted(s)
      /\ Stamped(s) /\ Lossless(s)
  BY DEF GrpcInv, DataInv
<1>1. /\ t = ReadEnded(r) /\ s.src.worker = "run" /\ s.call = "half"
  BY DEF GrpcReadEnd
<1>2. s.held \in Nat /\ src \in EndType /\ s.sent \in Nat
  BY <1>0, GrpcTypes DEF EndType
<1>3. /\ r \in GrpcType /\ r.sink = s.sink
      /\ r.src = src /\ r.mode = s.mode /\ r.configured = s.configured
      /\ r.queue = s.queue /\ r.call = "over" /\ r.net = s.net /\ r.held = s.held
      /\ r.out = s.out /\ r.items = s.items /\ r.eos = s.eos /\ r.sent = s.sent
      /\ r.got = s.got /\ r.late = s.late /\ r.lost = s.lost
  BY <1>0, <1>2, GrpcTypes DEF GrpcType
<1>4. /\ r.src.started = s.src.started /\ r.src.stop = s.src.stop
      /\ r.src.flushing = s.src.flushing /\ r.src.stopping = s.src.stopping
      /\ r.src.worker = "ended"
  BY <1>0, <1>3, GrpcTypes DEF EndType
<1>5. Taken(r) = Taken(s)
  BY <1>3 DEF Taken
<1> HIDE DEF s, t, f, src, r
<1>6. Control(r)
  BY <1>0, <1>1, <1>3, <1>4, <1>5 DEF Control, Fresh
<1>7. DataInv(r)
  <2>1. SameData(s, r)
    BY <1>3 DEF SameData
  <2> QED
    BY <1>0, <1>1, <1>3, <1>4, <2>1, DataSame DEF DataInv
<1>8. CASE s.mode.srcBlocks
  <2>1. t = r
    BY <1>1, <1>3, <1>8 DEF ReadEnded
  <2> QED
    BY <1>3, <1>6, <1>7, <2>1 DEF GrpcInv, t
<1>9. CASE ~s.mode.srcBlocks
  <2>1. t = Received(r, f) /\ r.held = f /\ f \in Nat
    BY <1>1, <1>2, <1>3, <1>9 DEF ReadEnded, f
  <2>2. t \in GrpcType /\ t.mode = r.mode
    BY <1>3, <2>1, ReceivedFacts
  <2>3. /\ \A i \in 1..Len(Taken(r)) : Taken(r)[i].frame <= f
        /\ \A i, j \in 1..Len(Taken(r)) : i < j => Taken(r)[i].frame < Taken(r)[j].frame
    BY <1>0, <1>1, <1>3, <1>5, <2>1 DEF TakenOrder
  <2>4. /\ r.lost \subseteq 0..r.sent
        /\ \A x \in 1..r.sent : Present(r, x)
    BY <1>7 DEF DataInv, Accounted
  <2>5. ~r.mode.srcBlocks /\ r.src.worker = "ended"
    BY <1>3, <1>4, <1>9
  <2>6. WayOrder(r) /\ Stamped(r)
    BY <1>7 DEF DataInv
  <2>7. Control(t) /\ WayOrder(t) /\ TakenOrder(t) /\ Accounted(t) /\ Stamped(t)
    BY <1>3, <1>6, <2>1, <2>2, <2>3, <2>4, <2>5, <2>6, ReceivedKeeps
  <2>8. Lossless(t)
    BY <1>3, <1>9, <2>2 DEF Lossless
  <2> QED
    BY <2>2, <2>7, <2>8 DEF GrpcInv, DataInv, t
<1> QED
  BY <1>8, <1>9

-----------------------------------------------------------------------------
\* The streaming thread takes the first of the queue: it hands it on, or loses it when
\* the stream has ended.
LEMMA TailTaken ==
  ASSUME NEW g \in Seq(ItemType), NEW q \in Seq(ItemType), q # << >>
  PROVE  /\ Head(q) \in ItemType /\ Tail(q) \in Seq(ItemType) /\ Len(q) \in Nat \ {0}
         /\ Append(g, Head(q)) \in Seq(ItemType)
         /\ Append(g, Head(q)) \o Tail(q) = g \o q
         /\ Len(g \o Tail(q)) = Len(g \o q) - 1 /\ Len(g \o q) = Len(g) + Len(q)
         /\ Len(g) \in Nat
         /\ (g \o q)[Len(g) + 1] = Head(q)
         /\ \A i \in 1..Len(g) : (g \o Tail(q))[i] = (g \o q)[i]
         /\ \A i \in (Len(g) + 1)..Len(g \o Tail(q)) : (g \o Tail(q))[i] = (g \o q)[i + 1]
<1> DEFINE h == Head(q)  r == Tail(q)
<1>1. /\ h \in ItemType /\ r \in Seq(ItemType) /\ q = <<h>> \o r /\ Len(q) \in Nat \ {0}
      /\ Len(r) = Len(q) - 1 /\ h = q[1] /\ \A i \in 1..Len(r) : r[i] = q[i + 1]
  OBVIOUS
<1> HIDE DEF h, r
<1>2. Append(g, h) \in Seq(ItemType) /\ Append(g, h) \o r = g \o (<<h>> \o r)
  BY <1>1
<1>3. /\ Len(g \o r) = Len(g) + Len(r) /\ Len(g \o q) = Len(g) + Len(q) /\ Len(g) \in Nat
      /\ (g \o q)[Len(g) + 1] = q[1]
      /\ \A i \in 1..Len(g) : (g \o r)[i] = g[i] /\ (g \o q)[i] = g[i]
      /\ \A i \in (Len(g) + 1)..(Len(g) + Len(r)) :
           (g \o r)[i] = r[i - Len(g)] /\ (g \o q)[i + 1] = q[i + 1 - Len(g)]
  BY <1>1
<1>4. \A i \in (Len(g) + 1)..(Len(g) + Len(r)) : r[i - Len(g)] = q[i + 1 - Len(g)]
  BY <1>1, <1>3
<1> QED
  BY <1>1, <1>2, <1>3, <1>4 DEF h, r

\* It keeps the order, the time stamps and the account.
LEMMA GrpcCreateKeeps ==
  ASSUME GrpcInv, GrpcCreate
  PROVE  GrpcInv'
<1> DEFINE s == grpc  t == grpc'  h == Head(s.items)  g == s.got  q == s.items
           got == IF s.eos THEN g ELSE Append(g, h)
           lost == IF s.eos THEN s.lost \cup {h.frame} ELSE s.lost
<1>0. /\ s \in GrpcType /\ Control(s) /\ WayOrder(s) /\ TakenOrder(s) /\ Accounted(s)
      /\ Stamped(s) /\ Lossless(s)
  BY DEF GrpcInv, DataInv
<1>1. /\ grpc' = [grpc EXCEPT !.items = Tail(@), !.got = got, !.lost = lost]
      /\ q # << >>
  BY DEF GrpcCreate
<1>2. /\ g \in Seq(ItemType) /\ q \in Seq(ItemType) /\ s.lost \subseteq Nat /\ s.sent \in Nat
      /\ s.held \in Nat /\ s.mode.still \in BOOLEAN /\ s.eos \in BOOLEAN
  BY <1>0, GrpcTypes
<1>3. /\ h \in ItemType /\ Tail(q) \in Seq(ItemType) /\ Len(q) \in Nat \ {0}
      /\ Append(g, h) \in Seq(ItemType)
      /\ Append(g, h) \o Tail(q) = g \o q
      /\ Len(g \o Tail(q)) = Len(g \o q) - 1 /\ Len(g \o q) = Len(g) + Len(q)
      /\ Len(g) \in Nat
      /\ (g \o q)[Len(g) + 1] = h
      /\ \A i \in 1..Len(g) : (g \o Tail(q))[i] = (g \o q)[i]
      /\ \A i \in (Len(g) + 1)..Len(g \o Tail(q)) : (g \o Tail(q))[i] = (g \o q)[i + 1]
  <2> HIDE DEF g, q
  <2> QED
    BY <1>1, <1>2, TailTaken DEF q
<1>4. got \in Seq(ItemType) /\ lost \in SUBSET Nat
  BY <1>2, <1>3 DEF ItemType
<1>5. /\ t \in GrpcType /\ t.mode = s.mode /\ t.sink = s.sink /\ t.src = s.src
      /\ t.configured = s.configured /\ t.queue = s.queue /\ t.call = s.call
      /\ t.net = s.net /\ t.held = s.held /\ t.out = s.out /\ t.items = Tail(q)
      /\ t.eos = s.eos /\ t.sent = s.sent /\ t.got = got /\ t.lost = lost
      /\ t.late = s.late
  BY <1>0, <1>1, <1>3, <1>4 DEF GrpcType
<1>6. Taken(s) = g \o q /\ Len(Taken(s)) > 0
  <2>1. Taken(s) = g \o q
    BY DEF Taken
  <2>2. Len(g \o q) > 0
    <3> HIDE DEF g, q, h
    <3> QED
      BY <1>3
  <2> QED
    BY <2>1, <2>2
<1>7. s.configured
  <2>1. Taken(s) # << >>
    <3> HIDE DEF g, q
    <3> QED
      BY <1>6
  <2> QED
    BY <1>0, <2>1 DEF Control
<1>8. WayOrder(t) /\ Control(t)
  <2> HIDE DEF s, t
  <2>1. WayOrder(t)
    BY <1>0, <1>5 DEF WayOrder
  <2>2. Control(t)
    BY <1>0, <1>5, <1>7 DEF Control
  <2> QED
    BY <2>1, <2>2
<1>9. CASE ~s.eos
  <2>1. Taken(t) = Taken(s) /\ t.lost = s.lost
    BY <1>3, <1>5, <1>6, <1>9 DEF Taken
  <2> HIDE DEF s, t
  <2>2. TakenOrder(t)
    BY <1>0, <1>5, <2>1, TakenSame
  <2>3. Accounted(t)
    BY <1>0, <1>5, <2>1 DEF Accounted, Present
  <2>4. Stamped(t)
    BY <1>0, <1>5, <1>9, <2>1 DEF Stamped
  <2>5. Lossless(t)
    BY <1>0, <1>5, <2>1 DEF Lossless
  <2> QED
    BY <1>5, <1>8, <2>2, <2>3, <2>4, <2>5 DEF GrpcInv, DataInv, s, t
<1>10. CASE s.eos
  <2> DEFINE a == Taken(s)  b == Taken(t)  n == Len(g)
  <2>1. b = g \o Tail(q) /\ t.lost = s.lost \cup {h.frame}
    BY <1>5, <1>10 DEF Taken
  <2>2. /\ Len(b) = Len(a) - 1 /\ n < Len(a) /\ Len(a) \in Nat /\ n \in Nat
        /\ a[n + 1] = h
        /\ \A i \in 1..n : b[i] = a[i]
        /\ \A i \in (n + 1)..Len(b) : b[i] = a[i + 1]
    <3>1. a = g \o q
      BY <1>6
    <3> HIDE DEF a, b, n, h, g, q, s, t
    <3>2. n = Len(g)
      BY DEF n
    <3>3. /\ Len(b) = Len(a) - 1 /\ n < Len(a) /\ Len(a) \in Nat /\ n \in Nat
          /\ a[n + 1] = h
      BY <1>3, <2>1, <3>1, <3>2
    <3>4. \A i \in 1..n : b[i] = a[i]
      BY <1>3, <2>1, <3>1, <3>2
    <3>5. \A i \in (n + 1)..Len(b) : b[i] = a[i + 1]
      BY <1>3, <2>1, <3>1, <3>2
    <3> QED
      BY <3>3, <3>4, <3>5
  <2>3. s.mode.still
    BY <1>0, <1>1, <1>10 DEF Stamped
  <2>4. \A i \in 1..Len(a) : a[i].frame \in Nat
    BY <1>0, TakenFacts
  <2>d. /\ h.frame \in Nat
        /\ \A i \in 1..Len(a) : a[i].frame <= s.held
        /\ \A i, j \in 1..Len(a) : i < j =>
             \/ a[i].frame < a[j].frame
             \/ a[i].frame = a[j].frame /\ j = Len(a) /\ ~s.mode.srcBlocks
                /\ s.src.worker = "ended"
    BY <1>0, <1>3 DEF TakenOrder, ItemType
  <2>e. /\ t.mode = s.mode /\ t.src = s.src /\ t.held = s.held /\ t.sent = s.sent
        /\ t.queue = s.queue /\ t.net = s.net
    BY <1>5
  <2> HIDE DEF a, b, n, h, g, q, s, t
  <2>5. TakenOrder(t)
    <3>1. \A i \in 1..Len(b) : b[i].frame <= t.held
      BY <2>2, <2>d, <2>e
    <3>2. ASSUME NEW i \in 1..Len(b), NEW j \in 1..Len(b), i < j
          PROVE  \/ b[i].frame < b[j].frame
                 \/ /\ b[i].frame = b[j].frame /\ j = Len(b)
                    /\ ~t.mode.srcBlocks /\ t.src.worker = "ended"
      <4>1. PICK k \in 1..Len(a) : b[i] = a[k] /\ k = IF i <= n THEN i ELSE i + 1
        BY <2>2
      <4>2. PICK l \in 1..Len(a) : b[j] = a[l] /\ l = IF j <= n THEN j ELSE j + 1
        BY <2>2
      <4>3. k < l /\ (l = Len(a) => j = Len(b))
        BY SMTT(30), <2>2, <3>2, <4>1, <4>2
      <4> QED
        BY <2>d, <2>e, <4>1, <4>2, <4>3
    <3> QED
      BY <3>1, <3>2 DEF TakenOrder, b
  <2>6. Accounted(t)
    <3>1. h.frame \in 0..s.sent
      <4>1. h.frame <= s.held
        BY <2>2, <2>d
      <4> QED
        BY <1>0, <1>2, <2>d, <4>1 DEF WayOrder
    <3>2. t.lost \subseteq 0..t.sent
      BY <1>0, <2>1, <2>e, <3>1 DEF Accounted
    <3>3. ASSUME NEW x \in 1..t.sent
          PROVE  Present(t, x)
      <4>1. Present(s, x)
        BY <1>0, <2>e DEF Accounted
      <4>2. CASE \E i \in 1..Len(a) : a[i].frame = x
        <5>1. PICK i \in 1..Len(a) : a[i].frame = x
          BY <4>2
        <5>2. CASE i = n + 1
          BY <2>1, <2>2, <5>1, <5>2 DEF Present
        <5>3. CASE i < n + 1
          <6>1. i \in 1..Len(b) /\ b[i].frame = x
            BY <2>2, <5>1, <5>3
          <6> QED
            BY <6>1 DEF Present, b
        <5>4. CASE i > n + 1
          <6>1. i - 1 \in 1..Len(b) /\ b[i - 1].frame = x
            BY <2>2, <5>1, <5>4
          <6> QED
            BY <6>1 DEF Present, b
        <5> QED
          BY <2>2, <5>2, <5>3, <5>4
      <4>3. CASE ~(\E i \in 1..Len(a) : a[i].frame = x)
        BY <2>1, <2>e, <4>1, <4>3 DEF Present, a
      <4> QED
        BY <4>2, <4>3
    <3> QED
      BY <3>2, <3>3 DEF Accounted
  <2>7. Stamped(t) /\ Lossless(t)
    BY <2>3, <2>e DEF Stamped, Lossless
  <2> QED
    BY <1>5, <1>8, <2>5, <2>6, <2>7 DEF GrpcInv, DataInv, s, t
<1> QED
  BY <1>9, <1>10

\* The source stops: what it has not handed on is lost.
LEMMA GrpcSrcJoinedKeeps ==
  ASSUME GrpcInv, GrpcSrcJoined
  PROVE  GrpcInv'
<1> DEFINE s == grpc  t == grpc'  g == s.got  q == s.items
           frames == {q[i].frame : i \in DOMAIN q}
           src == [s.src EXCEPT !.stopping = "done", !.flushing = TRUE, !.started = FALSE]
<1>0. /\ s \in GrpcType /\ Control(s) /\ WayOrder(s) /\ TakenOrder(s) /\ Accounted(s)
      /\ Stamped(s) /\ Lossless(s)
  BY DEF GrpcInv, DataInv
<1>1. /\ grpc' = [grpc EXCEPT !.src.stopping = "done", !.src.flushing = TRUE,
                              !.src.started = FALSE, !.eos = TRUE, !.items = << >>,
                              !.lost = @ \cup frames]
      /\ s.src.worker \in {"none", "ended"}
  BY DEF GrpcSrcJoined
<1>2. /\ g \in Seq(ItemType) /\ q \in Seq(ItemType) /\ s.lost \subseteq Nat /\ s.sent \in Nat
      /\ s.held \in Nat
  BY <1>0, GrpcTypes
<1>3. frames \subseteq Nat /\ src \in EndType /\ << >> \in Seq(ItemType)
      /\ DOMAIN q = 1..Len(q) /\ Len(q) \in Nat /\ Len(g) \in Nat
  <2>1. src \in EndType
    BY <1>0, GrpcTypes DEF EndType
  <2>2. /\ DOMAIN q = 1..Len(q) /\ Len(q) \in Nat /\ Len(g) \in Nat
        /\ << >> \in Seq(ItemType) /\ \A i \in DOMAIN q : q[i] \in ItemType
    <3> HIDE DEF g, q
    <3> QED
      BY <1>2
  <2>3. frames \subseteq Nat
    BY <2>2 DEF ItemType
  <2> QED
    BY <2>1, <2>2, <2>3
<1>4. /\ t \in GrpcType /\ t.mode = s.mode /\ t.sink = s.sink /\ t.src = src
      /\ t.configured = s.configured /\ t.queue = s.queue /\ t.call = s.call
      /\ t.net = s.net /\ t.held = s.held /\ t.out = s.out /\ t.items = << >>
      /\ t.eos = TRUE /\ t.sent = s.sent /\ t.got = g /\ t.lost = s.lost \cup frames
      /\ t.late = s.late
  <2> DEFINE lost == s.lost \cup frames
  <2>1. lost \subseteq Nat /\ s \in GrpcType
    BY <1>0, <1>2, <1>3
  <2>2. t = [s EXCEPT !.src = src, !.eos = TRUE, !.items = << >>, !.lost = lost]
    BY <1>0, <1>1 DEF GrpcType
  <2> HIDE DEF lost, frames, src, g, q, s, t
  <2>3. t \in GrpcType
    BY <1>3, <2>1, <2>2 DEF GrpcType
  <2>4. /\ t.mode = s.mode /\ t.sink = s.sink /\ t.src = src
        /\ t.configured = s.configured /\ t.queue = s.queue /\ t.call = s.call
        /\ t.net = s.net /\ t.held = s.held /\ t.out = s.out /\ t.items = << >>
        /\ t.eos = TRUE /\ t.sent = s.sent /\ t.got = s.got /\ t.lost = lost
        /\ t.late = s.late
    BY <2>1, <2>2 DEF GrpcType
  <2> QED
    BY <2>3, <2>4 DEF lost, g
<1>5. /\ t.src.started = FALSE /\ t.src.flushing = TRUE /\ t.src.stopping = "done"
      /\ t.src.worker = s.src.worker
  BY <1>0, <1>4, GrpcTypes DEF EndType
<1> DEFINE a == Taken(s)  b == Taken(t)
<1>6. b = g
  BY <1>2, <1>4, ConcatEmptySeq DEF Taken
<1>7. /\ Len(a) = Len(g) + Len(q) /\ \A i \in 1..Len(g) : a[i] = g[i]
      /\ \A i \in 1..Len(q) : a[Len(g) + i] = q[i]
      /\ \A i \in 1..Len(a) : a[i].frame \in Nat
  BY <1>0, TakenFacts
<1>8. /\ frames \subseteq Nat
      /\ \A x \in frames : \E i \in 1..Len(q) : q[i].frame = x
      /\ \A i \in 1..Len(q) : q[i].frame \in frames
  BY <1>3
<1> HIDE DEF s, t, g, q, a, b, frames, src
<1>9. WayOrder(t)
  BY <1>0, <1>4 DEF WayOrder
<1>10. Control(t)
  <2>1. ~t.configured => b = << >>
    <3>1. ~s.configured => Len(a) = 0
      BY <1>0 DEF Control, a
    <3>2. ~t.configured => Len(g) = 0
      BY <1>3, <1>4, <1>7, <3>1
    <3>3. Len(g) = 0 => g = << >>
      BY <1>2
    <3> QED
      BY <1>6, <3>2, <3>3
  <2>2. /\ t.mode = s.mode /\ t.sink = s.sink /\ t.call = s.call /\ t.queue = s.queue
        /\ t.late = s.late
    BY <1>4
  <2> QED
    BY <1>0, <1>1, <1>5, <2>1, <2>2 DEF Control, Fresh, b
<1>11. TakenOrder(t)
  <2>1. /\ \A i \in 1..Len(a) : a[i].frame <= s.held
        /\ \A i, j \in 1..Len(a) : i < j =>
             \/ a[i].frame < a[j].frame
             \/ a[i].frame = a[j].frame /\ j = Len(a) /\ ~s.mode.srcBlocks
                /\ s.src.worker = "ended"
    BY <1>0 DEF TakenOrder, a
  <2>2. \A i \in 1..Len(b) : b[i].frame <= t.held
    BY <1>3, <1>4, <1>6, <1>7, <2>1
  <2>3. ASSUME NEW i \in 1..Len(b), NEW j \in 1..Len(b), i < j
        PROVE  \/ b[i].frame < b[j].frame
               \/ /\ b[i].frame = b[j].frame /\ j = Len(b)
                  /\ ~t.mode.srcBlocks /\ t.src.worker = "ended"
    <3>1. /\ i \in 1..Len(a) /\ j \in 1..Len(a) /\ b[i] = a[i] /\ b[j] = a[j]
          /\ (j = Len(a) => j = Len(b))
      BY <1>3, <1>6, <1>7
    <3> QED
      BY <1>4, <1>5, <2>1, <2>3, <3>1
  <2> QED
    BY <2>2, <2>3 DEF TakenOrder, b
<1>12. Accounted(t)
  <2>1. ASSUME NEW x \in frames
        PROVE  x \in 0..s.sent
    <3>1. PICK i \in 1..Len(q) : q[i].frame = x
      BY <1>8
    <3>2. Len(g) + i \in 1..Len(a) /\ a[Len(g) + i].frame = x
      BY <1>3, <1>7, <3>1
    <3>3. x \in Nat /\ x <= s.held /\ s.held <= s.sent
      BY <1>0, <1>7, <3>2 DEF TakenOrder, WayOrder, a
    <3> QED
      BY <1>2, <3>3
  <2>2. t.lost \subseteq 0..t.sent
    BY <1>0, <1>4, <2>1 DEF Accounted
  <2>3. ASSUME NEW x \in 1..t.sent
        PROVE  Present(t, x)
    <3>1. Present(s, x)
      BY <1>0, <1>4 DEF Accounted
    <3>2. CASE \E i \in 1..Len(a) : a[i].frame = x
      <4>1. PICK i \in 1..Len(a) : a[i].frame = x
        BY <3>2
      <4>2. CASE i <= Len(g)
        <5>1. i \in 1..Len(b) /\ b[i].frame = x
          BY <1>3, <1>6, <1>7, <4>1, <4>2
        <5> QED
          BY <5>1 DEF Present, b
      <4>3. CASE i > Len(g)
        <5>1. i - Len(g) \in 1..Len(q) /\ a[Len(g) + (i - Len(g))] = a[i]
          BY <1>3, <1>7, <4>1, <4>3
        <5>2. q[i - Len(g)].frame = x
          BY <1>7, <4>1, <5>1
        <5>3. x \in t.lost
          BY <1>4, <1>8, <5>1, <5>2
        <5> QED
          BY <5>3 DEF Present
      <4> QED
        BY <1>3, <4>2, <4>3
    <3>3. CASE ~(\E i \in 1..Len(a) : a[i].frame = x)
      BY <1>4, <3>1, <3>3 DEF Present, a
    <3> QED
      BY <3>2, <3>3
  <2> QED
    BY <2>2, <2>3 DEF Accounted
<1>13. Stamped(t)
  <2>1. ~s.mode.still => \A i \in 1..Len(a) : a[i].pts = i - 1
    BY <1>0 DEF Stamped, a
  <2>2. ~t.mode.still => \A i \in 1..Len(b) : b[i].pts = i - 1
    BY <1>3, <1>4, <1>6, <1>7, <2>1
  <2> QED
    BY <1>4, <1>5, <2>2 DEF Stamped, b
<1>14. Lossless(t)
  BY <1>5 DEF Lossless
<1> QED
  BY <1>4, <1>9, <1>10, <1>11, <1>12, <1>13, <1>14 DEF GrpcInv, DataInv, t

-----------------------------------------------------------------------------
\* Two elements that were not started, and an empty stream between them.
LEMMA GrpcInitInv ==
  ASSUME GrpcInit
  PROVE  GrpcInv
<1>1. PICK m \in GrpcModes :
        grpc = [mode |-> m, sink |-> GrpcEnd, src |-> GrpcEnd, configured |-> FALSE,
                queue |-> << >>, call |-> "none", net |-> << >>, held |-> 0, out |-> 0,
                items |-> << >>, eos |-> FALSE, sent |-> 0, got |-> << >>, late |-> {},
                lost |-> {}]
  BY DEF GrpcInit
<1>2. GrpcEnd \in EndType
  BY DEF GrpcEnd, EndType
<1>3. /\ grpc \in GrpcType /\ grpc.sink = GrpcEnd /\ grpc.src = GrpcEnd
      /\ grpc.queue = << >> /\ grpc.call = "none" /\ grpc.net = << >> /\ grpc.held = 0
      /\ grpc.out = 0 /\ grpc.items = << >> /\ grpc.eos = FALSE /\ grpc.sent = 0
      /\ grpc.got = << >> /\ grpc.lost = {} /\ grpc.mode = m
  BY <1>1, <1>2 DEF GrpcType
<1>4. Taken(grpc) = << >>
  <2>1. << >> \o << >> = << >>
    OBVIOUS
  <2> QED
    BY <1>3, <2>1 DEF Taken
<1>5. Len(<< >>) = 0 /\ 1..0 = {}
  OBVIOUS
<1>6. /\ grpc.sink.started = FALSE /\ grpc.sink.stop = FALSE /\ grpc.sink.flushing = FALSE
      /\ grpc.sink.stopping = "no" /\ grpc.sink.worker = "none"
      /\ grpc.src.started = FALSE /\ grpc.src.stop = FALSE /\ grpc.src.flushing = FALSE
      /\ grpc.src.stopping = "no" /\ grpc.src.worker = "none"
  BY <1>3 DEF GrpcEnd
<1>7. Control(grpc)
  BY <1>3, <1>4, <1>5, <1>6 DEF Control, Fresh
<1>8. WayOrder(grpc)
  BY <1>3, <1>5 DEF WayOrder, Increasing
<1>9. TakenOrder(grpc)
  BY <1>4, <1>5 DEF TakenOrder
<1>10. Accounted(grpc)
  BY <1>3, <1>5 DEF Accounted
<1>11. Stamped(grpc)
  BY <1>3, <1>4, <1>5 DEF Stamped
<1>12. Lossless(grpc)
  BY <1>3 DEF Lossless
<1> QED
  BY <1>3, <1>7, <1>8, <1>9, <1>10, <1>11, <1>12 DEF GrpcInv, DataInv

\* Every action keeps the invariant.
LEMMA GrpcStep ==
  ASSUME GrpcInv, GrpcNext
  PROVE  GrpcInv'
<1>1. ASSUME GrpcWork
      PROVE  GrpcInv'
  BY <1>1, GrpcCallKeeps, GrpcRefusedKeeps, GrpcSinkLoopKeeps, GrpcWriteKeeps,
     GrpcWriteEndKeeps, GrpcFlatEndKeeps, GrpcFinishedKeeps, GrpcReadKeeps,
     GrpcReadEndKeeps, GrpcSrcLoopKeeps DEF GrpcWork
<1>2. ASSUME GrpcStopping
      PROVE  GrpcInv'
  BY <1>2, GrpcSinkDrainedKeeps, GrpcSinkFlushKeeps, GrpcSinkJoinedKeeps,
     GrpcSrcJoinedKeeps DEF GrpcStopping
<1> QED
  BY <1>1, <1>2, GrpcSinkStartKeeps, GrpcSrcStartKeeps, GrpcSetCapsKeeps,
     GrpcRenderKeeps, GrpcCreateKeeps, GrpcSinkUnlockKeeps, GrpcSrcUnlockKeeps
     DEF GrpcNext

\* Three queues one after the other, as one sequence.
LEMMA ThreeParts ==
  ASSUME NEW a \in Seq(Nat), NEW b \in Seq(Nat), NEW c \in Seq(Nat)
  PROVE  /\ a \o b \o c \in Seq(Nat)
         /\ Len(a \o b \o c) = Len(a) + Len(b) + Len(c)
         /\ Len(a) \in Nat /\ Len(b) \in Nat /\ Len(c) \in Nat
         /\ \A i \in 1..Len(a) : (a \o b \o c)[i] = a[i]
         /\ \A i \in 1..Len(b) : (a \o b \o c)[Len(a) + i] = b[i]
         /\ \A i \in 1..Len(c) : (a \o b \o c)[Len(a) + Len(b) + i] = c[i]
<1> DEFINE d == a \o b
<1>1. /\ d \in Seq(Nat) /\ Len(d) = Len(a) + Len(b)
      /\ \A i \in 1..Len(a) : d[i] = a[i]
      /\ \A i \in 1..Len(b) : d[Len(a) + i] = b[i]
      /\ Len(a) \in Nat /\ Len(b) \in Nat /\ Len(c) \in Nat
  OBVIOUS
<1> HIDE DEF d
<1>2. /\ d \o c \in Seq(Nat) /\ Len(d \o c) = Len(d) + Len(c)
      /\ \A i \in 1..Len(d) : (d \o c)[i] = d[i]
      /\ \A i \in 1..Len(c) : (d \o c)[Len(d) + i] = c[i]
  <2>1. d \in Seq(Nat)
    BY <1>1
  <2> QED
    BY <2>1
<1>3. /\ \A i \in 1..Len(a) : i \in 1..Len(d)
      /\ \A i \in 1..Len(b) : Len(a) + i \in 1..Len(d)
  BY <1>1
<1> QED
  BY <1>1, <1>2, <1>3 DEF d

\* Taken, on its way and queued, in this order, are all buffers that are not lost, and
\* they grow.
LEMMA GrpcInOrderHolds ==
  ASSUME GrpcInv, grpc # Absent
  PROVE  GrpcInOrder
<1> DEFINE s == grpc  k == Taken(s)  f == Frames(k)  n == s.net  q == s.queue
           all == f \o n \o q
<1>0. s \in GrpcType /\ WayOrder(s) /\ TakenOrder(s) /\ Accounted(s)
  BY DEF GrpcInv, DataInv
<1>1. /\ n \in Seq(Nat) /\ q \in Seq(Nat) /\ s.held \in Nat /\ s.sent \in Nat
  BY <1>0, GrpcTypes
<1>2. /\ k \in Seq(ItemType) /\ Len(k) \in Nat
      /\ \A i \in 1..Len(k) : k[i].frame \in Nat
  BY <1>0, TakenFacts
<1>3. /\ f \in Seq(Nat) /\ Len(f) = Len(k) /\ \A i \in 1..Len(k) : f[i] = k[i].frame
  <2> HIDE DEF k
  <2>1. DOMAIN k = 1..Len(k)
    BY <1>2
  <2>2. f = [i \in 1..Len(k) |-> k[i].frame]
    BY <2>1 DEF Frames
  <2> QED
    BY <1>2, <2>2
<1>4. /\ all \in Seq(Nat) /\ Len(all) = Len(f) + Len(n) + Len(q)
      /\ Len(f) \in Nat /\ Len(n) \in Nat /\ Len(q) \in Nat
      /\ \A i \in 1..Len(f) : all[i] = f[i]
      /\ \A i \in 1..Len(n) : all[Len(f) + i] = n[i]
      /\ \A i \in 1..Len(q) : all[Len(f) + Len(n) + i] = q[i]
  <2> HIDE DEF f, n, q
  <2> QED
    BY ZenonT(40), <1>1, <1>3, ThreeParts
<1>5. /\ s.held <= s.sent /\ Increasing(n) /\ Increasing(q)
      /\ \A i \in 1..Len(n) : s.held < n[i] /\ n[i] <= s.sent
      /\ \A j \in 1..Len(q) : s.held < q[j] /\ q[j] <= s.sent
      /\ \A i \in 1..Len(n), j \in 1..Len(q) : n[i] < q[j]
  BY <1>0 DEF WayOrder
<1>6. /\ \A i \in 1..Len(k) : k[i].frame <= s.held
      /\ \A i, j \in 1..Len(k) : i < j =>
           \/ k[i].frame < k[j].frame
           \/ k[i].frame = k[j].frame /\ j = Len(k) /\ ~s.mode.srcBlocks
              /\ s.src.worker = "ended"
  BY <1>0 DEF TakenOrder
<1>7. /\ s.lost \subseteq 0..s.sent
      /\ \A x \in 1..s.sent : \/ x \in s.lost
                              \/ \E i \in 1..Len(q) : q[i] = x
                              \/ \E i \in 1..Len(n) : n[i] = x
                              \/ \E i \in 1..Len(k) : k[i].frame = x
  BY <1>0 DEF Accounted, Present
<1>8. InFlight = k
  BY DEF InFlight, Taken
<1>9. ToSet(all) = {all[i] : i \in 1..Len(all)}
  <2> HIDE DEF all
  <2>1. DOMAIN all = 1..Len(all)
    BY <1>4
  <2> QED
    BY <2>1 DEF ToSet
<1> HIDE DEF s, k, f, n, q, all
<1>10. \A i \in 1..Len(all) : all[i] \in 0..s.sent
  <2>1. SUFFICES ASSUME NEW i \in 1..Len(all)
                 PROVE  all[i] \in 0..s.sent
    OBVIOUS
  <2>2. CASE i <= Len(f)
    <3>1. i \in 1..Len(k) /\ all[i] = k[i].frame
      BY <1>3, <1>4, <2>2
    <3> QED
      BY <1>1, <1>2, <1>5, <1>6, <3>1
  <2>3. CASE i > Len(f) /\ i <= Len(f) + Len(n)
    <3>1. i - Len(f) \in 1..Len(n) /\ all[i] = n[i - Len(f)]
      <4>1. i - Len(f) \in 1..Len(n) /\ Len(f) + (i - Len(f)) = i
        BY <1>4, <2>3
      <4> QED
        BY <1>4, <4>1
    <3> QED
      BY <1>1, <1>5, <3>1
  <2>4. CASE i > Len(f) + Len(n)
    <3>1. /\ i - Len(f) - Len(n) \in 1..Len(q) /\ all[i] = q[i - Len(f) - Len(n)]
      <4>1. /\ i - Len(f) - Len(n) \in 1..Len(q)
            /\ Len(f) + Len(n) + (i - Len(f) - Len(n)) = i
        BY <1>4, <2>4
      <4> QED
        BY <1>4, <4>1
    <3> QED
      BY <1>1, <1>5, <3>1
  <2> QED
    BY <1>4, <2>2, <2>3, <2>4
<1>11. \A x \in 1..s.sent : x \in ToSet(all) \cup s.lost
  <2>1. SUFFICES ASSUME NEW x \in 1..s.sent, x \notin s.lost
                 PROVE  \E j \in 1..Len(all) : all[j] = x
    BY <1>9
  <2>2. CASE \E i \in 1..Len(q) : q[i] = x
    <3>1. PICK i \in 1..Len(q) : q[i] = x
      BY <2>2
    <3>2. /\ Len(f) + Len(n) + i \in 1..Len(all)
          /\ all[Len(f) + Len(n) + i] = x
      BY SMTT(30), <1>4, <3>1
    <3> QED
      BY <3>2
  <2>3. CASE \E i \in 1..Len(n) : n[i] = x
    <3>1. PICK i \in 1..Len(n) : n[i] = x
      BY <2>3
    <3>2. Len(f) + i \in 1..Len(all) /\ all[Len(f) + i] = x
      BY SMTT(30), <1>4, <3>1
    <3> QED
      BY <3>2
  <2>4. CASE \E i \in 1..Len(k) : k[i].frame = x
    <3>1. PICK i \in 1..Len(k) : k[i].frame = x
      BY <2>4
    <3>2. i \in 1..Len(all) /\ all[i] = x
      BY <1>3, <1>4, <3>1
    <3> QED
      BY <3>2
  <2> QED
    BY <1>7, <2>1, <2>2, <2>3, <2>4
<1>12. (ToSet(all) \cup s.lost) \ {0} = 1..s.sent
  <2>1. \A x \in ToSet(all) \cup s.lost : x \in 0..s.sent
    BY <1>7, <1>9, <1>10
  <2>2. \A x \in 0..s.sent : x # 0 => x \in 1..s.sent
    BY <1>1
  <2>3. 0 \notin 1..s.sent
    OBVIOUS
  <2> QED
    BY <1>11, <2>1, <2>2, <2>3
<1>13. ASSUME NEW i \in 1..Len(all), NEW j \in 1..Len(all), i < j
       PROVE  \/ all[i] < all[j]
              \/ /\ all[i] = all[j] /\ j = Len(k)
                 /\ ~s.mode.srcBlocks /\ s.src.worker = "ended"
  <2>1. i \in Nat /\ j \in Nat /\ i < j
    BY <1>4, <1>13
  <2>2. \A p \in 1..Len(all) :
          \/ p <= Len(f) /\ p \in 1..Len(k) /\ all[p] = k[p].frame
          \/ /\ p > Len(f) /\ p <= Len(f) + Len(n)
             /\ p - Len(f) \in 1..Len(n) /\ all[p] = n[p - Len(f)]
          \/ /\ p > Len(f) + Len(n)
             /\ p - Len(f) - Len(n) \in 1..Len(q) /\ all[p] = q[p - Len(f) - Len(n)]
    <3>1. SUFFICES ASSUME NEW p \in 1..Len(all)
                   PROVE  \/ p <= Len(f) /\ p \in 1..Len(k) /\ all[p] = k[p].frame
                          \/ /\ p > Len(f) /\ p <= Len(f) + Len(n)
                             /\ p - Len(f) \in 1..Len(n) /\ all[p] = n[p - Len(f)]
                          \/ /\ p > Len(f) + Len(n)
                             /\ p - Len(f) - Len(n) \in 1..Len(q)
                             /\ all[p] = q[p - Len(f) - Len(n)]
      OBVIOUS
    <3>2. CASE p <= Len(f)
      BY SMTT(30), <1>3, <1>4, <3>2
    <3>3. CASE p > Len(f) /\ p <= Len(f) + Len(n)
      <4>1. p - Len(f) \in 1..Len(n) /\ Len(f) + (p - Len(f)) = p
        BY <1>4, <3>3
      <4>2. all[p] = n[p - Len(f)]
        BY <1>4, <4>1
      <4> QED
        BY <3>3, <4>1, <4>2
    <3>4. CASE p > Len(f) + Len(n)
      <4>1. /\ p - Len(f) - Len(n) \in 1..Len(q)
            /\ Len(f) + Len(n) + (p - Len(f) - Len(n)) = p
        BY SMTT(30), <1>4, <3>4
      <4>2. all[p] = q[p - Len(f) - Len(n)]
        BY <1>4, <4>1
      <4> QED
        BY <3>4, <4>1, <4>2
    <3> QED
      BY SMTT(30), <1>4, <3>2, <3>3, <3>4
  <2>6. \/ i <= Len(f) /\ i \in 1..Len(k) /\ all[i] = k[i].frame
       \/ /\ i > Len(f) /\ i <= Len(f) + Len(n)
          /\ i - Len(f) \in 1..Len(n) /\ all[i] = n[i - Len(f)]
       \/ /\ i > Len(f) + Len(n)
          /\ i - Len(f) - Len(n) \in 1..Len(q) /\ all[i] = q[i - Len(f) - Len(n)]
    BY <2>2
  <2>7. \/ j <= Len(f) /\ j \in 1..Len(k) /\ all[j] = k[j].frame
       \/ /\ j > Len(f) /\ j <= Len(f) + Len(n)
          /\ j - Len(f) \in 1..Len(n) /\ all[j] = n[j - Len(f)]
       \/ /\ j > Len(f) + Len(n)
          /\ j - Len(f) - Len(n) \in 1..Len(q) /\ all[j] = q[j - Len(f) - Len(n)]
    BY <2>2
  <2>3. CASE j <= Len(f)
    <3>1. /\ i \in 1..Len(k) /\ j \in 1..Len(k)
          /\ all[i] = k[i].frame /\ all[j] = k[j].frame
      BY SMTT(30), <1>4, <2>1, <2>6, <2>7, <2>3
    <3> QED
      BY <1>6, <2>1, <3>1
  <2>4. CASE j > Len(f) /\ j <= Len(f) + Len(n)
    <3>1. j - Len(f) \in 1..Len(n) /\ all[j] = n[j - Len(f)]
      BY SMTT(30), <1>4, <2>1, <2>7, <2>4
    <3>2. CASE i <= Len(f)
      <4>1. i \in 1..Len(k) /\ all[i] = k[i].frame
        BY SMTT(30), <1>4, <2>1, <2>6, <3>2
      <4>2. /\ k[i].frame \in Nat /\ k[i].frame <= s.held
            /\ n[j - Len(f)] \in Nat /\ s.held < n[j - Len(f)]
        BY SMTT(30), <1>1, <1>2, <1>5, <1>6, <3>1, <4>1
      <4> QED
        BY SMTT(30), <1>1, <3>1, <4>1, <4>2
    <3>3. CASE i > Len(f)
      <4>1. i - Len(f) \in 1..Len(n) /\ all[i] = n[i - Len(f)]
        BY SMTT(30), <1>4, <2>1, <2>6, <2>4, <3>3
      <4>2. i - Len(f) < j - Len(f)
        BY <1>4, <2>1
      <4> QED
        BY SMTT(30), <1>5, <3>1, <4>1, <4>2 DEF Increasing
    <3> QED
      BY <1>4, <2>1, <3>2, <3>3
  <2>5. CASE j > Len(f) + Len(n)
    <3>1. j - Len(f) - Len(n) \in 1..Len(q) /\ all[j] = q[j - Len(f) - Len(n)]
      BY SMTT(30), <1>4, <2>1, <2>7, <2>5
    <3>2. CASE i <= Len(f)
      <4>1. i \in 1..Len(k) /\ all[i] = k[i].frame
        BY SMTT(30), <1>4, <2>1, <2>6, <3>2
      <4>2. /\ k[i].frame \in Nat /\ k[i].frame <= s.held
            /\ q[j - Len(f) - Len(n)] \in Nat /\ s.held < q[j - Len(f) - Len(n)]
        BY SMTT(30), <1>1, <1>2, <1>5, <1>6, <3>1, <4>1
      <4> QED
        BY SMTT(30), <1>1, <3>1, <4>1, <4>2
    <3>3. CASE i > Len(f) /\ i <= Len(f) + Len(n)
      <4>1. i - Len(f) \in 1..Len(n) /\ all[i] = n[i - Len(f)]
        BY <1>4, <2>1, <2>6, <3>3
      <4> QED
        BY <1>5, <3>1, <4>1
    <3>4. CASE i > Len(f) + Len(n)
      <4>1. i - Len(f) - Len(n) \in 1..Len(q) /\ all[i] = q[i - Len(f) - Len(n)]
        BY SMTT(30), <1>4, <2>1, <2>6, <3>4
      <4>2. i - Len(f) - Len(n) < j - Len(f) - Len(n)
        BY <1>4, <2>1
      <4> QED
        BY <1>5, <3>1, <4>1, <4>2 DEF Increasing
    <3> QED
      BY SMTT(30), <1>4, <2>1, <3>2, <3>3, <3>4
  <2> QED
    BY <1>4, <2>1, <2>3, <2>4, <2>5
<1>14. ASSUME NEW i \in 1..(Len(all) - 1)
       PROVE  \/ all[i] < all[i + 1]
              \/ /\ all[i] = all[i + 1] /\ i + 1 = Len(k)
                 /\ ~s.mode.srcBlocks /\ s.src.worker = "ended"
  <2>1. i \in 1..Len(all) /\ i + 1 \in 1..Len(all) /\ i < i + 1
    BY <1>4
  <2> QED
    BY <1>13, <2>1
<1> QED
  BY <1>8, <1>12, <1>14 DEF GrpcInOrder, s, k, f, n, q, all

\* The three parts of GrpcCorrect.
LEMMA GrpcHolds ==
  ASSUME GrpcInv, grpc # Absent
  PROVE  GrpcCorrect
<1>1. GrpcLossless
  <2> SUFFICES ASSUME grpc.mode.sinkBlocks, grpc.mode.srcBlocks, ~grpc.mode.flat,
                      ~grpc.mode.still, grpc.got # << >>, grpc.got[1].frame = 1,
                      grpc.call # "refused", grpc.src.stopping # "done"
               PROVE  grpc.lost \subseteq grpc.late
    BY DEF GrpcLossless
  <2>1. \/ grpc.lost \subseteq grpc.late
        \/ \A i \in 1..Len(Taken(grpc)) : Taken(grpc)[i].frame # 1
    BY DEF GrpcInv, DataInv, Lossless
  <2>2. 1 \in 1..Len(Taken(grpc)) /\ Taken(grpc)[1] = grpc.got[1]
    <3> DEFINE g == grpc.got
    <3>1. g \in Seq(ItemType) /\ g # << >>
      BY GrpcTypes DEF GrpcInv
    <3> HIDE DEF g
    <3>2. Len(g) \in Nat /\ Len(g) >= 1
      BY <3>1
    <3>3. /\ Len(Taken(grpc)) = Len(g) + Len(grpc.items) /\ Len(grpc.items) \in Nat
          /\ \A i \in 1..Len(g) : Taken(grpc)[i] = g[i]
      BY TakenFacts DEF GrpcInv, g
    <3>4. 1 \in 1..Len(Taken(grpc)) /\ Taken(grpc)[1] = g[1]
      BY <3>2, <3>3
    <3> QED
      BY <3>4 DEF g
  <2> QED
    BY <2>1, <2>2
<1>2. GrpcTimes
  <2>1. Taken(grpc) \in Seq(ItemType)
    BY TakenFacts DEF GrpcInv
  <2>2. DOMAIN Taken(grpc) = 1..Len(Taken(grpc))
    BY <2>1
  <2>3. InFlight = Taken(grpc)
    BY DEF InFlight, Taken
  <2> QED
    BY <2>2, <2>3 DEF GrpcTimes, GrpcInv, DataInv, Stamped
<1> QED
  BY <1>1, <1>2, GrpcInOrderHolds DEF GrpcCorrect

-----------------------------------------------------------------------------
\* From gst_tensor_sink_grpc_render to gst_tensor_src_grpc_create buffers stay in order,
\* are stamped one period apart and are lost only where the code knows it, whichever
\* element serves, whichever blocks, and however their threads, the call and the two
\* stops interleave.
THEOREM ServicesGrpc == ServicesSpec => []GrpcCorrect
<1> DEFINE I == grpc # Absent => GrpcInv
<1>1. ServicesInit => I
  BY GrpcInitInv DEF ServicesInit
<1>2. I /\ [ServicesNext]_vars => I'
  <2> SUFFICES ASSUME I, [ServicesNext]_vars, grpc' # Absent
               PROVE  GrpcInv'
    OBVIOUS
  <2>1. CASE grpc # Absent /\ GrpcNext
    BY <2>1, GrpcStep
  <2>2. CASE UNCHANGED grpc
    <3>1. grpc # Absent /\ GrpcInv
      BY <2>2
    <3> QED
      BY <2>2, <3>1 DEF GrpcInv
  <2> QED
    BY <2>1, <2>2 DEF ServicesNext, vars
<1>3. I => GrpcCorrect
  BY GrpcHolds DEF GrpcCorrect, GrpcInOrder, GrpcLossless, GrpcTimes
<1> QED
  BY <1>1, <1>2, <1>3, PTL DEF ServicesSpec
=============================================================================
