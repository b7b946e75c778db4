-------------------------- MODULE MmcRequestProofs --------------------------
(***************************************************************************)
(* Proofs about MmcRequest, for any requests, block sizes, limit of the    *)
(* DMA and numbers of retries: IInv is inductive, and gives the types, the *)
(* truth of good answers and the readiness of the card for each command;   *)
(* Driven is inductive with it, and gives that no request is forgotten.    *)
(* The lemmas of the first part are about one request: it is answered,     *)
(* kept, or has a command sent for it.                                     *)
(***************************************************************************)
EXTENDS MmcRequest, SequenceTheorems, TLAPS

\* No block has been moved.
LEMMA InOrderNone == InOrder(0) = <<>>
  BY DEF InOrder

\* Two sequences that agree with a third one, one after the other.
LEMMA Joined ==
    ASSUME NEW S, NEW s \in Seq(S), NEW b \in Seq(S), NEW t \in Seq(S),
           Len(t) = Len(s) + Len(b),
           \A i \in 1 .. Len(s) : t[i] = s[i],
           \A i \in 1 .. Len(b) : t[Len(s) + i] = b[i]
    PROVE  s \o b = t
<1>1. /\ s \o b \in Seq(S) /\ Len(s \o b) = Len(s) + Len(b)
      /\ \A i \in 1 .. Len(s) + Len(b) : (s \o b)[i] =
            IF i <= Len(s) THEN s[i] ELSE b[i - Len(s)]
  BY ConcatProperties
<1>2. Len(s) \in Nat /\ Len(b) \in Nat
  OBVIOUS
<1>3. ASSUME NEW i \in 1 .. Len(s \o b) PROVE (s \o b)[i] = t[i]
  <2>1. CASE i <= Len(s)
    BY <1>1, <1>2, <2>1
  <2>2. CASE i > Len(s)
    <3> DEFINE j == i - Len(s)
    <3>1. j \in 1 .. Len(b) /\ i = Len(s) + j
      BY <1>1, <1>2, <2>2
    <3>2. (s \o b)[i] = b[j]
      BY <1>1, <1>2, <2>2
    <3> QED BY <3>1, <3>2
  <2> QED BY <2>1, <2>2, <1>1, <1>2
<1> QED BY <1>1, <1>3, SeqEqual

\* The blocks of a command continue those before it.
LEMMA InOrderNext ==
    ASSUME NEW m \in Nat, NEW n \in Nat, NEW c, c.mem = m, c.blk = m, c.n = n
    PROVE  /\ InOrder(m) \o Blocks(c) = InOrder(m + n)
           /\ Blocks(c) \in Seq(Nat \X Nat)
<1>1. /\ InOrder(m) \in Seq(Nat \X Nat) /\ Len(InOrder(m)) = m
      /\ InOrder(m + n) \in Seq(Nat \X Nat) /\ Len(InOrder(m + n)) = m + n
  BY DEF InOrder
<1>2. Blocks(c) \in Seq(Nat \X Nat) /\ Len(Blocks(c)) = n
  BY DEF Blocks
<1>3. \A i \in 1 .. m : InOrder(m + n)[i] = InOrder(m)[i]
  BY DEF InOrder
<1>4. \A i \in 1 .. n : InOrder(m + n)[m + i] = Blocks(c)[i]
  <2> TAKE i \in 1 .. n
  <2>1. m + i \in 1 .. m + n
    OBVIOUS
  <2>2. InOrder(m + n)[m + i] = <<m + i - 1, m + i - 1>>
    BY <2>1 DEF InOrder
  <2>3. Blocks(c)[i] = <<m + i - 1, m + i - 1>>
    BY DEF Blocks
  <2> QED BY <2>2, <2>3
<1> HIDE DEF InOrder
<1>5. InOrder(m) \o Blocks(c) = InOrder(m + n)
  <2> DEFINE s == InOrder(m)  b == Blocks(c)  t == InOrder(m + n)
  <2>1. /\ s \in Seq(Nat \X Nat) /\ b \in Seq(Nat \X Nat) /\ t \in Seq(Nat \X Nat)
        /\ Len(s) = m /\ Len(b) = n /\ Len(t) = Len(s) + Len(b)
        /\ \A i \in 1 .. Len(s) : t[i] = s[i]
        /\ \A i \in 1 .. Len(b) : t[Len(s) + i] = b[i]
    BY <1>1, <1>2, <1>3, <1>4
  <2> HIDE DEF s, b, t
  <2>2. s \o b = t
    BY <2>1, Joined
  <2> QED BY <2>2 DEF s, b, t
<1> QED BY <1>2, <1>5

-----------------------------------------------------------------------------
Requests == Served /\ Ordered /\ GoodIsTrue

CcbType == ccb \in [Req -> [kind : Kinds, len : Nat, part : BOOLEAN, check : BOOLEAN,
                           status : {"new", "inprog", "good", "error"}]]

HwTypes == [cmd : {"none", "data", "stop", "other"}, req : Req \cup {None},
            status : {"idle", "busy", "ok", "err"}, mem : Nat, blk : Nat, n : Nat]

RequestTypes ==
    /\ CcbType /\ queue \in Seq(Req) /\ nexus \in Req \cup {None}
    /\ moved \in [Req -> Seq(Nat \X Nat)] /\ earlier \in [Req -> SUBSET Req]

FlagTypes ==
    /\ enq \in BOOLEAN /\ drv \in {"wait", "start"} /\ state \in {"idle", "ident", "data"}
    /\ ident \in {"none", "start", "probe", "final"} /\ ready \in BOOLEAN /\ resetting \in BOOLEAN
    /\ starter \in {"boot", "booting", "wait", "sent"}
    /\ stop \in {"none", "pend", "issued", "auto"} /\ acmd12 \in BOOLEAN
    /\ powered \in BOOLEAN /\ open \in BOOLEAN /\ overtaken \in BOOLEAN

CountTypes ==
    /\ probes \in 0 .. MaxProbes /\ count \in 0 .. PwrRetry /\ resets \in Nat
    /\ stops \in Nat /\ offset \in Nat /\ blkno \in Nat /\ hw \in HwTypes

\* The parts of the type invariant the provers can take one at a time.
LEMMA TypeParts ==
    /\ TypeOK => RequestTypes /\ FlagTypes /\ CountTypes
    /\ RequestTypes' /\ FlagTypes' /\ CountTypes' => TypeOK'
<1>1. TypeOK => RequestTypes /\ FlagTypes /\ CountTypes
  BY Zenon DEF TypeOK, RequestTypes, CcbType, FlagTypes, CountTypes, HwTypes
<1>2. RequestTypes' /\ FlagTypes' /\ CountTypes' => TypeOK'
  BY Zenon DEF TypeOK, RequestTypes, CcbType, FlagTypes, CountTypes, HwTypes
<1> QED BY <1>1, <1>2

\* A step that concerns only the pulses keeps the types of the flags.
LEMMA FlagsKept ==
    ASSUME FlagTypes, enq' \in BOOLEAN, drv' \in {"wait", "start"},
           state' = state, ident' = ident, ready' = ready, resetting' = resetting,
           starter' = starter, stop' = stop, acmd12' = acmd12, powered' = powered,
           open' = open, overtaken' = overtaken
    PROVE  FlagTypes'
<1>1. /\ state' \in {"idle", "ident", "data"} /\ ident' \in {"none", "start", "probe", "final"}
      /\ ready' \in BOOLEAN /\ resetting' \in BOOLEAN
      /\ starter' \in {"boot", "booting", "wait", "sent"}
  BY DEF FlagTypes
<1>2. /\ stop' \in {"none", "pend", "issued", "auto"} /\ acmd12' \in BOOLEAN
      /\ powered' \in BOOLEAN /\ open' \in BOOLEAN /\ overtaken' \in BOOLEAN
  BY DEF FlagTypes
<1> QED BY Zenon, <1>1, <1>2 DEF FlagTypes

\* An answer is true, if it is good.
MayAnswer(r, s) ==
    s = "good" =>
        /\ ccb[r].kind = "rw" => ~ccb[r].part /\ moved[r] = InOrder(ccb[r].len)
        /\ ccb[r].kind = "sync" => earlier[r] = {}

\* What an answer changes, and what it leaves alone.
LEMMA Posted ==
    ASSUME TypeOK, GoodIsTrue, NEW r \in Req, NEW s \in {"good", "error"},
           Post(r, s), MayAnswer(r, s), moved' = moved
    PROVE  /\ \A q \in Req : q # r => ccb'[q] = ccb[q]
           /\ ~InProgress(r)' /\ nexus' = None
           /\ \A q \in Req : earlier'[q] = earlier[q] \ {r}
           /\ CcbType' /\ earlier' \in [Req -> SUBSET Req]
           /\ GoodIsTrue'
<1>1. \A q \in Req : q # r => ccb'[q] = ccb[q]
  BY DEF TypeOK, Post
<1>2. ccb'[r] = [ccb[r] EXCEPT !.status = s]
  BY DEF TypeOK, Post
<1>3. ccb[r] \in [kind : Kinds, len : Nat, part : BOOLEAN, check : BOOLEAN,
                 status : {"new", "inprog", "good", "error"}]
  BY DEF TypeOK
<1>4. /\ ccb'[r].status = s /\ ccb'[r].kind = ccb[r].kind
      /\ ccb'[r].len = ccb[r].len /\ ccb'[r].part = ccb[r].part
      /\ ccb'[r] \in [kind : Kinds, len : Nat, part : BOOLEAN, check : BOOLEAN,
                      status : {"new", "inprog", "good", "error"}]
  BY <1>2, <1>3
<1>5. nexus' = None /\ \A q \in Req : earlier'[q] = earlier[q] \ {r}
  BY DEF Post
<1>6. earlier' \in [Req -> SUBSET Req]
  BY DEF Post, TypeOK
<1>7. CcbType'
  <2>1. ccb' = [q \in Req |-> ccb'[q]]
    BY DEF Post, TypeOK
  <2>2. \A q \in Req : ccb'[q] \in [kind : Kinds, len : Nat, part : BOOLEAN, check : BOOLEAN,
                                   status : {"new", "inprog", "good", "error"}]
    BY <1>1, <1>4 DEF TypeOK
  <2> QED BY <2>1, <2>2 DEF CcbType
<1>8. GoodIsTrue'
  <2> SUFFICES ASSUME NEW q \in Req, ccb'[q].status = "good"
               PROVE  /\ ccb'[q].kind = "rw" => ~ccb'[q].part /\ moved'[q] = InOrder(ccb'[q].len)
                      /\ ccb'[q].kind = "sync" => earlier'[q] = {}
    BY DEF GoodIsTrue
  <2>1. CASE q = r
    BY <2>1, <1>4, <1>5 DEF MayAnswer
  <2>2. CASE q # r
    BY <2>2, <1>1, <1>5 DEF GoodIsTrue
  <2> QED BY <2>1, <2>2
<1> QED BY <1>1, <1>4, <1>5, <1>6, <1>7, <1>8 DEF InProgress

\* The current request is answered.
LEMMA Answered ==
    ASSUME TypeOK, Requests, NEW r \in Req, nexus = r, NEW s \in {"good", "error"},
           Post(r, s), MayAnswer(r, s), UNCHANGED <<queue, moved, starter>>
    PROVE  Requests' /\ RequestTypes' /\ nexus' = None
<1>1. queue' = queue /\ moved' = moved /\ starter' = starter
      /\ \A i \in 1 .. Len(queue) : queue[i] \in Req
  BY DEF TypeOK
<1>2. /\ \A q \in Req : q # r => ccb'[q] = ccb[q]
      /\ ~InProgress(r)' /\ nexus' = None
      /\ \A q \in Req : earlier'[q] = earlier[q] \ {r}
      /\ GoodIsTrue' /\ CcbType' /\ earlier' \in [Req -> SUBSET Req]
  BY <1>1, Posted DEF Requests
<1>3. \A q \in Req : InProgress(q)' <=> InProgress(q) /\ q # r
  BY <1>2 DEF InProgress
<1>4. \A i \in 1 .. Len(queue) : queue[i] # None
  BY <1>1, MmcAssumption DEF MmcAssumption
<1>5. Served'
  BY <1>1, <1>2, <1>3, <1>4 DEF Requests, Served
<1>6. Ordered'
  BY <1>1, <1>2 DEF Requests, Ordered
<1>7. RequestTypes'
  BY <1>1, <1>2, TypeParts DEF RequestTypes
<1> QED BY <1>2, <1>5, <1>6, <1>7 DEF Requests

\* The request at the head of the queue is taken.
LEMMA Taken ==
    ASSUME TypeOK, Requests, nexus = None, queue # <<>>, queue' = Tail(queue)
    PROVE  /\ Head(queue) \in Req /\ Head(queue) # None
           /\ queue' \in Seq(Req) /\ starter \notin {"boot", "booting"}
           /\ InProgress(Head(queue)) /\ moved[Head(queue)] = <<>> /\ earlier[Head(queue)] = {}
           /\ \A i \in 1 .. Len(queue') :
                 /\ queue'[i] \in Req /\ queue'[i] # Head(queue) /\ queue'[i] # None
                 /\ InProgress(queue'[i]) /\ moved[queue'[i]] = <<>>
                 /\ earlier[queue'[i]] \subseteq {Head(queue)} \cup {queue'[j] : j \in 1 .. i - 1}
           /\ \A i, j \in 1 .. Len(queue') : queue'[i] = queue'[j] => i = j
           /\ \A q \in Req : InProgress(q) /\ q # Head(queue) =>
                 \E i \in 1 .. Len(queue') : queue'[i] = q
<1> DEFINE r == Head(queue)
<1>1. r \in Req /\ r = queue[1] /\ Len(queue) \in Nat \ {0} /\ 1 \in 1 .. Len(queue)
      /\ None \notin Req /\ queue' \in Seq(Req)
  BY MmcAssumption DEF TypeOK, MmcAssumption
<1>2. /\ Len(queue') = Len(queue) - 1
      /\ \A i \in 1 .. Len(queue') : queue'[i] = queue[i + 1] /\ i + 1 \in 1 .. Len(queue)
                                     /\ queue'[i] \in Req
  BY <1>1 DEF TypeOK
<1>3. \A i \in 1 .. Len(queue) : InProgress(queue[i]) /\ moved[queue[i]] = <<>>
  BY DEF Requests, Served
<1>4. \A i, j \in 1 .. Len(queue) : queue[i] = queue[j] => i = j
  BY DEF Requests, Served
<1>5. starter \notin {"boot", "booting"}
  BY DEF Requests, Served
<1>6. \A i \in 1 .. Len(queue) : earlier[queue[i]] \subseteq {queue[j] : j \in 1 .. i - 1}
  <2> SUFFICES ASSUME NEW i \in 1 .. Len(queue), NEW q \in earlier[queue[i]]
               PROVE  q \in {queue[j] : j \in 1 .. i - 1}
    OBVIOUS
  <2>1. q \in Req /\ q # None
    BY <1>1 DEF TypeOK
  <2>2. q \in {None} \cup {queue[j] : j \in 1 .. i - 1}
    BY DEF Requests, Ordered
  <2> QED BY <2>1, <2>2
<1>7. \A q \in Req : InProgress(q) => \E i \in 1 .. Len(queue) : queue[i] = q
  BY <1>1 DEF Requests, Served
<1> HIDE DEF r
<1>8. earlier[r] = {}
  BY <1>1, <1>6
<1>9. ASSUME NEW i \in 1 .. Len(queue')
      PROVE  earlier[queue'[i]] \subseteq {r} \cup {queue'[j] : j \in 1 .. i - 1}
  <2> SUFFICES ASSUME NEW q \in earlier[queue'[i]], q # r
               PROVE  \E j \in 1 .. i - 1 : queue'[j] = q
    OBVIOUS
  <2>1. PICK k \in 1 .. (i + 1) - 1 : queue[k] = q
    BY <1>2, <1>6
  <2>2. k # 1 /\ k - 1 \in 1 .. i - 1 /\ k - 1 \in 1 .. Len(queue')
    BY <2>1, <1>1, <1>2
  <2>3. queue'[k - 1] = queue[k]
    BY <2>2, <1>2
  <2> QED BY <2>1, <2>2, <2>3
<1>10. ASSUME NEW i \in 1 .. Len(queue')
       PROVE  queue'[i] # r /\ queue'[i] # None /\ InProgress(queue'[i]) /\ moved[queue'[i]] = <<>>
  <2>1. i + 1 # 1 /\ i + 1 \in 1 .. Len(queue) /\ queue'[i] = queue[i + 1]
    BY <1>1, <1>2
  <2> QED BY <2>1, <1>1, <1>2, <1>3, <1>4
<1>11. ASSUME NEW i \in 1 .. Len(queue'), NEW j \in 1 .. Len(queue'), queue'[i] = queue'[j]
       PROVE  i = j
  <2>1. i + 1 = j + 1
    BY <1>2, <1>4, <1>11
  <2> QED BY <2>1, <1>1, <1>2
<1>12. ASSUME NEW q \in Req, InProgress(q), q # r
       PROVE  \E i \in 1 .. Len(queue') : queue'[i] = q
  <2>1. PICK i \in 1 .. Len(queue) : queue[i] = q
    BY <1>7, <1>12
  <2>2. i # 1 /\ i - 1 \in 1 .. Len(queue')
    BY <2>1, <1>1, <1>2, <1>12
  <2>3. queue'[i - 1] = q
    BY <2>1, <2>2, <1>2
  <2> QED BY <2>2, <2>3
<1> QED
  BY <1>1, <1>2, <1>3, <1>5, <1>8, <1>9, <1>10, <1>11, <1>12 DEF r

\* It is answered at once.
LEMMA HeadAnswered ==
    ASSUME TypeOK, Requests, nexus = None, queue # <<>>, NEW r, r = Head(queue), NEW s \in {"good", "error"},
           Post(r, s), MayAnswer(r, s),
           queue' = Tail(queue), moved' = moved, starter' = starter
    PROVE  Requests' /\ RequestTypes' /\ nexus' = None
<1>1. /\ r \in Req /\ queue' \in Seq(Req) /\ r # None /\ starter' \notin {"boot", "booting"}
      /\ \A i \in 1 .. Len(queue') :
            /\ queue'[i] \in Req /\ queue'[i] # r /\ queue'[i] # None
            /\ InProgress(queue'[i]) /\ moved'[queue'[i]] = <<>>
            /\ earlier[queue'[i]] \subseteq {r} \cup {queue'[j] : j \in 1 .. i - 1}
      /\ \A i, j \in 1 .. Len(queue') : queue'[i] = queue'[j] => i = j
      /\ \A q \in Req : InProgress(q) /\ q # r => \E i \in 1 .. Len(queue') : queue'[i] = q
  BY Taken
<1>2. /\ \A q \in Req : q # r => ccb'[q] = ccb[q]
      /\ ~InProgress(r)' /\ nexus' = None
      /\ \A q \in Req : earlier'[q] = earlier[q] \ {r}
      /\ GoodIsTrue' /\ CcbType' /\ earlier' \in [Req -> SUBSET Req]
  BY <1>1, Posted DEF Requests
<1>3. \A q \in Req : InProgress(q)' <=> InProgress(q) /\ q # r
  BY <1>2 DEF InProgress
<1>4. Served'
  BY <1>1, <1>2, <1>3 DEF Served
<1>5. Ordered'
  <2>1. ASSUME NEW i \in 1 .. Len(queue')
        PROVE  earlier'[queue'[i]] \subseteq {queue'[j] : j \in 1 .. i - 1}
    <3>1. /\ earlier[queue'[i]] \subseteq {r} \cup {queue'[j] : j \in 1 .. i - 1}
          /\ earlier'[queue'[i]] = earlier[queue'[i]] \ {r}
      BY <1>1, <1>2
    <3> QED BY <3>1
  <2> QED BY <2>1, <1>2 DEF Ordered
<1>6. RequestTypes'
  BY <1>1, <1>2, TypeParts DEF RequestTypes
<1> QED BY <1>2, <1>4, <1>5, <1>6 DEF Requests

\* It becomes the current request.
LEMMA HeadKept ==
    ASSUME TypeOK, Requests, nexus = None, queue # <<>>, NEW r, r = Head(queue), Keep(r),
           queue' = Tail(queue), moved' = moved, starter' = starter
    PROVE  Requests' /\ RequestTypes' /\ nexus' = r
<1>1. /\ r \in Req /\ queue' \in Seq(Req) /\ r # None /\ starter' \notin {"boot", "booting"}
      /\ InProgress(r) /\ earlier[r] = {}
      /\ \A i \in 1 .. Len(queue') :
            /\ queue'[i] \in Req /\ queue'[i] # r /\ queue'[i] # None
            /\ InProgress(queue'[i]) /\ moved'[queue'[i]] = <<>>
            /\ earlier[queue'[i]] \subseteq {r} \cup {queue'[j] : j \in 1 .. i - 1}
      /\ \A i, j \in 1 .. Len(queue') : queue'[i] = queue'[j] => i = j
      /\ \A q \in Req : InProgress(q) /\ q # r => \E i \in 1 .. Len(queue') : queue'[i] = q
  BY Taken
<1>2. nexus' = r /\ ccb' = ccb /\ earlier' = earlier
  BY DEF Keep
<1>3. \A q \in Req : InProgress(q)' <=> InProgress(q)
  BY <1>2 DEF InProgress
<1>4. Served'
  BY <1>1, <1>2, <1>3 DEF Served
<1>5. Ordered'
  BY <1>1, <1>2 DEF Ordered
<1>6. GoodIsTrue'
  BY <1>2 DEF Requests, GoodIsTrue
<1>7. RequestTypes'
  BY <1>1, <1>2, TypeParts DEF RequestTypes, CcbType
<1> QED BY <1>2, <1>4, <1>5, <1>6, <1>7 DEF Requests

\* Nothing that belongs to the requests changes.
LEMMA RequestsKept ==
    ASSUME TypeOK, Requests, ccb' = ccb, queue' = queue, nexus' = nexus, earlier' = earlier, moved' = moved,
           starter' \in {"boot", "booting"} => starter \in {"boot", "booting"}
    PROVE  Requests' /\ RequestTypes'
<1>1. Served'
  BY DEF Requests, Served, InProgress
<1>2. Ordered' /\ GoodIsTrue'
  BY DEF Requests, Ordered, GoodIsTrue
<1>3. RequestTypes'
  BY TypeParts DEF RequestTypes, CcbType
<1> QED BY <1>1, <1>2, <1>3 DEF Requests

-----------------------------------------------------------------------------
(* The controller.                                                          *)

LEMMA Commands ==
    /\ NoCommand \in HwTypes /\ NoCommand.cmd = "none" /\ NoCommand.status = "idle"
    /\ \A c \in {"stop", "other"} :
          Command(c) \in HwTypes /\ Command(c).cmd = c /\ Command(c).status = "busy"
<1>1. NoCommand = [cmd |-> "none", status |-> "idle", req |-> None, mem |-> 0, blk |-> 0, n |-> 0]
  BY DEF NoCommand
<1>2. NoCommand \in HwTypes /\ NoCommand.cmd = "none" /\ NoCommand.status = "idle"
  BY <1>1 DEF HwTypes
<1>3. ASSUME NEW c \in {"stop", "other"}
      PROVE  Command(c) \in HwTypes /\ Command(c).cmd = c /\ Command(c).status = "busy"
  BY <1>2 DEF Command, HwTypes
<1> QED BY <1>2, <1>3

\* mmc_dma_rw answers a request that is complete, or sends a command for it.
LEMMA Moves ==
    ASSUME TypeOK, NEW r \in Req, NEW off \in 0 .. ccb[r].len, NEW h, NEW s,
           DmaRw(r, off, off, h), stop' = StopFor(r, off, s), ~open
    PROVE  \/ /\ Post(r, IF ccb[r].part THEN "error" ELSE "good")
              /\ off = ccb[r].len /\ offset' = off /\ blkno' = off
              /\ hw' = h /\ ~open' /\ open' \in BOOLEAN /\ stop' = s
           \/ /\ Keep(r)
              /\ offset' \in Nat /\ blkno' = offset' /\ blkno' <= ccb[r].len
              /\ hw' \in HwTypes /\ hw'.cmd = "data" /\ hw'.status = "busy" /\ hw'.req = r
              /\ hw'.mem = off /\ hw'.blk = off /\ off + hw'.n = blkno'
              /\ stop' \in {"none", "pend", "auto"} /\ open' \in BOOLEAN
              /\ stop' = "none" => ~open'
              /\ stop' = "auto" => acmd12
<1> DEFINE n == Sent(r, off)
<1>1. /\ n \in Nat /\ off + n <= ccb[r].len /\ (n = 0 => off = ccb[r].len)
      /\ ccb[r].len \in Nat
  <2>1. ccb[r].len \in Nat
    BY DEF TypeOK
  <2>2. MaxDma \in Nat \ {0}
    BY MmcAssumption DEF MmcAssumption
  <2> QED BY <2>1, <2>2 DEF Sent, Smaller
<1>2. CASE n = 0
  <2>1. /\ Post(r, IF ccb[r].part THEN "error" ELSE "good")
        /\ offset' = off /\ blkno' = off /\ hw' = h /\ open' = open
    BY <1>2 DEF DmaRw
  <2>2. stop' = s
    BY <1>2 DEF StopFor
  <2> HIDE DEF n
  <2>3. open' \in BOOLEAN /\ ~open'
    BY <2>1 DEF TypeOK
  <2> QED BY <1>1, <1>2, <2>1, <2>2, <2>3
<1>3. CASE n # 0
  <2>1. /\ Keep(r) /\ offset' = off + n /\ blkno' = off + n
        /\ hw' = [cmd |-> "data", status |-> "busy", req |-> r, mem |-> off, blk |-> off, n |-> n]
        /\ open' = (n # 1)
    BY <1>3 DEF DmaRw
  <2>2. stop' = CASE n = 1 -> "none" [] OTHER -> IF acmd12 THEN "auto" ELSE "pend"
    BY <1>3 DEF StopFor
  <2>3. stop' \in {"none", "pend", "auto"} /\ (stop' = "none" => n = 1) /\ (stop' = "auto" => acmd12)
    BY <2>2
  <2>4. hw' \in HwTypes
    BY <2>1, <1>1 DEF HwTypes
  <2> HIDE DEF n
  <2>5. open' \in BOOLEAN /\ (stop' = "none" => ~open')
    BY <2>1, <2>3
  <2> QED BY <1>1, <2>1, <2>3, <2>4, <2>5
<1> QED BY <1>2, <1>3

-----------------------------------------------------------------------------
(* Clients.                                                                 *)

LEMMA SubmitInv ==
    ASSUME IInv, NEW r \in Req, NEW u \in Uses[r], Submit(r, u[1], u[2], u[3])
    PROVE  IInv'
<1>1. u[1] \in Kinds /\ u[2] \in Nat /\ u[3] \in BOOLEAN /\ None \notin Req
  BY MmcAssumption DEF MmcAssumption
<1>2. TypeOK /\ Served /\ Ordered /\ Quiet /\ InTransfer /\ GoodIsTrue
  BY DEF IInv
<1>3. /\ ~InProgress(r) /\ starter \in {"wait", "sent"}
      /\ queue' = Append(queue, r) /\ moved' = [moved EXCEPT ![r] = <<>>]
      /\ earlier' = [earlier EXCEPT ![r] = {q \in Req : InProgress(q) /\ ccb[q].kind = "rw"}]
      /\ enq' = TRUE /\ nexus' = nexus /\ drv' = drv /\ state' = state
      /\ ident' = ident /\ probes' = probes /\ count' = count /\ ready' = ready
      /\ resetting' = resetting /\ resets' = resets /\ starter' = starter
      /\ stop' = stop /\ stops' = stops /\ offset' = offset /\ blkno' = blkno
      /\ acmd12' = acmd12 /\ hw' = hw /\ powered' = powered /\ open' = open
      /\ overtaken' = overtaken
  BY DEF Submit, idents, transfer
<1>4. /\ \A q \in Req : q # r => ccb'[q] = ccb[q] /\ moved'[q] = moved[q] /\ earlier'[q] = earlier[q]
      /\ ccb'[r].status = "inprog" /\ moved'[r] = <<>>
      /\ earlier'[r] = {q \in Req : InProgress(q) /\ ccb[q].kind = "rw"}
  BY <1>2, <1>3 DEF Submit, TypeOK
<1>5. CcbType' /\ moved' \in [Req -> Seq(Nat \X Nat)] /\ earlier' \in [Req -> SUBSET Req]
  <2>1. ccb' \in [Req -> [kind : Kinds, len : Nat, part : BOOLEAN, check : BOOLEAN,
                         status : {"new", "inprog", "good", "error"}]]
    BY <1>1, <1>2 DEF Submit, TypeOK
  <2>2. <<>> \in Seq(Nat \X Nat)
    OBVIOUS
  <2> QED BY <2>1, <2>2, <1>2, <1>3 DEF CcbType, TypeOK
<1>6. TypeOK'
  <2>1. queue' \in Seq(Req)
    BY <1>2, <1>3 DEF TypeOK
  <2>2. RequestTypes'
    BY <1>2, <1>3, <1>5, <2>1, TypeParts DEF RequestTypes
  <2>3. FlagTypes'
    <3>1. FlagTypes
      BY <1>2, TypeParts
    <3>2. enq' \in BOOLEAN /\ drv' \in {"wait", "start"}
      BY <3>1, <1>3 DEF FlagTypes
    <3> QED BY <3>1, <3>2, <1>3, FlagsKept
  <2>4. CountTypes'
    BY <1>2, <1>3, TypeParts DEF CountTypes
  <2> QED BY <2>2, <2>3, <2>4, TypeParts
<1>7. \A q \in Req : InProgress(q)' <=> InProgress(q) \/ q = r
  BY <1>4 DEF InProgress
<1>8. /\ nexus # None => nexus \in Req /\ nexus # r
      /\ r # None
      /\ \A i \in 1 .. Len(queue) : queue[i] \in Req /\ queue[i] # r
  <2>1. \A i \in 1 .. Len(queue) : queue[i] \in Req
    BY <1>2 DEF TypeOK
  <2>2. /\ \A i \in 1 .. Len(queue) : InProgress(queue[i])
        /\ nexus # None => InProgress(nexus)
    BY <1>2 DEF Served
  <2>3. \A i \in 1 .. Len(queue) : queue[i] # r
    BY <2>2, <1>3
  <2>4. nexus \in Req \cup {None}
    BY <1>2 DEF TypeOK
  <2> QED BY <2>1, <2>2, <2>3, <2>4, <1>1, <1>3
<1>9. /\ Len(queue) \in Nat /\ Len(queue') = Len(queue) + 1 /\ queue'[Len(queue) + 1] = r
      /\ \A i \in 1 .. Len(queue) : queue'[i] = queue[i]
  <2>1. queue \in Seq(Req)
    BY <1>2 DEF TypeOK
  <2> QED BY <2>1, <1>3
<1>10. Served'
  <2>1. nexus' # None => InProgress(nexus)'
    BY <1>2, <1>3, <1>4, <1>8 DEF Served, InProgress
  <2>2. ASSUME NEW i \in 1 .. Len(queue')
        PROVE  InProgress(queue[i])' /\ queue'[i] # nexus' /\ moved'[queue'[i]] = <<>>
    <3>1. CASE i = Len(queue) + 1
      BY <3>1, <1>3, <1>4, <1>8, <1>9 DEF InProgress
    <3>2. CASE i # Len(queue) + 1
      <4>1. i \in 1 .. Len(queue)
        BY <3>2, <1>9
      <4> QED BY <4>1, <1>2, <1>3, <1>4, <1>8, <1>9 DEF Served, InProgress
    <3> QED BY <3>1, <3>2
  <2>3. ASSUME NEW i \in 1 .. Len(queue'), NEW j \in 1 .. Len(queue'), queue'[i] = queue'[j]
        PROVE  i = j
    <3>1. i \in 1 .. Len(queue) \/ i = Len(queue) + 1
      BY <1>9
    <3>2. j \in 1 .. Len(queue) \/ j = Len(queue) + 1
      BY <1>9
    <3> QED BY <3>1, <3>2, <2>3, <1>2, <1>8, <1>9 DEF Served
  <2>4. ASSUME NEW q \in Req, InProgress(q)', q # nexus'
        PROVE  \E i \in 1 .. Len(queue') : queue'[i] = q
    <3>1. CASE q = r
      BY <3>1, <1>9
    <3>2. CASE q # r
      <4>1. PICK i \in 1 .. Len(queue) : queue[i] = q
        BY <3>2, <2>4, <1>2, <1>3, <1>7 DEF Served
      <4> QED BY <4>1, <1>9
    <3> QED BY <3>1, <3>2
  <2> QED BY <2>1, <2>2, <2>3, <2>4, <1>3 DEF Served
<1>11. Ordered'
  <2>1. nexus' # None => earlier'[nexus'] = {}
    BY <1>2, <1>3, <1>4, <1>8 DEF Ordered
  <2>2. ASSUME NEW i \in 1 .. Len(queue'), NEW q \in earlier'[queue'[i]]
        PROVE  q = nexus' \/ \E j \in 1 .. i - 1 : queue'[j] = q
    <3>1. CASE i = Len(queue) + 1
      <4>1. q \in Req /\ InProgress(q)
        BY <3>1, <1>4, <1>9
      <4>2. q = nexus \/ \E j \in 1 .. Len(queue) : queue[j] = q
        BY <4>1, <1>2 DEF Served
      <4> QED BY <4>2, <3>1, <1>3, <1>9
    <3>2. CASE i # Len(queue) + 1
      <4>1. i \in 1 .. Len(queue)
        BY <3>2, <1>9
      <4>2. q \in earlier[queue[i]]
        BY <4>1, <1>4, <1>8, <1>9
      <4>3. q \in {nexus} \cup {queue[j] : j \in 1 .. i - 1}
        BY <4>1, <4>2, <1>2 DEF Ordered
      <4>4. \A j \in 1 .. i - 1 : queue'[j] = queue[j]
        BY <4>1, <1>9
      <4> QED BY <4>3, <4>4, <1>3
    <3> QED BY <3>1, <3>2
  <2>3. ASSUME NEW i \in 1 .. Len(queue')
        PROVE  earlier'[queue'[i]] \subseteq {nexus'} \cup {queue'[j] : j \in 1 .. i - 1}
    BY <2>2
  <2> QED BY <2>1, <2>3 DEF Ordered
<1>12. GoodIsTrue'
  BY <1>2, <1>4 DEF GoodIsTrue
<1>13. Quiet'
  BY <1>2, <1>3, <1>4, <1>8 DEF Quiet
<1>14. InTransfer'
  BY <1>2, <1>3, <1>4, <1>8 DEF InTransfer
<1> QED BY <1>6, <1>10, <1>11, <1>12, <1>13, <1>14 DEF IInv

-----------------------------------------------------------------------------
(* The driver thread and the requests.                                      *)

\* The parts of the invariant the steps below take one at a time.
LEMMA Parts ==
    /\ IInv => /\ TypeOK /\ RequestTypes /\ FlagTypes /\ CountTypes
               /\ Requests /\ Quiet /\ InTransfer
    /\ RequestTypes' /\ FlagTypes' /\ CountTypes' /\ Requests' /\ Quiet' /\ InTransfer' => IInv'
<1>1. IInv => TypeOK /\ Requests /\ Quiet /\ InTransfer
  BY DEF IInv, Requests
<1>2. TypeOK' /\ Requests' /\ Quiet' /\ InTransfer' => IInv'
  BY DEF IInv, Requests
<1> QED BY <1>1, <1>2, TypeParts

LEMMA PulseInv ==
    ASSUME IInv, TakeEnqueue \/ StartDone
    PROVE  IInv'
<1>1. /\ TypeOK /\ RequestTypes /\ FlagTypes /\ CountTypes /\ Requests /\ Quiet /\ InTransfer
  BY Parts
<1>2. /\ ccb' = ccb /\ queue' = queue /\ nexus' = nexus /\ earlier' = earlier /\ moved' = moved
      /\ state' = state /\ ident' = ident /\ probes' = probes /\ count' = count /\ ready' = ready
      /\ resetting' = resetting /\ resets' = resets /\ starter' = starter
      /\ stop' = stop /\ stops' = stops /\ offset' = offset /\ blkno' = blkno
      /\ acmd12' = acmd12 /\ hw' = hw /\ powered' = powered /\ open' = open
      /\ overtaken' = overtaken
  BY DEF TakeEnqueue, StartDone, requests, idents, transfer, card
<1>3. enq' \in BOOLEAN /\ drv' \in {"wait", "start"}
  BY <1>1 DEF TakeEnqueue, StartDone, FlagTypes
<1>4. Requests' /\ RequestTypes'
  BY <1>1, <1>2, RequestsKept
<1>5. FlagTypes'
  BY <1>1, <1>2, <1>3, FlagsKept
<1>6. CountTypes'
  BY <1>1, <1>2 DEF CountTypes
<1>7. Quiet'
  BY <1>1, <1>2 DEF Quiet
<1>8. InTransfer'
  BY <1>1, <1>2 DEF InTransfer
<1> QED BY <1>4, <1>5, <1>6, <1>7, <1>8, Parts

LEMMA StartNextInv ==
    ASSUME IInv, StartNext
    PROVE  IInv'
<1>1. /\ TypeOK /\ RequestTypes /\ FlagTypes /\ CountTypes /\ Requests /\ Quiet /\ InTransfer
  BY Parts
<1>2. PICK r : r = Head(queue) /\ Start(r)
  BY DEF StartNext
<1>3. /\ nexus = None /\ queue # <<>> /\ queue' = Tail(queue)
      /\ drv' = drv /\ ident' = ident /\ probes' = probes /\ count' = count /\ ready' = ready
      /\ resetting' = resetting /\ resets' = resets /\ starter' = starter
      /\ acmd12' = acmd12 /\ overtaken' = overtaken
  BY DEF StartNext, idents
<1>4. /\ r \in Req /\ r # None /\ starter \notin {"boot", "booting"}
      /\ moved[r] = <<>> /\ earlier[r] = {}
  BY <1>1, <1>2, <1>3, Taken
<1>5. hw.cmd # "data" /\ state # "data"
  BY <1>1, <1>3 DEF Quiet, InTransfer
<1>6. moved' = moved /\ powered' = powered /\ stops' = stops /\ enq' \in BOOLEAN
  BY <1>1, <1>2 DEF Start, card, transfer, MayDropEnqueue, FlagTypes
<1> DEFINE Flags ==
      /\ FlagTypes /\ enq' \in BOOLEAN /\ drv' = drv /\ ident' = ident /\ ready' = ready
      /\ resetting' = resetting /\ starter' = starter /\ acmd12' = acmd12
      /\ powered' = powered /\ overtaken' = overtaken
<1>f. Flags
  BY <1>1, <1>3, <1>6
<1>7. ASSUME state' = state, hw' = hw, open' = open, stop' = stop, offset' = offset, blkno' = blkno
      PROVE  FlagTypes' /\ CountTypes' /\ InTransfer'
  <2>1. FlagTypes'
    BY <1>f, <1>7 DEF FlagTypes
  <2>2. CountTypes'
    BY <1>1, <1>3, <1>6, <1>7 DEF CountTypes
  <2>3. InTransfer'
    BY <1>5, <1>7 DEF InTransfer
  <2> QED BY <2>1, <2>2, <2>3
<1>8. ASSUME NEW s \in {"good", "error"}, Post(r, s), s = "good" => ccb[r].kind # "rw",
             state' = state, hw' = hw, open' = open, stop' = stop, offset' = offset, blkno' = blkno
      PROVE  IInv'
  <2>1. MayAnswer(r, s)
    BY <1>4, <1>8 DEF MayAnswer
  <2>2. Requests' /\ RequestTypes' /\ nexus' = None
    BY <1>1, <1>2, <1>3, <1>6, <1>8, <2>1, HeadAnswered
  <2>3. Quiet'
    BY <1>1, <1>3, <1>4, <1>5, <1>6, <1>8, <2>2 DEF Quiet
  <2> QED BY <1>7, <1>8, <2>2, <2>3, Parts
<1>9. CASE ccb[r].kind # "devctl" /\ state = "ident" /\ Keep(r) /\ UNCHANGED <<enq, state, transfer, card>>
  <2>1. /\ state' = state /\ hw' = hw /\ open' = open /\ stop' = stop
        /\ offset' = offset /\ blkno' = blkno
    BY <1>9 DEF transfer, card
  <2>2. Requests' /\ RequestTypes' /\ nexus' = r
    BY <1>1, <1>2, <1>3, <1>6, <1>9, HeadKept
  <2>3. Quiet'
    BY <1>1, <1>3, <1>4, <1>5, <1>6, <1>9, <2>1, <2>2 DEF Quiet
  <2> QED BY <1>7, <2>1, <2>2, <2>3, Parts
<1>10. CASE /\ ccb[r].kind = "erase" /\ state # "ident"
            /\ \E s \in {"good", "error"} : Post(r, s) /\ (s = "good" => powered)
            /\ hw' = IF powered THEN NoCommand ELSE Command("other")
            /\ MayDropEnqueue /\ UNCHANGED <<state, transfer, powered, open, moved>>
  <2>1. PICK s \in {"good", "error"} : Post(r, s)
    BY <1>10
  <2>2. MayAnswer(r, s)
    BY <1>10 DEF MayAnswer
  <2>3. Requests' /\ RequestTypes' /\ nexus' = None
    BY <1>1, <1>2, <1>3, <1>6, <2>1, <2>2, HeadAnswered
  <2>4. /\ state' = state /\ open' = open /\ stop' = stop /\ offset' = offset /\ blkno' = blkno
    BY <1>10 DEF transfer
  <2>5. /\ hw' \in HwTypes /\ hw'.cmd \in {"none", "other"}
        /\ powered => hw'.status = "idle"
    BY <1>10, Commands
  <2>6. FlagTypes'
    BY <1>f, <2>4 DEF FlagTypes
  <2>7. CountTypes'
    BY <1>1, <1>3, <1>6, <2>4, <2>5 DEF CountTypes
  <2>8. Quiet'
    BY <1>1, <1>3, <1>4, <1>5, <1>6, <1>10, <2>3, <2>4, <2>5 DEF Quiet, FlagTypes
  <2>9. InTransfer'
    BY <1>5, <2>4 DEF InTransfer
  <2> QED BY <2>3, <2>6, <2>7, <2>8, <2>9, Parts
<1>11. CASE /\ ccb[r].kind = "rw" /\ state # "ident" /\ ready
            /\ DmaRw(r, 0, 0, hw) /\ stop' = StopFor(r, 0, stop)
            /\ state' = IF nexus' = None THEN state ELSE "data"
            /\ UNCHANGED <<enq, stops, powered, moved>>
  <2>1. state = "idle" /\ ~open /\ resets = 0
    BY <1>1, <1>5, <1>11 DEF Quiet, FlagTypes, CountTypes
  <2>2. 0 \in 0 .. ccb[r].len
    BY <1>1, <1>4 DEF RequestTypes, CcbType
  <2>3. CASE /\ Post(r, IF ccb[r].part THEN "error" ELSE "good")
             /\ 0 = ccb[r].len /\ offset' = 0 /\ blkno' = 0
             /\ hw' = hw /\ ~open' /\ open' \in BOOLEAN /\ stop' = stop
    <3> DEFINE s == IF ccb[r].part THEN "error" ELSE "good"
    <3>1. MayAnswer(r, s)
      BY <1>4, <1>11, <2>3, InOrderNone DEF MayAnswer
    <3>2. s \in {"good", "error"} /\ Post(r, s)
      BY <2>3
    <3> HIDE DEF s
    <3>3. Requests' /\ RequestTypes' /\ nexus' = None
      BY <1>1, <1>2, <1>3, <1>6, <3>1, <3>2, HeadAnswered
    <3>4. state' = state
      BY <1>11, <3>3
    <3>5. FlagTypes'
      <4>1. open' \in BOOLEAN /\ stop' = stop
        BY Zenon, <2>3
      <4> QED BY <1>f, <3>4, <4>1 DEF FlagTypes
    <3>6. CountTypes'
      BY <1>1, <1>3, <1>6, <2>3 DEF CountTypes
    <3>7. Quiet'
      BY <1>1, <1>3, <1>4, <1>5, <1>6, <2>1, <2>3, <3>3, <3>4 DEF Quiet
    <3>8. InTransfer'
      BY <1>5, <3>4 DEF InTransfer
    <3> QED BY <3>3, <3>5, <3>6, <3>7, <3>8, Parts
  <2>4. CASE /\ Keep(r)
             /\ offset' \in Nat /\ blkno' = offset' /\ blkno' <= ccb[r].len
             /\ hw' \in HwTypes /\ hw'.cmd = "data" /\ hw'.status = "busy" /\ hw'.req = r
             /\ hw'.mem = 0 /\ hw'.blk = 0 /\ 0 + hw'.n = blkno'
             /\ stop' \in {"none", "pend", "auto"} /\ open' \in BOOLEAN
             /\ stop' = "none" => ~open'
             /\ stop' = "auto" => acmd12
    <3>1. Requests' /\ RequestTypes' /\ nexus' = r /\ ccb' = ccb
      BY <1>1, <1>2, <1>3, <1>6, <2>4, HeadKept DEF Keep
    <3>2. state' = "data"
      BY <1>4, <1>11, <3>1
    <3>3. FlagTypes'
      <4>1. state' \in {"idle", "ident", "data"} /\ stop' \in {"none", "pend", "issued", "auto"}
        BY <2>4, <3>2
      <4>2. open' \in BOOLEAN
        BY Zenon, <2>4
      <4> QED BY <1>f, <4>1, <4>2 DEF FlagTypes
    <3>4. CountTypes'
      BY <1>1, <1>3, <1>6, <2>4 DEF CountTypes
    <3>5. ident = "none"
      BY <1>1, <1>11 DEF Quiet
    <3>6. Quiet'
      BY <1>3, <1>4, <2>1, <2>4, <3>1, <3>2, <3>5 DEF Quiet
    <3>7. InTransfer'
      BY <1>3, <1>4, <1>6, <1>11, <2>4, <3>1, <3>2, <3>5, InOrderNone DEF InTransfer
    <3> QED BY <3>1, <3>3, <3>4, <3>6, <3>7, Parts
  <2> QED BY <1>1, <1>4, <1>11, <2>1, <2>2, <2>3, <2>4, Moves
<1>12. CASE /\ ccb[r].kind = "devctl" \/ (ccb[r].kind = "sync" /\ state # "ident")
            /\ Post(r, "good") /\ UNCHANGED <<enq, state, transfer, card>>
  BY <1>8, <1>12 DEF transfer, card
<1>13. CASE /\ ccb[r].kind = "ready" /\ state # "ident"
            /\ Post(r, IF ready THEN "good" ELSE "error") /\ UNCHANGED <<enq, state, transfer, card>>
  <2>1. PICK s \in {"good", "error"} : Post(r, s)
    BY <1>13
  <2> QED BY <1>8, <1>13, <2>1 DEF transfer, card
<1>14. CASE /\ ccb[r].kind = "rw" /\ state # "ident" /\ ~ready
            /\ Post(r, "error") /\ UNCHANGED <<enq, state, transfer, card>>
  BY <1>8, <1>14 DEF transfer, card
<1> QED BY <1>2, <1>9, <1>10, <1>11, <1>12, <1>13, <1>14 DEF Start

-----------------------------------------------------------------------------
(* Identification.                                                          *)

\* While the requests stay as they are, only the controller matters.
LEMMA QuietSteps ==
    ASSUME IInv, Unexpected \/ IdentAgain \/ IdentNext
    PROVE  IInv'
<1>1. /\ TypeOK /\ RequestTypes /\ FlagTypes /\ CountTypes /\ Requests /\ Quiet /\ InTransfer
  BY Parts
<1>2. /\ ccb' = ccb /\ queue' = queue /\ nexus' = nexus /\ earlier' = earlier /\ moved' = moved
      /\ starter' = starter
  BY DEF Unexpected, IdentAgain, IdentNext, Interrupted, IdentStart
<1>3. /\ state' = state /\ ready' = ready /\ resetting' = resetting /\ resets' = resets
      /\ stop' = stop /\ stops' = stops /\ offset' = offset /\ blkno' = blkno /\ acmd12' = acmd12
  BY DEF Unexpected, IdentAgain, IdentNext, Interrupted, IdentStart, idents, transfer
<1>4. /\ hw.status \in {"ok", "err"} /\ state # "data"
      /\ drv' = "start" /\ overtaken' = (overtaken \/ starter = "booting")
  BY DEF Unexpected, IdentAgain, IdentNext, Interrupted
<1>5. Requests' /\ RequestTypes'
  BY <1>1, <1>2, RequestsKept
<1>6. enq' \in BOOLEAN /\ overtaken' \in BOOLEAN
  <2>1. enq' \in {enq, FALSE}
    BY DEF Unexpected, IdentAgain, IdentNext, MayDropEnqueue
  <2> QED BY <1>1, <1>4, <2>1 DEF FlagTypes
<1>7. ident' \in {"none", "start", "probe", "final"} /\ probes' \in 0 .. MaxProbes
      /\ count' \in 0 .. PwrRetry
  BY <1>1, MmcAssumption
  DEF Unexpected, IdentAgain, IdentNext, IdentStart, idents, FlagTypes, CountTypes, MmcAssumption
<1>8. powered' \in BOOLEAN /\ open' \in BOOLEAN /\ (open' => open)
  <2>1. CASE powered' = powered /\ open' = open
    BY Zenon, <2>1, <1>1 DEF FlagTypes
  <2>2. CASE powered' = TRUE /\ open' = FALSE
    BY Zenon, <2>2
  <2> QED BY Zenon, <2>1, <2>2 DEF Unexpected, IdentAgain, IdentNext, IdentStart
<1>9. hw' \in HwTypes /\ hw'.cmd \in {"none", "other"} /\ (state # "ident" => hw'.status = "idle")
  BY Commands DEF Unexpected, IdentAgain, IdentNext, IdentStart
<1>10. ident' = ident \/ (state = "ident" /\ ident # "none")
  BY DEF Unexpected, IdentAgain, IdentNext, idents
<1>11. FlagTypes'
  BY <1>1, <1>2, <1>3, <1>4, <1>6, <1>7, <1>8 DEF FlagTypes
<1>12. CountTypes'
  BY <1>1, <1>3, <1>7, <1>9 DEF CountTypes
<1>13. Quiet'
  BY <1>1, <1>2, <1>3, <1>4, <1>8, <1>9, <1>10 DEF Quiet
<1>14. InTransfer'
  BY <1>3, <1>4 DEF InTransfer
<1> QED BY <1>5, <1>11, <1>12, <1>13, <1>14, Parts

LEMMA IdentFailedInv ==
    ASSUME IInv, IdentFailed
    PROVE  IInv'
<1>1. /\ TypeOK /\ RequestTypes /\ FlagTypes /\ CountTypes /\ Requests /\ Quiet /\ InTransfer
  BY Parts
<1>2. /\ queue' = queue /\ moved' = moved /\ starter' = starter /\ probes' = probes
      /\ count' = count /\ stops' = stops /\ offset' = offset /\ blkno' = blkno /\ hw' = NoCommand
  BY DEF IdentFailed, Interrupted, transfer
<1>3. /\ ready' = ready /\ resetting' = resetting /\ stop' = stop /\ acmd12' = acmd12
      /\ drv' = "start" /\ overtaken' = (overtaken \/ starter = "booting")
      /\ ident' = IF ident = "final" THEN "none" ELSE ident
      /\ enq' \in {enq, FALSE} /\ Fail
  BY DEF IdentFailed, Interrupted, transfer, MayDropEnqueue
<1>4. /\ hw.status \in {"ok", "err"} /\ state = "ident" /\ resets = 0
  BY <1>1 DEF IdentFailed, Interrupted, Quiet, CountTypes
<1>5. Requests' /\ RequestTypes' /\ nexus' = None
  <2>1. CASE nexus = None
    BY <2>1, <1>1, <1>2, <1>3, RequestsKept DEF Fail, Keep
  <2>2. CASE nexus # None
    <3>1. PICK r \in Req : nexus = r
      BY <2>2, <1>1 DEF RequestTypes
    <3>2. Post(r, "error") /\ MayAnswer(r, "error")
      BY <2>2, <3>1, <1>3 DEF Fail, MayAnswer
    <3> QED BY <1>1, <1>2, <3>1, <3>2, Answered
  <2> QED BY <2>1, <2>2
<1>6. \/ resets' = 1 /\ state' = "ident" /\ powered' = powered /\ open' = open /\ resetting
      \/ resets' = 0 /\ state' = "idle" /\ ~powered' /\ ~open' /\ ~resetting
         /\ powered' \in BOOLEAN /\ open' \in BOOLEAN
  <2>1. CASE resetting
    BY <1>4, <2>1 DEF IdentFailed
  <2>2. CASE ~resetting
    <3>1. resets' = 0 /\ state' = "idle"
      BY <1>4, <2>2 DEF IdentFailed
    <3>2. ~powered' /\ ~open' /\ powered' \in BOOLEAN /\ open' \in BOOLEAN
      BY Zenon, <2>2 DEF IdentFailed
    <3> QED BY <2>2, <3>1, <3>2
  <2> QED BY <2>1, <2>2
<1>7. FlagTypes'
  <2>1. enq' \in BOOLEAN /\ overtaken' \in BOOLEAN /\ powered' \in BOOLEAN /\ open' \in BOOLEAN
    BY Zenon, <1>1, <1>3, <1>6 DEF FlagTypes
  <2>2. state' \in {"idle", "ident", "data"} /\ ident' \in {"none", "start", "probe", "final"}
    BY <1>1, <1>3, <1>6 DEF FlagTypes
  <2> QED BY <1>1, <1>2, <1>3, <2>1, <2>2 DEF FlagTypes
<1>8. CountTypes'
  <2>1. resets' \in Nat
    BY <1>6
  <2> QED BY <1>1, <1>2, <2>1, Commands DEF CountTypes
<1>9. Quiet'
  BY <1>1, <1>2, <1>3, <1>4, <1>5, <1>6, Commands DEF Quiet
<1>10. InTransfer'
  BY <1>6 DEF InTransfer
<1> QED BY <1>5, <1>7, <1>8, <1>9, <1>10, Parts

LEMMA IdentDoneInv ==
    ASSUME IInv, IdentDone
    PROVE  IInv'
<1>1. /\ TypeOK /\ RequestTypes /\ FlagTypes /\ CountTypes /\ Requests /\ Quiet /\ InTransfer
  BY Parts
<1>2. /\ queue' = queue /\ moved' = moved /\ starter' = starter /\ probes' = probes
      /\ count' = count /\ resets' = resets
  BY DEF IdentDone, Interrupted
<1>3. /\ ready' = TRUE /\ resetting' = FALSE /\ ident' = "none" /\ acmd12' = acmd12
      /\ drv' = "start" /\ overtaken' = (overtaken \/ starter = "booting")
      /\ powered' = powered
  BY DEF IdentDone, Interrupted
<1>4. /\ hw.status \in {"ok", "err"} /\ state = "ident" /\ ident # "none" /\ resets = 0 /\ ~open
      /\ state' = IF nexus' = None THEN "idle" ELSE "data"
  BY <1>1 DEF IdentDone, Interrupted, Quiet, CountTypes, StateAfter
<1>5. ASSUME Requests', RequestTypes', nexus' = None, hw' \in HwTypes, hw'.cmd \in {"none", "other"},
             hw'.status # "busy", ~open', open' \in BOOLEAN, stops' \in Nat, offset' \in Nat,
             blkno' \in Nat, enq' \in BOOLEAN, stop' = stop
      PROVE  IInv'
  <2>1. state' = "idle"
    BY <1>4, <1>5
  <2>2. FlagTypes'
    BY <1>1, <1>2, <1>3, <1>5, <2>1 DEF FlagTypes
  <2>3. CountTypes'
    BY <1>1, <1>2, <1>5 DEF CountTypes
  <2>4. Quiet'
    BY <1>1, <1>2, <1>3, <1>4, <1>5, <2>1 DEF Quiet
  <2>5. InTransfer'
    BY <2>1 DEF InTransfer
  <2> QED BY <1>5, <2>2, <2>3, <2>4, <2>5, Parts
<1>6. stops \in Nat /\ offset \in Nat /\ blkno \in Nat /\ enq \in BOOLEAN /\ open \in BOOLEAN
      /\ NoCommand \in HwTypes /\ NoCommand.cmd = "none" /\ NoCommand.status = "idle"
  BY <1>1, Commands DEF CountTypes, FlagTypes
<1>7. CASE nexus = None /\ Keep(None) /\ hw' = NoCommand /\ UNCHANGED <<enq, transfer, open>>
  <2>1. Requests' /\ RequestTypes' /\ nexus' = None
    BY <1>1, <1>2, <1>7, RequestsKept DEF Keep
  <2> QED BY <1>4, <1>5, <1>6, <1>7, <2>1 DEF transfer
<1>8. CASE nexus # None /\ StartKept(nexus)
  <2>1. PICK r \in Req : nexus = r /\ StartKept(r)
    BY <1>1, <1>8 DEF RequestTypes
  <2>2. moved[r] = <<>> /\ earlier[r] = {} /\ r # None
    BY <1>1, <1>4, <1>8, <2>1 DEF Quiet, Requests, Ordered
  <2>3. CASE /\ ccb[r].kind \in {"sync", "ready"} /\ Post(r, "good") /\ hw' = NoCommand
             /\ UNCHANGED <<enq, transfer, open>>
    <3>1. MayAnswer(r, "good")
      BY <2>2, <2>3 DEF MayAnswer
    <3>2. Requests' /\ RequestTypes' /\ nexus' = None
      BY <1>1, <1>2, <1>8, <2>1, <2>3, <3>1, Answered
    <3> QED BY <1>4, <1>5, <1>6, <2>3, <3>2 DEF transfer
  <2>4. CASE /\ ccb[r].kind = "erase" /\ Post(r, "error") /\ MayDropEnqueue
             /\ \E s \in {"ok", "err"} : hw' = [Command("other") EXCEPT !.status = s]
             /\ UNCHANGED <<transfer, open>>
    <3>1. MayAnswer(r, "error")
      BY DEF MayAnswer
    <3>2. Requests' /\ RequestTypes' /\ nexus' = None
      BY <1>1, <1>2, <1>8, <2>1, <2>4, <3>1, Answered
    <3>3. hw' \in HwTypes /\ hw'.cmd = "other" /\ hw'.status \in {"ok", "err"}
      BY <2>4, Commands DEF HwTypes
    <3>4. enq' \in BOOLEAN
      BY <1>6, <2>4 DEF MayDropEnqueue
    <3> QED BY <1>4, <1>5, <1>6, <2>4, <3>2, <3>3, <3>4 DEF transfer
  <2>5. CASE /\ ccb[r].kind = "rw" /\ DmaRw(r, 0, 0, NoCommand) /\ stop' = StopFor(r, 0, stop)
             /\ UNCHANGED <<enq, stops>>
    <3>1. 0 \in 0 .. ccb[r].len
      BY <1>1 DEF RequestTypes, CcbType
    <3>2. CASE /\ Post(r, IF ccb[r].part THEN "error" ELSE "good")
               /\ 0 = ccb[r].len /\ offset' = 0 /\ blkno' = 0
               /\ hw' = NoCommand /\ ~open' /\ open' \in BOOLEAN /\ stop' = stop
      <4> DEFINE s == IF ccb[r].part THEN "error" ELSE "good"
      <4>1. MayAnswer(r, s)
        BY <2>2, <2>5, <3>2, InOrderNone DEF MayAnswer
      <4>2. s \in {"good", "error"} /\ Post(r, s)
        BY <3>2
      <4> HIDE DEF s
      <4>3. Requests' /\ RequestTypes' /\ nexus' = None
        BY <1>1, <1>2, <1>8, <2>1, <4>1, <4>2, Answered
      <4> QED BY <1>5, <1>6, <2>5, <3>2, <4>3
    <3>3. CASE /\ Keep(r)
               /\ offset' \in Nat /\ blkno' = offset' /\ blkno' <= ccb[r].len
               /\ hw' \in HwTypes /\ hw'.cmd = "data" /\ hw'.status = "busy" /\ hw'.req = r
               /\ hw'.mem = 0 /\ hw'.blk = 0 /\ 0 + hw'.n = blkno'
               /\ stop' \in {"none", "pend", "auto"} /\ open' \in BOOLEAN
               /\ stop' = "none" => ~open'
               /\ stop' = "auto" => acmd12
      <4>1. nexus' = nexus /\ ccb' = ccb /\ earlier' = earlier
        BY <2>1, <3>3 DEF Keep
      <4>2. Requests' /\ RequestTypes'
        BY <1>1, <1>2, <4>1, RequestsKept
      <4>3. state' = "data" /\ nexus' = r
        BY <1>4, <2>1, <2>2, <4>1
      <4>4. FlagTypes'
        <5>1. stop' \in {"none", "pend", "issued", "auto"} /\ enq' = enq
          BY <2>5, <3>3
        <5>2. open' \in BOOLEAN
          BY Zenon, <3>3
        <5>3. overtaken' \in BOOLEAN
          BY <1>1, <1>3 DEF FlagTypes
        <5> QED BY <1>1, <1>2, <1>3, <4>3, <5>1, <5>2, <5>3 DEF FlagTypes
      <4>5. CountTypes'
        <5>1. stops' = stops
          BY <2>5
        <5> QED BY <1>1, <1>2, <3>3, <5>1 DEF CountTypes
      <4>6. Quiet'
        BY <1>1, <1>2, <1>3, <1>4, <2>2, <3>3, <4>1, <4>3 DEF Quiet
      <4>7. InTransfer'
        BY <1>2, <1>3, <2>2, <2>5, <3>3, <4>1, <4>3, InOrderNone DEF InTransfer
      <4> QED BY <4>2, <4>4, <4>5, <4>6, <4>7, Parts
    <3> QED BY <1>1, <1>4, <2>5, <3>1, <3>2, <3>3, Moves
  <2> QED BY <2>1, <2>3, <2>4, <2>5 DEF StartKept
<1> QED BY <1>7, <1>8 DEF IdentDone
-----------------------------------------------------------------------------
(* Data and stop commands.                                                  *)

\* What every data interrupt finds and leaves alone.
LEMMA DataStep ==
    ASSUME IInv, DataIrq
    PROVE  /\ queue' = queue /\ ident' = ident /\ probes' = probes /\ count' = count
           /\ ready' = ready /\ resetting' = resetting /\ powered' = powered /\ moved' = moved
           /\ starter' = starter /\ acmd12' = acmd12 /\ enq' = enq /\ drv' = "start"
           /\ overtaken' \in BOOLEAN
           /\ state = "data" /\ ident = "none" /\ resets = 0
           /\ starter \notin {"boot", "booting"} /\ hw.status \in {"ok", "err"}
<1>1. TypeOK /\ FlagTypes /\ CountTypes /\ Quiet /\ InTransfer
  BY Parts
<1>2. /\ queue' = queue /\ ident' = ident /\ probes' = probes /\ count' = count
      /\ ready' = ready /\ resetting' = resetting /\ powered' = powered /\ moved' = moved
      /\ starter' = starter /\ acmd12' = acmd12 /\ enq' = enq /\ drv' = "start"
      /\ overtaken' = (overtaken \/ starter = "booting")
      /\ state = "data" /\ hw.status \in {"ok", "err"}
  BY DEF DataIrq, Interrupted
<1>3. overtaken' \in BOOLEAN
  BY <1>1, <1>2 DEF FlagTypes
<1>4. ident = "none" /\ resets = 0 /\ starter \notin {"boot", "booting"}
  BY <1>1, <1>2 DEF Quiet, InTransfer, CountTypes
<1> QED BY <1>2, <1>3, <1>4

\* The flags after a data interrupt.
LEMMA DataFlags ==
    ASSUME IInv, DataIrq, state' \in {"idle", "ident", "data"},
           stop' \in {"none", "pend", "issued", "auto"}, open' \in BOOLEAN
    PROVE  FlagTypes'
<1>1. FlagTypes
  BY Parts
<1> QED BY <1>1, DataStep DEF FlagTypes

\* The next command of the request goes out, or it is answered.
LEMMA ContinueInv ==
    ASSUME IInv, DataIrq, Continue, NEW s \in {"none", "pend", "issued", "auto"},
           stop' = StopFor(nexus, offset, s), ~open, resets' = resets, stops' \in Nat,
           moved[nexus] = InOrder(blkno)
    PROVE  IInv'
<1>1. /\ TypeOK /\ RequestTypes /\ FlagTypes /\ CountTypes /\ Requests /\ Quiet /\ InTransfer
  BY Parts
<1>2. PICK r \in Req : nexus = r
  BY <1>1, DataStep DEF RequestTypes, InTransfer
<1>3. /\ ccb[r].kind = "rw" /\ offset = blkno /\ blkno <= ccb[r].len /\ r # None
      /\ moved[r] = InOrder(offset) /\ offset \in Nat /\ ccb[r].len \in Nat
  BY <1>1, <1>2, DataStep DEF InTransfer, CountTypes, RequestTypes, CcbType
<1>4. /\ DmaRw(r, offset, offset, NoCommand) /\ stop' = StopFor(r, offset, s)
      /\ state' = IF nexus' = None THEN "idle" ELSE "data"
  BY <1>2, <1>3 DEF Continue, StateAfter
<1>5. CASE /\ Post(r, IF ccb[r].part THEN "error" ELSE "good")
           /\ offset = ccb[r].len /\ offset' = offset /\ blkno' = offset
           /\ hw' = NoCommand /\ ~open' /\ open' \in BOOLEAN /\ stop' = s
  <2> DEFINE a == IF ccb[r].part THEN "error" ELSE "good"
  <2>1. MayAnswer(r, a)
    BY <1>3, <1>5 DEF MayAnswer
  <2>2. a \in {"good", "error"} /\ Post(r, a)
    BY <1>5
  <2> HIDE DEF a
  <2>3. Requests' /\ RequestTypes' /\ nexus' = None
    BY <1>1, <1>2, <2>1, <2>2, Answered, DataStep
  <2>4. state' = "idle"
    BY <1>4, <2>3
  <2>5. FlagTypes'
    <3>1. open' \in BOOLEAN /\ stop' = s
      BY Zenon, <1>5
    <3> QED BY <2>4, <3>1, DataFlags
  <2>6. CountTypes'
    BY <1>1, <1>3, <1>5, DataStep, Commands DEF CountTypes
  <2>7. Quiet'
    BY <1>1, <1>5, <2>3, <2>4, DataStep, Commands DEF Quiet
  <2>8. InTransfer'
    BY <2>4 DEF InTransfer
  <2> QED BY <2>3, <2>5, <2>6, <2>7, <2>8, Parts
<1>6. CASE /\ Keep(r)
           /\ offset' \in Nat /\ blkno' = offset' /\ blkno' <= ccb[r].len
           /\ hw' \in HwTypes /\ hw'.cmd = "data" /\ hw'.status = "busy" /\ hw'.req = r
           /\ hw'.mem = offset /\ hw'.blk = offset /\ offset + hw'.n = blkno'
           /\ stop' \in {"none", "pend", "auto"} /\ open' \in BOOLEAN
           /\ stop' = "none" => ~open'
           /\ stop' = "auto" => acmd12
  <2>1. nexus' = nexus /\ nexus' = r /\ ccb' = ccb /\ earlier' = earlier
    BY <1>2, <1>6 DEF Keep
  <2>2. Requests' /\ RequestTypes'
    BY <1>1, <2>1, RequestsKept, DataStep
  <2>3. state' = "data"
    BY <1>3, <1>4, <2>1
  <2>4. FlagTypes'
    <3>1. stop' \in {"none", "pend", "issued", "auto"}
      BY <1>6
    <3>2. open' \in BOOLEAN
      BY Zenon, <1>6
    <3> QED BY <2>3, <3>1, <3>2, DataFlags
  <2>5. CountTypes'
    BY <1>1, <1>6, DataStep DEF CountTypes
  <2>6. Quiet'
    BY <1>1, <1>3, <1>6, <2>1, <2>3, DataStep DEF Quiet
  <2>7. InTransfer'
    BY <1>3, <1>6, <2>1, <2>3, DataStep DEF InTransfer
  <2> QED BY <2>2, <2>4, <2>5, <2>6, <2>7, Parts
<1>7. offset \in 0 .. ccb[r].len
  BY <1>3
<1> QED BY <1>1, <1>4, <1>5, <1>6, <1>7, Moves

\* A stop command goes out for the request, which stays the current one.
LEMMA StopSent ==
    ASSUME IInv, DataIrq, nexus' = nexus, state' = state, resets' = resets, stops' \in Nat,
           offset' = offset, blkno' = blkno, open' = open,
           hw' = Command("stop"), stop' = "issued", Requests', RequestTypes',
           ccb'[nexus].kind = ccb[nexus].kind, ccb'[nexus].len = ccb[nexus].len,
           ~ccb'[nexus].check => moved[nexus] = InOrder(blkno)
    PROVE  IInv'
<1>1. /\ TypeOK /\ FlagTypes /\ CountTypes /\ Quiet /\ InTransfer
  BY Parts
<1>2. FlagTypes'
  BY <1>1, DataFlags DEF FlagTypes
<1>3. CountTypes'
  BY <1>1, DataStep, Commands DEF CountTypes
<1>4. Quiet'
  BY <1>1, DataStep, Commands DEF Quiet
<1>5. InTransfer'
  <2>1. hw'.cmd = "stop" /\ hw'.status = "busy"
    BY Commands
  <2> QED BY <1>1, <2>1, DataStep DEF InTransfer
<1> QED BY <1>2, <1>3, <1>4, <1>5, Parts

LEMMA DataDoneInv ==
    ASSUME IInv, DataDone
    PROVE  IInv'
<1>1. /\ TypeOK /\ RequestTypes /\ FlagTypes /\ CountTypes /\ Requests /\ Quiet /\ InTransfer
  BY Parts
<1>2. /\ DataIrq /\ stop # "issued" /\ hw.status = "ok" /\ stops' = 0 /\ resets' = resets
      /\ stop \in {"none", "pend", "issued", "auto"}
  BY <1>1 DEF DataDone, FlagTypes
<1>3. moved[nexus] = InOrder(blkno) /\ (stop # "pend" => ~open)
  BY <1>1, <1>2, DataStep DEF InTransfer
<1>4. CASE /\ stop = "pend" /\ hw' = Command("stop") /\ stop' = "issued"
           /\ UNCHANGED <<ccb, nexus, earlier, state, offset, blkno, open>>
  <2>1. Requests' /\ RequestTypes'
    BY <1>1, <1>2, <1>4, RequestsKept, DataStep
  <2> QED BY <1>2, <1>3, <1>4, <2>1, StopSent
<1>5. CASE stop # "pend" /\ Continue /\ stop' = StopFor(nexus, offset, stop)
  BY <1>2, <1>3, <1>5, ContinueInv
<1> QED BY <1>4, <1>5 DEF DataDone

LEMMA DataFailedInv ==
    ASSUME IInv, DataFailed
    PROVE  IInv'
<1>1. /\ TypeOK /\ RequestTypes /\ FlagTypes /\ CountTypes /\ Requests /\ Quiet /\ InTransfer
  BY Parts
<1>2. /\ DataIrq /\ stops' = 0 /\ resets' = resets /\ hw' = Command("stop") /\ stop' = "issued"
      /\ ccb' = [ccb EXCEPT ![nexus].check = TRUE]
      /\ nexus' = nexus /\ earlier' = earlier /\ state' = state
      /\ offset' = offset /\ blkno' = blkno /\ open' = open
  BY DEF DataFailed
<1>3. PICK r \in Req : nexus = r
  BY <1>1, <1>2, DataStep DEF RequestTypes, InTransfer
<1>4. /\ ccb' = [ccb EXCEPT ![r] = [ccb[r] EXCEPT !.check = TRUE]]
      /\ ccb[r] \in [kind : Kinds, len : Nat, part : BOOLEAN, check : BOOLEAN,
                     status : {"new", "inprog", "good", "error"}]
  BY <1>1, <1>2, <1>3 DEF RequestTypes, CcbType
<1>5. [ccb[r] EXCEPT !.check = TRUE] \in [kind : Kinds, len : Nat, part : BOOLEAN, check : BOOLEAN,
                                         status : {"new", "inprog", "good", "error"}]
  BY <1>4
<1>6. CcbType' /\ ccb'[r] = [ccb[r] EXCEPT !.check = TRUE]
      /\ \A q \in Req : q # r => ccb'[q] = ccb[q]
  BY <1>1, <1>4, <1>5 DEF RequestTypes, CcbType
<1>7. /\ ccb'[r].kind = ccb[r].kind /\ ccb'[r].len = ccb[r].len /\ ccb'[r].part = ccb[r].part
      /\ ccb'[r].status = ccb[r].status /\ ccb'[r].check
  BY <1>4, <1>6
<1>8. \A q \in Req : /\ ccb'[q].kind = ccb[q].kind /\ ccb'[q].len = ccb[q].len
                     /\ ccb'[q].part = ccb[q].part /\ ccb'[q].status = ccb[q].status
  BY <1>6, <1>7
<1>9. \A q \in Req : InProgress(q)' <=> InProgress(q)
  BY <1>8 DEF InProgress
<1>10. RequestTypes'
  BY <1>1, <1>2, <1>6, DataStep DEF RequestTypes
<1>11. Served'
  <2>1. \A i \in 1 .. Len(queue) : queue[i] \in Req
    BY <1>1 DEF RequestTypes
  <2> QED BY <1>1, <1>2, <1>3, <1>9, <2>1, DataStep DEF Requests, Served
<1>12. Ordered' /\ GoodIsTrue'
  BY <1>1, <1>2, <1>8, DataStep DEF Requests, Ordered, GoodIsTrue
<1> QED BY <1>2, <1>3, <1>7, <1>10, <1>11, <1>12, StopSent DEF Requests

\* The current request fails.
LEMMA RequestFails ==
    ASSUME IInv, DataIrq, Post(nexus, "error"), state' \in {"idle", "ident"},
           stop' = "none", hw' = NoCommand, stops' \in Nat, offset' = offset, blkno' = blkno,
           open' = open, state' = "idle" => ~open /\ resets' = resets,
           state' = "ident" => resets' = resets + 1
    PROVE  IInv'
<1>1. /\ TypeOK /\ RequestTypes /\ FlagTypes /\ CountTypes /\ Requests /\ Quiet /\ InTransfer
  BY Parts
<1>2. PICK r \in Req : nexus = r
  BY <1>1, DataStep DEF RequestTypes, InTransfer
<1>3. Post(r, "error") /\ MayAnswer(r, "error")
  BY <1>2 DEF MayAnswer
<1>4. Requests' /\ RequestTypes' /\ nexus' = None
  BY <1>1, <1>2, <1>3, Answered, DataStep
<1>5. FlagTypes'
  BY <1>1, DataFlags DEF FlagTypes
<1>6. (state' = "idle" => resets' = 0) /\ (state' = "ident" => resets' = 1)
  BY DataStep
<1>7. CountTypes'
  BY <1>1, <1>6, DataStep, Commands DEF CountTypes
<1>8. Quiet'
  BY <1>4, <1>6, DataStep, Commands DEF Quiet
<1>9. InTransfer'
  BY DEF InTransfer
<1> QED BY <1>4, <1>5, <1>7, <1>8, <1>9, Parts

LEMMA StopDoneInv ==
    ASSUME IInv, StopDone
    PROVE  IInv'
<1>1. TypeOK /\ FlagTypes /\ CountTypes /\ InTransfer
  BY Parts
<1>2. DataIrq /\ stop = "issued" /\ hw.status = "ok" /\ stops' = 0 /\ resets' = resets
  BY DEF StopDone
<1>3. ~open /\ (~ccb[nexus].check => moved[nexus] = InOrder(blkno))
  BY <1>1, <1>2, DataStep DEF InTransfer
<1>4. CASE /\ ccb[nexus].check /\ Post(nexus, "error") /\ state' = "idle"
           /\ stop' = "none" /\ hw' = NoCommand /\ UNCHANGED <<offset, blkno, open>>
  BY <1>2, <1>3, <1>4, RequestFails
<1>5. CASE /\ ~ccb[nexus].check /\ Continue /\ stop' = StopFor(nexus, offset, "none")
  BY <1>2, <1>3, <1>5, ContinueInv
<1> QED BY <1>4, <1>5 DEF StopDone

LEMMA StopFailedInv ==
    ASSUME IInv, StopFailed
    PROVE  IInv'
<1>1. /\ TypeOK /\ RequestTypes /\ FlagTypes /\ CountTypes /\ Requests /\ Quiet /\ InTransfer
  BY Parts
<1>2. /\ DataIrq /\ stop = "issued" /\ stops' = stops + 1
      /\ offset' = offset /\ blkno' = blkno /\ open' = open
  BY DEF StopFailed
<1>3. stops' \in Nat
  BY <1>1, <1>2 DEF CountTypes
<1>4. CASE /\ hw' = Command("stop") /\ UNCHANGED <<ccb, nexus, earlier, state, resets, stop>>
  <2>1. Requests' /\ RequestTypes'
    BY <1>1, <1>2, <1>4, RequestsKept, DataStep
  <2>2. ~ccb[nexus].check => moved[nexus] = InOrder(blkno)
    BY <1>1, <1>2, DataStep DEF InTransfer
  <2> QED BY <1>2, <1>3, <1>4, <2>1, <2>2, StopSent
<1>5. CASE /\ Post(nexus, "error") /\ state' = "ident" /\ stop' = "none"
           /\ resets' = resets + 1 /\ hw' = NoCommand
  BY <1>2, <1>3, <1>5, RequestFails
<1> QED BY <1>4, <1>5 DEF StopFailed
-----------------------------------------------------------------------------
(* The starting threads and the hardware.                                   *)

\* An identification starts.
LEMMA Identifies ==
    ASSUME IInv, IdentStart
    PROVE  /\ ident' \in {"start", "probe"} /\ probes' = 0 /\ count' \in 0 .. PwrRetry
           /\ hw' = Command("other") /\ powered' /\ ~open'
           /\ powered' \in BOOLEAN /\ open' \in BOOLEAN /\ moved' = moved
<1>1. CountTypes
  BY Parts
<1>2. count' \in 0 .. PwrRetry
  BY <1>1, MmcAssumption DEF IdentStart, CountTypes, MmcAssumption
<1>3. /\ ident' \in {"start", "probe"} /\ probes' = 0 /\ hw' = Command("other") /\ moved' = moved
  BY DEF IdentStart
<1>4. powered' /\ ~open' /\ powered' \in BOOLEAN /\ open' \in BOOLEAN
  BY Zenon DEF IdentStart
<1> QED BY <1>2, <1>3, <1>4

LEMMA BootInv ==
    ASSUME IInv, Boot
    PROVE  IInv'
<1>1. /\ TypeOK /\ RequestTypes /\ FlagTypes /\ CountTypes /\ Requests /\ Quiet /\ InTransfer
  BY Parts
<1>2. /\ ccb' = ccb /\ queue' = queue /\ nexus' = nexus /\ earlier' = earlier
      /\ starter = "boot" /\ starter' = "booting" /\ enq' = enq /\ drv' = drv /\ state' = state
      /\ ready' = ready /\ resetting' = resetting /\ resets' = resets
      /\ stop' = stop /\ stops' = stops /\ offset' = offset /\ blkno' = blkno
      /\ acmd12' = acmd12 /\ overtaken' = overtaken /\ IdentStart
  BY DEF Boot, requests, transfer
<1>3. Requests' /\ RequestTypes'
  BY <1>1, <1>2, RequestsKept, Identifies
<1>4. FlagTypes'
  BY <1>1, <1>2, Identifies DEF FlagTypes
<1>5. CountTypes'
  BY <1>1, <1>2, Identifies, Commands, MmcAssumption DEF CountTypes, MmcAssumption
<1>6. Quiet'
  BY <1>1, <1>2, Identifies, Commands DEF Quiet
<1>7. InTransfer'
  BY <1>1, <1>2 DEF Quiet, InTransfer
<1> QED BY <1>3, <1>4, <1>5, <1>6, <1>7, Parts

LEMMA ResetInv ==
    ASSUME IInv, Reset
    PROVE  IInv'
<1>1. /\ TypeOK /\ RequestTypes /\ FlagTypes /\ CountTypes /\ Requests /\ Quiet /\ InTransfer
  BY Parts
<1>2. /\ ccb' = ccb /\ queue' = queue /\ nexus' = nexus /\ earlier' = earlier
      /\ enq' = enq /\ drv' = drv /\ state' = state /\ ready' = ready
      /\ stop' = stop /\ stops' = stops /\ offset' = offset /\ blkno' = blkno
      /\ acmd12' = acmd12 /\ overtaken' = overtaken /\ starter = "wait"
      /\ resets > 0 /\ resets' = resets - 1
  BY DEF Reset, requests, transfer
<1>3. resets = 1 /\ resets' = 0 /\ state = "ident" /\ hw.status = "idle"
  BY <1>1, <1>2 DEF Quiet
<1>4. CASE ready /\ starter' = "sent" /\ resetting' = TRUE /\ IdentStart
  <2>1. Requests' /\ RequestTypes'
    BY <1>1, <1>2, <1>4, RequestsKept, Identifies
  <2>2. FlagTypes'
    <3>1. resetting' \in BOOLEAN
      BY Zenon, <1>4
    <3> QED BY <1>1, <1>2, <1>4, <3>1, Identifies DEF FlagTypes
  <2>3. CountTypes'
    BY <1>1, <1>2, <1>3, <1>4, Identifies, Commands, MmcAssumption DEF CountTypes, MmcAssumption
  <2>4. Quiet'
    BY <1>1, <1>2, <1>3, <1>4, Identifies, Commands DEF Quiet
  <2>5. InTransfer'
    BY <1>2, <1>3 DEF InTransfer
  <2> QED BY <2>1, <2>2, <2>3, <2>4, <2>5, Parts
<1>5. CASE ~ready /\ UNCHANGED <<starter, resetting, ident, probes, count, card>>
  <2>1. /\ starter' = starter /\ resetting' = resetting /\ ident' = ident /\ probes' = probes
        /\ count' = count /\ hw' = hw /\ powered' = powered /\ open' = open /\ moved' = moved
    BY <1>5 DEF card
  <2>2. Requests' /\ RequestTypes'
    BY <1>1, <1>2, <2>1, RequestsKept
  <2>3. FlagTypes'
    BY <1>1, <1>2, <2>1 DEF FlagTypes
  <2>4. CountTypes'
    BY <1>1, <1>2, <1>3, <2>1 DEF CountTypes
  <2>5. Quiet'
    BY <1>1, <1>2, <1>3, <1>5, <2>1 DEF Quiet
  <2>6. InTransfer'
    BY <1>2, <1>3 DEF InTransfer
  <2> QED BY <2>2, <2>3, <2>4, <2>5, <2>6, Parts
<1> QED BY <1>2, <1>4, <1>5 DEF Reset

LEMMA StoreIdentInv ==
    ASSUME IInv, StoreIdent
    PROVE  IInv'
<1>1. /\ TypeOK /\ RequestTypes /\ FlagTypes /\ CountTypes /\ Requests /\ Quiet /\ InTransfer
  BY Parts
<1>2. /\ ccb' = ccb /\ queue' = queue /\ nexus' = nexus /\ earlier' = earlier /\ moved' = moved
      /\ enq' = enq /\ drv' = drv /\ state' = "ident" /\ starter' = "wait"
      /\ ident' = ident /\ probes' = probes /\ count' = count /\ ready' = ready
      /\ resetting' = resetting /\ resets' = resets
      /\ stop' = stop /\ stops' = stops /\ offset' = offset /\ blkno' = blkno
      /\ acmd12' = acmd12 /\ hw' = hw /\ powered' = powered /\ open' = open
      /\ overtaken' = (overtaken \/ (starter = "sent" /\ state # "ident"))
  BY DEF StoreIdent, requests, idents, transfer, card
<1>3. Requests' /\ RequestTypes'
  BY <1>1, <1>2, RequestsKept
<1>4. FlagTypes'
  BY <1>1, <1>2 DEF FlagTypes
<1>5. CountTypes'
  BY <1>1, <1>2 DEF CountTypes
<1>6. Quiet'
  BY <1>1, <1>2 DEF Quiet, InTransfer, FlagTypes, CountTypes
<1>7. InTransfer'
  BY <1>2 DEF InTransfer
<1> QED BY <1>3, <1>4, <1>5, <1>6, <1>7, Parts

LEMMA WorksInv ==
    ASSUME IInv, NEW s \in {"ok", "err"}, Works(s)
    PROVE  IInv'
<1>1. /\ TypeOK /\ RequestTypes /\ FlagTypes /\ CountTypes /\ Requests /\ Quiet /\ InTransfer
  BY Parts
<1>2. /\ ccb' = ccb /\ queue' = queue /\ nexus' = nexus /\ earlier' = earlier
      /\ enq' = enq /\ drv' = drv /\ state' = state /\ ident' = ident /\ probes' = probes
      /\ count' = count /\ ready' = ready /\ resetting' = resetting /\ resets' = resets
      /\ starter' = starter /\ stop' = stop /\ stops' = stops /\ offset' = offset
      /\ blkno' = blkno /\ acmd12' = acmd12 /\ powered' = powered /\ overtaken' = overtaken
      /\ powered /\ hw.status = "busy" /\ hw' = [hw EXCEPT !.status = s]
  BY DEF Works, requests, idents, transfer
<1>3. /\ open' = (open /\ ~(s = "ok" /\ (hw.cmd = "stop" \/ (hw.cmd = "data" /\ acmd12))))
      /\ open' \in BOOLEAN /\ (open' => open)
  BY DEF Works
<1>4. /\ hw' \in HwTypes /\ hw'.status = s /\ hw'.cmd = hw.cmd /\ hw'.req = hw.req
      /\ hw'.mem = hw.mem /\ hw'.blk = hw.blk /\ hw'.n = hw.n
  BY <1>1, <1>2 DEF CountTypes, HwTypes
<1>5. Blocks(hw) \in Seq(Nat \X Nat)
  <2>1. hw.mem \in Nat /\ hw.blk \in Nat /\ hw.n \in Nat
    BY <1>1 DEF CountTypes, HwTypes
  <2> QED BY <2>1 DEF Blocks
<1>6. /\ moved' \in [Req -> Seq(Nat \X Nat)]
      /\ \A q \in Req : q # nexus => moved'[q] = moved[q]
      /\ s = "ok" /\ hw.cmd = "data" => nexus \in Req /\ moved'[nexus] = moved[nexus] \o Blocks(hw)
      /\ s # "ok" \/ hw.cmd # "data" => moved' = moved
  <2>1. CASE s = "ok" /\ hw.cmd = "data"
    <3>1. PICK r \in Req : nexus = r /\ hw.req = r
      BY <1>1, <2>1 DEF Quiet, RequestTypes
    <3>2. moved' = [moved EXCEPT ![hw.req] = @ \o Blocks(hw)]
      BY Zenon, <2>1 DEF Works
    <3>3. moved[r] \o Blocks(hw) \in Seq(Nat \X Nat)
      <4>1. moved[r] \in Seq(Nat \X Nat)
        BY <1>1 DEF RequestTypes
      <4> QED BY <4>1, <1>5, ConcatProperties
    <3> QED BY <1>1, <2>1, <3>1, <3>2, <3>3 DEF RequestTypes
  <2>2. CASE ~(s = "ok" /\ hw.cmd = "data")
    <3>1. moved' = moved
      BY <2>2 DEF Works
    <3> QED BY <1>1, <2>2, <3>1 DEF RequestTypes
  <2> QED BY <2>1, <2>2
<1>7. RequestTypes'
  BY <1>1, <1>2, <1>6 DEF RequestTypes, CcbType
<1>8. Requests'
  <2>1. \A i \in 1 .. Len(queue) : queue[i] \in Req
    BY <1>1 DEF RequestTypes
  <2>2. \A q \in Req : InProgress(q)' <=> InProgress(q)
    BY <1>2 DEF InProgress
  <2>3. Served'
    <3>1. nexus' # None => InProgress(nexus)'
      BY <1>1, <1>2 DEF Requests, Served, InProgress
    <3>2. \A i \in 1 .. Len(queue) : /\ ccb[queue[i]].status = "inprog" /\ queue[i] # nexus
                                     /\ moved[queue[i]] = <<>>
      BY <1>1 DEF Requests, Served, InProgress
    <3>3. \A i \in 1 .. Len(queue') :
             InProgress(queue[i])' /\ queue'[i] # nexus' /\ moved'[queue'[i]] = <<>>
      <4> SUFFICES ASSUME NEW i \in 1 .. Len(queue')
                   PROVE  /\ ccb'[queue'[i]].status = "inprog"
                          /\ queue'[i] # nexus' /\ moved'[queue'[i]] = <<>>
        BY DEF InProgress
      <4>1. queue'[i] = queue[i] /\ i \in 1 .. Len(queue) /\ ccb' = ccb /\ nexus' = nexus
        BY <1>2
      <4>2. queue[i] \in Req /\ queue[i] # nexus
        BY <2>1, <3>2, <4>1
      <4>3. moved'[queue[i]] = moved[queue[i]]
        BY <1>6, <4>2
      <4> QED BY <3>2, <4>1, <4>2, <4>3
    <3>4. \A q \in Req : InProgress(q)' =>
             q = nexus' \/ \E i \in 1 .. Len(queue') : queue'[i] = q
      BY <1>1, <1>2, <2>2 DEF Requests, Served
    <3>5. /\ \A i, j \in 1 .. Len(queue') : queue'[i] = queue'[j] => i = j
          /\ starter' \in {"boot", "booting"} => nexus' = None /\ queue' = <<>>
      BY <1>1, <1>2 DEF Requests, Served
    <3> QED BY <3>1, <3>3, <3>4, <3>5 DEF Served
  <2>4. Ordered'
    BY <1>1, <1>2 DEF Requests, Ordered
  <2>5. ASSUME NEW q \in Req, ccb[q].status = "good"
        PROVE  moved'[q] = moved[q]
    <3>1. nexus # None => ccb[nexus].status = "inprog"
      BY <1>1 DEF Requests, Served, InProgress
    <3>2. q # None
      BY MmcAssumption DEF MmcAssumption
    <3>3. q # nexus
      BY <2>5, <3>1, <3>2
    <3> QED BY <1>6, <3>3
  <2>6. GoodIsTrue'
    BY <1>1, <1>2, <2>5 DEF Requests, GoodIsTrue
  <2> QED BY <2>3, <2>4, <2>6 DEF Requests
<1>9. FlagTypes'
  BY <1>1, <1>2, <1>3 DEF FlagTypes
<1>10. CountTypes'
  BY <1>1, <1>2, <1>4 DEF CountTypes
<1>11. Quiet'
  BY <1>1, <1>2, <1>3, <1>4, <1>6 DEF Quiet
<1>12. ASSUME state = "data", hw.cmd = "data"
       PROVE  moved'[nexus] = InOrder(IF s = "ok" THEN blkno ELSE hw.mem)
  <2>1. hw.mem \in Nat /\ hw.n \in Nat /\ hw.blk = hw.mem /\ hw.mem + hw.n = blkno
        /\ moved[nexus] = InOrder(hw.mem)
    BY <1>1, <1>2, <1>12 DEF InTransfer, CountTypes, HwTypes
  <2>2. InOrder(hw.mem) \o Blocks(hw) = InOrder(hw.mem + hw.n)
    <3> DEFINE m == hw.mem  n == hw.n
    <3>1. m \in Nat /\ n \in Nat /\ hw.mem = m /\ hw.blk = m /\ hw.n = n
      BY <2>1
    <3> HIDE DEF m, n
    <3>2. InOrder(m) \o Blocks(hw) = InOrder(m + n)
      BY <3>1, InOrderNext
    <3> QED BY <3>2 DEF m, n
  <2> QED BY <1>6, <1>12, <2>1, <2>2
<1>13. InTransfer'
  <2> SUFFICES ASSUME state = "data"
               PROVE  InTransfer'
    BY <1>2 DEF InTransfer
  <2>1. hw.cmd = "stop" => moved' = moved
    BY <1>6
  <2>2. s = "ok" /\ stop # "pend" => ~open'
    BY <1>1, <1>3 DEF InTransfer, FlagTypes
  <2> QED BY <1>1, <1>2, <1>3, <1>4, <1>12, <2>1, <2>2 DEF InTransfer
<1> QED BY <1>7, <1>8, <1>9, <1>10, <1>11, <1>13, Parts

-----------------------------------------------------------------------------
(* The theorems.                                                            *)

LEMMA InitInv == Init => IInv
<1> SUFFICES ASSUME Init
             PROVE  IInv
  OBVIOUS
<1>1. RequestTypes
  <2>1. "sync" \in Kinds /\ <<>> \in Seq(Nat \X Nat) /\ <<>> \in Seq(Req)
    BY DEF Kinds
  <2>2. CcbType
    BY <2>1 DEF Init, CcbType
  <2> QED BY <2>1, <2>2 DEF Init, RequestTypes
<1>2. FlagTypes
  BY DEF Init, FlagTypes
<1>3. CountTypes
  BY Commands, MmcAssumption DEF Init, CountTypes, MmcAssumption
<1>4. TypeOK
  BY Zenon, <1>1, <1>2, <1>3 DEF TypeOK, RequestTypes, CcbType, FlagTypes, CountTypes, HwTypes
<1>5. queue = <<>> /\ nexus = None /\ Len(queue) = 0
  BY DEF Init
<1>6. \A r \in Req : ccb[r].status = "new"
  BY DEF Init
<1>7. Served /\ Ordered /\ GoodIsTrue
  BY <1>5, <1>6 DEF Served, Ordered, GoodIsTrue, InProgress
<1>8. Quiet /\ InTransfer
  BY Commands DEF Init, Quiet, InTransfer
<1> QED BY <1>4, <1>7, <1>8 DEF IInv

LEMMA Inductive == IInv /\ [Next]_vars => IInv'
<1> SUFFICES ASSUME IInv, [Next]_vars
             PROVE  IInv'
  OBVIOUS
<1>1. CASE Client
  BY <1>1, SubmitInv DEF Client
<1>2. CASE Driver
  BY <1>2, PulseInv, StartNextInv, QuietSteps, IdentDoneInv, IdentFailedInv, DataDoneInv,
     DataFailedInv, StopDoneInv, StopFailedInv
  DEF Driver
<1>3. CASE Starter
  BY <1>3, BootInv, ResetInv, StoreIdentInv DEF Starter
<1>4. CASE Hardware
  BY <1>4, WorksInv DEF Hardware
<1>5. CASE UNCHANGED vars
  <2>1. /\ TypeOK /\ RequestTypes /\ FlagTypes /\ CountTypes /\ Requests /\ Quiet /\ InTransfer
    BY Parts
  <2>2. /\ ccb' = ccb /\ queue' = queue /\ nexus' = nexus /\ earlier' = earlier /\ moved' = moved
        /\ enq' = enq /\ drv' = drv /\ state' = state /\ starter' = starter
        /\ ident' = ident /\ probes' = probes /\ count' = count /\ ready' = ready
        /\ resetting' = resetting /\ resets' = resets
        /\ stop' = stop /\ stops' = stops /\ offset' = offset /\ blkno' = blkno
        /\ acmd12' = acmd12 /\ hw' = hw /\ powered' = powered /\ open' = open
        /\ overtaken' = overtaken
    BY <1>5 DEF vars, requests, idents, transfer, card
  <2>3. Requests' /\ RequestTypes'
    BY <2>1, <2>2, RequestsKept
  <2>4. FlagTypes' /\ CountTypes'
    BY <2>1, <2>2 DEF FlagTypes, CountTypes
  <2>5. Quiet' /\ InTransfer'
    BY <2>1, <2>2 DEF Quiet, InTransfer
  <2> QED BY <2>3, <2>4, <2>5, Parts
<1> QED BY <1>1, <1>2, <1>3, <1>4, <1>5 DEF Next

\* The requests, the identification, the transfer and the controller always
\* fit together as IInv says.
THEOREM Invariance == Spec => []IInv
  BY InitInv, Inductive, PTL DEF Spec

\* Every variable keeps its type; the identification counts stay in bounds.
THEOREM TypeCorrect == Spec => []TypeOK
<1>1. IInv => TypeOK
  BY DEF IInv
<1> QED BY <1>1, Invariance, PTL

\* A request answered CAM_REQ_CMP was done: the blocks of a read or write
\* moved once and in order, and what came before a sync was answered.
THEOREM GoodAnswersAreTrue == Spec => []GoodIsTrue
<1>1. IInv => GoodIsTrue
  BY DEF IInv
<1> QED BY <1>1, Invariance, PTL

\* A step that sends a command finds the controller free, and a step that
\* sends a read or a write finds the card outside a multi-block transfer.
Ready == hw' # hw /\ hw'.status = "busy" =>
            /\ hw.status # "busy" \/ ~powered
            /\ hw'.cmd = "data" => ~open

\* mmc_dma_rw needs no more than a card outside a transfer.
LEMMA ReadyToMove ==
    ASSUME IInv, Interrupted, ~open
    PROVE  Ready
  BY DEF Interrupted, Ready

LEMMA ReadyInDriver ==
    ASSUME IInv, Driver
    PROVE  Ready
<1>1. /\ TypeOK /\ RequestTypes /\ FlagTypes /\ CountTypes /\ Requests /\ Quiet /\ InTransfer
  BY Parts
<1>2. CASE TakeEnqueue \/ StartDone
  BY <1>2 DEF TakeEnqueue, StartDone, card, Ready
<1>3. CASE StartNext
  <2>1. PICK r : r = Head(queue) /\ Start(r) /\ nexus = None /\ queue # <<>>
    BY <1>3 DEF StartNext
  <2>2. starter # "booting"
    BY <1>1, <2>1 DEF Requests, Served
  <2>3. CASE hw' = hw
    BY <2>3 DEF Ready
  <2>4. CASE state # "ident" /\ hw' = IF powered THEN NoCommand ELSE Command("other")
    BY <2>4, Commands DEF Ready
  <2>5. CASE state # "ident" /\ DmaRw(r, 0, 0, hw)
    <3>1. state = "idle"
      BY <1>1, <2>1, <2>5 DEF InTransfer, FlagTypes
    <3> QED BY <1>1, <2>2, <3>1 DEF Quiet, Ready
  <2> QED BY <2>1, <2>3, <2>4, <2>5 DEF Start, card
<1>4. CASE Unexpected \/ IdentAgain \/ IdentNext \/ IdentFailed
  BY <1>4, Commands
  DEF Unexpected, IdentAgain, IdentNext, IdentFailed, Interrupted, IdentStart, Ready
<1>5. CASE IdentDone
  <2>1. ~open
    BY <1>1, <1>5 DEF IdentDone, Quiet
  <2> QED BY <1>5, <2>1, ReadyToMove DEF IdentDone
<1>6. CASE DataDone
  <2>1. DataIrq /\ hw.status = "ok"
    BY <1>6 DEF DataDone
  <2>2. CASE hw' = Command("stop")
    BY <2>1, <2>2, Commands DEF DataIrq, Interrupted, Ready
  <2>3. CASE stop # "pend"
    <3>1. ~open
      BY <1>1, <2>1, <2>3, DataStep DEF InTransfer
    <3> QED BY <2>1, <3>1, ReadyToMove DEF DataIrq
  <2> QED BY <1>6, <2>2, <2>3 DEF DataDone
<1>7. CASE DataFailed \/ StopFailed
  BY <1>7, Commands DEF DataFailed, StopFailed, DataIrq, Interrupted, Ready
<1>8. CASE StopDone
  <2>1. DataIrq /\ hw.status = "ok" /\ stop = "issued"
    BY <1>8 DEF StopDone
  <2>2. ~open
    BY <1>1, <2>1, DataStep DEF InTransfer
  <2> QED BY <2>1, <2>2, ReadyToMove DEF DataIrq
<1> QED BY <1>2, <1>3, <1>4, <1>5, <1>6, <1>7, <1>8 DEF Driver

LEMMA ReadyStep == IInv /\ [Next]_vars => Ready
<1> SUFFICES ASSUME IInv, [Next]_vars
             PROVE  Ready
  OBVIOUS
<1>1. CASE Client
  BY <1>1 DEF Client, Submit, Ready
<1>2. CASE Driver
  BY <1>2, ReadyInDriver
<1>3. CASE Starter
  <2>1. Quiet
    BY Parts
  <2>2. CASE Boot
    BY <2>1, <2>2, Commands DEF Boot, Quiet, IdentStart, Ready
  <2>3. CASE Reset
    <3>1. hw.status = "idle"
      BY <2>1, <2>3 DEF Reset, Quiet
    <3>2. hw' = hw \/ hw' = Command("other")
      BY <2>3 DEF Reset, IdentStart, card
    <3> QED BY <3>1, <3>2, Commands DEF Ready
  <2>4. CASE StoreIdent
    BY <2>4 DEF StoreIdent, card, Ready
  <2> QED BY <1>3, <2>2, <2>3, <2>4 DEF Starter
<1>4. CASE Hardware
  <2>1. PICK s \in {"ok", "err"} : Works(s)
    BY <1>4 DEF Hardware
  <2>2. hw \in HwTypes /\ hw' = [hw EXCEPT !.status = s]
    BY <2>1, Parts DEF Works, CountTypes
  <2>3. hw'.status = s
    BY <2>2 DEF HwTypes
  <2> QED BY <2>3 DEF Ready
<1>5. CASE UNCHANGED vars
  BY <1>5 DEF vars, card, Ready
<1> QED BY <1>1, <1>2, <1>3, <1>4, <1>5 DEF Next

\* No command is sent over another one, and no read or write to a card still
\* inside a multi-block transfer, through failures, stops and resets.
THEOREM CardReady == Spec => CardReadyForCommand
<1>1. IInv /\ [Next]_vars => [Ready]_vars
  BY ReadyStep
<1>2. Spec => [][Ready]_vars
  BY <1>1, Invariance, PTL DEF Spec
<1> QED BY <1>2, PTL DEF CardReadyForCommand, Ready

-----------------------------------------------------------------------------
(* No request is forgotten.                                                 *)

Commanded == hw.cmd # "none" => hw.status # "idle"

\* What a handler of an interrupt has to leave behind; it looks at the queue
\* next, and the first identification is not about to be stored.
LEMMA AfterInterrupt ==
    ASSUME Interrupted, Commanded', state' = "data" => ready', ready' => powered',
           resets' > 0 \/ resetting' => ready',
           state' = "ident" => resets' > 0 \/ Identifying'
    PROVE  Driven'
<1>1. drv' = "start" /\ starter' = starter
      /\ overtaken' = (overtaken \/ starter = "booting")
  BY DEF Interrupted
<1> QED BY <1>1 DEF Driven, Commanded

\* The controller has a command, or nothing more than it is left with.
LEMMA Occupied ==
    ASSUME NEW r, NEW off, NEW blk, NEW h, DmaRw(r, off, blk, h),
           h.cmd # "none" => h.status # "idle"
    PROVE  Commanded'
  BY DEF DmaRw, Commanded

\* What the invariant says before a step by which no identification is lost.
LEMMA DrivenParts ==
    ASSUME IInv, Driven, [Next]_vars, ~overtaken'
    PROVE  /\ ~overtaken /\ TypeOK /\ Quiet /\ InTransfer /\ Served
           /\ Commanded
           /\ drv = "wait" /\ nexus = None /\ queue # <<>> => enq
           /\ state = "data" => ready
           /\ ready => powered
           /\ resets > 0 \/ resetting => ready
           /\ starter = "booting" => Identifying
           /\ state = "ident" => resets > 0 \/ Identifying
<1>1. overtaken => overtaken'
  BY DEF Next, Client, Submit, Driver, TakeEnqueue, StartNext, StartDone, Unexpected,
         IdentAgain, IdentNext, IdentDone, IdentFailed, DataDone, DataFailed, StopDone,
         StopFailed, DataIrq, Interrupted, Starter, Boot, Reset, StoreIdent, Hardware,
         Works, vars
<1> QED BY <1>1 DEF Driven, IInv, Commanded

\* The driver thread takes a pulse, starts a request, or goes to sleep.
LEMMA DrivenStarts ==
    ASSUME IInv, Driven, [Next]_vars, ~overtaken', TakeEnqueue \/ StartNext \/ StartDone
    PROVE  Driven'
<1>1. /\ Commanded /\ (state = "data" => ready) /\ (ready => powered)
      /\ resets > 0 \/ resetting => ready
      /\ starter = "booting" => Identifying
      /\ state = "ident" => resets > 0 \/ Identifying
      /\ Served /\ TypeOK
  BY DrivenParts
<1>2. CASE TakeEnqueue \/ StartDone
  <2>1. UNCHANGED <<hw, state, ready, powered, resets, resetting, starter, ident, nexus, queue>>
        /\ (drv' = "start" \/ nexus # None \/ queue = <<>>)
    BY <1>2 DEF TakeEnqueue, StartDone, requests, idents, card
  <2> QED BY <1>1, <2>1 DEF Driven, Commanded, Identifying
<1>3. CASE StartNext
  <2>1. PICK r : r = Head(queue) /\ Start(r) /\ nexus = None /\ queue # <<>>
    BY <1>3 DEF StartNext
  <2>2. /\ UNCHANGED <<ident, ready, resets, resetting, starter>> /\ drv' = "start"
        /\ starter \notin {"boot", "booting"}
    BY <1>1, <1>3, <2>1 DEF StartNext, idents, Served
  <2>3. powered' = powered
    BY <2>1 DEF Start, card
  <2>4. CASE state' = state /\ hw' = hw
    BY <1>1, <2>2, <2>3, <2>4 DEF Driven, Commanded, Identifying
  <2>5. ASSUME state # "ident", Commanded', state' \in {state, "data"}, state' = "data" => ready
        PROVE  Driven'
    BY <1>1, <2>2, <2>3, <2>5 DEF Driven, Commanded
  <2>6. CASE state # "ident" /\ state' = state /\ hw' = IF powered THEN NoCommand ELSE Command("other")
    <3>1. Commanded'
      BY <2>6, Commands DEF Commanded
    <3> QED BY <1>1, <2>5, <2>6, <3>1
  <2>7. CASE /\ state # "ident" /\ ready /\ DmaRw(r, 0, 0, hw)
             /\ state' = IF nexus' = None THEN state ELSE "data"
    <3>1. Commanded'
      BY <1>1, <2>7, Occupied DEF Commanded
    <3> QED BY <2>5, <2>7, <3>1
  <2> QED BY <2>1, <2>4, <2>6, <2>7 DEF Start, card
<1> QED BY <1>2, <1>3

\* Identification: the next command goes out, or the card is to be reset, or
\* nothing is asked of it any more.
LEMMA DrivenIdents ==
    ASSUME IInv, Driven, [Next]_vars, ~overtaken',
           Unexpected \/ IdentAgain \/ IdentNext \/ IdentDone \/ IdentFailed
    PROVE  Driven'
<1>1. /\ Commanded /\ (ready => powered) /\ (resets > 0 \/ resetting => ready)
      /\ state = "ident" => resets > 0 \/ Identifying
      /\ Quiet /\ TypeOK /\ resets \in Nat
  BY DrivenParts DEF TypeOK
<1>2. Interrupted /\ hw.status # "idle" /\ resets = 0
  BY <1>1 DEF Unexpected, IdentAgain, IdentNext, IdentDone, IdentFailed, Interrupted, Quiet
<1>3. CASE Unexpected
  <2>1. UNCHANGED <<state, ready, powered, resets, resetting>> /\ state = "idle" /\ Commanded'
    BY <1>3, Commands DEF Unexpected, idents, Commanded
  <2> QED BY <1>1, <1>2, <2>1, AfterInterrupt
<1>4. CASE IdentAgain
  <2>1. UNCHANGED <<state, ready, resets, resetting>> /\ state = "ident" /\ IdentStart
    BY <1>4 DEF IdentAgain
  <2>2. Identifying' /\ Commanded' /\ powered'
    BY <2>1, Identifies, Commands DEF Identifying, Commanded
  <2> QED BY <1>1, <1>2, <2>1, <2>2, AfterInterrupt
<1>5. CASE IdentNext
  <2>1. /\ UNCHANGED <<state, ready, powered, resets, resetting>> /\ state = "ident"
        /\ ident' \in {"probe", "final"} /\ hw' = Command("other")
    BY <1>5 DEF IdentNext
  <2>2. Identifying' /\ Commanded'
    BY <1>1, <1>2, <2>1, Commands DEF Identifying, Commanded
  <2> QED BY <1>1, <1>2, <2>1, <2>2, AfterInterrupt
<1>6. CASE IdentDone
  <2>1. /\ state = "ident" /\ ready' /\ ~resetting' /\ resets' = resets /\ powered' = powered
        /\ state' \in {"idle", "data"}
    BY <1>6 DEF IdentDone, StateAfter
  <2>2. powered
    BY <1>1, <1>2, <2>1 DEF Identifying
  <2>3. Commanded'
    <3>1. CASE hw' = NoCommand
      BY <3>1, Commands DEF Commanded
    <3>2. CASE \E s \in {"ok", "err"} : hw' = [Command("other") EXCEPT !.status = s]
      BY <3>2, Commands DEF Commanded, HwTypes
    <3>3. CASE DmaRw(nexus, 0, 0, NoCommand)
      BY <3>3, Occupied, Commands
    <3> QED BY <1>6, <3>1, <3>2, <3>3 DEF IdentDone, StartKept
  <2> QED BY <1>1, <1>2, <2>1, <2>2, <2>3, AfterInterrupt
<1>7. CASE IdentFailed
  <2>1. UNCHANGED <<ready, resetting>> /\ Commanded' /\ state = "ident"
    BY <1>7, Commands DEF IdentFailed, Commanded
  <2>2. CASE resetting
    <3>1. resets' = resets + 1 /\ UNCHANGED <<state, powered>>
      BY <1>7, <2>2 DEF IdentFailed
    <3>2. resets' > 0
      BY <1>2, <3>1
    <3> QED BY <1>1, <1>2, <2>1, <2>2, <3>1, <3>2, AfterInterrupt
  <2>3. CASE ~resetting
    <3>1. resets' = resets /\ state' = "idle"
      BY <1>7, <2>3 DEF IdentFailed
    <3>2. ~ready
      BY <1>1, <1>2, <2>1, <2>3 DEF Quiet, Identifying
    <3> QED BY <1>1, <1>2, <2>1, <2>3, <3>1, <3>2, AfterInterrupt
  <2> QED BY <2>2, <2>3
<1> QED BY <1>3, <1>4, <1>5, <1>6, <1>7

\* Data and stop commands: another one goes out, the request is answered, or
\* the card, which was ready, is to be reset.
LEMMA DrivenData ==
    ASSUME IInv, Driven, [Next]_vars, ~overtaken',
           DataDone \/ DataFailed \/ StopDone \/ StopFailed
    PROVE  Driven'
<1>1. Interrupted /\ UNCHANGED <<ready, resetting, powered>> /\ state = "data"
  BY DEF DataDone, DataFailed, StopDone, StopFailed, DataIrq
<1>2. ready /\ powered /\ resets \in Nat
  BY <1>1, DrivenParts DEF TypeOK
<1>3. ASSUME Commanded', state' = "ident" => resets' > 0
      PROVE  Driven'
  BY <1>1, <1>2, <1>3, AfterInterrupt
<1>4. CASE hw' = NoCommand \/ hw' = Command("stop")
  <2>1. Commanded'
    BY <1>4, Commands DEF Commanded
  <2>2. state' = "ident" => resets' > 0
    BY <1>1, <1>2 DEF DataDone, DataFailed, StopDone, StopFailed, Continue, StateAfter
  <2> QED BY <1>3, <2>1, <2>2
<1>5. CASE Continue
  <2>1. Commanded' /\ state' # "ident"
    BY <1>5, Occupied, Commands DEF Continue, StateAfter
  <2> QED BY <1>3, <2>1
<1> QED BY <1>4, <1>5 DEF DataDone, DataFailed, StopDone, StopFailed

\* Every step keeps the requests going.
LEMMA DrivenStep == IInv /\ Driven /\ [Next]_vars => Driven'
<1> SUFFICES ASSUME IInv, Driven, [Next]_vars
             PROVE  Driven'
  OBVIOUS
<1> SUFFICES ASSUME ~overtaken'
             PROVE  Driven'
  BY DEF Driven
<1>1. /\ Commanded /\ (state = "data" => ready) /\ (ready => powered)
      /\ drv = "wait" /\ nexus = None /\ queue # <<>> => enq
      /\ resets > 0 \/ resetting => ready
      /\ starter = "booting" => Identifying
      /\ state = "ident" => resets > 0 \/ Identifying
      /\ Served /\ TypeOK /\ Quiet
  BY DrivenParts
<1>2. CASE Client
  <2>1. /\ UNCHANGED <<hw, state, ready, powered, resets, resetting, starter, ident>>
        /\ enq'
    BY <1>2 DEF Client, Submit, idents
  <2> QED BY <1>1, <2>1 DEF Driven, Commanded, Identifying
<1>3. CASE Driver
  BY <1>3, DrivenStarts, DrivenIdents, DrivenData DEF Driver
<1>4. CASE Boot
  <2>1. /\ UNCHANGED <<state, ready, resets, resetting, drv, nexus, queue, enq>>
        /\ starter' = "booting" /\ state = "idle" /\ ~ready /\ IdentStart
    BY <1>1, <1>4 DEF Boot, requests, Quiet
  <2>2. Identifying' /\ Commanded'
    BY <2>1, Identifies, Commands DEF Identifying, Commanded
  <2> QED BY <1>1, <2>1, <2>2 DEF Driven, Commanded
<1>5. CASE Reset
  <2>1. /\ UNCHANGED <<state, ready, drv, nexus, queue, enq>> /\ resets > 0
        /\ ready /\ state = "ident"
    BY <1>1, <1>5 DEF Reset, requests, Quiet
  <2>2. starter' = "sent" /\ IdentStart
    BY <1>5, <2>1 DEF Reset
  <2>3. Identifying' /\ Commanded' /\ powered'
    BY <2>2, Identifies, Commands DEF Identifying, Commanded
  <2> QED BY <1>1, <2>1, <2>2, <2>3 DEF Driven, Commanded
<1>6. CASE StoreIdent
  <2>1. /\ UNCHANGED <<hw, ready, powered, resets, resetting, ident, drv, nexus, queue, enq>>
        /\ starter' = "wait" /\ state' = "ident"
        /\ starter = "booting" \/ state = "ident"
    BY <1>6 DEF StoreIdent, requests, idents, card
  <2> QED BY <1>1, <2>1 DEF Driven, Commanded, Identifying
<1>7. CASE Hardware
  <2>1. PICK s \in {"ok", "err"} : Works(s)
    BY <1>7 DEF Hardware
  <2>2. /\ UNCHANGED <<state, ready, powered, resets, resetting, starter, ident,
                       drv, nexus, queue, enq>>
        /\ hw' = [hw EXCEPT !.status = s] /\ hw \in HwTypes
    BY <2>1, Parts DEF Works, requests, idents, CountTypes
  <2>3. hw'.cmd = hw.cmd /\ hw'.status = s
    BY <2>2 DEF HwTypes
  <2> QED BY <1>1, <2>2, <2>3 DEF Driven, Commanded, Identifying
<1>8. CASE UNCHANGED vars
  BY <1>1, <1>8 DEF vars, requests, idents, card, Driven, Commanded, Identifying
<1> QED BY <1>2, <1>3, <1>4, <1>5, <1>6, <1>7, <1>8 DEF Next, Starter

\* Whoever is answered last has been served: a request in progress always has
\* a pulse, an interrupt, a command or a reset to come that takes it further.
LEMMA DrivenServes == IInv /\ Driven => NoRequestForgotten
<1> SUFFICES ASSUME IInv, Driven, ~overtaken, NEW r \in Req, InProgress(r), ~enq, drv # "start"
             PROVE  \/ hw.status \in {"ok", "err"} \/ (hw.status = "busy" /\ powered)
                    \/ resets > 0 /\ ready
  BY DEF NoRequestForgotten
<1>1. TypeOK /\ Served /\ Quiet /\ InTransfer
  BY DEF IInv
<1>2. drv = "wait" /\ hw.status \in {"idle", "busy", "ok", "err"}
      /\ state \in {"idle", "ident", "data"}
  BY <1>1 DEF TypeOK
<1>3. nexus # None
  <2>1. SUFFICES ASSUME nexus = None PROVE FALSE
    OBVIOUS
  <2>2. queue = <<>>
    BY <1>2, <2>1 DEF Driven
  <2>3. r # None
    BY MmcAssumption DEF MmcAssumption
  <2> QED BY <1>1, <2>1, <2>2, <2>3 DEF Served
<1>4. CASE state = "data"
  BY <1>1, <1>2, <1>4 DEF InTransfer, Driven
<1>5. CASE state = "ident"
  BY <1>2, <1>5 DEF Driven, Identifying
<1> QED BY <1>1, <1>2, <1>3, <1>4, <1>5 DEF Quiet

\* No request is forgotten: as long as one is in progress, a pulse, a latched
\* interrupt, a command in a powered controller or a reset is to come, unless
\* the state of an identification was stored too late.
THEOREM NothingForgotten == Spec => []NoRequestForgotten
<1>1. Init => Driven
  BY Commands DEF Init, Driven
<1>2. Spec => []Driven
  BY <1>1, DrivenStep, Invariance, PTL DEF Spec
<1> QED BY <1>2, DrivenServes, Invariance, PTL
=============================================================================
