--------------------------- MODULE FrontendProofs ---------------------------
(***************************************************************************)
(* Theorems about Frontend, for every number of transfers, blobs, chunks,  *)
(* retries, restarts, failed writes and sessions.                          *)
(***************************************************************************)
EXTENDS Frontend, SendBlobProofs

DeviceFrames == ToDevice \cup SessionToDevice

\* A DONE that says ok is about a blob that the front-end has put in place.
Claims == {m \in ToHost \cup SessionToHost :
              m.kind = "DONE" /\ m.ok => m.sha \in rebuilt[m.xid]}

\* Frames of a transfer that are on their way to the device.
Opens(l, x)  == \E i \in DOMAIN l : l[i].kind = "OPEN" /\ l[i].xid = x
Closes(l, x) == \E i \in DOMAIN l : l[i].kind = "CLOSE" /\ l[i].xid = x

\* No OPEN follows a CLOSE of its transfer.
Orderly(l) ==
    \A i, j \in DOMAIN l :
        i < j /\ l[i].kind = "CLOSE" /\ l[j].kind = "OPEN" => l[i].xid # l[j].xid

\* No OPEN of x will be sent any more.
Past(x) == x \in used /\ ~(xid = x /\ pc \in {"stat", "data"})

Typed ==
    /\ toDev \in Seq(DeviceFrames)
    /\ toHost \in Seq(Claims)
    /\ inbox \in Seq(Claims)
    /\ CallSound
    /\ FrontendTypeOK
    /\ attached \in BOOLEAN
    /\ attaches \in 0 .. MaxAttaches
    /\ used \subseteq Xids
    /\ reclosed \subseteq Xids
    /\ mishap \in BOOLEAN

\* A transfer is opened only before it is closed.
Ordered ==
    /\ Orderly(toDev)
    /\ pc # "idle" => xid \in used
    /\ \A x \in Xids : Closes(toDev, x) => Past(x)

\* What has been put in place is out of reach of every frame to come.
PutOnce ==
    \A x \in Xids : out[x] # NoFile =>
        Past(x) /\ transfers[x] = NoXfer /\ ~Opens(toDev, x)

InPlace == \A x \in Xids : \A b \in rebuilt[x] : out[x] = b

Delivered == verdict = "ok" => blob \in rebuilt[xid]

\* The inductive invariant.
Sound == Typed /\ Ordered /\ PutOnce /\ InPlace /\ Delivered
-----------------------------------------------------------------------------
\* What a frame that is put on the line, or taken off it, does to the order.
LEMMA PutFrame ==
    ASSUME NEW l \in Seq(DeviceFrames), NEW m \in DeviceFrames, NEW cap
    PROVE  /\ Put(l, m, cap) \in Seq(DeviceFrames)
           /\ \A x : Opens(Put(l, m, cap), x) => Opens(l, x) \/ (m.kind = "OPEN" /\ m.xid = x)
           /\ \A x : Closes(Put(l, m, cap), x) => Closes(l, x) \/ (m.kind = "CLOSE" /\ m.xid = x)
           /\ Orderly(l) /\ (m.kind = "OPEN" => ~Closes(l, m.xid)) => Orderly(Put(l, m, cap))
  <1> DEFINE a == Append(l, m)
  <1>1. /\ a \in Seq(DeviceFrames) /\ Len(l) \in Nat /\ Len(a) = Len(l) + 1
        /\ DOMAIN l = 1 .. Len(l) /\ DOMAIN a = 1 .. Len(l) + 1
        /\ \A i \in 1 .. Len(l) : a[i] = l[i]
        /\ a[Len(l) + 1] = m
    BY AppendProperties, LenProperties
  <1> HIDE DEF a
  <1>2. \A i \in DOMAIN a : (i \in DOMAIN l /\ a[i] = l[i]) \/ (i = Len(l) + 1 /\ a[i] = m)
    BY <1>1
  <1>3. \A x : Opens(a, x) => Opens(l, x) \/ (m.kind = "OPEN" /\ m.xid = x)
    BY <1>2 DEF Opens
  <1>4. \A x : Closes(a, x) => Closes(l, x) \/ (m.kind = "CLOSE" /\ m.xid = x)
    BY <1>2 DEF Closes
  <1>5. ASSUME Orderly(l), m.kind = "OPEN" => ~Closes(l, m.xid) PROVE Orderly(a)
    <2> SUFFICES ASSUME NEW i \in DOMAIN a, NEW j \in DOMAIN a,
                        i < j, a[i].kind = "CLOSE", a[j].kind = "OPEN"
                 PROVE  a[i].xid # a[j].xid
      BY DEF Orderly
    <2>1. i \in DOMAIN l /\ a[i] = l[i]
      BY <1>1
    <2>2. CASE j \in DOMAIN l
      BY <1>1, <1>5, <2>1, <2>2 DEF Orderly
    <2>3. CASE j \notin DOMAIN l
      BY <1>2, <1>5, <2>1, <2>3 DEF Closes
    <2>4. QED
      BY <2>2, <2>3
  <1>6. Put(l, m, cap) = a \/ Put(l, m, cap) = l
    BY DEF Put, a
  <1>7. QED
    BY <1>1, <1>3, <1>4, <1>5, <1>6

LEMMA TakeFrame ==
    ASSUME NEW l \in Seq(DeviceFrames), l # <<>>
    PROVE  /\ Tail(l) \in Seq(DeviceFrames) /\ Head(l) \in DeviceFrames
           /\ \A x : Opens(Tail(l), x) => Opens(l, x)
           /\ \A x : Closes(Tail(l), x) => Closes(l, x)
           /\ Orderly(l) => Orderly(Tail(l))
           /\ Orderly(l) /\ Head(l).kind = "CLOSE" => ~Opens(Tail(l), Head(l).xid)
           /\ \A x : Head(l).kind = "OPEN" /\ Head(l).xid = x => Opens(l, x)
           /\ \A x : Head(l).kind = "CLOSE" /\ Head(l).xid = x => Closes(l, x)
  <1> DEFINE t == Tail(l)
  <1>1. /\ t \in Seq(DeviceFrames) /\ Len(l) \in Nat /\ Len(l) >= 1 /\ Len(t) = Len(l) - 1
        /\ DOMAIN l = 1 .. Len(l) /\ DOMAIN t = 1 .. Len(l) - 1
        /\ \A i \in 1 .. Len(l) - 1 : t[i] = l[i + 1]
        /\ Head(l) = l[1] /\ Head(l) \in DeviceFrames
    BY HeadTailProperties, LenProperties, EmptySeq
  <1> HIDE DEF t
  <1>2. \A i \in DOMAIN t : i + 1 \in DOMAIN l /\ t[i] = l[i + 1]
    BY <1>1
  <1>3. 1 \in DOMAIN l /\ \A i \in DOMAIN t : 1 < i + 1
    BY <1>1
  <1>4. \A x : (Opens(t, x) => Opens(l, x)) /\ (Closes(t, x) => Closes(l, x))
    BY <1>2 DEF Opens, Closes
  <1>5. ASSUME Orderly(l) PROVE Orderly(t)
    <2> SUFFICES ASSUME NEW i \in DOMAIN t, NEW j \in DOMAIN t,
                        i < j, t[i].kind = "CLOSE", t[j].kind = "OPEN"
                 PROVE  t[i].xid # t[j].xid
      BY DEF Orderly
    <2>1. i + 1 < j + 1
      BY <1>1
    <2>2. QED
      BY <1>2, <1>5, <2>1 DEF Orderly
  <1>6. ASSUME Orderly(l), Head(l).kind = "CLOSE" PROVE ~Opens(t, Head(l).xid)
    BY <1>1, <1>2, <1>3, <1>6 DEF Orderly, Opens
  <1>7. \A x : /\ Head(l).kind = "OPEN" /\ Head(l).xid = x => Opens(l, x)
               /\ Head(l).kind = "CLOSE" /\ Head(l).xid = x => Closes(l, x)
    BY <1>1, <1>3 DEF Opens, Closes
  <1>8. QED
    BY <1>1, <1>4, <1>5, <1>6, <1>7 DEF t
-----------------------------------------------------------------------------
\* The frames of send_blob.
LEMMA SentFrames ==
    ASSUME NEW x \in Xids, NEW b \in Blobs
    PROVE  /\ Open(x, b) \in DeviceFrames /\ Open(x, b).kind = "OPEN" /\ Open(x, b).xid = x
           /\ Stat(x) \in DeviceFrames /\ Stat(x).kind = "STAT"
           /\ Close(x) \in DeviceFrames /\ Close(x).kind = "CLOSE" /\ Close(x).xid = x
           /\ \A s \in Nat : s < Len(b) =>
                 Data(x, b, s) \in DeviceFrames /\ Data(x, b, s).kind = "DATA"
  <1>1. /\ Open(x, b).kind = "OPEN" /\ Open(x, b).xid = x /\ Stat(x).kind = "STAT"
        /\ Close(x).kind = "CLOSE" /\ Close(x).xid = x
        /\ \A s \in Nat : Data(x, b, s).kind = "DATA"
    BY DEF Open, Stat, Close, Data
  <1>2. QED
    BY <1>1, HostFrames DEF DeviceFrames

\* What a step of send_blob keeps of the order of the frames.
OrderKept ==
    /\ Orderly(toDev')
    /\ \A x \in Xids : Opens(toDev', x) => Opens(toDev, x) \/ ~Past(x)
    /\ \A x \in Xids : Closes(toDev', x) => Closes(toDev, x) \/ Past(x)'
    /\ \A x \in Xids : Past(x) => Past(x)'
    /\ pc' # "idle" => xid' \in used'

LEMMA CallOrder ==
    ASSUME Sound, NEW x \in Xids, x \notin used, NEW b \in Payloads[x], Call(x, b),
           used' = used \cup {x}
    PROVE  OrderKept
  <1>1. b \in Blobs /\ toDev \in Seq(DeviceFrames) /\ Orderly(toDev)
    BY HostAssumption DEF Sound, Typed, Ordered
  <1> DEFINE first == Put(toDev, Open(x, b), DevCap)
  <1>2. ~Closes(toDev, x)
    BY DEF Sound, Ordered, Past
  <1>3. /\ first \in Seq(DeviceFrames) /\ Orderly(first)
        /\ \A y : Opens(first, y) => Opens(toDev, y) \/ y = x
        /\ \A y : Closes(first, y) => Closes(toDev, y)
    BY <1>1, <1>2, SentFrames, PutFrame
  <1> HIDE DEF first
  <1>4. /\ Orderly(Put(first, Stat(x), DevCap))
        /\ \A y : Opens(Put(first, Stat(x), DevCap), y) => Opens(first, y)
        /\ \A y : Closes(Put(first, Stat(x), DevCap), y) => Closes(first, y)
    BY <1>1, <1>3, SentFrames, PutFrame
  <1>5. toDev' = Put(first, Stat(x), DevCap) /\ xid' = x /\ pc = "idle" /\ pc' = "stat"
    BY DEF Call, first
  <1>6. \A y \in Xids : Past(y) => Past(y)'
    BY <1>5 DEF Past
  <1>7. x \notin used /\ ~Past(x)
    BY DEF Past
  <1>8. QED
    BY <1>3, <1>4, <1>5, <1>6, <1>7 DEF OrderKept

LEMMA GoOnOrder ==
    ASSUME Sound, pc \in {"stat", "data"}, NEW s \in Nat, GoOn(s), used' = used
    PROVE  OrderKept
  <1>1. /\ xid \in Xids /\ blob \in Blobs /\ toDev \in Seq(DeviceFrames) /\ Orderly(toDev)
        /\ xid \in used /\ xid' = xid
    BY DEF Sound, Typed, Ordered, CallSound, GoOn
  <1>2. CASE s < Len(blob)
    <2>1. toDev' = Put(toDev, Data(xid, blob, s), DevCap) /\ pc' = "data"
      BY <1>2 DEF GoOn, Send
    <2>2. Data(xid, blob, s) \in DeviceFrames /\ Data(xid, blob, s).kind = "DATA"
      BY <1>1, <1>2, SentFrames
    <2>3. /\ Orderly(toDev')
          /\ \A x : Opens(toDev', x) => Opens(toDev, x)
          /\ \A x : Closes(toDev', x) => Closes(toDev, x)
      BY <1>1, <2>1, <2>2, PutFrame
    <2>4. \A x \in Xids : Past(x) => Past(x)'
      BY <1>1, <2>1 DEF Past
    <2>5. QED
      BY <1>1, <2>3, <2>4 DEF OrderKept
  <1>3. CASE ~(s < Len(blob))
    <2>1. toDev' = Put(toDev, Close(xid), DevCap) /\ pc' = "close"
      BY <1>3 DEF GoOn, Send
    <2>2. /\ Orderly(toDev')
          /\ \A x : Opens(toDev', x) => Opens(toDev, x)
          /\ \A x : Closes(toDev', x) => Closes(toDev, x) \/ x = xid
      BY <1>1, <2>1, SentFrames, PutFrame
    <2>3. Past(xid)' /\ \A x \in Xids : Past(x) => Past(x)'
      BY <1>1, <2>1 DEF Past
    <2>4. QED
      BY <1>1, <2>2, <2>3 DEF OrderKept
  <1>4. QED
    BY <1>2, <1>3

LEMMA TryFailsOrder ==
    ASSUME Sound, pc = "data", TryFails, used' = used
    PROVE  OrderKept
  <1>1. /\ xid \in Xids /\ blob \in Blobs /\ toDev \in Seq(DeviceFrames) /\ Orderly(toDev)
        /\ xid \in used /\ xid' = xid /\ seq \in Nat /\ seq < Len(blob) /\ pc' \in {"data", "idle"}
    BY DEF Sound, Typed, Ordered, CallSound, InRange, TryFails, Returns
  <1> DEFINE reopened == IF (tries + 1) % ReopenEvery = 0
                         THEN Put(toDev, Open(xid, blob), DevCap) ELSE toDev
             again == Put(reopened, Data(xid, blob, seq), DevCap)
  <1>2. ~Past(xid) /\ ~Closes(toDev, xid)
    BY <1>1 DEF Sound, Ordered, Past
  <1>3. /\ reopened \in Seq(DeviceFrames) /\ Orderly(reopened)
        /\ \A x : Opens(reopened, x) => Opens(toDev, x) \/ x = xid
        /\ \A x : Closes(reopened, x) => Closes(toDev, x)
    BY <1>1, <1>2, SentFrames, PutFrame
  <1>4. toDev' = reopened \/ toDev' = again
    BY DEF TryFails
  <1> HIDE DEF reopened
  <1>5. Data(xid, blob, seq) \in DeviceFrames /\ Data(xid, blob, seq).kind = "DATA"
    BY <1>1, SentFrames
  <1>6. /\ Orderly(again)
        /\ \A x : Opens(again, x) => Opens(reopened, x)
        /\ \A x : Closes(again, x) => Closes(reopened, x)
    BY <1>3, <1>5, PutFrame
  <1> HIDE DEF again
  <1>7. \A x \in Xids : Past(x) => Past(x)'
    BY <1>1 DEF Past
  <1>8. QED
    BY <1>1, <1>2, <1>3, <1>4, <1>6, <1>7 DEF OrderKept

LEMMA SendOrder ==
    ASSUME Sound, used' = used, xid' = xid, pc' = pc,
           \/ pc = "stat" /\ Send(Stat(xid))
           \/ pc = "close" /\ Send(Close(xid))
    PROVE  OrderKept
  <1>1. /\ xid \in Xids /\ blob \in Blobs /\ toDev \in Seq(DeviceFrames) /\ Orderly(toDev)
        /\ xid \in used
    BY DEF Sound, Typed, Ordered, CallSound
  <1>2. /\ Orderly(toDev')
        /\ \A x : Opens(toDev', x) => Opens(toDev, x)
        /\ \A x : Closes(toDev', x) => Closes(toDev, x) \/ (x = xid /\ pc = "close")
    BY <1>1, SentFrames, PutFrame DEF Send
  <1>3. (pc = "close" => Past(xid)') /\ \A x \in Xids : Past(x) => Past(x)'
    BY <1>1 DEF Past
  <1>4. QED
    BY <1>1, <1>2, <1>3 DEF OrderKept

\* No frame is sent.
LEMMA QuietOrder ==
    ASSUME Sound, used' = used, xid' = xid, toDev' = toDev, pc' = pc \/ pc' = "idle"
    PROVE  OrderKept
  BY DEF Sound, Ordered, OrderKept, Past

LEMMA TransfersOrder ==
    ASSUME Sound, Transfers
    PROVE  OrderKept
  <1>0. blob \in Blobs /\ seq \in Nat /\ Len(blob) \in Nat
    BY BlobType, WireAssumption DEF Sound, Typed, CallSound
  <1>1. ASSUME NEW x \in Xids \ used, NEW b \in Payloads[x], Call(x, b), used' = used \cup {x}
        PROVE  OrderKept
    BY <1>1, CallOrder
  <1>2. ASSUME NEW i \in DOMAIN inbox, StatAnswered(i), used' = used PROVE OrderKept
    <2>1. inbox[i] \in Claims /\ inbox[i].kind = "HAVE"
      BY <1>2, TakesKeeps DEF StatAnswered, Awaited, Sound, Typed
    <2>2. inbox[i].hw \in Nat
      BY <2>1, ReplyKinds DEF Claims, SessionToHost
    <2>3. QED
      BY <1>0, <1>2, <2>2, GoOnOrder DEF StatAnswered
  <1>3. ASSUME NEW i \in DOMAIN inbox, ChunkAcked(i), used' = used PROVE OrderKept
    BY <1>0, <1>3, GoOnOrder DEF ChunkAcked
  <1>4. ASSUME NEW i \in DOMAIN inbox, ChunkNaked(i), used' = used PROVE OrderKept
    BY <1>4, TryFailsOrder DEF ChunkNaked
  <1>5. ASSUME NEW i \in DOMAIN inbox, DoneAnswered(i), used' = used PROVE OrderKept
    BY <1>5, QuietOrder DEF DoneAnswered, Returns, line
  <1>6. ASSUME Pump \/ LinkFails \/ NewProcess \/ DoneGivesUp, used' = used PROVE OrderKept
    BY <1>6, QuietOrder DEF Pump, LinkFails, NewProcess, DoneGivesUp, Returns, line
  <1>7. ASSUME StatTimeout \/ DoneTimeout, used' = used PROVE OrderKept
    BY <1>7, SendOrder DEF StatTimeout, DoneTimeout
  <1>8. ASSUME StatGivesUp, used' = used PROVE OrderKept
    BY <1>8, GoOnOrder DEF StatGivesUp
  <1>9. ASSUME ChunkTimeout, used' = used PROVE OrderKept
    BY <1>9, TryFailsOrder DEF ChunkTimeout
  <1>10. QED
    BY <1>1, <1>2, <1>3, <1>4, <1>5, <1>6, <1>7, <1>8, <1>9 DEF Transfers, Receives

LEMMA TransfersSound ==
    ASSUME Sound, Transfers
    PROVE  Sound'
  <1>1. HostStep
    BY DEF Transfers, HostStep, TimesOut
  <1>2. UNCHANGED deviceVars /\ UNCHANGED attachVars /\ Claims' = Claims
    BY DEF Transfers, deviceVars, Claims
  <1>3. Sensible(Claims) /\ ToDevice \subseteq DeviceFrames
    BY ReplyKinds DEF Sensible, Claims, SessionToHost, DeviceFrames
  <1>4. /\ toDev' \in Seq(DeviceFrames) /\ toHost' \in Seq(Claims) /\ inbox' \in Seq(Claims)
        /\ CallSound'
    BY <1>1, <1>3, HostKeeps DEF Sound, Typed
  <1>5. FrontendTypeOK' /\ attached' = attached /\ attaches' = attaches
    BY <1>2 DEF Sound, Typed, FrontendTypeOK, deviceVars, attachVars
  <1>6. used' \subseteq Xids /\ reclosed' \subseteq Xids
    BY DEF Sound, Typed, CallSound, Transfers
  <1>7. mishap' \in BOOLEAN
    BY DEF Transfers
  <1>8. Typed'
    BY <1>2, <1>4, <1>5, <1>6, <1>7 DEF Sound, Typed
  <1>9. OrderKept
    BY TransfersOrder
  <1>10. Ordered'
    BY <1>9 DEF OrderKept, Sound, Ordered
  <1>11. PutOnce' /\ InPlace'
    BY <1>2, <1>9 DEF OrderKept, Sound, PutOnce, InPlace, deviceVars
  <1>12. Delivered'
    <2>1. ASSUME verdict' = "ok" PROVE blob \in rebuilt[xid] /\ UNCHANGED <<xid, blob>>
      <3>1. CASE verdict = "ok"
        BY <1>1, <2>1, <3>1, SuccessIsTold DEF Sound, Delivered
      <3>2. CASE verdict # "ok"
        <4>1. PICK i \in DOMAIN inbox :
                 /\ inbox[i].kind = "DONE" /\ inbox[i].xid = xid
                 /\ inbox[i].ok /\ inbox[i].sha = blob
          BY <1>1, <2>1, <3>2, SuccessIsTold
        <4>2. inbox[i] \in Claims
          BY LenProperties, ElementOfSeq DEF Sound, Typed
        <4>3. QED
          BY <1>1, <2>1, <4>1, <4>2, SuccessIsTold DEF Claims
      <3>3. QED
        BY <3>1, <3>2
    <2>2. QED
      BY <1>2, <2>1 DEF Delivered, deviceVars
  <1>13. QED
    BY <1>8, <1>10, <1>11, <1>12 DEF Sound
-----------------------------------------------------------------------------
LEMMA SoundInit == Init => Sound
  <1> SUFFICES ASSUME Init PROVE Sound
    OBVIOUS
  <1>1. toDev = <<>> /\ toHost = <<>> /\ DOMAIN toDev = {}
    BY DEF Init, LineInit
  <1>2. CallSound /\ inbox = <<>> /\ pc = "idle" /\ verdict = "none"
    BY CallInit DEF Init, HostInit
  <1>3. toDev \in Seq(DeviceFrames) /\ toHost \in Seq(Claims) /\ inbox \in Seq(Claims)
    BY <1>1, <1>2, EmptySeq
  <1>4. FrontendTypeOK
    <2>1. 0 \in 0 .. MaxRestarts /\ 0 \in 0 .. MaxFaults
      BY FrontendAssumption
    <2>2. transfers \in [Xids -> Xfer \cup {NoXfer}] /\ rebuilt \in [Xids -> SUBSET Blobs]
      BY DEF Init, FrontendInit
    <2>3. out \in [Xids -> Blobs \cup {Torn, NoFile}] /\ session \in BOOLEAN
      BY DEF Init, FrontendInit
    <2>4. QED
      BY <2>1, <2>2, <2>3 DEF Init, FrontendInit, FrontendTypeOK
  <1>5. Typed
    <2>1. 0 \in 0 .. MaxAttaches
      BY AttachAssumption
    <2>2. attached \in BOOLEAN /\ mishap \in BOOLEAN /\ used \subseteq Xids /\ reclosed \subseteq Xids
      BY DEF Init
    <2>3. attaches \in 0 .. MaxAttaches
      BY <2>1 DEF Init
    <2>4. QED
      BY <1>2, <1>3, <1>4, <2>2, <2>3 DEF Typed
  <1>6. Ordered
    BY <1>1, <1>2 DEF Ordered, Orderly, Closes
  <1>7. PutOnce /\ InPlace /\ Delivered
    BY <1>2 DEF Init, FrontendInit, PutOnce, InPlace, Delivered
  <1>8. QED
    BY <1>5, <1>6, <1>7 DEF Sound

\* The claims made so far stay true as long as rebuilt only grows.
LEMMA ClaimsGrow ==
    ASSUME \A x \in Xids : rebuilt[x] \subseteq rebuilt'[x]
    PROVE  Claims \subseteq Claims' /\ Seq(Claims) \subseteq Seq(Claims')
  <1>1. \A m \in ToHost \cup SessionToHost : m.kind = "DONE" => m.xid \in Xids
    BY DEF ToHost, ReadyMsg, HaveMsg, AckMsg, DoneMsg, SessionToHost
  <1>2. Claims \subseteq Claims'
    BY <1>1 DEF Claims
  <1>3. QED
    BY <1>2, SeqMonotonic

\* No step but send_blob's puts an OPEN or a CLOSE on the line.
LineKept ==
    /\ toDev' \in Seq(DeviceFrames)
    /\ Orderly(toDev')
    /\ \A x : Opens(toDev', x) => Opens(toDev, x)
    /\ \A x : Closes(toDev', x) => Closes(toDev, x)

LEMMA TakeKept ==
    ASSUME Sound, toDev # <<>>, toDev' = Tail(toDev)
    PROVE  LineKept
  BY TakeFrame DEF Sound, Typed, Ordered, LineKept

LEMMA QuietKept ==
    ASSUME Sound, toDev' = toDev
    PROVE  LineKept
  BY DEF Sound, Typed, Ordered, LineKept

LEMMA SessionKept ==
    ASSUME Sound, NEW m \in SessionToDevice, Send(m)
    PROVE  LineKept
  <1>1. m \in DeviceFrames /\ m.kind # "OPEN" /\ m.kind # "CLOSE"
    BY DEF DeviceFrames, SessionToDevice
  <1>2. toDev \in Seq(DeviceFrames) /\ Orderly(toDev) /\ toDev' = Put(toDev, m, DevCap)
    BY DEF Sound, Typed, Ordered, Send
  <1>3. QED
    BY <1>1, <1>2, PutFrame DEF LineKept

\* What is left to show of a step of the device, of attach, or of the line.
LEMMA OtherSound ==
    ASSUME Sound, LineKept, UNCHANGED <<hostVars, used, reclosed>>,
           mishap' \in BOOLEAN, attached' \in BOOLEAN, attaches' \in 0 .. MaxAttaches,
           toHost' \in Seq(Claims'), FrontendTypeOK',
           \A x \in Xids : rebuilt[x] \subseteq rebuilt'[x],
           PutOnce', InPlace'
    PROVE  Sound'
  <1>1. inbox' \in Seq(Claims')
    BY ClaimsGrow DEF Sound, Typed, hostVars
  <1>2. CallSound'
    BY DEF Sound, Typed, CallSound, InRange, hostVars
  <1>3. Typed'
    BY <1>1, <1>2 DEF Sound, Typed, LineKept
  <1>4. \A x \in Xids : Past(x)' <=> Past(x)
    BY DEF Past, hostVars
  <1>5. Ordered'
    BY <1>4 DEF Sound, Ordered, LineKept, hostVars
  <1>6. Delivered'
    BY DEF Sound, Typed, CallSound, Delivered, hostVars
  <1>7. QED
    BY <1>3, <1>5, <1>6 DEF Sound

\* The files, and the transfers of what is in place, are left alone.
LEMMA FilesKept ==
    ASSUME Sound, LineKept, UNCHANGED <<hostVars, used, reclosed>>,
           mishap' \in BOOLEAN, attached' \in BOOLEAN, attaches' \in 0 .. MaxAttaches,
           toHost' \in Seq(Claims), FrontendTypeOK', UNCHANGED <<out, rebuilt>>,
           \A x \in Xids : transfers[x] = NoXfer /\ ~Opens(toDev, x) => transfers'[x] = NoXfer
    PROVE  Sound'
  <1>1. Claims' = Claims /\ \A x \in Xids : rebuilt[x] \subseteq rebuilt'[x]
    BY DEF Claims
  <1>2. \A x \in Xids : Past(x)' <=> Past(x)
    BY DEF Past, hostVars
  <1>3. PutOnce' /\ InPlace'
    BY <1>2 DEF Sound, PutOnce, InPlace, LineKept
  <1>4. QED
    BY <1>1, <1>3, OtherSound

LEMMA AttachSound ==
    ASSUME Sound, Attach
    PROVE  Sound'
  <1>1. /\ UNCHANGED <<hostVars, used, reclosed>> /\ UNCHANGED <<out, rebuilt>>
        /\ transfers' = transfers /\ FrontendTypeOK' /\ mishap' \in BOOLEAN
    BY DEF Attach, deviceVars, Sound, Typed, FrontendTypeOK
  <1>2. [kind |-> "ATTACH"] \in SessionToDevice /\ [kind |-> "DETACH"] \in SessionToDevice
    BY DEF SessionToDevice
  <1>3. LineKept /\ toHost' \in Seq(Claims)
    <2>1. CASE AttachBegins \/ AttachDetaches
      BY <1>2, <2>1, SessionKept DEF AttachBegins, AttachDetaches, Sound, Typed
    <2>2. CASE AttachReceives
      BY <2>2, QuietKept, TailType DEF AttachReceives, Sound, Typed
    <2>3. CASE AttachAborts
      BY <2>3, QuietKept DEF AttachAborts, line, Sound, Typed
    <2>4. QED
      BY <2>1, <2>2, <2>3 DEF Attach
  <1>4. attached' \in BOOLEAN
    BY DEF Sound, Typed, Attach, AttachBegins, AttachDetaches, AttachReceives, AttachAborts,
           AttachEnds, attachVars
  <1>5. attaches' \in 0 .. MaxAttaches
    BY AttachAssumption
    DEF Sound, Typed, Attach, AttachBegins, AttachDetaches, AttachReceives, AttachAborts,
        AttachEnds, attachVars
  <1>6. QED
    BY <1>1, <1>3, <1>4, <1>5, FilesKept

LEMMA LossSound ==
    ASSUME Sound, Loss
    PROVE  Sound'
  <1>1. /\ UNCHANGED <<hostVars, used, reclosed>> /\ UNCHANGED <<out, rebuilt>>
        /\ transfers' = transfers /\ FrontendTypeOK' /\ mishap' \in BOOLEAN
        /\ attached' \in BOOLEAN /\ attaches' \in 0 .. MaxAttaches
    BY DEF Loss, deviceVars, attachVars, Sound, Typed, FrontendTypeOK
  <1>2. LineKept /\ toHost' \in Seq(Claims)
    <2>1. CASE LoseToDev
      BY <2>1, TakeKept DEF LoseToDev, Sound, Typed
    <2>2. CASE LoseToHost
      BY <2>2, QuietKept, TailType DEF LoseToHost, Sound, Typed
    <2>3. QED
      BY <2>1, <2>2 DEF Loss
  <1>3. QED
    BY <1>1, <1>2, FilesKept
-----------------------------------------------------------------------------
\* What a frame that the front-end reads does to the line.
LEMMA ReadsFrame ==
    ASSUME Sound, NEW kind, Reads(kind)
    PROVE  /\ LineKept
           /\ Frame \in DeviceFrames /\ Frame.kind = kind
           /\ kind = "OPEN" => Opens(toDev, Frame.xid)
           /\ kind = "CLOSE" => Closes(toDev, Frame.xid) /\ ~Opens(toDev', Frame.xid)
           /\ kind \in {"OPEN", "STAT", "DATA", "CLOSE"} => Frame \in ToDevice /\ Frame.xid \in Xids
  <1>1. toDev \in Seq(DeviceFrames) /\ Orderly(toDev) /\ toDev # <<>> /\ toDev' = Tail(toDev)
    BY DEF Sound, Typed, Ordered, Reads
  <1>2. LineKept
    BY <1>1, TakeKept
  <1>3. Frame = Head(toDev) /\ Frame \in DeviceFrames /\ Frame.kind = kind
    BY <1>1, TakeFrame DEF Frame, Reads
  <1>4. kind \in {"OPEN", "STAT", "DATA", "CLOSE"} => Frame \in ToDevice
    BY <1>3 DEF DeviceFrames, SessionToDevice
  <1>5. kind \in {"OPEN", "STAT", "DATA", "CLOSE"} => Frame.xid \in Xids
    BY <1>4, FrameKinds
  <1>6. (kind = "OPEN" => Opens(toDev, Frame.xid)) /\ (kind = "CLOSE" => Closes(toDev, Frame.xid))
    BY <1>1, <1>3, TakeFrame
  <1>7. kind = "CLOSE" => ~Opens(toDev', Frame.xid)
    BY <1>1, <1>3, TakeFrame
  <1>8. QED
    BY <1>2, <1>3, <1>4, <1>5, <1>6, <1>7

LEMMA ReplyKept ==
    ASSUME Sound, NEW m \in Claims, Reply(m)
    PROVE  toHost' \in Seq(Claims)
  BY PutType DEF Sound, Typed, Reply

\* The replies that claim nothing.
LEMMA Harmless ==
    /\ Ready \in Claims /\ [kind |-> "AEND"] \in Claims
    /\ \A x \in Xids :
          /\ \A hw \in 0 .. MaxChunks : Have(x, hw) \in Claims
          /\ \A s \in Seqs : Ack(x, s) \in Claims /\ Nak(x, s) \in Claims
          /\ DoneFail(x) \in Claims
  <1>1. \A m \in ToHost \cup SessionToHost : m.kind # "DONE" => m \in Claims
    BY DEF Claims
  <1>2. [kind |-> "AEND"] \in SessionToHost /\ Ready \in ToHost
    BY DEF SessionToHost, Ready, ToHost, ReadyMsg
  <1>3. Ready \in Claims /\ [kind |-> "AEND"] \in Claims
    BY <1>1, <1>2 DEF Ready
  <1>4. ASSUME NEW x \in Xids, NEW hw \in 0 .. MaxChunks PROVE Have(x, hw) \in Claims
    BY <1>1, Replies DEF Have
  <1>5. ASSUME NEW x \in Xids, NEW s \in Seqs
        PROVE  Ack(x, s) \in Claims /\ Nak(x, s) \in Claims
    BY <1>1, Replies DEF Ack, Nak
  <1>6. ASSUME NEW x \in Xids PROVE DoneFail(x) \in Claims
    BY Replies DEF DoneFail, Claims
  <1>7. QED
    BY <1>3, <1>4, <1>5, <1>6

\* out is written for a transfer that is under way, when its CLOSE is read: no
\* OPEN of it can follow.
LEMMA WriteSound ==
    ASSUME Sound, UNCHANGED <<hostVars, used, reclosed>>,
           mishap' \in BOOLEAN, attached' \in BOOLEAN, attaches' \in 0 .. MaxAttaches,
           Reads("CLOSE"), Removes, FrontendTypeOK', toHost' \in Seq(Claims'),
           \E b \in Blobs : Finishes(xfer, b),
           \/ \E b \in Blobs : /\ out' = [out EXCEPT ![Frame.xid] = b]
                               /\ rebuilt' = [rebuilt EXCEPT ![Frame.xid] = @ \cup {b}]
           \/ out' = [out EXCEPT ![Frame.xid] = Torn] /\ rebuilt' = rebuilt
    PROVE  Sound'
  <1> DEFINE x == Frame.xid
  <1>1. /\ LineKept /\ x \in Xids /\ Closes(toDev, x) /\ ~Opens(toDev', x)
        /\ FrontendTypeOK
    BY ReadsFrame DEF Sound, Typed
  <1>2. transfers[x] # NoXfer
    BY DEF Finishes, xfer
  <1>3. out[x] = NoFile /\ rebuilt[x] = {}
    <2>1. out[x] = NoFile
      BY <1>1, <1>2 DEF Sound, PutOnce
    <2>2. \A b \in rebuilt[x] : b \in Blobs /\ out[x] = b
      BY <1>1 DEF Sound, InPlace, FrontendTypeOK
    <2>3. NoFile \notin Blobs
      <3>1. Seq(Chunk) \subseteq Seq(Chunk \cup {Torn})
        BY SeqMonotonic
      <3>2. QED
        BY <3>1, WireAssumption
    <2>4. QED
      BY <2>1, <2>2, <2>3
  <1>4. Past(x) /\ \A y \in Xids : Past(y) => Past(y)'
    BY <1>1 DEF Sound, Ordered, Past, hostVars
  <1> HIDE DEF x
  <1>5. /\ \A y \in Xids : y # x => /\ out'[y] = out[y] /\ rebuilt'[y] = rebuilt[y]
                                    /\ transfers'[y] = transfers[y]
        /\ transfers'[x] = NoXfer
    BY <1>1 DEF x, Removes, FrontendTypeOK
  <1>6. PutOnce'
    BY <1>1, <1>4, <1>5 DEF Sound, PutOnce, LineKept
  <1>7. \A b \in rebuilt'[x] : out'[x] = b
    BY <1>1, <1>3 DEF x, FrontendTypeOK
  <1>8. InPlace'
    BY <1>5, <1>7 DEF Sound, InPlace
  <1>9. \A y \in Xids : rebuilt[y] \subseteq rebuilt'[y]
    BY <1>3, <1>5
  <1>10. QED
    BY <1>1, <1>6, <1>8, <1>9, OtherSound

LEMMA DeviceTyped ==
    ASSUME Sound, Serves \/ Bridges \/ FrontendFails
    PROVE  FrontendTypeOK'
  <1> USE DEF FrontendTypeOK
  <1>0. FrontendTypeOK
    BY DEF Sound, Typed
  <1>1. CASE FrontendOpen
    <2>1. /\ Frame.n \in 0 .. MaxChunks /\ Frame.sha \in Blobs
      BY <1>1, ReadsFrame, FrameKinds DEF FrontendOpen, Handles
    <2>2. [nchunks |-> Frame.n, expected_sha |-> Frame.sha, got |-> [s \in Seqs |-> NoFile]] \in Xfer
      BY <2>1 DEF Xfer
    <2>3. transfers' \in [Xids -> Xfer \cup {NoXfer}]
      BY <1>0, <1>1, <2>2 DEF FrontendOpen
    <2>4. QED
      BY <1>0, <1>1, <2>3 DEF FrontendOpen
  <1>2. CASE FrontendData
    <2>1. Frame.seq \in Seqs /\ Frame.b64 \in Chunk /\ Frame.xid \in Xids
      BY <1>2, ReadsFrame, FrameKinds DEF FrontendData, Handles
    <2>2. ASSUME NEW t \in Xfer
          PROVE  [t EXCEPT !.got[Frame.seq] = Frame.b64] \in Xfer
      BY <2>1 DEF Xfer
    <2>3. xfer # NoXfer => [xfer EXCEPT !.got[Frame.seq] = Frame.b64] \in Xfer
      BY <1>0, <2>1, <2>2 DEF xfer
    <2>4. xfer # NoXfer => transfers' = [transfers EXCEPT ![Frame.xid] =
                                            [xfer EXCEPT !.got[Frame.seq] = Frame.b64]]
      BY <1>0, <1>2, <2>1 DEF FrontendData, xfer
    <2>5. xfer = NoXfer => transfers' = transfers
      BY <1>2 DEF FrontendData
    <2>6. transfers' \in [Xids -> Xfer \cup {NoXfer}]
      BY <1>0, <2>3, <2>4, <2>5
    <2>7. QED
      BY <1>0, <1>2, <2>6 DEF FrontendData
  <1>3. CASE FrontendClose \/ FrontendWriteFails
    <2>1. transfers' \in [Xids -> Xfer \cup {NoXfer}]
      BY <1>0, <1>3 DEF FrontendClose, FrontendWriteFails, Removes
    <2>2. faults' \in 0 .. MaxFaults
      BY <1>0, <1>3, FrontendAssumption DEF FrontendClose, FrontendWriteFails
    <2>3. out' \in [Xids -> Blobs \cup {Torn, NoFile}] /\ rebuilt' \in [Xids -> SUBSET Blobs]
      BY <1>0, <1>3 DEF FrontendClose, FrontendWriteFails, WritesOut
    <2>4. QED
      BY <1>0, <1>3, <2>1, <2>2, <2>3 DEF FrontendClose, FrontendWriteFails
  <1>4. CASE FrontendStat \/ FrontendIgnores
    BY <1>0, <1>4 DEF FrontendStat, FrontendIgnores, deviceVars
  <1>5. CASE Bridges
    BY <1>0, <1>5
    DEF Bridges, SessionStarts, SessionDetached, ShellExits, SessionReads, SessionEnds, deviceVars
  <1>6. CASE FrontendRestart
    <2>1. restarts' \in 0 .. MaxRestarts
      BY <1>0, <1>6, FrontendAssumption DEF FrontendRestart
    <2>2. transfers' \in [Xids -> Xfer \cup {NoXfer}]
      BY <1>6 DEF FrontendRestart
    <2>3. QED
      BY <1>0, <1>6, <2>1, <2>2 DEF FrontendRestart
  <1>7. QED
    BY <1>1, <1>2, <1>3, <1>4, <1>5, <1>6 DEF Serves, FrontendFails

LEMMA DeviceSound ==
    ASSUME Sound, Device
    PROVE  Sound'
  <1>1. /\ UNCHANGED <<hostVars, used, reclosed>> /\ mishap' \in BOOLEAN
        /\ attached' \in BOOLEAN /\ attaches' \in 0 .. MaxAttaches
        /\ toHost \in Seq(Claims) /\ FrontendTypeOK
    BY DEF Device, attachVars, Sound, Typed
  <1>2. FrontendTypeOK'
    BY DeviceTyped DEF Device
  <1>3. CASE FrontendOpen
    <2>1. LineKept /\ Frame.xid \in Xids /\ Opens(toDev, Frame.xid)
      BY <1>3, ReadsFrame DEF FrontendOpen, Handles
    <2>2. \A x \in Xids : transfers[x] = NoXfer /\ ~Opens(toDev, x) => transfers'[x] = NoXfer
      BY <1>1, <1>3, <2>1 DEF FrontendOpen, FrontendTypeOK
    <2>3. QED
      BY <1>1, <1>2, <1>3, <2>1, <2>2, FilesKept DEF FrontendOpen
  <1>4. CASE FrontendData
    <2>1. LineKept /\ Frame.xid \in Xids /\ Frame.seq \in Seqs
      BY <1>4, ReadsFrame, FrameKinds DEF FrontendData, Handles
    <2>2. toHost' \in Seq(Claims)
      BY <1>4, <2>1, Harmless, ReplyKept DEF FrontendData
    <2>3. \A x \in Xids : transfers[x] = NoXfer => transfers'[x] = NoXfer
      BY <1>1, <1>4, <2>1 DEF FrontendData, xfer, FrontendTypeOK
    <2>4. QED
      BY <1>1, <1>2, <1>4, <2>1, <2>2, <2>3, FilesKept DEF FrontendData
  <1>5. CASE FrontendStat
    <2>1. LineKept /\ Frame.xid \in Xids
      BY <1>5, ReadsFrame DEF FrontendStat, Handles
    <2>2. PICK hw \in 0 .. MaxChunks : Reply(Have(Frame.xid, hw))
      BY <1>5 DEF FrontendStat
    <2>3. toHost' \in Seq(Claims)
      BY <2>1, <2>2, Harmless, ReplyKept
    <2>4. QED
      BY <1>1, <1>2, <1>5, <2>1, <2>3, FilesKept DEF FrontendStat, deviceVars
  <1>6. CASE FrontendIgnores
    BY <1>1, <1>2, <1>6, ReadsFrame, FilesKept DEF FrontendIgnores, Handles, deviceVars
  <1>7. CASE FrontendClose
    <2>1. LineKept /\ Frame.xid \in Xids /\ Reads("CLOSE") /\ Removes
      BY <1>7, ReadsFrame DEF FrontendClose, Handles
    <2>2. CASE \E b \in Blobs : Finishes(xfer, b) /\ WritesOut(b)
      <3>1. PICK b \in Blobs : Finishes(xfer, b) /\ WritesOut(b)
        BY <2>2
      <3>2. \A x \in Xids : rebuilt[x] \subseteq rebuilt'[x]
        BY <1>1, <2>1, <3>1 DEF WritesOut, FrontendTypeOK
      <3>3. b \in rebuilt'[Frame.xid]
        BY <1>1, <2>1, <3>1 DEF WritesOut, FrontendTypeOK
      <3>4. DoneOk(Frame.xid, b) \in Claims'
        BY <2>1, <3>3, Replies DEF Claims, DoneOk
      <3>5. toHost' \in Seq(Claims')
        <4>1. toHost \in Seq(Claims')
          BY <1>1, <3>2, ClaimsGrow
        <4>2. QED
          BY <3>1, <3>4, <4>1, PutType DEF WritesOut, Reply
      <3>6. \E c \in Blobs : /\ out' = [out EXCEPT ![Frame.xid] = c]
                             /\ rebuilt' = [rebuilt EXCEPT ![Frame.xid] = @ \cup {c}]
        BY <3>1 DEF WritesOut
      <3>7. QED
        BY <1>1, <1>2, <2>1, <3>1, <3>5, <3>6, WriteSound
    <2>3. CASE Reply(DoneFail(Frame.xid)) /\ UNCHANGED <<out, rebuilt>>
      <3>1. toHost' \in Seq(Claims)
        BY <2>1, <2>3, Harmless, ReplyKept
      <3>2. \A x \in Xids : transfers[x] = NoXfer => transfers'[x] = NoXfer
        BY <1>1, <2>1 DEF Removes, FrontendTypeOK
      <3>3. QED
        BY <1>1, <1>2, <2>1, <2>3, <3>1, <3>2, FilesKept
    <2>4. QED
      BY <1>7, <2>2, <2>3 DEF FrontendClose
  <1>8. CASE FrontendWriteFails
    <2>1. Frame.xid \in Xids /\ Reads("CLOSE") /\ Removes
      BY <1>8, ReadsFrame DEF FrontendWriteFails, Handles
    <2>2. rebuilt' = rebuilt /\ Claims' = Claims
      BY <1>8 DEF FrontendWriteFails, Claims
    <2>3. toHost' \in Seq(Claims')
      BY <1>8, <2>1, <2>2, Harmless, ReplyKept DEF FrontendWriteFails
    <2>4. QED
      BY <1>1, <1>2, <1>8, <2>1, <2>2, <2>3, WriteSound DEF FrontendWriteFails
  <1>9. CASE Bridges
    <2>1. LineKept
      BY <1>9, ReadsFrame, QuietKept
      DEF Bridges, SessionStarts, SessionDetached, ShellExits, SessionReads, Handles
    <2>2. toHost' \in Seq(Claims)
      BY <1>1, <1>9, Harmless, ReplyKept
      DEF Bridges, SessionStarts, SessionDetached, ShellExits, SessionReads, SessionEnds
    <2>3. UNCHANGED <<transfers, out, rebuilt>>
      BY <1>9
      DEF Bridges, SessionStarts, SessionDetached, ShellExits, SessionReads, SessionEnds,
          deviceVars
    <2>4. QED
      BY <1>1, <1>2, <2>1, <2>2, <2>3, FilesKept
  <1>10. CASE FrontendRestart
    <2>1. LineKept /\ toHost' \in Seq(Claims)
      BY <1>10, QuietKept, Harmless, ReplyKept DEF FrontendRestart
    <2>2. QED
      BY <1>1, <1>2, <1>10, <2>1, FilesKept DEF FrontendRestart
  <1>11. QED
    BY <1>3, <1>4, <1>5, <1>6, <1>7, <1>8, <1>9, <1>10 DEF Device, Serves, FrontendFails

LEMMA SoundStep == Sound /\ [Next]_vars => Sound'
  <1> SUFFICES ASSUME Sound, [Next]_vars PROVE Sound'
    OBVIOUS
  <1>1. CASE UNCHANGED vars
    <2>1. /\ UNCHANGED <<hostVars, used, reclosed>> /\ UNCHANGED <<out, rebuilt>>
          /\ transfers' = transfers /\ toDev' = toDev
      BY <1>1 DEF vars, historyVars, deviceVars, line
    <2>2. /\ mishap' \in BOOLEAN /\ attached' \in BOOLEAN /\ attaches' \in 0 .. MaxAttaches
          /\ FrontendTypeOK' /\ toHost' \in Seq(Claims)
      BY <1>1
      DEF vars, historyVars, deviceVars, attachVars, line, Sound, Typed, FrontendTypeOK
    <2>3. QED
      BY <2>1, <2>2, QuietKept, FilesKept
  <1>2. QED
    BY <1>1, TransfersSound, AttachSound, DeviceSound, LossSound DEF Next
-----------------------------------------------------------------------------
\* Every reachable state is well typed.
THEOREM TypeCorrect == Spec => []TypeOK
  <1>1. Sound => TypeOK
    <2> SUFFICES ASSUME Sound PROVE TypeOK
      OBVIOUS
    <2>1. Claims \subseteq ToHost \cup SessionToHost
      BY DEF Claims
    <2>2. /\ toHost \in Seq(ToHost \cup SessionToHost)
          /\ inbox \in Seq(ToHost \cup SessionToHost)
      BY <2>1, SeqMonotonic DEF Sound, Typed
    <2>3. QED
      BY <2>2 DEF Sound, Typed, CallSound, TypeOK, DeviceFrames
  <1>2. QED
    BY <1>1, SoundInit, SoundStep, PTL DEF Spec

\* A delivery that is reported is in place under its xid, across restarts,
\* failed writes, sessions and everything that is lost or late.
THEOREM ReportedIsInPlace == Spec => []DeliveredInPlace
  <1>1. Sound => DeliveredInPlace
    BY DEF Sound, Typed, CallSound, Delivered, InPlace, DeliveredInPlace
  <1>2. QED
    BY <1>1, SoundInit, SoundStep, PTL DEF Spec

\* What is in place stays: out is written at most once per xid.
THEOREM WrittenOnce == Spec => InPlaceStays
  <1>1. ASSUME Sound, [Next]_vars
        PROVE  [\A x \in Xids : out[x] \in Blobs => out'[x] = out[x]]_vars
    <2>1. CASE \E b \in Blobs : Finishes(xfer, b) /\ Frame.xid \in Xids
      <3>1. transfers[Frame.xid] # NoXfer
        BY <2>1 DEF Finishes, xfer
      <3>2. out[Frame.xid] \notin Blobs
        <4>1. Seq(Chunk) \subseteq Seq(Chunk \cup {Torn})
          BY SeqMonotonic
        <4>2. NoFile \notin Blobs
          BY <4>1, WireAssumption
        <4>3. QED
          BY <1>1, <2>1, <3>1, <4>2 DEF Sound, PutOnce
      <3>3. \A x \in Xids : x # Frame.xid => out'[x] = out[x]
        BY <1>1
        DEF Sound, Typed, FrontendTypeOK, Next, Transfers, Attach, Device, Loss, Serves, Bridges,
            FrontendFails, FrontendOpen, FrontendData, FrontendStat, FrontendClose,
            FrontendIgnores, FrontendWriteFails, FrontendRestart, SessionStarts,
            SessionDetached, ShellExits, SessionReads, SessionEnds, WritesOut, deviceVars, vars
      <3>4. QED
        BY <3>2, <3>3
    <2>2. CASE ~\E b \in Blobs : Finishes(xfer, b)
      <3>1. out' = out
        BY <1>1, <2>2
        DEF Next, Transfers, Attach, Device, Loss, Serves, Bridges,
            FrontendFails, FrontendOpen, FrontendData, FrontendStat, FrontendClose,
            FrontendIgnores, FrontendWriteFails, FrontendRestart, SessionStarts,
            SessionDetached, ShellExits, SessionReads, SessionEnds, deviceVars, vars
      <3>2. QED
        BY <3>1
    <2>3. CASE Frame.xid \notin Xids
      <3>1. out' = out
        BY <1>1, <2>3, ReadsFrame
        DEF Next, Transfers, Attach, Device, Loss, Serves, Bridges, Handles,
            FrontendFails, FrontendOpen, FrontendData, FrontendStat, FrontendClose,
            FrontendIgnores, FrontendWriteFails, FrontendRestart, SessionStarts,
            SessionDetached, ShellExits, SessionReads, SessionEnds, deviceVars, vars
      <3>2. QED
        BY <3>1
    <2>4. QED
      BY <2>1, <2>2, <2>3
  <1>2. QED
    BY <1>1, SoundInit, SoundStep, PTL DEF Spec, InPlaceStays
-----------------------------------------------------------------------------
LEMMA PromisedHost ==
    ASSUME Sound, Sound', Transfers
    PROVE  [Promise!Next]_Promise!vars
  <1>1. UNCHANGED rebuilt /\ xid \in Xids /\ blob \in Blobs
    BY DEF Transfers, deviceVars, Sound, Typed, CallSound
  <1>2. ASSUME NEW x \in Xids, NEW b \in Payloads[x], Call(x, b)
        PROVE  Promise!Next
    <2>1. b \in Blobs
      BY HostAssumption
    <2>2. Promise!Begin(x, b)
      BY <1>1, <1>2 DEF Promise!Begin, Call
    <2>3. QED
      BY <2>1, <2>2 DEF Promise!Next
  <1>3. ASSUME NEW i \in DOMAIN inbox, DoneAnswered(i)
        PROVE  Promise!Next
    <2>1. CASE verdict' = "ok"
      <3>1. blob \in rebuilt[xid]
        BY <1>1, <1>3, <2>1 DEF Sound, Delivered, DoneAnswered
      <3>2. Promise!Succeed
        BY <1>1, <1>3, <2>1, <3>1 DEF Promise!Succeed, DoneAnswered, Returns
      <3>3. QED
        BY <3>2 DEF Promise!Next
    <2>2. CASE verdict' # "ok"
      BY <1>1, <1>3, <2>2 DEF Promise!Next, Promise!Fail, DoneAnswered, Returns
    <2>3. QED
      BY <2>1, <2>2
  <1>4. CASE pc' = "idle" /\ verdict' # "ok" /\ UNCHANGED <<xid, blob>>
    BY <1>1, <1>4 DEF Promise!Next, Promise!Fail
  <1>5. CASE /\ pc # "idle" /\ pc' # "idle"
             /\ UNCHANGED <<verdict, xid, blob>>
    BY <1>1, <1>5 DEF Promise!vars
  <1>6. QED
    BY <1>2, <1>3, <1>4, <1>5
    DEF Transfers, Pump, Receives, StatAnswered, ChunkAcked, ChunkNaked,
        StatTimeout, StatGivesUp, ChunkTimeout, DoneTimeout, DoneGivesUp, LinkFails,
        NewProcess, GoOn, TryFails, Returns

LEMMA PromisedDevice ==
    ASSUME Sound, Device
    PROVE  [Promise!Next]_Promise!vars
  <1>1. UNCHANGED <<pc, xid, blob, verdict>>
    BY DEF Device, hostVars
  <1>2. ASSUME NEW b \in Blobs, Handles("CLOSE"), WritesOut(b)
        PROVE  [Promise!Next]_Promise!vars
    <2>1. Frame.xid \in Xids
      BY <1>2, ReadsFrame DEF Handles
    <2>2. Promise!Rebuild(Frame.xid, b)
      BY <1>1, <1>2 DEF Promise!Rebuild, WritesOut
    <2>3. QED
      BY <2>1, <2>2 DEF Promise!Next
  <1>3. CASE UNCHANGED rebuilt
    BY <1>1, <1>3 DEF Promise!vars
  <1>4. QED
    BY <1>2, <1>3
    DEF Device, Serves, Bridges, FrontendFails, FrontendOpen, FrontendData, FrontendStat,
        FrontendClose, FrontendIgnores, FrontendWriteFails, FrontendRestart, SessionStarts,
        SessionDetached, ShellExits, SessionReads, SessionEnds, deviceVars

\* The front-end keeps the contract of the shell agent: with it, too, every
\* step of a transfer is a step of Delivery or changes nothing it speaks of.
THEOREM FrontendDelivers == Spec => DeliversBlobs
  <1>1. Init => Promise!Init
    BY HostAssumption
    DEF Init, FrontendInit, HostInit, Promise!Init
  <1>2. Sound /\ Sound' /\ [Next]_vars => [Promise!Next]_Promise!vars
    <2> SUFFICES ASSUME Sound, Sound', [Next]_vars
                 PROVE  [Promise!Next]_Promise!vars
      OBVIOUS
    <2>1. CASE Attach \/ Loss \/ UNCHANGED vars
      BY <2>1 DEF Attach, Loss, deviceVars, hostVars, vars, Promise!vars
    <2>2. QED
      BY <2>1, PromisedHost, PromisedDevice DEF Next
  <1>3. QED
    BY <1>1, <1>2, SoundInit, SoundStep, PTL DEF Spec, DeliversBlobs, Promise!Spec
-----------------------------------------------------------------------------
(***************************************************************************)
(* The session.  As long as nothing is lost, one attach hands the console  *)
(* over and takes it back: ATTACH, DETACH and AEND say who has it.         *)
(***************************************************************************)
Has(l, kind) == \E i \in DOMAIN l : l[i].kind = kind

\* An ATTACH follows neither an ATTACH nor a DETACH.
AttachFirst(l) ==
    \A i, j \in DOMAIN l :
        i < j /\ l[j].kind = "ATTACH" => l[i].kind # "ATTACH" /\ l[i].kind # "DETACH"

\* Before the first attach there is no trace of a session.
Unattached ==
    attaches = 0 =>
        /\ ~session /\ ~attached
        /\ ~Has(toDev, "ATTACH") /\ ~Has(toDev, "DETACH") /\ ~Has(toHost, "AEND")

\* The session is where the frames on their way say: asked for, on, or over.
\* DETACH is on its way once the host has left.
Handover ==
    /\ Unattached
    /\ session => ~Has(toDev, "ATTACH")
    /\ Has(toHost, "AEND") => ~session /\ ~Has(toDev, "ATTACH")
    /\ attached => ~Has(toDev, "DETACH")
    /\ ~attached /\ (session \/ Has(toDev, "ATTACH")) => Has(toDev, "DETACH")
    /\ AttachFirst(toDev)

\* The inductive invariant.
Handed ==
    /\ Len(toDev) <= DevCap
    /\ ~mishap /\ attaches <= 1 => Handover

\* What becomes of line l without sending, or handling, a frame of a session.
Undisturbed(l, k) ==
    /\ k \in Seq(DeviceFrames)
    /\ Has(k, "ATTACH") <=> Has(l, "ATTACH")
    /\ Has(k, "DETACH") <=> Has(l, "DETACH")
    /\ AttachFirst(l) => AttachFirst(k)
    /\ Len(l) <= DevCap => Len(k) <= DevCap

LEMMA HasPut ==
    ASSUME NEW S, NEW l \in Seq(S), NEW m \in S, NEW cap \in Nat, NEW kind
    PROVE  /\ Has(Put(l, m, cap), kind) => Has(l, kind) \/ m.kind = kind
           /\ Has(l, kind) => Has(Put(l, m, cap), kind)
           /\ Len(l) < cap /\ m.kind = kind => Has(Put(l, m, cap), kind)
           /\ Len(l) <= cap => Len(Put(l, m, cap)) <= cap
           /\ AttachFirst(l) /\ (m.kind = "ATTACH" => ~Has(l, "ATTACH") /\ ~Has(l, "DETACH"))
                 => AttachFirst(Put(l, m, cap))
  <1> DEFINE a == Append(l, m)
  <1>1. /\ Len(l) \in Nat /\ Len(a) = Len(l) + 1
        /\ DOMAIN l = 1 .. Len(l) /\ DOMAIN a = 1 .. Len(l) + 1
        /\ \A i \in 1 .. Len(l) : a[i] = l[i]
        /\ a[Len(l) + 1] = m
    BY AppendProperties, LenProperties
  <1> HIDE DEF a
  <1>2. \A i \in DOMAIN a : (i \in DOMAIN l /\ a[i] = l[i]) \/ (i = Len(l) + 1 /\ a[i] = m)
    BY <1>1
  <1>3. Has(a, kind) => Has(l, kind) \/ m.kind = kind
    BY <1>2 DEF Has
  <1>4. (Has(l, kind) => Has(a, kind)) /\ (m.kind = kind => Has(a, kind))
    BY <1>1 DEF Has
  <1>5. ASSUME AttachFirst(l), m.kind = "ATTACH" => ~Has(l, "ATTACH") /\ ~Has(l, "DETACH")
        PROVE  AttachFirst(a)
    <2> SUFFICES ASSUME NEW i \in DOMAIN a, NEW j \in DOMAIN a, i < j, a[j].kind = "ATTACH"
                 PROVE  a[i].kind # "ATTACH" /\ a[i].kind # "DETACH"
      BY DEF AttachFirst
    <2>1. i \in DOMAIN l /\ a[i] = l[i]
      BY <1>1
    <2>2. CASE j \in DOMAIN l
      BY <1>1, <1>5, <2>1, <2>2 DEF AttachFirst
    <2>3. CASE j \notin DOMAIN l
      BY <1>2, <1>5, <2>1, <2>3 DEF Has
    <2>4. QED
      BY <2>2, <2>3
  <1>6. (Len(l) < cap /\ Put(l, m, cap) = a) \/ (~(Len(l) < cap) /\ Put(l, m, cap) = l)
    BY DEF Put, a
  <1>7. Len(l) < cap => Len(a) <= cap
    BY <1>1
  <1>8. QED
    BY <1>3, <1>4, <1>5, <1>6, <1>7

LEMMA HasTail ==
    ASSUME NEW S, NEW l \in Seq(S), l # <<>>, NEW kind
    PROVE  /\ Has(Tail(l), kind) => Has(l, kind)
           /\ Has(l, kind) => Has(Tail(l), kind) \/ Head(l).kind = kind
           /\ Head(l).kind = kind => Has(l, kind)
           /\ Len(l) <= DevCap => Len(Tail(l)) <= DevCap
           /\ AttachFirst(l) => AttachFirst(Tail(l))
           /\ AttachFirst(l) /\ Head(l).kind \in {"ATTACH", "DETACH"} => ~Has(Tail(l), "ATTACH")
  <1> DEFINE t == Tail(l)
  <1>1. /\ Len(l) \in Nat /\ Len(l) >= 1 /\ Len(t) = Len(l) - 1
        /\ DOMAIN l = 1 .. Len(l) /\ DOMAIN t = 1 .. Len(l) - 1
        /\ \A i \in 1 .. Len(l) - 1 : t[i] = l[i + 1]
        /\ Head(l) = l[1]
    BY HeadTailProperties, LenProperties, EmptySeq
  <1> HIDE DEF t
  <1>2. \A i \in DOMAIN t : i + 1 \in DOMAIN l /\ t[i] = l[i + 1] /\ 1 < i + 1
    BY <1>1
  <1>3. 1 \in DOMAIN l
    BY <1>1
  <1>4. (Has(t, kind) => Has(l, kind)) /\ (Head(l).kind = kind => Has(l, kind))
    BY <1>1, <1>2, <1>3 DEF Has
  <1>5. ASSUME Has(l, kind) PROVE Has(t, kind) \/ Head(l).kind = kind
    <2>1. PICK i \in DOMAIN l : l[i].kind = kind
      BY <1>5 DEF Has
    <2>2. CASE i = 1
      BY <1>1, <2>1, <2>2
    <2>3. CASE i # 1
      <3>1. i - 1 \in DOMAIN t /\ t[i - 1] = l[i]
        BY <1>1, <2>3
      <3>2. QED
        BY <2>1, <3>1 DEF Has
    <2>4. QED
      BY <2>2, <2>3
  <1>6. ASSUME AttachFirst(l) PROVE AttachFirst(t)
    <2> SUFFICES ASSUME NEW i \in DOMAIN t, NEW j \in DOMAIN t, i < j, t[j].kind = "ATTACH"
                 PROVE  t[i].kind # "ATTACH" /\ t[i].kind # "DETACH"
      BY DEF AttachFirst
    <2>1. i + 1 < j + 1
      BY <1>1
    <2>2. QED
      BY <1>2, <1>6, <2>1 DEF AttachFirst
  <1>7. ASSUME AttachFirst(l), Head(l).kind \in {"ATTACH", "DETACH"} PROVE ~Has(t, "ATTACH")
    BY <1>1, <1>2, <1>3, <1>7 DEF AttachFirst, Has
  <1>8. Len(l) <= DevCap => Len(t) <= DevCap
    BY <1>1, WireAssumption
  <1>9. QED
    BY <1>4, <1>5, <1>6, <1>7, <1>8 DEF t

\* A frame of a transfer that is sent, or taken off the line.
LEMMA TransferPut ==
    ASSUME NEW l \in Seq(DeviceFrames), NEW m \in ToDevice
    PROVE  Undisturbed(l, Put(l, m, DevCap))
  <1>1. m \in DeviceFrames /\ m.kind # "ATTACH" /\ m.kind # "DETACH" /\ DevCap \in Nat
    BY WireAssumption DEF DeviceFrames, ToDevice, OpenMsg, StatMsg, DataMsg, CloseMsg
  <1>2. Put(l, m, DevCap) \in Seq(DeviceFrames)
    BY <1>1, PutType
  <1>3. /\ Has(Put(l, m, DevCap), "ATTACH") <=> Has(l, "ATTACH")
        /\ AttachFirst(l) => AttachFirst(Put(l, m, DevCap))
        /\ Len(l) <= DevCap => Len(Put(l, m, DevCap)) <= DevCap
    BY <1>1, HasPut
  <1>4. Has(Put(l, m, DevCap), "DETACH") <=> Has(l, "DETACH")
    BY <1>1, HasPut
  <1>5. QED
    BY <1>2, <1>3, <1>4 DEF Undisturbed

LEMMA TransferTail ==
    ASSUME NEW l \in Seq(DeviceFrames), l # <<>>,
           Head(l).kind # "ATTACH", Head(l).kind # "DETACH"
    PROVE  Undisturbed(l, Tail(l))
  <1>1. Tail(l) \in Seq(DeviceFrames)
    BY TailType
  <1>2. /\ Has(Tail(l), "ATTACH") <=> Has(l, "ATTACH")
        /\ AttachFirst(l) => AttachFirst(Tail(l))
        /\ Len(l) <= DevCap => Len(Tail(l)) <= DevCap
    BY HasTail
  <1>3. Has(Tail(l), "DETACH") <=> Has(l, "DETACH")
    BY HasTail
  <1>4. QED
    BY <1>1, <1>2, <1>3 DEF Undisturbed

\* send_blob sends its own frames only.
LEMMA TransfersUndisturbed ==
    ASSUME Sound, Transfers
    PROVE  Undisturbed(toDev, toDev')
  <1>0. /\ toDev \in Seq(DeviceFrames) /\ xid \in Xids /\ blob \in Blobs /\ seq \in Nat
        /\ pc = "data" => seq < Len(blob)
    BY DEF Sound, Typed, CallSound, InRange
  <1>1. ASSUME NEW m \in ToDevice, toDev' = Put(toDev, m, DevCap)
        PROVE  Undisturbed(toDev, toDev')
    BY <1>0, <1>1, TransferPut
  <1>2. ASSUME NEW m \in ToDevice, NEW n \in ToDevice,
               toDev' = Put(Put(toDev, m, DevCap), n, DevCap)
        PROVE  Undisturbed(toDev, toDev')
    <2> DEFINE mid == Put(toDev, m, DevCap)
    <2>1. Undisturbed(toDev, mid)
      BY <1>0, TransferPut
    <2> HIDE DEF mid
    <2>2. mid \in Seq(DeviceFrames)
      BY <2>1 DEF Undisturbed
    <2>3. Undisturbed(mid, Put(mid, n, DevCap))
      BY <2>2, TransferPut
    <2>4. Undisturbed(toDev, Put(mid, n, DevCap))
      BY <2>1, <2>3 DEF Undisturbed
    <2>5. QED
      BY <1>2, <2>4 DEF mid
  <1>3. ASSUME toDev' = toDev PROVE Undisturbed(toDev, toDev')
    BY <1>0, <1>3 DEF Undisturbed
  <1>4. ASSUME NEW s, GoOn(s), s \in Nat PROVE Undisturbed(toDev, toDev')
    BY <1>0, <1>1, <1>4, HostFrames DEF GoOn, Send
  <1>5. ASSUME TryFails, pc = "data" PROVE Undisturbed(toDev, toDev')
    <2>1. Open(xid, blob) \in ToDevice /\ Data(xid, blob, seq) \in ToDevice
      BY <1>0, <1>5, HostFrames
    <2>2. \/ toDev' = toDev
          \/ toDev' = Put(toDev, Open(xid, blob), DevCap)
          \/ toDev' = Put(toDev, Data(xid, blob, seq), DevCap)
          \/ toDev' = Put(Put(toDev, Open(xid, blob), DevCap), Data(xid, blob, seq), DevCap)
      BY <1>5 DEF TryFails
    <2>3. QED
      BY <1>1, <1>2, <1>3, <2>1, <2>2
  <1>6. ASSUME NEW x \in Xids, NEW b \in Payloads[x], Call(x, b) PROVE Undisturbed(toDev, toDev')
    <2>1. b \in Blobs
      BY HostAssumption
    <2>2. QED
      BY <1>2, <1>6, <2>1, HostFrames DEF Call
  <1>7. ASSUME NEW i \in DOMAIN inbox, StatAnswered(i) PROVE Undisturbed(toDev, toDev')
    <2>1. inbox[i] \in Claims /\ inbox[i].kind = "HAVE"
      BY <1>7, TakesKeeps DEF StatAnswered, Awaited, Sound, Typed
    <2>2. inbox[i].hw \in Nat /\ Len(blob) \in Nat
      BY <1>0, <2>1, ReplyKinds, BlobType DEF Claims, SessionToHost
    <2>3. QED
      BY <1>4, <1>7, <2>2 DEF StatAnswered
  <1>8. ASSUME NEW i \in DOMAIN inbox, ChunkAcked(i) \/ ChunkNaked(i) \/ DoneAnswered(i)
        PROVE  Undisturbed(toDev, toDev')
    BY <1>0, <1>3, <1>4, <1>5, <1>8 DEF ChunkAcked, ChunkNaked, DoneAnswered, line
  <1>9. ASSUME Pump \/ LinkFails \/ NewProcess \/ DoneGivesUp PROVE Undisturbed(toDev, toDev')
    BY <1>3, <1>9 DEF Pump, LinkFails, NewProcess, DoneGivesUp, line
  <1>10. ASSUME StatTimeout \/ DoneTimeout PROVE Undisturbed(toDev, toDev')
    BY <1>0, <1>1, <1>10, HostFrames DEF StatTimeout, DoneTimeout, Send
  <1>11. ASSUME StatGivesUp \/ ChunkTimeout PROVE Undisturbed(toDev, toDev')
    BY <1>4, <1>5, <1>11 DEF StatGivesUp, ChunkTimeout
  <1>12. QED
    BY <1>6, <1>7, <1>8, <1>9, <1>10, <1>11 DEF Transfers, Receives

\* A frame that is read.
LEMMA FrameUndisturbed ==
    ASSUME Sound, toDev # <<>>, toDev' = Tail(toDev),
           Head(toDev).kind \in {"OPEN", "STAT", "DATA", "CLOSE"}
    PROVE  Undisturbed(toDev, toDev')
  BY TransferTail DEF Sound, Typed

\* A reply that is not AEND.
LEMMA ReplyNotEnd ==
    ASSUME Sound, NEW m \in Claims, m.kind # "AEND", Reply(m), Has(toHost', "AEND")
    PROVE  Has(toHost, "AEND")
  BY HasPut, WireAssumption DEF Sound, Typed, Reply

LEMMA TailNotEnd ==
    ASSUME Sound, toHost # <<>>, toHost' = Tail(toHost), Has(toHost', "AEND")
    PROVE  Has(toHost, "AEND")
  BY HasTail DEF Sound, Typed

\* A step that neither host nor front-end takes part in as a session.
LEMMA OutsideHands ==
    ASSUME Handover, Undisturbed(toDev, toDev'), Has(toHost', "AEND") => Has(toHost, "AEND"),
           session' = session \/ ~session', UNCHANGED <<attached, attaches>>
    PROVE  Handover'
  BY DEF Handover, Unattached, Undisturbed

LEMMA TransfersHand ==
    ASSUME Sound, Handover, Transfers
    PROVE  Handover'
  <1>1. Undisturbed(toDev, toDev')
    BY TransfersUndisturbed
  <1>2. ASSUME Has(toHost', "AEND") PROVE Has(toHost, "AEND")
    <2>1. toHost' = toHost \/ (toHost # <<>> /\ toHost' = Tail(toHost))
      BY DEF Transfers, Call, Pump, Receives, StatAnswered, ChunkAcked, ChunkNaked, DoneAnswered,
             StatTimeout, StatGivesUp, ChunkTimeout, DoneTimeout, DoneGivesUp, LinkFails,
             NewProcess, GoOn, TryFails, line
    <2>2. QED
      BY <1>2, <2>1, TailNotEnd
  <1>3. UNCHANGED <<session, attached, attaches>>
    BY DEF Transfers, deviceVars, attachVars
  <1>4. QED
    BY <1>1, <1>2, <1>3, OutsideHands

LEMMA AttachHands ==
    ASSUME Sound, Handover, Attach, Len(toDev) < DevCap, ~mishap', attaches' <= 1
    PROVE  Handover'
  <1>0. /\ toDev \in Seq(DeviceFrames) /\ toHost \in Seq(Claims) /\ DevCap \in Nat
        /\ session' = session /\ attaches \in Nat
    BY WireAssumption DEF Sound, Typed, Attach, deviceVars
  <1>1. CASE AttachBegins
    <2> DEFINE m == [kind |-> "ATTACH"]
    <2>1. attaches = 0 /\ attaches' = 1 /\ attached'
      BY <1>0, <1>1 DEF AttachBegins
    <2>2. /\ ~session /\ ~Has(toDev, "ATTACH") /\ ~Has(toDev, "DETACH") /\ ~Has(toHost, "AEND")
      BY <2>1 DEF Handover, Unattached
    <2>3. toDev' = Put(toDev, m, DevCap) /\ toHost' = toHost /\ m \in DeviceFrames
      BY <1>1 DEF AttachBegins, Send, DeviceFrames, SessionToDevice
    <2>4. m.kind = "ATTACH"
      OBVIOUS
    <2> HIDE DEF m
    <2>5. AttachFirst(toDev')
      BY <1>0, <2>2, <2>3, <2>4, HasPut DEF Handover
    <2>6. ~Has(toDev', "DETACH")
      BY <1>0, <2>2, <2>3, <2>4, HasPut
    <2>7. ~session' /\ ~Has(toHost', "AEND")
      BY <1>0, <2>2, <2>3
    <2>8. QED
      BY <2>1, <2>5, <2>6, <2>7 DEF Handover, Unattached
  <1>2. CASE AttachDetaches
    <2> DEFINE m == [kind |-> "DETACH"]
    <2>1. attached /\ ~attached' /\ attaches' = attaches /\ attaches # 0
      BY <1>2 DEF AttachDetaches, AttachEnds, Handover, Unattached
    <2>2. toDev' = Put(toDev, m, DevCap) /\ toHost' = toHost /\ m \in DeviceFrames
      BY <1>2 DEF AttachDetaches, Send, DeviceFrames, SessionToDevice
    <2>3. m.kind = "DETACH"
      OBVIOUS
    <2> HIDE DEF m
    <2>4. AttachFirst(toDev') /\ Has(toDev', "DETACH")
      BY <1>0, <2>2, <2>3, HasPut DEF Handover
    <2>5. Has(toDev', "ATTACH") => Has(toDev, "ATTACH")
      BY <1>0, <2>2, <2>3, HasPut
    <2>6. QED
      BY <1>0, <2>1, <2>2, <2>4, <2>5 DEF Handover, Unattached
  <1>3. CASE AttachReceives
    <2>1. toDev' = toDev /\ toHost # <<>> /\ toHost' = Tail(toHost) /\ attached
      BY <1>3 DEF AttachReceives
    <2>2. Has(toHost', "AEND") => Has(toHost, "AEND")
      BY <2>1, TailNotEnd
    <2>3. CASE Head(toHost).kind = "AEND"
      <3>1. Has(toHost, "AEND")
        BY <1>0, <2>1, <2>3, HasTail
      <3>2. ~attached' /\ attaches' = attaches
        BY <1>3, <2>3 DEF AttachReceives, AttachEnds
      <3>3. QED
        BY <1>0, <2>1, <2>2, <3>1, <3>2 DEF Handover, Unattached
    <2>4. CASE Head(toHost).kind # "AEND"
      <3>1. UNCHANGED <<attached, attaches>>
        BY <1>3, <2>4 DEF AttachReceives, attachVars
      <3>2. QED
        BY <1>0, <2>1, <2>2, <3>1 DEF Handover, Unattached
    <2>5. QED
      BY <2>3, <2>4
  <1>4. QED
    BY <1>1, <1>2, <1>3 DEF Attach

LEMMA DeviceHands ==
    ASSUME Sound, Handover, Device
    PROVE  Handover'
  <1>0. /\ toDev \in Seq(DeviceFrames) /\ toHost \in Seq(Claims) /\ HostCap \in Nat
        /\ UNCHANGED <<attached, attaches>>
    BY WireAssumption DEF Sound, Typed, Device, attachVars
  <1>1. ASSUME NEW kind \in {"OPEN", "STAT", "DATA", "CLOSE"}, Handles(kind), session' = session,
               Has(toHost', "AEND") => Has(toHost, "AEND")
        PROVE  Handover'
    BY <1>0, <1>1, FrameUndisturbed, OutsideHands DEF Handles, Reads
  <1>2. ASSUME NEW m \in Claims, m.kind # "AEND", Reply(m)
        PROVE  Has(toHost', "AEND") => Has(toHost, "AEND")
    BY <1>2, ReplyNotEnd
  <1>3. ASSUME NEW x \in Xids
        PROVE  /\ \A s \in Seqs : (Reply(Ack(x, s)) \/ Reply(Nak(x, s)))
                     => (Has(toHost', "AEND") => Has(toHost, "AEND"))
               /\ \A hw \in 0 .. MaxChunks : Reply(Have(x, hw))
                     => (Has(toHost', "AEND") => Has(toHost, "AEND"))
               /\ Reply(DoneFail(x)) => (Has(toHost', "AEND") => Has(toHost, "AEND"))
               /\ \A b \in Blobs : Reply(DoneOk(x, b))
                     => (Has(toHost', "AEND") => Has(toHost, "AEND"))
    <2>1. /\ \A s : Ack(x, s).kind = "ACK" /\ Nak(x, s).kind = "NAK"
          /\ \A hw : Have(x, hw).kind = "HAVE"
          /\ \A b : DoneOk(x, b).kind = "DONE"
          /\ DoneFail(x).kind = "DONE"
      BY DEF Ack, Nak, Have, DoneOk, DoneFail
    <2>2. ASSUME NEW b \in Blobs, Reply(DoneOk(x, b)), Has(toHost', "AEND")
          PROVE  Has(toHost, "AEND")
      <3>1. toHost \in Seq(ToHost \cup SessionToHost)
        <4>1. Claims \subseteq ToHost \cup SessionToHost
          BY DEF Claims
        <4>2. QED
          BY <1>0, <4>1, SeqMonotonic
      <3>2. DoneOk(x, b) \in ToHost \cup SessionToHost
        BY Replies
      <3>3. QED
        BY <1>0, <2>1, <2>2, <3>1, <3>2, HasPut DEF Reply
    <2>3. QED
      BY <1>2, <2>1, <2>2, Harmless
  <1>4. CASE FrontendOpen
    BY <1>1, <1>4 DEF FrontendOpen
  <1>5. CASE FrontendData
    <2>1. Frame.xid \in Xids /\ Frame.seq \in Seqs
      BY <1>5, ReadsFrame, FrameKinds DEF FrontendData, Handles
    <2>2. QED
      BY <1>1, <1>3, <1>5, <2>1 DEF FrontendData
  <1>6. CASE FrontendStat
    <2>1. Frame.xid \in Xids
      BY <1>6, ReadsFrame DEF FrontendStat, Handles
    <2>2. QED
      BY <1>1, <1>3, <1>6, <2>1 DEF FrontendStat, deviceVars
  <1>7. CASE FrontendClose \/ FrontendWriteFails
    <2>1. Frame.xid \in Xids
      BY <1>7, ReadsFrame DEF FrontendClose, FrontendWriteFails, Handles
    <2>2. QED
      BY <1>1, <1>3, <1>7, <2>1 DEF FrontendClose, FrontendWriteFails, WritesOut
  <1>8. CASE FrontendIgnores
    <2>1. /\ ~session /\ ~session' /\ toDev # <<>> /\ toDev' = Tail(toDev) /\ toHost' = toHost
          /\ Head(toDev).kind = "DETACH"
      BY <1>8 DEF FrontendIgnores, Handles, Reads, deviceVars
    <2>2. AttachFirst(toDev') /\ ~Has(toDev', "ATTACH")
      BY <1>0, <2>1, HasTail DEF Handover
    <2>3. Has(toDev', "DETACH") => Has(toDev, "DETACH")
      BY <1>0, <2>1, HasTail
    <2>4. QED
      BY <1>0, <2>1, <2>2, <2>3 DEF Handover, Unattached
  <1>9. CASE SessionStarts
    <2>1. /\ ~session /\ toDev # <<>> /\ toDev' = Tail(toDev) /\ Head(toDev).kind = "ATTACH"
      BY <1>9 DEF SessionStarts, Handles, Reads
    <2>2. AttachFirst(toDev') /\ ~Has(toDev', "ATTACH") /\ Has(toDev, "ATTACH")
      BY <1>0, <2>1, HasTail DEF Handover
    <2>3. (Has(toDev', "DETACH") <=> Has(toDev, "DETACH"))
      BY <1>0, <2>1, HasTail
    <2>4. attaches # 0 /\ ~Has(toHost, "AEND")
      BY <2>2 DEF Handover, Unattached
    <2>5. session' => ~Has(toHost', "AEND")
      BY <1>9, <2>1, <2>4 DEF SessionStarts
    <2>6. QED
      BY <1>0, <2>1, <2>2, <2>3, <2>4, <2>5 DEF Handover, Unattached
  <1>10. CASE SessionDetached
    <2>1. /\ session /\ ~session' /\ toDev # <<>> /\ toDev' = Tail(toDev)
      BY <1>10 DEF SessionDetached, SessionEnds, Reads
    <2>2. AttachFirst(toDev') /\ ~Has(toDev', "ATTACH")
      BY <1>0, <2>1, HasTail DEF Handover
    <2>3. Has(toDev', "DETACH") => Has(toDev, "DETACH")
      BY <1>0, <2>1, HasTail
    <2>4. QED
      BY <1>0, <2>1, <2>2, <2>3 DEF Handover, Unattached
  <1>11. CASE ShellExits
    BY <1>0, <1>11 DEF ShellExits, SessionEnds, Handover, Unattached
  <1>12. CASE SessionReads
    <2>1. /\ session /\ session' = session /\ toHost' = toHost
          /\ toDev # <<>> /\ toDev' = Tail(toDev)
          /\ Head(toDev).kind \in {"OPEN", "STAT", "DATA", "CLOSE", "ATTACH"}
      BY <1>12 DEF SessionReads, Reads, deviceVars
    <2>2. Head(toDev).kind # "ATTACH"
      BY <1>0, <2>1, HasTail DEF Handover
    <2>3. Undisturbed(toDev, toDev')
      BY <2>1, <2>2, FrameUndisturbed
    <2>4. QED
      BY <1>0, <2>1, <2>3, OutsideHands
  <1>13. CASE FrontendRestart
    <2>1. Has(toHost', "AEND") => Has(toHost, "AEND")
      BY <1>2, <1>13, Harmless DEF FrontendRestart, Ready
    <2>2. toDev' = toDev /\ ~session'
      BY <1>13 DEF FrontendRestart
    <2>3. QED
      BY <1>0, <2>1, <2>2 DEF Handover, Unattached
  <1>14. QED
    BY <1>4, <1>5, <1>6, <1>7, <1>8, <1>9, <1>10, <1>11, <1>12, <1>13
    DEF Device, Serves, Bridges, FrontendFails

\* The line to the device holds at most what its buffer does.
LEMMA LineFits ==
    ASSUME Sound, Len(toDev) <= DevCap, [Next]_vars
    PROVE  Len(toDev') <= DevCap
  <1>0. toDev \in Seq(DeviceFrames) /\ DevCap \in Nat
    BY WireAssumption DEF Sound, Typed
  <1>1. CASE Transfers
    BY <1>1, TransfersUndisturbed DEF Undisturbed
  <1>2. CASE toDev' = toDev
    BY <1>2
  <1>3. CASE toDev # <<>> /\ toDev' = Tail(toDev)
    BY <1>0, <1>3, HasTail
  <1>4. CASE Attach
    <2>1. [kind |-> "ATTACH"] \in DeviceFrames /\ [kind |-> "DETACH"] \in DeviceFrames
      BY DEF DeviceFrames, SessionToDevice
    <2>2. CASE AttachBegins \/ AttachDetaches
      BY <1>0, <2>1, <2>2, HasPut DEF AttachBegins, AttachDetaches, Send
    <2>3. CASE AttachReceives \/ AttachAborts
      BY <2>3 DEF AttachReceives, AttachAborts, line
    <2>4. QED
      BY <1>4, <2>2, <2>3 DEF Attach
  <1>5. ASSUME Device \/ Loss
        PROVE  toDev' = toDev \/ (toDev # <<>> /\ toDev' = Tail(toDev))
    BY <1>5
    DEF Device, Serves, Bridges, FrontendFails, FrontendOpen, FrontendData, FrontendStat,
        FrontendClose, FrontendIgnores, FrontendWriteFails, FrontendRestart, SessionStarts,
        SessionDetached, ShellExits, SessionReads, SessionEnds, Handles, Reads, Loss,
        LoseToDev, LoseToHost
  <1>6. CASE UNCHANGED vars
    BY <1>6 DEF vars, line
  <1>7. QED
    BY <1>1, <1>2, <1>3, <1>4, <1>5, <1>6 DEF Next

LEMMA HandedStep == Sound /\ Handed /\ [Next]_vars => Handed'
  <1> SUFFICES ASSUME Sound, Handed, [Next]_vars PROVE Handed'
    OBVIOUS
  <1>1. Len(toDev') <= DevCap
    BY LineFits DEF Handed
  <1>2. ASSUME ~mishap', attaches' <= 1, Next PROVE Handover'
    <2>0. mishap \in BOOLEAN /\ attaches \in Nat
      BY DEF Sound, Typed
    <2>1. ~mishap /\ ~Full
      BY <1>2, <2>0 DEF Next, Transfers, Attach, Device, Loss
    <2>2. attaches' = attaches \/ attaches' = attaches + 1
      BY <1>2
      DEF Next, Transfers, Attach, Device, Loss, AttachBegins, AttachDetaches, AttachReceives,
          AttachAborts, AttachEnds, attachVars
    <2>3. attaches <= 1
      BY <1>2, <2>0, <2>2
    <2>4. Handover /\ Len(toDev) < DevCap
      <3>1. toDev \in Seq(DeviceFrames) /\ DevCap \in Nat
        BY WireAssumption DEF Sound, Typed
      <3>2. Len(toDev) \in Nat /\ Len(toDev) <= DevCap /\ Len(toDev) # DevCap
        BY <2>1, <3>1, LenProperties DEF Handed, Full
      <3>3. QED
        BY <2>1, <2>3, <3>1, <3>2 DEF Handed
    <2>5. ~Loss
      BY <1>2 DEF Loss
    <2>6. QED
      BY <1>2, <2>4, <2>5, TransfersHand, AttachHands, DeviceHands DEF Next
  <1>3. CASE UNCHANGED vars
    <2>1. UNCHANGED <<toDev, toHost, session, attached, attaches, mishap>>
      BY <1>3 DEF vars, line, deviceVars, attachVars, historyVars
    <2>2. Handover => Handover'
      BY <2>1 DEF Handover, Unattached
    <2>3. QED
      BY <1>1, <2>1, <2>2 DEF Handed
  <1>4. QED
    BY <1>1, <1>2, <1>3 DEF Handed

\* A user who detaches gets the console back: the session of the first attach
\* is over, or its DETACH is on its way, as long as no frame was lost.
THEOREM DetachGivesBack == Spec => []DetachFrees
  <1>1. Init => Handed
    <2> SUFFICES ASSUME Init PROVE Handed
      OBVIOUS
    <2>1. /\ toDev = <<>> /\ toHost = <<>> /\ DOMAIN toDev = {} /\ DOMAIN toHost = {}
          /\ Len(toDev) = 0
      BY DEF Init, LineInit
    <2>2. ~session /\ ~attached
      BY DEF Init, FrontendInit
    <2>3. Handover
      BY <2>1, <2>2 DEF Handover, Unattached, Has, AttachFirst
    <2>4. QED
      BY <2>1, <2>3, WireAssumption DEF Handed
  <1>2. Handed => DetachFrees
    BY DEF Handed, Handover, DetachFrees, Has
  <1>3. QED
    BY <1>1, <1>2, SoundInit, SoundStep, HandedStep, PTL DEF Spec
-----------------------------------------------------------------------------
(***************************************************************************)
(* Verification.  As long as the front-end neither restarts nor fails a    *)
(* write, it has what the host believes it to have.                        *)
(***************************************************************************)
\* What uartfs delivers is compressed or a patch, which is never empty.  (A
\* blob without chunks has no NAK that would show a lost OPEN, and would fail.)
NeverEmpty == \A b \in Blobs : b # <<>>

Unharmed == restarts = 0 /\ faults = 0

OfTransfer(m) == m.kind \in {"OPEN", "STAT", "DATA", "CLOSE", "HAVE", "ACK", "NAK", "DONE"}

\* The front-end holds chunk s, or every chunk, of the current delivery.
Stored(s) == transfers[xid] # NoXfer /\ transfers[xid].got[s] # NoFile
AllStored == \A s \in 0 .. Len(blob) - 1 : Stored(s)

\* Frames are of deliveries that have begun, those of this one are its own.
Own ==
    {m \in DeviceFrames : OfTransfer(m) =>
        /\ m.xid \in used
        /\ m.kind = "OPEN" /\ m.xid = xid => m.n = Len(blob) /\ m.sha = blob
        /\ m.kind = "DATA" /\ m.xid = xid => m.seq < Len(blob) /\ m.b64 = blob[m.seq + 1]}

\* The replies to this delivery are true: also of chunks that were stored when
\* an earlier copy of the frame came, and whatever reply is read first.
Told ==
    {m \in Claims : OfTransfer(m) =>
        /\ m.xid \in used
        /\ m.kind = "ACK" /\ m.xid = xid /\ pc \in {"stat", "data"} => Stored(m.seq)
        /\ m.kind = "HAVE" /\ m.xid = xid /\ pc \in {"stat", "data"} =>
              \A s \in 0 .. m.hw - 1 : Stored(s)
        /\ m.kind = "DONE" /\ m.xid = xid /\ xid \notin reclosed => m.ok /\ m.sha = blob}

ClosedOnce(l, x) ==
    \A i, j \in DOMAIN l :
        i < j /\ l[i].kind = "CLOSE" /\ l[j].kind = "CLOSE" /\ l[i].xid = x => l[j].xid # x

\* The entry of the current delivery holds nothing but its blob.
Entered ==
    transfers[xid] # NoXfer =>
        /\ transfers[xid].nchunks = Len(blob)
        /\ transfers[xid].expected_sha = blob
        /\ \A s \in 0 .. Len(blob) - 1 : transfers[xid].got[s] \in {NoFile, blob[s + 1]}

\* CLOSE finds every chunk there, the first time.
Closing ==
    xid \notin reclosed =>
        /\ Closes(toDev, xid) => AllStored
        /\ ClosedOnce(toDev, xid)
        /\ verdict # "verify"

\* The inductive invariant, of a front-end that is unharmed.
Agreed ==
    /\ toDev \in Seq(Own) /\ toHost \in Seq(Told) /\ inbox \in Seq(Told)
    /\ \A x \in Xids \ used : transfers[x] = NoXfer
    /\ Entered
    /\ pc = "data" => \A s \in 0 .. seq - 1 : Stored(s)
    /\ Closing

LEMMA OncePut ==
    ASSUME NEW l \in Seq(DeviceFrames), NEW m, NEW cap, NEW x, ClosedOnce(l, x),
           m.kind = "CLOSE" /\ m.xid = x => ~Closes(l, x)
    PROVE  ClosedOnce(Put(l, m, cap), x)
  <1> DEFINE a == Append(l, m)
  <1>1. /\ Len(l) \in Nat /\ DOMAIN l = 1 .. Len(l) /\ DOMAIN a = 1 .. Len(l) + 1
        /\ \A i \in 1 .. Len(l) : a[i] = l[i]
        /\ a[Len(l) + 1] = m
    BY AppendProperties, LenProperties
  <1> HIDE DEF a
  <1>2. ClosedOnce(a, x)
    <2> SUFFICES ASSUME NEW i \in DOMAIN a, NEW j \in DOMAIN a, i < j,
                        a[i].kind = "CLOSE", a[j].kind = "CLOSE", a[i].xid = x
                 PROVE  a[j].xid # x
      BY DEF ClosedOnce
    <2>1. i \in DOMAIN l /\ a[i] = l[i]
      BY <1>1
    <2>2. CASE j \in DOMAIN l
      BY <1>1, <2>1, <2>2 DEF ClosedOnce
    <2>3. CASE j \notin DOMAIN l
      <3>1. a[j] = m
        BY <1>1, <2>3
      <3>2. Closes(l, x)
        BY <2>1 DEF Closes
      <3>3. QED
        BY <3>1, <3>2
    <2>4. QED
      BY <2>2, <2>3
  <1>3. Put(l, m, cap) = a \/ Put(l, m, cap) = l
    BY DEF Put, a
  <1>4. QED
    BY <1>2, <1>3

LEMMA OnceTail ==
    ASSUME NEW l \in Seq(DeviceFrames), l # <<>>, NEW x, ClosedOnce(l, x)
    PROVE  /\ ClosedOnce(Tail(l), x)
           /\ Head(l).kind = "CLOSE" /\ Head(l).xid = x => ~Closes(Tail(l), x)
  <1> DEFINE t == Tail(l)
  <1>1. /\ Len(l) \in Nat /\ Len(l) >= 1
        /\ DOMAIN l = 1 .. Len(l) /\ DOMAIN t = 1 .. Len(l) - 1
        /\ \A i \in 1 .. Len(l) - 1 : t[i] = l[i + 1]
        /\ Head(l) = l[1]
    BY HeadTailProperties, LenProperties, EmptySeq
  <1> HIDE DEF t
  <1>2. \A i \in DOMAIN t : i + 1 \in DOMAIN l /\ t[i] = l[i + 1] /\ 1 < i + 1
    BY <1>1
  <1>3. 1 \in DOMAIN l
    BY <1>1
  <1>4. ClosedOnce(t, x)
    <2> SUFFICES ASSUME NEW i \in DOMAIN t, NEW j \in DOMAIN t, i < j,
                        t[i].kind = "CLOSE", t[j].kind = "CLOSE", t[i].xid = x
                 PROVE  t[j].xid # x
      BY DEF ClosedOnce
    <2>1. i + 1 < j + 1
      BY <1>1
    <2>2. QED
      BY <1>2, <2>1 DEF ClosedOnce
  <1>5. ASSUME Head(l).kind = "CLOSE", Head(l).xid = x PROVE ~Closes(t, x)
    BY <1>1, <1>2, <1>3, <1>5 DEF ClosedOnce, Closes
  <1>6. QED
    BY <1>4, <1>5 DEF t

\* The frames of send_blob are its own.
LEMMA OwnFrames ==
    ASSUME Sound, xid \in used
    PROVE  /\ Open(xid, blob) \in Own /\ Stat(xid) \in Own /\ Close(xid) \in Own
           /\ \A s \in Nat : s < Len(blob) => Data(xid, blob, s) \in Own
  <1>1. xid \in Xids /\ blob \in Blobs
    BY DEF Sound, Typed, CallSound
  <1>2. /\ Open(xid, blob).kind = "OPEN" /\ Open(xid, blob).xid = xid
        /\ Open(xid, blob).n = Len(blob) /\ Open(xid, blob).sha = blob
        /\ Stat(xid).kind = "STAT" /\ Stat(xid).xid = xid
        /\ Close(xid).kind = "CLOSE" /\ Close(xid).xid = xid
    BY DEF Open, Stat, Close
  <1>3. Open(xid, blob) \in Own /\ Stat(xid) \in Own /\ Close(xid) \in Own
    BY <1>1, <1>2, SentFrames DEF Own
  <1>4. ASSUME NEW s \in Nat, s < Len(blob) PROVE Data(xid, blob, s) \in Own
    <2>1. /\ Data(xid, blob, s).kind = "DATA" /\ Data(xid, blob, s).xid = xid
          /\ Data(xid, blob, s).seq = s /\ Data(xid, blob, s).b64 = blob[s + 1]
      BY DEF Data
    <2>2. Data(xid, blob, s) \in DeviceFrames
      BY <1>1, <1>4, SentFrames
    <2>3. QED
      BY <1>4, <2>1, <2>2 DEF Own
  <1>5. QED
    BY <1>3, <1>4

\* What a step of send_blob but the first leaves as it was.
LEMMA SameDelivery ==
    ASSUME UNCHANGED <<transfers, rebuilt, xid, blob, used>>, reclosed \subseteq reclosed',
           pc' \in {"stat", "data"} => pc \in {"stat", "data"}
    PROVE  /\ Own' = Own /\ Told \subseteq Told' /\ Seq(Told) \subseteq Seq(Told')
           /\ \A s : Stored(s)' <=> Stored(s)
           /\ (AllStored' <=> AllStored) /\ (Entered' <=> Entered)
           /\ \A x \in Xids \ used' : transfers'[x] = transfers[x]
  <1>1. Own' = Own
    BY DEF Own
  <1>2. \A s : Stored(s)' <=> Stored(s)
    BY DEF Stored
  <1>3. Claims' = Claims
    BY DEF Claims
  <1>4. Told \subseteq Told'
    BY <1>2, <1>3 DEF Told
  <1>5. (AllStored' <=> AllStored) /\ (Entered' <=> Entered)
    BY <1>2 DEF AllStored, Entered
  <1>6. Seq(Told) \subseteq Seq(Told')
    BY <1>4, SeqMonotonic
  <1>7. QED
    BY <1>1, <1>2, <1>4, <1>5, <1>6

\* Going on with chunk s, when the front-end holds those below.
LEMMA GoOnAgrees ==
    ASSUME Sound, Agreed, pc \in {"stat", "data"}, NEW s \in 0 .. MaxChunks, GoOn(s),
           \A q \in 0 .. s - 1 : Stored(q), inbox' \in Seq(Told),
           UNCHANGED <<transfers, rebuilt, used, reclosed>>
    PROVE  Agreed'
  <1>1. /\ UNCHANGED <<xid, blob, toHost, verdict>> /\ seq' = s
        /\ toDev \in Seq(DeviceFrames) /\ xid \in Xids /\ blob \in Blobs /\ xid \in used
        /\ Len(blob) \in Nat /\ s \in Nat
    BY BlobType, WireAssumption DEF Sound, Typed, Ordered, CallSound, GoOn
  <1>2. /\ Own' = Own /\ Seq(Told) \subseteq Seq(Told') /\ \A q : Stored(q)' <=> Stored(q)
        /\ (AllStored' <=> AllStored) /\ (Entered' <=> Entered)
        /\ \A x \in Xids \ used' : transfers'[x] = transfers[x]
    BY <1>1, SameDelivery
  <1>3. toHost' \in Seq(Told') /\ inbox' \in Seq(Told')
    BY <1>1, <1>2 DEF Agreed
  <1>4. CASE s < Len(blob)
    <2> DEFINE m == Data(xid, blob, s)
    <2>1. toDev' = Put(toDev, m, DevCap) /\ pc' = "data"
      BY <1>4 DEF GoOn, Send
    <2>2. m \in Own /\ m \in DeviceFrames /\ m.kind # "CLOSE"
      BY <1>1, <1>4, OwnFrames DEF Own, Data
    <2> HIDE DEF m
    <2>3. toDev' \in Seq(Own')
      BY <1>2, <2>1, <2>2, PutType DEF Agreed
    <2>4. Closes(toDev', xid) => Closes(toDev, xid)
      BY <1>1, <2>1, <2>2, PutFrame
    <2>5. ClosedOnce(toDev, xid) => ClosedOnce(toDev', xid)
      BY <1>1, <2>1, <2>2, OncePut
    <2>6. Closing'
      BY <1>1, <1>2, <2>4, <2>5 DEF Agreed, Closing
    <2>7. \A q \in 0 .. seq' - 1 : Stored(q)'
      BY <1>1, <1>2
    <2>8. QED
      BY <1>2, <1>3, <2>3, <2>6, <2>7 DEF Agreed
  <1>5. CASE ~(s < Len(blob))
    <2> DEFINE m == Close(xid)
    <2>1. toDev' = Put(toDev, m, DevCap) /\ pc' = "close"
      BY <1>5 DEF GoOn, Send
    <2>2. m \in Own /\ m \in DeviceFrames
      BY <1>1, OwnFrames DEF Own
    <2>3. toDev' \in Seq(Own')
      BY <1>2, <2>1, <2>2, PutType DEF Agreed
    <2>4. ~Closes(toDev, xid)
      BY <1>1 DEF Sound, Ordered, Past
    <2>5. ClosedOnce(toDev, xid) => ClosedOnce(toDev', xid)
      BY <1>1, <2>1, <2>4, OncePut
    <2>6. AllStored
      <3>1. \A q \in 0 .. Len(blob) - 1 : q \in 0 .. s - 1
        BY <1>1, <1>5
      <3>2. QED
        BY <3>1 DEF AllStored
    <2>7. Closing'
      BY <1>1, <1>2, <2>5, <2>6 DEF Agreed, Closing
    <2>8. QED
      BY <1>2, <1>3, <2>1, <2>3, <2>7 DEF Agreed
  <1>6. QED
    BY <1>4, <1>5

LEMMA OpenPut ==
    ASSUME NEW l \in Seq(Own), NEW m \in Own, m.kind # "CLOSE", NEW x
    PROVE  /\ Put(l, m, DevCap) \in Seq(Own)
           /\ Closes(Put(l, m, DevCap), x) => Closes(l, x)
           /\ ClosedOnce(l, x) => ClosedOnce(Put(l, m, DevCap), x)
  <1>1. m \in DeviceFrames /\ l \in Seq(DeviceFrames)
    <2>1. Own \subseteq DeviceFrames
      BY DEF Own
    <2>2. QED
      BY <2>1, SeqMonotonic
  <1>2. QED
    BY <1>1, PutType, PutFrame, OncePut

\* A step of send_blob that goes on with the same chunk, or with none.
LEMMA SameAgrees ==
    ASSUME Sound, Agreed, UNCHANGED <<transfers, rebuilt, xid, blob, used>>,
           reclosed \subseteq reclosed', pc' \in {"stat", "data"} => pc \in {"stat", "data"},
           toDev' \in Seq(Own), toHost' \in Seq(Told), inbox' \in Seq(Told),
           pc' = "data" => pc = "data" /\ seq' = seq,
           \/ xid \in reclosed'
           \/ /\ Closes(toDev', xid) => Closes(toDev, xid)
              /\ ClosedOnce(toDev, xid) => ClosedOnce(toDev', xid)
              /\ verdict' = "verify" => verdict = "verify"
    PROVE  Agreed'
  <1>1. /\ Own' = Own /\ Seq(Told) \subseteq Seq(Told') /\ \A q : Stored(q)' <=> Stored(q)
        /\ (AllStored' <=> AllStored) /\ (Entered' <=> Entered)
        /\ \A x \in Xids \ used' : transfers'[x] = transfers[x]
    BY SameDelivery
  <1>2. Closing'
    BY <1>1 DEF Agreed, Closing
  <1>3. pc' = "data" => \A q \in 0 .. seq' - 1 : Stored(q)'
    BY <1>1 DEF Agreed
  <1>4. QED
    BY <1>1, <1>2, <1>3 DEF Agreed

LEMMA TryFailsAgrees ==
    ASSUME Sound, Agreed, pc = "data", TryFails, inbox' \in Seq(Told),
           UNCHANGED <<transfers, rebuilt, used, reclosed>>
    PROVE  Agreed'
  <1>1. /\ UNCHANGED <<xid, blob, seq, toHost>> /\ pc' \in {"data", "idle"} /\ xid \in used
        /\ seq \in Nat /\ seq < Len(blob)
        /\ verdict' = "verify" => verdict = "verify"
    BY DEF Sound, Typed, Ordered, CallSound, InRange, TryFails, Returns
  <1>2. /\ Open(xid, blob) \in Own /\ Open(xid, blob).kind # "CLOSE"
        /\ Data(xid, blob, seq) \in Own /\ Data(xid, blob, seq).kind # "CLOSE"
    BY <1>1, OwnFrames DEF Open, Data
  <1> DEFINE reopened == IF (tries + 1) % ReopenEvery = 0
                         THEN Put(toDev, Open(xid, blob), DevCap) ELSE toDev
             again == Put(reopened, Data(xid, blob, seq), DevCap)
  <1>3. /\ reopened \in Seq(Own)
        /\ Closes(reopened, xid) => Closes(toDev, xid)
        /\ ClosedOnce(toDev, xid) => ClosedOnce(reopened, xid)
    BY <1>2, OpenPut DEF Agreed
  <1>4. toDev' = reopened \/ toDev' = again
    BY DEF TryFails
  <1> HIDE DEF reopened
  <1>5. /\ again \in Seq(Own)
        /\ Closes(again, xid) => Closes(reopened, xid)
        /\ ClosedOnce(reopened, xid) => ClosedOnce(again, xid)
    BY <1>2, <1>3, OpenPut
  <1> HIDE DEF again
  <1>6. toDev' \in Seq(Own) /\ toHost' \in Seq(Told)
    BY <1>1, <1>3, <1>4, <1>5 DEF Agreed
  <1>7. /\ Closes(toDev', xid) => Closes(toDev, xid)
        /\ ClosedOnce(toDev, xid) => ClosedOnce(toDev', xid)
    BY <1>3, <1>4, <1>5
  <1>8. QED
    BY <1>1, <1>6, <1>7, SameAgrees

\* A new delivery: its xid is one of which nothing has been heard yet.
LEMMA CallAgrees ==
    ASSUME Sound, Agreed, NEW x \in Xids, x \notin used, NEW b \in Payloads[x], Call(x, b),
           used' = used \cup {x}, UNCHANGED <<transfers, rebuilt, reclosed>>
    PROVE  Agreed'
  <1>1. /\ xid' = x /\ blob' = b /\ pc' = "stat" /\ verdict' = "none" /\ xid' \in used'
        /\ UNCHANGED <<toHost, inbox>>
        /\ toDev' = Put(Put(toDev, Open(x, b), DevCap), Stat(x), DevCap)
        /\ b \in Blobs
    BY HostAssumption DEF Call
  <1>2. Own \subseteq Own' /\ Told \subseteq Told'
    <2>1. Claims' = Claims
      BY DEF Claims
    <2>2. \A m : OfTransfer(m) /\ m.xid \in used => m.xid # xid' /\ m.xid \in used'
      BY <1>1
    <2>3. Own \subseteq Own'
      BY <2>2 DEF Own
    <2>4. Told \subseteq Told'
      BY <2>1, <2>2 DEF Told
    <2>5. QED
      BY <2>3, <2>4
  <1>3. toDev \in Seq(Own') /\ toHost' \in Seq(Told') /\ inbox' \in Seq(Told')
    BY <1>1, <1>2, SeqMonotonic DEF Agreed
  <1>4. /\ Open(x, b) \in Own' /\ Open(x, b).kind # "CLOSE"
        /\ Stat(x) \in Own' /\ Stat(x).kind # "CLOSE"
    <2>1. /\ Open(x, b).kind = "OPEN" /\ Open(x, b).xid = x
          /\ Open(x, b).n = Len(b) /\ Open(x, b).sha = b
          /\ Stat(x).kind = "STAT" /\ Stat(x).xid = x
      BY DEF Open, Stat
    <2>2. Open(x, b) \in DeviceFrames /\ Stat(x) \in DeviceFrames
      BY <1>1, SentFrames
    <2>3. QED
      BY <1>1, <2>1, <2>2 DEF Own
  <1> DEFINE first == Put(toDev, Open(x, b), DevCap)
  <1>5. toDev \in Seq(DeviceFrames) /\ Open(x, b) \in DeviceFrames /\ Stat(x) \in DeviceFrames
    BY <1>1, SentFrames DEF Sound, Typed
  <1>6. ~Closes(toDev, x)
    BY DEF Sound, Ordered, Past
  <1>7. ~Closes(first, x) /\ first \in Seq(DeviceFrames) /\ first \in Seq(Own')
    BY <1>3, <1>4, <1>5, <1>6, PutFrame, PutType
  <1>8. toDev' = Put(first, Stat(x), DevCap)
    BY <1>1
  <1> HIDE DEF first
  <1>9. ~Closes(toDev', x) /\ toDev' \in Seq(Own')
    BY <1>4, <1>5, <1>7, <1>8, PutFrame, PutType
  <1>10. transfers'[x] = NoXfer /\ \A y \in Xids \ used' : transfers'[y] = NoXfer
    BY DEF Agreed
  <1>11. Entered' /\ Closing'
    BY <1>1, <1>9, <1>10 DEF Entered, Closing, ClosedOnce, Closes
  <1>12. QED
    BY <1>1, <1>3, <1>9, <1>10, <1>11 DEF Agreed

LEMMA TransfersAgree ==
    ASSUME Sound, Agreed, Transfers
    PROVE  Agreed'
  <1>0. /\ UNCHANGED <<transfers, rebuilt>> /\ blob \in Blobs /\ xid \in Xids
        /\ Len(blob) \in 0 .. MaxChunks /\ seq \in 0 .. MaxChunks
        /\ pc # "idle" => xid \in used
        /\ toDev \in Seq(Own) /\ toHost \in Seq(Told) /\ inbox \in Seq(Told) /\ MaxChunks \in Nat
    BY BlobType, WireAssumption
    DEF Transfers, deviceVars, Sound, Typed, Ordered, CallSound, Agreed
  <1>1. ASSUME NEW x \in Xids \ used, NEW b \in Payloads[x], Call(x, b), used' = used \cup {x},
               reclosed' = reclosed
        PROVE  Agreed'
    BY <1>0, <1>1, CallAgrees
  <1>2. ASSUME NEW i \in DOMAIN inbox, StatAnswered(i), UNCHANGED <<used, reclosed>>
        PROVE  Agreed'
    <2>1. /\ inbox[i] \in Told /\ inbox' \in Seq(Told)
          /\ inbox[i].kind = "HAVE" /\ inbox[i].xid = xid /\ pc = "stat"
      BY <1>0, <1>2, TakesKeeps DEF StatAnswered, Awaited
    <2>2. inbox[i].hw \in 0 .. MaxChunks
      BY <2>1, ReplyKinds DEF Told, Claims, SessionToHost
    <2>3. \A q \in 0 .. inbox[i].hw - 1 : Stored(q)
      BY <2>1 DEF Told, OfTransfer
    <2>4. PICK s \in 0 .. MaxChunks : s <= inbox[i].hw /\ GoOn(s)
      BY <1>0, <1>2, <2>2 DEF StatAnswered
    <2>5. \A q \in 0 .. s - 1 : Stored(q)
      BY <2>2, <2>3, <2>4
    <2>6. QED
      BY <1>0, <1>2, <2>1, <2>4, <2>5, GoOnAgrees
  <1>3. ASSUME NEW i \in DOMAIN inbox, ChunkAcked(i), UNCHANGED <<used, reclosed>>
        PROVE  Agreed'
    <2>1. /\ inbox[i] \in Told /\ inbox' \in Seq(Told) /\ inbox[i].kind = "ACK" /\ pc = "data"
          /\ inbox[i].xid = xid /\ inbox[i].seq = seq /\ GoOn(seq + 1)
      BY <1>0, <1>3, TakesKeeps DEF ChunkAcked, Awaited
    <2>2. Stored(seq)
      BY <2>1 DEF Told, OfTransfer
    <2>3. seq + 1 \in 0 .. MaxChunks
      BY <1>0, <2>1 DEF Sound, Typed, CallSound, InRange
    <2>4. \A q \in 0 .. seq - 1 : Stored(q)
      BY <2>1 DEF Agreed
    <2>5. PICK s \in 0 .. MaxChunks : s = seq + 1
      BY <2>3
    <2>6. \A q \in 0 .. s - 1 : q = seq \/ q \in 0 .. seq - 1
      BY <1>0, <2>5
    <2>7. \A q \in 0 .. s - 1 : Stored(q)
      BY <2>2, <2>4, <2>6
    <2>8. GoOn(s)
      BY <2>1, <2>5
    <2>9. QED
      BY <1>0, <1>3, <2>1, <2>7, <2>8, GoOnAgrees
  <1>4. ASSUME NEW i \in DOMAIN inbox, ChunkNaked(i), UNCHANGED <<used, reclosed>>
        PROVE  Agreed'
    BY <1>0, <1>4, TakesKeeps, TryFailsAgrees DEF ChunkNaked
  <1>5. ASSUME NEW i \in DOMAIN inbox, DoneAnswered(i), UNCHANGED <<used, reclosed>>
        PROVE  Agreed'
    <2>1. /\ inbox[i] \in Told /\ inbox' \in Seq(Told)
          /\ inbox[i].kind = "DONE" /\ inbox[i].xid = xid
      BY <1>0, <1>5, TakesKeeps DEF DoneAnswered, Awaited
    <2>2. /\ UNCHANGED <<toDev, toHost, xid, blob>> /\ pc' = "idle"
          /\ verdict' = IF inbox[i].ok /\ inbox[i].sha = blob THEN "ok" ELSE "verify"
      BY <1>5 DEF DoneAnswered, Returns, line
    <2>3. xid \notin reclosed => verdict' = "ok"
      BY <2>1, <2>2 DEF Told, OfTransfer
    <2>4. \/ xid \in reclosed'
          \/ verdict' = "verify" => verdict = "verify"
      BY <1>5, <2>3
    <2>5. QED
      BY <1>0, <1>5, <2>1, <2>2, <2>4, SameAgrees
  <1>6. ASSUME Pump, UNCHANGED <<used, reclosed>> PROVE Agreed'
    <2>1. toHost' \in Seq(Told) /\ inbox' \in Seq(Told)
      BY <1>0, <1>6, TailType, AppendProperties DEF Pump
    <2>2. UNCHANGED <<toDev, pc, xid, blob, seq, verdict>>
      BY <1>6 DEF Pump
    <2>3. QED
      BY <1>0, <1>6, <2>1, <2>2, SameAgrees
  <1>7. ASSUME LinkFails \/ NewProcess \/ DoneGivesUp, UNCHANGED <<used, reclosed>>
        PROVE  Agreed'
    <2>1. /\ UNCHANGED <<toDev, toHost, xid, blob>> /\ pc' = "idle" /\ verdict' # "verify"
          /\ inbox' = inbox \/ inbox' = <<>>
      BY <1>7 DEF LinkFails, NewProcess, DoneGivesUp, Returns, line
    <2>2. inbox' \in Seq(Told)
      BY <1>0, <2>1, EmptySeq
    <2>3. QED
      BY <1>0, <1>7, <2>1, <2>2, SameAgrees
  <1>8. ASSUME StatTimeout, UNCHANGED <<used, reclosed>> PROVE Agreed'
    <2>1. /\ UNCHANGED <<toHost, pc, xid, blob, seq, verdict, inbox>> /\ pc = "stat"
          /\ toDev' = Put(toDev, Stat(xid), DevCap)
      BY <1>8 DEF StatTimeout, Send
    <2>2. Stat(xid) \in Own /\ Stat(xid).kind # "CLOSE"
      BY <1>0, <2>1, OwnFrames DEF Stat
    <2>3. /\ toDev' \in Seq(Own)
          /\ Closes(toDev', xid) => Closes(toDev, xid)
          /\ ClosedOnce(toDev, xid) => ClosedOnce(toDev', xid)
      BY <1>0, <2>1, <2>2, OpenPut
    <2>4. QED
      BY <1>0, <1>8, <2>1, <2>3, SameAgrees
  <1>9. ASSUME DoneTimeout, used' = used, reclosed' = reclosed \cup {xid} PROVE Agreed'
    <2>1. /\ UNCHANGED <<toHost, pc, xid, blob, seq, verdict, inbox>> /\ pc = "close"
          /\ toDev' = Put(toDev, Close(xid), DevCap)
      BY <1>9 DEF DoneTimeout, Send
    <2>2. toDev' \in Seq(Own)
      BY <1>0, <2>1, OwnFrames, PutType
    <2>3. xid \in reclosed' /\ reclosed \subseteq reclosed'
      BY <1>9
    <2>4. QED
      BY <1>0, <1>9, <2>1, <2>2, <2>3, SameAgrees
  <1>10. ASSUME StatGivesUp, UNCHANGED <<used, reclosed>> PROVE Agreed'
    <2>1. pc = "stat" /\ GoOn(0) /\ inbox' = inbox /\ 0 \in 0 .. MaxChunks
      BY <1>0, <1>10 DEF StatGivesUp
    <2>2. \A q \in 0 .. 0 - 1 : Stored(q)
      OBVIOUS
    <2>3. QED
      BY <1>0, <1>10, <2>1, <2>2, GoOnAgrees
  <1>11. ASSUME ChunkTimeout, UNCHANGED <<used, reclosed>> PROVE Agreed'
    BY <1>0, <1>11, TryFailsAgrees DEF ChunkTimeout
  <1>12. QED
    BY <1>1, <1>2, <1>3, <1>4, <1>5, <1>6, <1>7, <1>8, <1>9, <1>10, <1>11 DEF Transfers, Receives
-----------------------------------------------------------------------------
\* The chunks that an answer speaks of.
LEMMA ClaimChunks ==
    \A m \in Claims : /\ m.kind = "ACK" => m.seq \in Seqs
                      /\ m.kind = "HAVE" => \A s \in 0 .. m.hw - 1 : s \in Seqs
  <1>1. \A m \in ToHost : /\ m.kind = "ACK" => m.seq \in Seqs
                          /\ m.kind = "HAVE" => m.hw \in 0 .. MaxChunks
    BY DEF ToHost, ReadyMsg, HaveMsg, AckMsg, DoneMsg
  <1>2. \A m \in Claims : m.kind \in {"ACK", "HAVE"} => m \in ToHost
    BY DEF Claims, SessionToHost
  <1>3. \A hw \in 0 .. MaxChunks : \A s \in 0 .. hw - 1 : s \in Seqs
    BY WireAssumption DEF Seqs
  <1>4. QED
    BY <1>1, <1>2, <1>3

\* What is left to show of a step that is not send_blob's.
LEMMA OtherAgrees ==
    ASSUME Sound, Agreed, UNCHANGED <<hostVars, used, reclosed>>,
           toDev' \in Seq(Own), toHost' \in Seq(Told'), Claims \subseteq Claims',
           \A x \in Xids \ used : transfers'[x] = NoXfer,
           Entered',
           pc \in {"stat", "data"} => \A s \in Seqs : Stored(s) => Stored(s)',
           xid \notin reclosed =>
               /\ Closes(toDev', xid) => AllStored'
               /\ ClosedOnce(toDev', xid)
    PROVE  Agreed'
  <1>1. UNCHANGED <<xid, blob, pc, seq, verdict, inbox>>
    BY DEF hostVars
  <1>2. Own' = Own
    BY <1>1 DEF Own
  <1>3. Told \subseteq Told'
    BY <1>1, ClaimChunks DEF Told
  <1>4. inbox' \in Seq(Told')
    BY <1>1, <1>3, SeqMonotonic DEF Agreed
  <1>5. Closing'
    BY <1>1 DEF Agreed, Closing
  <1>6. ASSUME pc' = "data", NEW s \in 0 .. seq' - 1 PROVE Stored(s)'
    <2>1. Stored(s)
      BY <1>1, <1>6 DEF Agreed
    <2>2. seq \in 0 .. MaxChunks
      BY DEF Sound, Typed, CallSound
    <2>3. PICK q \in 0 .. MaxChunks : q = seq
      BY <2>2
    <2>4. s \in 0 .. q - 1
      BY <1>1, <1>6, <2>3
    <2>5. s \in Seqs
      BY <2>4, WireAssumption DEF Seqs
    <2>6. QED
      BY <1>1, <1>6, <2>1, <2>5
  <1>7. QED
    BY <1>1, <1>2, <1>4, <1>5, <1>6 DEF Agreed

\* A step that leaves the transfers alone.
LEMMA IdleAgrees ==
    ASSUME Sound, Agreed, UNCHANGED <<hostVars, used, reclosed>>, UNCHANGED <<transfers, rebuilt>>,
           toDev' \in Seq(Own), toHost' \in Seq(Told),
           Closes(toDev', xid) => Closes(toDev, xid),
           ClosedOnce(toDev, xid) => ClosedOnce(toDev', xid)
    PROVE  Agreed'
  <1>1. UNCHANGED <<xid, blob, pc, verdict>>
    BY DEF hostVars
  <1>2. Claims' = Claims
    BY DEF Claims
  <1>3. /\ Seq(Told) \subseteq Seq(Told') /\ \A s : Stored(s)' <=> Stored(s)
        /\ (AllStored' <=> AllStored) /\ (Entered' <=> Entered)
        /\ \A x \in Xids \ used' : transfers'[x] = transfers[x]
    BY <1>1, SameDelivery
  <1>4. QED
    BY <1>2, <1>3, OtherAgrees DEF Agreed, Closing

LEMMA OwnTail ==
    ASSUME Sound, Agreed, toDev # <<>>, toDev' = Tail(toDev)
    PROVE  /\ toDev' \in Seq(Own) /\ Head(toDev) \in Own
           /\ Closes(toDev', xid) => Closes(toDev, xid)
           /\ ClosedOnce(toDev, xid) => ClosedOnce(toDev', xid)
           /\ Head(toDev).kind = "CLOSE" /\ Head(toDev).xid = xid /\ ClosedOnce(toDev, xid)
                 => ~Closes(toDev', xid)
  <1>1. toDev \in Seq(Own) /\ toDev \in Seq(DeviceFrames)
    BY DEF Agreed, Sound, Typed
  <1>2. QED
    BY <1>1, TailType, TakeFrame, OnceTail

LEMMA ToldPut ==
    ASSUME Agreed, NEW m \in Told, Reply(m)
    PROVE  toHost' \in Seq(Told)
  BY PutType DEF Agreed, Reply

\* READY and AEND claim nothing.
LEMMA Plain ==
    Ready \in Told /\ [kind |-> "AEND"] \in Told
  BY Harmless DEF Told, OfTransfer, Ready

LEMMA AttachAgrees ==
    ASSUME Sound, Agreed, Attach
    PROVE  Agreed'
  <1>1. UNCHANGED <<hostVars, used, reclosed>> /\ UNCHANGED <<transfers, rebuilt>>
    BY DEF Attach, deviceVars
  <1>2. toDev \in Seq(Own) /\ toHost \in Seq(Told)
    BY DEF Agreed
  <1>3. ASSUME NEW m \in SessionToDevice, Send(m), toHost' = toHost PROVE Agreed'
    <2>1. m \in Own /\ m.kind # "CLOSE"
      BY DEF Own, OfTransfer, DeviceFrames, SessionToDevice
    <2>2. QED
      BY <1>1, <1>2, <1>3, <2>1, OpenPut, IdleAgrees DEF Send
  <1>4. [kind |-> "ATTACH"] \in SessionToDevice /\ [kind |-> "DETACH"] \in SessionToDevice
    BY DEF SessionToDevice
  <1>5. CASE AttachBegins \/ AttachDetaches
    BY <1>3, <1>4, <1>5 DEF AttachBegins, AttachDetaches
  <1>6. CASE AttachReceives
    BY <1>1, <1>2, <1>6, TailType, IdleAgrees DEF AttachReceives
  <1>7. CASE AttachAborts
    BY <1>1, <1>2, <1>7, IdleAgrees DEF AttachAborts, line
  <1>8. QED
    BY <1>5, <1>6, <1>7 DEF Attach

LEMMA LossAgrees ==
    ASSUME Sound, Agreed, Loss
    PROVE  Agreed'
  <1>1. UNCHANGED <<hostVars, used, reclosed>> /\ UNCHANGED <<transfers, rebuilt>>
    BY DEF Loss, deviceVars
  <1>2. toDev \in Seq(Own) /\ toHost \in Seq(Told)
    BY DEF Agreed
  <1>3. CASE LoseToDev
    BY <1>1, <1>2, <1>3, OwnTail, IdleAgrees DEF LoseToDev
  <1>4. CASE LoseToHost
    BY <1>1, <1>2, <1>4, TailType, IdleAgrees DEF LoseToHost
  <1>5. QED
    BY <1>3, <1>4 DEF Loss

LEMMA BridgesAgree ==
    ASSUME Sound, Agreed, Device, Bridges \/ FrontendIgnores
    PROVE  Agreed'
  <1>1. UNCHANGED <<hostVars, used, reclosed>> /\ UNCHANGED <<transfers, rebuilt>>
    BY DEF Device, Bridges, FrontendIgnores, SessionStarts, SessionDetached, ShellExits,
           SessionReads, SessionEnds, deviceVars
  <1>2. toDev' = toDev \/ (toDev # <<>> /\ toDev' = Tail(toDev))
    BY DEF Bridges, FrontendIgnores, SessionStarts, SessionDetached, ShellExits,
           SessionReads, Handles, Reads
  <1>3. toHost' = toHost \/ Reply([kind |-> "AEND"])
    BY DEF Bridges, FrontendIgnores, SessionStarts, SessionDetached, ShellExits,
           SessionReads, SessionEnds
  <1>4. toHost' \in Seq(Told)
    BY <1>3, Plain, ToldPut DEF Agreed
  <1>5. /\ toDev' \in Seq(Own)
        /\ Closes(toDev', xid) => Closes(toDev, xid)
        /\ ClosedOnce(toDev, xid) => ClosedOnce(toDev', xid)
    BY <1>2, OwnTail DEF Agreed
  <1>6. QED
    BY <1>1, <1>4, <1>5, IdleAgrees

\* The next frame, of a transfer, is handled.
LEMMA HandlesOwn ==
    ASSUME Sound, Agreed, NEW kind \in {"OPEN", "STAT", "DATA", "CLOSE"}, Reads(kind)
    PROVE  /\ Frame \in Own /\ Frame.kind = kind /\ Frame.xid \in used /\ Frame.xid \in Xids
           /\ toDev' \in Seq(Own)
           /\ Closes(toDev', xid) => Closes(toDev, xid)
           /\ ClosedOnce(toDev, xid) => ClosedOnce(toDev', xid)
           /\ kind = "CLOSE" /\ Frame.xid = xid /\ ClosedOnce(toDev, xid) => ~Closes(toDev', xid)
  <1>1. toDev # <<>> /\ toDev' = Tail(toDev) /\ Frame = Head(toDev) /\ Frame.kind = kind
    BY DEF Reads, Frame
  <1>2. Frame \in Own
    BY <1>1, OwnTail
  <1>3. Frame.xid \in used
    BY <1>1, <1>2 DEF Own, OfTransfer
  <1>4. Frame.xid \in Xids
    BY ReadsFrame
  <1>5. QED
    BY <1>1, <1>2, <1>3, <1>4, OwnTail

LEMMA OpenAgrees ==
    ASSUME Sound, Agreed, Device, FrontendOpen
    PROVE  Agreed'
  <1>1. /\ UNCHANGED <<hostVars, used, reclosed>> /\ UNCHANGED <<rebuilt, toHost>>
        /\ UNCHANGED <<xid, blob, pc, seq>> /\ xid \in Xids /\ blob \in Blobs
        /\ transfers \in [Xids -> Xfer \cup {NoXfer}]
    BY DEF Device, FrontendOpen, hostVars, Sound, Typed, CallSound, FrontendTypeOK
  <1>2. /\ Frame \in Own /\ Frame.kind = "OPEN" /\ Frame.xid \in used /\ Frame.xid \in Xids
        /\ toDev' \in Seq(Own)
        /\ Closes(toDev', xid) => Closes(toDev, xid)
        /\ ClosedOnce(toDev, xid) => ClosedOnce(toDev', xid)
    BY HandlesOwn DEF FrontendOpen, Handles
  <1>3. \A x \in Xids : x # Frame.xid \/ transfers[x] # NoXfer => transfers'[x] = transfers[x]
    BY <1>1, <1>2 DEF FrontendOpen
  <1>4. \A x \in Xids \ used : transfers'[x] = NoXfer
    BY <1>2, <1>3 DEF Agreed
  <1>5. \A s : Stored(s) => Stored(s)'
    BY <1>1, <1>3 DEF Stored
  <1>6. Entered'
    <2>1. CASE transfers'[xid] = transfers[xid]
      BY <1>1, <2>1 DEF Agreed, Entered
    <2>2. CASE transfers'[xid] # transfers[xid]
      <3>1. Frame.xid = xid /\ transfers[xid] = NoXfer
        BY <1>1, <1>3, <2>2
      <3>2. transfers'[xid] = [nchunks |-> Frame.n, expected_sha |-> Frame.sha,
                               got |-> [s \in Seqs |-> NoFile]]
        BY <1>1, <3>1 DEF FrontendOpen
      <3>3. Frame.n = Len(blob) /\ Frame.sha = blob
        BY <1>2, <3>1 DEF Own, OfTransfer
      <3>4. \A s \in 0 .. Len(blob) - 1 : s \in Seqs
        BY <1>1, BlobType, WireAssumption DEF Seqs
      <3>5. QED
        BY <1>1, <3>2, <3>3, <3>4 DEF Entered
    <2>3. QED
      BY <2>1, <2>2
  <1>7. AllStored => AllStored'
    BY <1>1, <1>5 DEF AllStored
  <1>8. toHost' \in Seq(Told')
    <2>1. Claims' = Claims
      BY <1>1 DEF Claims
    <2>2. Told \subseteq Told'
      BY <1>1, <1>5, <2>1 DEF Told
    <2>3. QED
      BY <1>1, <2>2, SeqMonotonic DEF Agreed
  <1>9. Claims \subseteq Claims'
    BY <1>1 DEF Claims
  <1>10. QED
    BY <1>1, <1>2, <1>4, <1>5, <1>6, <1>7, <1>8, <1>9, OtherAgrees DEF Agreed, Closing

LEMMA DataAgrees ==
    ASSUME Sound, Agreed, Device, FrontendData
    PROVE  Agreed'
  <1>1. /\ UNCHANGED <<hostVars, used, reclosed>> /\ rebuilt' = rebuilt
        /\ UNCHANGED <<xid, blob, pc, seq>> /\ xid \in Xids /\ blob \in Blobs
        /\ transfers \in [Xids -> Xfer \cup {NoXfer}]
    BY DEF Device, FrontendData, hostVars, Sound, Typed, CallSound, FrontendTypeOK
  <1>2. /\ Frame \in Own /\ Frame.kind = "DATA" /\ Frame.xid \in used /\ Frame.xid \in Xids
        /\ toDev' \in Seq(Own)
        /\ Closes(toDev', xid) => Closes(toDev, xid)
        /\ ClosedOnce(toDev, xid) => ClosedOnce(toDev', xid)
    BY HandlesOwn DEF FrontendData, Handles
  <1>3. Frame.seq \in Seqs /\ Frame.b64 \in Chunk /\ Frame.b64 # NoFile
    <2>1. Frame \in ToDevice
      BY <1>2 DEF Own, DeviceFrames, SessionToDevice
    <2>2. QED
      BY <1>2, <2>1, FrameKinds, WireAssumption
  <1>4. \A x \in Xids : x # Frame.xid \/ transfers[x] = NoXfer => transfers'[x] = transfers[x]
    BY <1>1, <1>2 DEF FrontendData, xfer
  <1>5. xfer # NoXfer =>
           /\ transfers'[Frame.xid].nchunks = xfer.nchunks
           /\ transfers'[Frame.xid].expected_sha = xfer.expected_sha
           /\ transfers'[Frame.xid].got = [xfer.got EXCEPT ![Frame.seq] = Frame.b64]
           /\ transfers'[Frame.xid] # NoXfer
           /\ xfer.got \in [Seqs -> Chunk \cup {NoFile}]
    <2> SUFFICES ASSUME xfer # NoXfer
                 PROVE  /\ transfers'[Frame.xid].nchunks = xfer.nchunks
                        /\ transfers'[Frame.xid].expected_sha = xfer.expected_sha
                        /\ transfers'[Frame.xid].got = [xfer.got EXCEPT ![Frame.seq] = Frame.b64]
                        /\ transfers'[Frame.xid] # NoXfer
                        /\ xfer.got \in [Seqs -> Chunk \cup {NoFile}]
      OBVIOUS
    <2>1. xfer \in Xfer
      BY <1>1, <1>2 DEF xfer
    <2>2. transfers'[Frame.xid] = [xfer EXCEPT !.got[Frame.seq] = Frame.b64]
      BY <1>1, <1>2 DEF FrontendData, xfer
    <2>3. transfers'[Frame.xid] \in Xfer
      BY <1>3, <2>1, <2>2 DEF Xfer
    <2>4. transfers'[Frame.xid] # NoXfer
      BY <2>3, FrontendAssumption
    <2>5. QED
      BY <2>1, <2>2, <2>4 DEF Xfer
  <1>6. \A x \in Xids \ used : transfers'[x] = NoXfer
    BY <1>2, <1>4 DEF Agreed
  <1>7. \A s \in Seqs : Stored(s) => Stored(s)'
    BY <1>1, <1>2, <1>3, <1>4, <1>5 DEF Stored, xfer
  <1>8. \A s \in 0 .. Len(blob) - 1 : s \in Seqs
    BY <1>1, BlobType, WireAssumption DEF Seqs
  <1>9. Entered'
    <2>1. CASE transfers'[xid] = transfers[xid]
      BY <1>1, <2>1 DEF Agreed, Entered
    <2>2. CASE transfers'[xid] # transfers[xid]
      <3>1. Frame.xid = xid /\ xfer # NoXfer
        BY <1>1, <1>4, <2>2 DEF xfer
      <3>2. Frame.b64 = blob[Frame.seq + 1]
        BY <1>2, <3>1 DEF Own, OfTransfer
      <3>3. /\ xfer.nchunks = Len(blob) /\ xfer.expected_sha = blob
            /\ \A s \in 0 .. Len(blob) - 1 : xfer.got[s] \in {NoFile, blob[s + 1]}
        BY <3>1 DEF Agreed, Entered, xfer
      <3>4. \A s \in 0 .. Len(blob) - 1 : transfers'[xid].got[s] \in {NoFile, blob[s + 1]}
        BY <1>3, <1>5, <1>8, <3>1, <3>2, <3>3
      <3>5. QED
        BY <1>1, <1>5, <3>1, <3>3, <3>4 DEF Entered
    <2>3. QED
      BY <2>1, <2>2
  <1>10. AllStored => AllStored'
    BY <1>1, <1>7, <1>8 DEF AllStored
  <1>11. Claims' = Claims /\ Told \subseteq Told'
    <2>1. Claims' = Claims
      BY <1>1 DEF Claims
    <2>2. QED
      BY <1>1, <1>7, <2>1, ClaimChunks DEF Told
  <1>12. toHost' \in Seq(Told')
    <2>1. toHost \in Seq(Told')
      BY <1>11, SeqMonotonic DEF Agreed
    <2>2. CASE xfer = NoXfer
      <3>1. Nak(Frame.xid, Frame.seq) \in Claims /\ Reply(Nak(Frame.xid, Frame.seq))
        BY <1>2, <1>3, <2>2, Harmless DEF FrontendData
      <3>2. Nak(Frame.xid, Frame.seq).kind = "NAK" /\ Nak(Frame.xid, Frame.seq).xid = Frame.xid
        BY DEF Nak
      <3>3. Nak(Frame.xid, Frame.seq) \in Told'
        BY <1>1, <1>2, <1>11, <3>1, <3>2 DEF Told
      <3>4. QED
        BY <2>1, <3>1, <3>3, PutType DEF Reply
    <2>3. CASE xfer # NoXfer
      <3>1. Ack(Frame.xid, Frame.seq) \in Claims /\ Reply(Ack(Frame.xid, Frame.seq))
        BY <1>2, <1>3, <2>3, Harmless DEF FrontendData
      <3>2. /\ Ack(Frame.xid, Frame.seq).kind = "ACK" /\ Ack(Frame.xid, Frame.seq).xid = Frame.xid
            /\ Ack(Frame.xid, Frame.seq).seq = Frame.seq
        BY DEF Ack
      <3>3. PICK q \in Seqs : q = Frame.seq
        BY <1>3
      <3>4. Frame.xid = xid => Stored(q)'
        BY <1>1, <1>3, <1>5, <2>3, <3>3 DEF Stored
      <3>5. PICK m \in Claims : m = Ack(Frame.xid, Frame.seq)
        BY <3>1
      <3>6. m \in Told'
        BY <1>1, <1>2, <1>11, <3>2, <3>3, <3>4, <3>5 DEF Told
      <3>7. QED
        BY <2>1, <3>1, <3>5, <3>6, PutType DEF Reply
    <2>4. QED
      BY <2>2, <2>3
  <1>13. QED
    BY <1>1, <1>2, <1>6, <1>7, <1>9, <1>10, <1>11, <1>12, OtherAgrees DEF Agreed, Closing

LEMMA StatAgrees ==
    ASSUME Sound, Agreed, Device, FrontendStat
    PROVE  Agreed'
  <1>1. /\ UNCHANGED <<hostVars, used, reclosed>> /\ UNCHANGED <<transfers, rebuilt>>
        /\ xid \in Xids /\ transfers \in [Xids -> Xfer \cup {NoXfer}] /\ MaxChunks \in Nat
    BY WireAssumption DEF Device, FrontendStat, deviceVars, Sound, Typed, CallSound, FrontendTypeOK
  <1>2. /\ Frame.xid \in used /\ Frame.xid \in Xids
        /\ toDev' \in Seq(Own)
        /\ Closes(toDev', xid) => Closes(toDev, xid)
        /\ ClosedOnce(toDev, xid) => ClosedOnce(toDev', xid)
    BY HandlesOwn DEF FrontendStat, Handles
  <1>3. PICK hw \in 0 .. MaxChunks :
           /\ IF xfer = NoXfer THEN hw = 0 ELSE ContiguousHave(xfer.got, hw)
           /\ Reply(Have(Frame.xid, hw))
    BY DEF FrontendStat
  <1>4. Have(Frame.xid, hw) \in Told
    <2>1. /\ Have(Frame.xid, hw).kind = "HAVE" /\ Have(Frame.xid, hw).xid = Frame.xid
          /\ Have(Frame.xid, hw).hw = hw
      BY DEF Have
    <2>2. Have(Frame.xid, hw) \in Claims
      BY <1>2, Harmless
    <2>3. Frame.xid = xid => \A s \in 0 .. hw - 1 : Stored(s)
      <3>1. CASE xfer = NoXfer
        BY <1>3, <3>1
      <3>2. CASE xfer # NoXfer
        BY <1>3, <3>2 DEF ContiguousHave, Stored, xfer
      <3>3. QED
        BY <3>1, <3>2
    <2>4. QED
      BY <1>2, <2>1, <2>2, <2>3 DEF Told
  <1>5. toHost' \in Seq(Told)
    BY <1>3, <1>4, ToldPut
  <1>6. QED
    BY <1>1, <1>2, <1>5, IdleAgrees

\* The entry that holds every chunk of the blob is finished as that blob.
LEMMA WholeFinishes ==
    ASSUME Sound, Agreed, NeverEmpty, AllStored
    PROVE  Finishes(transfers[xid], blob)
  <1>1. blob \in Seq(Chunk) /\ Len(blob) \in Nat /\ blob # <<>>
    BY BlobType, WireAssumption DEF Sound, Typed, CallSound, NeverEmpty
  <1>2. 0 \in 0 .. Len(blob) - 1
    BY <1>1, EmptySeq
  <1>3. transfers[xid] # NoXfer
    BY <1>2 DEF AllStored, Stored
  <1> DEFINE t == transfers[xid]
  <1>4. /\ t.nchunks = Len(blob) /\ t.expected_sha = blob
        /\ \A s \in 0 .. Len(blob) - 1 : t.got[s] = blob[s + 1] /\ t.got[s] # NoFile
    BY <1>3 DEF Agreed, Entered, AllStored, Stored
  <1> HIDE DEF t
  <1>5. \A i \in 1 .. Len(blob) : t.got[i - 1] = blob[i]
    <2> SUFFICES ASSUME NEW i \in 1 .. Len(blob) PROVE t.got[i - 1] = blob[i]
      OBVIOUS
    <2>1. i - 1 \in 0 .. Len(blob) - 1 /\ (i - 1) + 1 = i
      BY <1>1
    <2>2. QED
      BY <1>4, <2>1
  <1>6. blob = [i \in 1 .. Len(blob) |-> blob[i]]
    BY <1>1
  <1>7. blob = [i \in 1 .. t.nchunks |-> t.got[i - 1]]
    BY <1>4, <1>5, <1>6
  <1>8. t # NoXfer
    BY <1>3 DEF t
  <1>9. Finishes(t, blob)
    BY <1>4, <1>7, <1>8 DEF Finishes
  <1>10. QED
    BY <1>9 DEF t

LEMMA CloseAgrees ==
    ASSUME Sound, Agreed, NeverEmpty, Device, FrontendClose
    PROVE  Agreed'
  <1>1. /\ UNCHANGED <<hostVars, used, reclosed>>
        /\ UNCHANGED <<xid, blob, pc, seq>> /\ xid \in Xids /\ blob \in Blobs
        /\ transfers \in [Xids -> Xfer \cup {NoXfer}] /\ rebuilt \in [Xids -> SUBSET Blobs]
    BY DEF Device, FrontendClose, hostVars, Sound, Typed, CallSound, FrontendTypeOK
  <1>2. /\ Frame.xid \in used /\ Frame.xid \in Xids
        /\ toDev' \in Seq(Own)
        /\ Closes(toDev', xid) => Closes(toDev, xid)
        /\ ClosedOnce(toDev, xid) => ClosedOnce(toDev', xid)
        /\ Frame.xid = xid /\ ClosedOnce(toDev, xid) => ~Closes(toDev', xid)
    BY HandlesOwn DEF FrontendClose, Handles
  <1>3. Closes(toDev, Frame.xid)
    BY ReadsFrame DEF FrontendClose, Handles
  <1>4. /\ transfers'[Frame.xid] = NoXfer
        /\ \A x \in Xids : x # Frame.xid => transfers'[x] = transfers[x]
    BY <1>1, <1>2 DEF FrontendClose, Removes
  <1>5. \A x \in Xids \ used : transfers'[x] = NoXfer
    BY <1>2, <1>4 DEF Agreed
  <1>6. Frame.xid = xid => pc \notin {"stat", "data"}
    BY <1>1, <1>3 DEF Sound, Ordered, Past
  <1>7. Frame.xid # xid => \A s : Stored(s)' <=> Stored(s)
    BY <1>1, <1>4 DEF Stored
  <1>8. Entered'
    BY <1>1, <1>4 DEF Agreed, Entered
  <1>9. xid \notin reclosed => /\ Closes(toDev', xid) => AllStored'
                               /\ ClosedOnce(toDev', xid)
    <2>1. Frame.xid # xid => (AllStored => AllStored')
      BY <1>1, <1>7 DEF AllStored
    <2>2. QED
      BY <1>2, <2>1 DEF Agreed, Closing
  <1>10. \A x \in Xids : rebuilt[x] \subseteq rebuilt'[x]
    BY <1>1, <1>2 DEF FrontendClose, WritesOut
  <1>11. Claims \subseteq Claims' /\ Told \subseteq Told'
    <2>1. Claims \subseteq Claims'
      BY <1>10, ClaimsGrow
    <2>2. QED
      BY <1>1, <1>6, <1>7, <2>1 DEF Told
  <1>12. ASSUME Frame.xid = xid, xid \notin reclosed
         PROVE  Finishes(xfer, blob) /\ \A b \in Blobs : Finishes(xfer, b) => b = blob
    <2>1. AllStored
      BY <1>3, <1>12 DEF Agreed, Closing
    <2>2. Finishes(xfer, blob)
      BY <1>12, <2>1, WholeFinishes DEF xfer
    <2>3. QED
      BY <2>2 DEF Finishes
  <1>13. ASSUME NEW m \in Claims', m.kind = "DONE", m.xid = Frame.xid,
                Frame.xid = xid /\ xid \notin reclosed => m.ok /\ m.sha = blob,
                Reply(m)
         PROVE  toHost' \in Seq(Told')
    <2>1. m \in Told'
      BY <1>1, <1>2, <1>13 DEF Told
    <2>2. toHost \in Seq(Told')
      BY <1>11, SeqMonotonic DEF Agreed
    <2>3. QED
      BY <1>13, <2>1, <2>2, PutType DEF Reply
  <1>14. toHost' \in Seq(Told')
    <2>1. CASE \E b \in Blobs : Finishes(xfer, b) /\ WritesOut(b)
      <3>1. PICK b \in Blobs : Finishes(xfer, b) /\ WritesOut(b)
        BY <2>1
      <3>2. PICK m : m = DoneOk(Frame.xid, b)
        OBVIOUS
      <3>3. m.kind = "DONE" /\ m.xid = Frame.xid /\ m.ok /\ m.sha = b
        BY <3>2 DEF DoneOk
      <3>4. b \in rebuilt'[Frame.xid]
        BY <1>1, <1>2, <3>1 DEF WritesOut
      <3>5. m \in ToHost
        BY <1>2, <3>2, Replies
      <3>6. m \in Claims'
        BY <3>3, <3>4, <3>5 DEF Claims
      <3>7. Frame.xid = xid /\ xid \notin reclosed => b = blob
        BY <1>12, <3>1
      <3>8. Reply(m)
        BY <3>1, <3>2 DEF WritesOut
      <3>9. QED
        BY <1>13, <3>3, <3>6, <3>7, <3>8
    <2>2. CASE (\A b \in Blobs : ~Finishes(xfer, b)) /\ Reply(DoneFail(Frame.xid))
      <3>1. PICK m : m = DoneFail(Frame.xid)
        OBVIOUS
      <3>2. m.kind = "DONE" /\ m.xid = Frame.xid
        BY <3>1 DEF DoneFail
      <3>3. m \in Claims'
        BY <1>2, <1>11, <3>1, Harmless
      <3>4. ~(Frame.xid = xid /\ xid \notin reclosed)
        BY <1>1, <1>12, <2>2
      <3>5. QED
        BY <1>13, <2>2, <3>1, <3>2, <3>3, <3>4
    <2>3. QED
      BY <2>1, <2>2 DEF FrontendClose
  <1>15. QED
    BY <1>1, <1>2, <1>5, <1>6, <1>7, <1>8, <1>9, <1>11, <1>14, OtherAgrees

LEMMA DeviceAgrees ==
    ASSUME Sound, Agreed, NeverEmpty, Device, Unharmed'
    PROVE  Agreed'
  <1>1. restarts \in Nat /\ faults \in Nat
    BY DEF Sound, Typed, FrontendTypeOK
  <1>2. ~FrontendRestart /\ ~FrontendWriteFails
    BY <1>1 DEF FrontendRestart, FrontendWriteFails, Unharmed
  <1>3. QED
    BY <1>2, OpenAgrees, DataAgrees, StatAgrees, CloseAgrees, BridgesAgree
    DEF Device, Serves, FrontendFails

LEMMA AgreedStep ==
    ASSUME NeverEmpty
    PROVE  Sound /\ (Unharmed => Agreed) /\ [Next]_vars => (Unharmed' => Agreed')
  <1> SUFFICES ASSUME Sound, Unharmed => Agreed, [Next]_vars, Unharmed' PROVE Agreed'
    OBVIOUS
  <1>1. restarts \in Nat /\ faults \in Nat
    BY DEF Sound, Typed, FrontendTypeOK
  <1>2. restarts' \in {restarts, restarts + 1} /\ faults' \in {faults, faults + 1}
    BY DEF Next, Transfers, Attach, Device, Loss, Serves, Bridges, FrontendFails, FrontendOpen,
           FrontendData, FrontendStat, FrontendClose, FrontendIgnores, FrontendWriteFails,
           FrontendRestart, SessionStarts, SessionDetached, ShellExits, SessionReads,
           SessionEnds, deviceVars, vars
  <1>3. Agreed
    BY <1>1, <1>2 DEF Unharmed
  <1>4. CASE UNCHANGED vars
    <2>1. UNCHANGED <<hostVars, used, reclosed>> /\ UNCHANGED <<transfers, rebuilt, toDev, toHost>>
      BY <1>4 DEF vars, historyVars, deviceVars, line
    <2>2. QED
      BY <1>3, <2>1, IdleAgrees DEF Agreed
  <1>5. QED
    BY <1>3, <1>4, TransfersAgree, AttachAgrees, DeviceAgrees, LossAgrees DEF Next

\* A delivery fails verification only for one of the reasons named: without a
\* restart, a failed write or a second CLOSE, the front-end has every chunk
\* when CLOSE comes, whatever was lost, late, repeated or read in a session.
THEOREM FailureHasReason == ASSUME NeverEmpty PROVE Spec => []VerifyHasReason
  <1>1. Init => Agreed
    <2> SUFFICES ASSUME Init PROVE Agreed
      OBVIOUS
    <2>1. /\ toDev = <<>> /\ toHost = <<>> /\ inbox = <<>> /\ pc = "idle" /\ verdict = "none"
          /\ DOMAIN toDev = {}
      BY CallInit DEF Init, LineInit, HostInit
    <2>2. \A x \in Xids : transfers[x] = NoXfer
      BY DEF Init, FrontendInit
    <2>3. xid \in Xids
      BY DEF Init, HostInit
    <2>4. toDev \in Seq(Own) /\ toHost \in Seq(Told) /\ inbox \in Seq(Told)
      BY <2>1, EmptySeq
    <2>5. Entered /\ Closing
      BY <2>1, <2>2, <2>3 DEF Entered, Closing, Closes, ClosedOnce
    <2>6. QED
      BY <2>1, <2>2, <2>4, <2>5 DEF Agreed
  <1>2. Sound /\ (Unharmed => Agreed) => VerifyHasReason
    <2> SUFFICES ASSUME Sound, Unharmed => Agreed, verdict = "verify"
                 PROVE  restarts > 0 \/ faults > 0 \/ xid \in reclosed
      BY DEF VerifyHasReason
    <2>1. restarts \in Nat /\ faults \in Nat
      BY DEF Sound, Typed, FrontendTypeOK
    <2>2. CASE Unharmed
      BY <2>2 DEF Agreed, Closing
    <2>3. CASE ~Unharmed
      BY <2>1, <2>3 DEF Unharmed
    <2>4. QED
      BY <2>2, <2>3
  <1>3. QED
    BY <1>1, <1>2, SoundInit, SoundStep, AgreedStep, PTL DEF Spec
=============================================================================
