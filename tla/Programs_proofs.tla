--------------------------- MODULE Programs_proofs ---------------------------
(***************************************************************************)
(* Proofs about the programs of a robot: what the drivers of Player hold,  *)
(* for any number of descriptors, sensors, pictures and answers, in any    *)
(* scenarios.                                                              *)
(***************************************************************************)
EXTENDS Programs, Infrared_proofs

(* The places of all threads.                                              *)
Place ==
  {"none", "messages", "select", "grab", "read", "refresh", "connect", "merge", "close",
   "publish", "sleep", "quit"}

(* The server sets up what is not subscribed, and stops what is; only what *)
(* is subscribed has a thread, and only drivers for 3.0 quit in it.        *)
ServerInv ==
  /\ ServerTypeOK
  /\ files \in [Fd -> Behind]
  /\ pc \in [Driver -> Place]
  /\ \A d \in Driver :
       /\ call[d] = "setup" => ~subscribed[d]
       /\ call[d] \in {"stop", "join"} => subscribed[d]
       /\ pc[d] # "none" => subscribed[d]
       /\ pc[d] = "quit" => version = "3.0"

(* A driver has its descriptors as long as it has a thread, and one for    *)
(* 2.1 also as long as it is subscribed, for the server closes them then.  *)
InSession(d) == pc[d] # "none" \/ (version = "2.1" /\ subscribed[d])

BaseOwns == InSession("base") => Holds("base", device)

IrOwns ==
  /\ devices \in [IrDev -> Fd \union {NoFd}]
  /\ InSession("ir") => \A i \in OpenDev : Holds(IrName(i), devices[i])

CameraOwns == InSession("camera") => Holds("camera", videoFd)

OlsrdOwns == pc["olsrd"] \in {"connect", "read", "merge", "close"} => Holds("olsrd", sock)

OwnInv == BaseOwns /\ IrOwns /\ CameraOwns /\ OlsrdOwns

(* There is a frame while it is read into and published.                   *)
FrameInv ==
  /\ frame \in BOOLEAN
  /\ pc["camera"] \in {"read", "refresh"} => frame
  /\ FramesAreFreed

(* The links so far: every line merged has its link, every link its lines, *)
(* no two links have the same ends, and a value lies between those of the  *)
(* lines.                                                                  *)
Line == Nat \X Nat \X Nat

Link == [start : Nat, end : Nat, value : Nat]

Bounded(link, lines, n) ==
  \E k, m \in 1..n : /\ SameLink(link, lines[k]) /\ SameLink(link, lines[m])
                     /\ lines[k][3] <= link.value /\ link.value <= lines[m][3]

LinksInv ==
  /\ answer \in Seq(Line \union {NoLine}) /\ merged \in 0..Len(answer)
  /\ \A k \in 1..merged : answer[k] \in Line
  /\ links \in Seq(Link) /\ Len(links) <= merged
  /\ \A k \in 1..merged : \E i \in 1..Len(links) : SameLink(links[i], answer[k])
  /\ \A i \in 1..Len(links) : links[i].start <= links[i].end /\ Bounded(links[i], answer, merged)
  /\ \A i, j \in 1..Len(links) :
       i # j => ~(links[i].start = links[j].start /\ links[i].end = links[j].end)

(* An answer is merged into an empty list.                                 *)
MergeInv ==
  /\ LinksInv
  /\ pc["olsrd"] \notin {"merge", "close", "publish"} => merged = 0 /\ links = <<>>

PlayerInv == ServerInv /\ OwnInv /\ FrameInv /\ MergeInv

-----------------------------------------------------------------------------
(* The server's operations, on any driver.                                 *)

(* A step of a driver that leaves the others alone: their threads, and     *)
(* what is behind their descriptors.                                       *)
NamesOf(d) == IF d = "ir" THEN {"ir", "ir0", "ir1"} ELSE {d}

OnlyOf(d) ==
  /\ version' = version
  /\ \A e \in Driver \ {d} : pc'[e] = pc[e] /\ subscribed'[e] = subscribed[e]
  /\ \A n \in Fd : files[n] \notin NamesOf(d) \union {"closed"} => files'[n] = files[n]

LEMMA Subscribing ==
  ASSUME ServerInv, NEW d \in Driver, Subscribe(d) \/ Unsubscribe(d)
  PROVE  ServerInv'
<1>1. /\ call' \in [Driver -> {"none", "setup", "stop", "join"}]
      /\ \A e \in Driver \ {d} : call'[e] = call[e]
      /\ call'[d] = IF subscribed[d] THEN "stop" ELSE "setup"
  BY DEF ServerInv, ServerTypeOK, Subscribe, Unsubscribe, CallGoes
<1>2. UNCHANGED <<processVars, subscribed, pc, cancelled, files>>
  BY DEF Subscribe, Unsubscribe
<1>3. ServerTypeOK'
  BY <1>1, <1>2 DEF ServerInv, ServerTypeOK, processVars
<1> QED BY <1>1, <1>2, <1>3 DEF ServerInv, ServerTypeOK, processVars

LEMMA SettingUp ==
  ASSUME ServerInv, NEW d \in Driver, SetUp(d), files' \in [Fd -> Behind]
  PROVE  ServerInv'
<1>1. /\ call' \in [Driver -> {"none", "setup", "stop", "join"}]
      /\ \A e \in Driver \ {d} : call'[e] = call[e]
      /\ call'[d] = "none"
  BY DEF ServerInv, ServerTypeOK, SetUp, CallGoes
<1>2. /\ subscribed' \in [Driver -> BOOLEAN] /\ subscribed'[d]
      /\ \A e \in Driver \ {d} : subscribed'[e] = subscribed[e]
      /\ pc' \in [Driver -> Place] /\ pc'[d] = "messages"
      /\ \A e \in Driver \ {d} : pc'[e] = pc[e]
  BY DEF ServerInv, ServerTypeOK, SetUp, Place
<1>3. UNCHANGED <<version, config, dead, cancelled>>
  BY DEF SetUp, processVars
<1>4. ServerTypeOK'
  BY <1>1, <1>2, <1>3 DEF ServerInv, ServerTypeOK
<1>5. ASSUME NEW e \in Driver
      PROVE  /\ call'[e] = "setup" => ~subscribed'[e]
             /\ call'[e] \in {"stop", "join"} => subscribed'[e]
             /\ pc'[e] # "none" => subscribed'[e]
             /\ pc'[e] = "quit" => version' = "3.0"
  <2>1. CASE e = d
    BY <2>1, <1>1, <1>2
  <2>2. CASE e # d
    BY <2>2, <1>1, <1>2, <1>3 DEF ServerInv
  <2> QED BY <2>1, <2>2
<1> QED BY <1>2, <1>4, <1>5 DEF ServerInv

LEMMA FailingSetup ==
  ASSUME ServerInv, NEW d \in Driver, SetupFails(d), files' \in [Fd -> Behind], dead' \in BOOLEAN
  PROVE  ServerInv'
<1>1. /\ call' \in [Driver -> {"none", "setup", "stop", "join"}]
      /\ \A e \in Driver \ {d} : call'[e] = call[e]
      /\ call'[d] = "none"
  BY DEF ServerInv, ServerTypeOK, SetupFails, CallGoes
<1>2. UNCHANGED <<version, config, subscribed, pc, cancelled>>
  BY DEF SetupFails
<1>3. ServerTypeOK'
  BY <1>1, <1>2 DEF ServerInv, ServerTypeOK
<1> QED BY <1>1, <1>2, <1>3 DEF ServerInv

LEMMA StoppingThread ==
  ASSUME ServerInv, NEW d \in Driver, StopThread(d)
  PROVE  ServerInv'
<1>1. /\ call' \in [Driver -> {"none", "setup", "stop", "join"}]
      /\ \A e \in Driver \ {d} : call'[e] = call[e]
      /\ call'[d] = "join" /\ call[d] = "stop"
  BY DEF ServerInv, ServerTypeOK, StopThread, CallGoes
<1>2. cancelled' \in [Driver -> BOOLEAN]
  BY DEF ServerInv, ServerTypeOK, StopThread
<1>3. UNCHANGED <<version, config, dead, subscribed, pc, files>>
  BY DEF StopThread, processVars
<1>4. ServerTypeOK'
  BY <1>1, <1>2, <1>3 DEF ServerInv, ServerTypeOK
<1> QED BY <1>1, <1>3, <1>4 DEF ServerInv

LEMMA ClosingType ==
  ASSUME ServerInv, NEW F
  PROVE  /\ Closed(F) \in [Fd -> Behind]
         /\ \A n \in Fd : Closed(F)[n] = IF n \in F THEN "closed" ELSE files[n]
BY DEF ServerInv, Closed, Behind

LEMMA ShuttingDown ==
  ASSUME ServerInv, NEW d \in Driver, NEW F, Shutdown(d, F)
  PROVE  ServerInv'
<1>1. /\ call' \in [Driver -> {"none", "setup", "stop", "join"}]
      /\ \A e \in Driver \ {d} : call'[e] = call[e]
      /\ call'[d] = "none"
  BY DEF ServerInv, ServerTypeOK, Shutdown, CallGoes
<1>2. /\ subscribed' \in [Driver -> BOOLEAN] /\ ~subscribed'[d] /\ pc[d] = "none"
      /\ \A e \in Driver \ {d} : subscribed'[e] = subscribed[e]
  BY DEF ServerInv, ServerTypeOK, Shutdown
<1>3. files' \in [Fd -> Behind]
  BY ClosingType DEF Shutdown, ServerInv, ServerTypeOK
<1>4. UNCHANGED <<version, config, dead, pc, cancelled>>
  BY DEF Shutdown, processVars
<1>5. ServerTypeOK'
  BY <1>1, <1>2, <1>3, <1>4 DEF ServerInv, ServerTypeOK
<1>6. ASSUME NEW e \in Driver
      PROVE  /\ call'[e] = "setup" => ~subscribed'[e]
             /\ call'[e] \in {"stop", "join"} => subscribed'[e]
             /\ pc'[e] # "none" => subscribed'[e]
             /\ pc'[e] = "quit" => version' = "3.0"
  <2>1. CASE e = d
    BY <2>1, <1>1, <1>2, <1>4
  <2>2. CASE e # d
    BY <2>2, <1>1, <1>2, <1>4 DEF ServerInv
  <2> QED BY <2>1, <2>2
<1> QED BY <1>3, <1>4, <1>5, <1>6 DEF ServerInv

(* A step of a thread, to its end or to another place.                     *)
LEMMA ThreadStep ==
  ASSUME ServerInv, NEW d \in Driver, pc[d] # "none",
         NEW to \in Place, pc' = [pc EXCEPT ![d] = to], to = "quit" => version = "3.0",
         UNCHANGED <<version, config, call, subscribed>>,
         dead' \in BOOLEAN, cancelled' \in [Driver -> BOOLEAN], files' \in [Fd -> Behind]
  PROVE  ServerInv'
<1>1. /\ pc' \in [Driver -> Place] /\ pc'[d] = to
      /\ \A e \in Driver \ {d} : pc'[e] = pc[e]
  BY DEF ServerInv
<1>2. ServerTypeOK'
  BY DEF ServerInv, ServerTypeOK
<1>3. subscribed[d] /\ call[d] # "setup"
  BY DEF ServerInv
<1>4. ASSUME NEW e \in Driver
      PROVE  /\ call'[e] = "setup" => ~subscribed'[e]
             /\ call'[e] \in {"stop", "join"} => subscribed'[e]
             /\ pc'[e] # "none" => subscribed'[e]
             /\ pc'[e] = "quit" => version' = "3.0"
  <2>1. CASE e = d
    BY <2>1, <1>1, <1>3
  <2>2. CASE e # d
    BY <2>2, <1>1 DEF ServerInv
  <2> QED BY <2>1, <2>2
<1> QED BY <1>1, <1>2, <1>4 DEF ServerInv

LEMMA AfterMainIsPlace == AfterMain \in Place /\ (AfterMain = "quit" => version = "3.0")
BY DEF AfterMain, Place

LEMMA Cancelling ==
  ASSUME ServerInv, NEW d \in Driver, NEW points, "none" \notin points, Cancel(d, points)
  PROVE  ServerInv'
<1>1. pc[d] # "none" /\ pc' = [pc EXCEPT ![d] = AfterMain]
  BY DEF Cancel
<1>2. cancelled' \in [Driver -> BOOLEAN]
  BY DEF Cancel, ServerInv, ServerTypeOK
<1>3. UNCHANGED <<version, config, dead, call, subscribed, files>>
  BY DEF Cancel, processVars
<1>4. dead' \in BOOLEAN /\ files' \in [Fd -> Behind]
  BY <1>3 DEF ServerInv, ServerTypeOK
<1> QED BY <1>1, <1>2, <1>3, <1>4, AfterMainIsPlace, ThreadStep

LEMMA Quitting ==
  ASSUME ServerInv, NEW d \in Driver, NEW F, MainQuit(d, F)
  PROVE  ServerInv'
<1>1. pc[d] = "quit" /\ pc' = [pc EXCEPT ![d] = "none"]
  BY DEF MainQuit, Goes
<1>2. cancelled' \in [Driver -> BOOLEAN]
  BY DEF MainQuit, ServerInv, ServerTypeOK
<1>3. UNCHANGED <<version, config, dead, call, subscribed>> /\ files' = Closed(F)
  BY DEF MainQuit, processVars
<1>4. dead' \in BOOLEAN /\ files' \in [Fd -> Behind]
  BY <1>3, ClosingType DEF ServerInv, ServerTypeOK
<1>5. pc[d] # "none" /\ "none" # "quit" /\ "none" \in Place
  BY <1>1 DEF Place
<1> QED BY <1>1, <1>2, <1>3, <1>4, <1>5, ThreadStep

-----------------------------------------------------------------------------
(* Names and descriptors.                                                  *)
LEMMA IrNames ==
  \A i : IrName(i) \in {"ir", "ir0", "ir1"}
BY DEF IrName

(* What a driver opens was nobody's.                                       *)
LEMMA Opening ==
  ASSUME ServerInv, NEW name \in Behind, NEW n \in Fd, Opens(name, n)
  PROVE  /\ files' \in [Fd -> Behind] /\ files'[n] = name /\ files[n] = "closed"
         /\ \A m \in Fd : files[m] # "closed" => files'[m] = files[m]
BY DEF ServerInv, Opens, LowestFree

(* What one driver closes is its own.                                      *)
LEMMA ClosingOwn ==
  ASSUME ServerInv, NEW d, NEW F, \A n \in F : n \in Fd => files[n] \in NamesOf(d),
         files' = Closed(F)
  PROVE  \A n \in Fd : files[n] \notin NamesOf(d) \union {"closed"} => files'[n] = files[n]
BY ClosingType

(* A driver keeps its descriptors while others are at work.                *)
LEMMA BaseUndisturbed ==
  ASSUME BaseOwns, NEW d \in {"ir", "camera", "olsrd"}, OnlyOf(d), device' = device
  PROVE  BaseOwns'
<1>1. "base" \notin NamesOf(d) \union {"closed"} /\ "base" \in Driver \ {d}
  BY DriverAssumption DEF NamesOf
<1>2. InSession("base")' = InSession("base")
  BY <1>1 DEF OnlyOf, InSession
<1> QED BY <1>1, <1>2 DEF BaseOwns, OnlyOf, Holds

LEMMA CameraUndisturbed ==
  ASSUME CameraOwns, NEW d \in {"base", "ir", "olsrd"}, OnlyOf(d), videoFd' = videoFd
  PROVE  CameraOwns'
<1>1. "camera" \notin NamesOf(d) \union {"closed"} /\ "camera" \in Driver \ {d}
  BY DriverAssumption DEF NamesOf
<1>2. InSession("camera")' = InSession("camera")
  BY <1>1 DEF OnlyOf, InSession
<1> QED BY <1>1, <1>2 DEF CameraOwns, OnlyOf, Holds

LEMMA IrUndisturbed ==
  ASSUME IrOwns, NEW d \in {"base", "camera", "olsrd"}, OnlyOf(d), devices' = devices
  PROVE  IrOwns'
<1>1. "ir" \in Driver \ {d} /\ \A i : IrName(i) \notin NamesOf(d) \union {"closed"}
  BY DriverAssumption, IrNames DEF NamesOf
<1>2. InSession("ir")' = InSession("ir") /\ OpenDev' = OpenDev
  BY <1>1 DEF OnlyOf, InSession, OpenDev
<1> QED BY <1>1, <1>2 DEF IrOwns, OnlyOf, Holds

LEMMA OlsrdUndisturbed ==
  ASSUME OlsrdOwns, NEW d \in {"base", "ir", "camera"}, OnlyOf(d), sock' = sock
  PROVE  OlsrdOwns'
<1>1. "olsrd" \in Driver \ {d} /\ "olsrd" \notin NamesOf(d) \union {"closed"}
  BY DriverAssumption DEF NamesOf
<1> QED BY <1>1 DEF OlsrdOwns, OnlyOf, Holds

LEMMA FrameUndisturbed ==
  ASSUME FrameInv, NEW d \in {"base", "ir", "olsrd"}, OnlyOf(d), UNCHANGED <<frame, heap>>
  PROVE  FrameInv'
<1>1. "camera" \in Driver \ {d}
  BY DriverAssumption
<1> QED BY <1>1 DEF FrameInv, FramesAreFreed, OnlyOf

LEMMA MergeUndisturbed ==
  ASSUME MergeInv, NEW d \in {"base", "ir", "camera"}, OnlyOf(d),
         UNCHANGED <<answer, merged, links>>
  PROVE  MergeInv'
<1>1. "olsrd" \in Driver \ {d}
  BY DriverAssumption
<1>2. LinksInv
  BY DEF MergeInv
<1>3. LinksInv'
  BY <1>2 DEF LinksInv
<1> QED BY <1>1, <1>3 DEF MergeInv, OnlyOf

-----------------------------------------------------------------------------
(* The base.                                                               *)
LEMMA BaseThreadStep ==
  ASSUME ServerInv, BaseOwns, BaseThread
  PROVE  ServerInv' /\ OnlyOf("base") /\ BaseOwns'
<1> USE DriverAssumption
<1>1. CASE BaseCommand
  BY <1>1 DEF BaseCommand, serverVars, processVars, threadVars, ServerInv, ServerTypeOK, OnlyOf,
       BaseOwns, InSession, Holds
<1>2. ASSUME NEW from \in {"messages", "read"}, NEW to \in {"messages", "read"},
             Goes("base", from, to),
             UNCHANGED <<processVars, call, subscribed, cancelled, files, device>>
      PROVE  ServerInv' /\ OnlyOf("base") /\ BaseOwns'
  <2>1. /\ pc["base"] # "none" /\ pc' = [pc EXCEPT !["base"] = to] /\ to \in Place /\ to # "quit"
        /\ UNCHANGED <<version, config, dead, call, subscribed, cancelled, files>>
    BY <1>2 DEF Goes, processVars, Place
  <2>2. ServerInv'
    BY <2>1, ThreadStep DEF ServerInv, ServerTypeOK
  <2>3. OnlyOf("base") /\ BaseOwns'
    BY <1>2, <2>1 DEF ServerInv, OnlyOf, BaseOwns, InSession, Holds
  <2> QED BY <2>2, <2>3
<1>3. CASE BaseWaits \/ BaseRead \/ BaseReadFails
  <2>1. \/ Goes("base", "messages", "read") \/ Goes("base", "read", "messages")
    BY <1>3 DEF BaseWaits, BaseRead, BaseReadFails
  <2>2. UNCHANGED <<processVars, call, subscribed, cancelled, files, device>>
    BY <1>3 DEF BaseWaits, BaseRead, BaseReadFails, baseVars
  <2> QED BY <2>1, <2>2, <1>2
<1>4. CASE BaseCancel
  <2>1. Cancel("base", {"messages", "read"}) /\ device' = device
    BY <1>4 DEF BaseCancel, baseVars
  <2>2. pc["base"] # "none" /\ UNCHANGED <<version, subscribed, files>>
        /\ pc' = [pc EXCEPT !["base"] = AfterMain]
    BY <2>1 DEF Cancel, processVars
  <2> QED BY <2>1, <2>2, Cancelling DEF OnlyOf, ServerInv, BaseOwns, InSession, Holds
<1>5. CASE BaseQuit
  <2>1. MainQuit("base", {device})
    BY <1>5 DEF BaseQuit
  <2>2. pc["base"] = "quit" /\ UNCHANGED <<version, subscribed>>
        /\ pc' = [pc EXCEPT !["base"] = "none"] /\ files' = Closed({device})
    BY <2>1 DEF MainQuit, Goes, processVars
  <2>3. files[device] = "base" /\ version # "2.1"
    BY <2>2 DEF BaseOwns, InSession, Holds, ServerInv
  <2>4. OnlyOf("base")
    BY <2>2, <2>3, ClosingOwn DEF OnlyOf, ServerInv, NamesOf
  <2>5. BaseOwns'
    BY <2>2, <2>3 DEF BaseOwns, InSession, ServerInv
  <2> QED BY <2>1, <2>4, <2>5, Quitting
<1> QED BY <1>1, <1>3, <1>4, <1>5 DEF BaseThread

LEMMA BaseCallStep ==
  ASSUME ServerInv, BaseOwns, BaseCall
  PROVE  ServerInv' /\ OnlyOf("base") /\ BaseOwns'
<1> USE DriverAssumption
<1>1. CASE BaseSetup
  <2>1. PICK n \in Fd : Opens("base", n) /\ device' = n
    BY <1>1 DEF BaseSetup
  <2>2. "base" \in Behind /\ SetUp("base")
    BY <1>1 DEF BaseSetup, Behind
  <2>3. files' \in [Fd -> Behind] /\ files'[n] = "base"
        /\ \A m \in Fd : files[m] # "closed" => files'[m] = files[m]
    BY <2>1, <2>2, Opening
  <2>4. OnlyOf("base")
    BY <2>2, <2>3 DEF SetUp, OnlyOf, processVars, ServerInv, ServerTypeOK
  <2> QED BY <2>1, <2>2, <2>3, <2>4, SettingUp DEF BaseOwns, Holds
<1>2. CASE BaseSetupFails
  <2>1. SetupFails("base") /\ files' = files /\ dead' \in BOOLEAN
    BY <1>2 DEF BaseSetupFails
  <2>2. ServerInv'
    BY <2>1, FailingSetup DEF ServerInv
  <2>3. ~InSession("base")
    BY <2>1 DEF SetupFails, CallGoes, ServerInv, InSession
  <2> QED BY <2>1, <2>2, <2>3 DEF SetupFails, OnlyOf, BaseOwns, InSession
<1>3. CASE BaseShutdown /\ StopThread("base")
  <2>1. UNCHANGED <<version, subscribed, pc, files, device>>
    BY <1>3 DEF StopThread, processVars, BaseShutdown, baseVars
  <2> QED BY <1>3, <2>1, StoppingThread DEF OnlyOf, BaseOwns, InSession, Holds
<1>4. CASE BaseShutdown /\ Shutdown("base", {device})
  <2>1. /\ pc["base"] = "none" /\ subscribed["base"] /\ UNCHANGED <<version, pc>>
        /\ subscribed' = [subscribed EXCEPT !["base"] = FALSE]
        /\ files' = IF version = "2.1" THEN Closed({device}) ELSE files
    BY <1>4 DEF Shutdown, processVars, CallGoes, ServerInv
  <2>2. version = "2.1" => files[device] = "base"
    BY <2>1 DEF BaseOwns, InSession, Holds
  <2>3. \A n \in Fd : files[n] \notin NamesOf("base") \union {"closed"} => files'[n] = files[n]
    <3>1. CASE version = "2.1"
      <4>1. files' = Closed({device})
        BY <3>1, <2>1
      <4>2. \A n \in {device} : n \in Fd => files[n] \in NamesOf("base")
        BY <3>1, <2>2 DEF NamesOf
      <4> QED BY <4>1, <4>2, ClosingOwn
    <3> QED BY <3>1, <2>1
  <2>4. OnlyOf("base") /\ BaseOwns'
    BY <2>1, <2>3 DEF OnlyOf, BaseOwns, InSession, ServerInv, ServerTypeOK
  <2> QED BY <1>4, <2>4, ShuttingDown
<1> QED BY <1>1, <1>2, <1>3, <1>4 DEF BaseCall, BaseShutdown

LEMMA BaseStep ==
  ASSUME ServerInv, BaseOwns, BaseThread \/ BaseCall \/ RemoveBase
  PROVE  ServerInv' /\ OnlyOf("base") /\ BaseOwns'
<1>1. CASE RemoveBase
  BY <1>1 DEF RemoveBase, processVars, threadVars, ServerInv, ServerTypeOK, OnlyOf, BaseOwns,
       InSession, Holds
<1> QED BY <1>1, BaseThreadStep, BaseCallStep

-----------------------------------------------------------------------------
(* The infrared sensors.                                                   *)
LEMMA IrFdsAreOwn ==
  ASSUME ServerInv, IrOwns, InSession("ir"), files' = Closed(IrFds)
  PROVE  \A n \in Fd : files[n] \notin NamesOf("ir") \union {"closed"} => files'[n] = files[n]
<1>1. \A n \in IrFds : files[n] \in NamesOf("ir")
  BY IrNames DEF IrFds, IrOwns, Holds, NamesOf
<1> QED BY <1>1, ClosingOwn

LEMMA IrThreadStep ==
  ASSUME ServerInv, IrOwns, IrThread \/ IrSelectFails
  PROVE  ServerInv' /\ OnlyOf("ir") /\ IrOwns'
<1> USE DriverAssumption
<1>1. ASSUME NEW to \in {"messages", "select"}, pc["ir"] # "none", pc' = [pc EXCEPT !["ir"] = to],
             UNCHANGED <<processVars, call, subscribed, cancelled, files, devices>>
      PROVE  ServerInv' /\ OnlyOf("ir") /\ IrOwns'
  <2>1. /\ to \in Place /\ to # "quit"
        /\ UNCHANGED <<version, config, dead, call, subscribed, cancelled, files>>
    BY <1>1 DEF processVars, Place
  <2>2. ServerInv'
    BY <1>1, <2>1, ThreadStep DEF ServerInv, ServerTypeOK
  <2>3. OnlyOf("ir")
    BY <1>1, <2>1 DEF ServerInv, OnlyOf
  <2>4. IrOwns'
    BY <1>1, <2>1 DEF IrOwns, InSession, Holds, OpenDev
  <2> QED BY <2>2, <2>3, <2>4
<1>2. CASE IrMessages
  BY <1>1, <1>2 DEF IrMessages, Goes
<1>3. CASE IrSelect
  <2>1. Goes("ir", "select", "messages")
    BY <1>3 DEF IrSelect
  <2>2. UNCHANGED <<processVars, call, subscribed, cancelled, files, devices>>
    BY <1>3 DEF IrSelect
  <2> QED BY <1>1, <2>1, <2>2 DEF Goes
<1>4. CASE IrCancel \/ IrSelectFails
  <2>1. /\ pc["ir"] # "none" /\ pc' = [pc EXCEPT !["ir"] = AfterMain]
        /\ cancelled' = [cancelled EXCEPT !["ir"] = FALSE]
        /\ UNCHANGED <<version, config, dead, call, subscribed, files, devices>>
    BY <1>4 DEF IrCancel, Cancel, IrSelectFails, Goes, processVars, irVars
  <2>2. ServerInv'
    BY <2>1, ThreadStep, AfterMainIsPlace DEF ServerInv, ServerTypeOK
  <2>3. OnlyOf("ir")
    BY <2>1 DEF ServerInv, OnlyOf
  <2>4. IrOwns'
    BY <2>1 DEF IrOwns, InSession, Holds, OpenDev
  <2> QED BY <2>2, <2>3, <2>4
<1>5. CASE IrQuit
  <2>1. MainQuit("ir", IrFds) /\ devices' = devices
    BY <1>5 DEF IrQuit, irVars
  <2>2. pc["ir"] = "quit" /\ UNCHANGED <<version, subscribed>>
        /\ pc' = [pc EXCEPT !["ir"] = "none"] /\ files' = Closed(IrFds)
    BY <2>1 DEF MainQuit, Goes, processVars
  <2>3. InSession("ir") /\ version # "2.1"
    BY <2>2 DEF InSession, ServerInv
  <2>4. OnlyOf("ir")
    BY <2>2, <2>3, IrFdsAreOwn DEF OnlyOf, ServerInv
  <2>5. IrOwns'
    BY <2>1, <2>2, <2>3 DEF IrOwns, InSession, ServerInv
  <2> QED BY <2>1, <2>4, <2>5, Quitting
<1> QED BY <1>2, <1>3, <1>4, <1>5 DEF IrThread

(* The devices that open get descriptors of their own.                     *)
LEMMA OpeningAll ==
  ASSUME ServerInv, NEW D \in [IrDev -> Fd \union {NoFd}], OpensAll(D)
  PROVE  /\ files' \in [Fd -> Behind]
         /\ \A i \in IrDev : D[i] # NoFd => D[i] \in Fd /\ files'[D[i]] = IrName(i)
         /\ \A m \in Fd : files[m] # "closed" => files'[m] = files[m]
<1> DEFINE Taken == {D[i] : i \in {j \in IrDev : D[j] # NoFd}}
           Owner(n) == CHOOSE i \in IrDev : D[i] = n
<1>1. /\ \A i \in IrDev : D[i] # NoFd => files[D[i]] = "closed"
      /\ \A i, j \in IrDev : D[i] # NoFd /\ D[j] # NoFd /\ i < j => D[i] < D[j]
      /\ files' = [n \in Fd |-> IF n \in Taken THEN IrName(Owner(n)) ELSE files[n]]
  BY DEF OpensAll
<1>2. \A n \in Taken : Owner(n) \in IrDev /\ D[Owner(n)] = n /\ files[n] = "closed"
  BY <1>1
<1>3. \A n \in Taken : IrName(Owner(n)) \in Behind
  BY <1>2 DEF Behind
<1>4. files' \in [Fd -> Behind]
  BY <1>1, <1>3 DEF ServerInv
<1>5. ASSUME NEW i \in IrDev, D[i] # NoFd
      PROVE  D[i] \in Fd /\ files'[D[i]] = IrName(i)
  <2>1. D[i] \in Fd /\ D[i] \in Taken
    BY <1>5
  <2>2. IrDev \subseteq Nat /\ Fd \subseteq Int
    BY IrCountsAssumption DEF IrDev, Fd
  <2>3. Owner(D[i]) = i
    BY <1>1, <1>2, <1>5, <2>1, <2>2
  <2> QED BY <1>1, <2>1, <2>3
<1>6. \A m \in Fd : files[m] # "closed" => files'[m] = files[m]
  BY <1>1, <1>2
<1> QED BY <1>4, <1>5, <1>6

LEMMA IrCallStep ==
  ASSUME ServerInv, IrOwns, IrCall
  PROVE  ServerInv' /\ OnlyOf("ir") /\ IrOwns'
<1> USE DriverAssumption
<1>1. CASE IrSetup
  <2>1. PICK D \in [IrDev -> Fd \union {NoFd}] : OpensAll(D) /\ devices' = D
    BY <1>1 DEF IrSetup
  <2>2. SetUp("ir")
    BY <1>1 DEF IrSetup
  <2>3. /\ files' \in [Fd -> Behind]
        /\ \A i \in IrDev : D[i] # NoFd => D[i] \in Fd /\ files'[D[i]] = IrName(i)
        /\ \A m \in Fd : files[m] # "closed" => files'[m] = files[m]
    BY <2>1, OpeningAll
  <2>4. OnlyOf("ir")
    BY <2>2, <2>3 DEF SetUp, OnlyOf, processVars, ServerInv, ServerTypeOK
  <2>5. IrOwns'
    BY <2>1, <2>3 DEF IrOwns, Holds, OpenDev
  <2> QED BY <2>2, <2>3, <2>4, <2>5, SettingUp
<1>2. CASE IrSetupFails
  <2>1. SetupFails("ir") /\ files' = files /\ dead' = dead /\ devices' = devices
    BY <1>2 DEF IrSetupFails, irVars
  <2>2. ServerInv'
    BY <2>1, FailingSetup DEF ServerInv, ServerTypeOK
  <2> QED BY <2>1, <2>2 DEF SetupFails, OnlyOf, IrOwns, InSession, OpenDev, Holds
<1>3. CASE IrShutdown /\ StopThread("ir")
  <2>1. UNCHANGED <<version, subscribed, pc, files, devices>>
    BY <1>3 DEF StopThread, processVars, IrShutdown, irVars
  <2> QED BY <1>3, <2>1, StoppingThread DEF OnlyOf, IrOwns, InSession, OpenDev, Holds
<1>4. CASE IrShutdown /\ Shutdown("ir", IrFds)
  <2>1. /\ pc["ir"] = "none" /\ subscribed["ir"] /\ UNCHANGED <<version, pc, devices>>
        /\ subscribed' = [subscribed EXCEPT !["ir"] = FALSE]
        /\ files' = IF version = "2.1" THEN Closed(IrFds) ELSE files
    BY <1>4 DEF Shutdown, processVars, CallGoes, ServerInv, IrShutdown, irVars
  <2>2. \A n \in Fd : files[n] \notin NamesOf("ir") \union {"closed"} => files'[n] = files[n]
    BY <2>1, IrFdsAreOwn DEF InSession
  <2>3. OnlyOf("ir") /\ IrOwns'
    BY <2>1, <2>2 DEF OnlyOf, IrOwns, InSession, ServerInv, ServerTypeOK
  <2> QED BY <1>4, <2>3, ShuttingDown
<1> QED BY <1>1, <1>2, <1>3, <1>4 DEF IrCall, IrShutdown

-----------------------------------------------------------------------------
(* The camera.                                                             *)
LEMMA CameraThreadStep ==
  ASSUME ServerInv, CameraOwns, FrameInv, CameraThread \/ CameraPicture
  PROVE  ServerInv' /\ OnlyOf("camera") /\ CameraOwns' /\ FrameInv'
<1> USE DriverAssumption
<1>1. CASE CameraSleep \/ CameraRead \/ CameraReadFails \/ RefreshData
  <2>1. PICK to \in {"grab", "refresh", "messages"} :
          /\ pc["camera"] # "none" /\ pc' = [pc EXCEPT !["camera"] = to]
          /\ UNCHANGED <<processVars, call, subscribed, cancelled, files, videoFd>>
    BY <1>1 DEF CameraSleep, CameraRead, CameraReadFails, RefreshData, Goes, cameraVars
  <2>2. /\ to \in Place /\ to # "quit"
        /\ UNCHANGED <<version, config, dead, call, subscribed, cancelled, files>>
    BY <2>1 DEF processVars, Place
  <2>3. ServerInv'
    BY <2>1, <2>2, ThreadStep DEF ServerInv, ServerTypeOK
  <2>4. OnlyOf("camera") /\ CameraOwns'
    BY <2>1, <2>2 DEF ServerInv, OnlyOf, CameraOwns, InSession, Holds
  <2>5. FrameInv'
    <3>1. CASE CameraSleep
      BY <3>1 DEF CameraSleep, Goes, cameraVars, FrameInv, FramesAreFreed, ServerInv
    <3>2. CASE CameraRead
      BY <3>2 DEF CameraRead, Goes, cameraVars, FrameInv, FramesAreFreed, ServerInv
    <3>3. CASE CameraReadFails
      <4>1. frame /\ heap = 1
        BY <3>3 DEF CameraReadFails, Goes, FrameInv, FramesAreFreed
      <4>2. frame' = FALSE /\ heap' = 0 /\ pc'["camera"] = "messages"
        BY <3>3, <4>1 DEF CameraReadFails, Goes, ServerInv
      <4> QED BY <4>2 DEF FrameInv, FramesAreFreed
    <3>4. CASE RefreshData
      <4>1. frame /\ heap = 1
        BY <3>4 DEF RefreshData, Goes, FrameInv, FramesAreFreed
      <4>2. frame' = FALSE /\ heap' = 0 /\ pc'["camera"] = "messages"
        BY <3>4, <4>1 DEF RefreshData, Goes, ServerInv
      <4> QED BY <4>2 DEF FrameInv, FramesAreFreed
    <3> QED BY <1>1, <3>1, <3>2, <3>3, <3>4
  <2> QED BY <2>3, <2>4, <2>5
<1>2. CASE GrabFrame
  <2>1. CASE frame
    <3>1. dead' = TRUE /\ UNCHANGED <<version, config, call, subscribed, cancelled, files, pc,
                                      videoFd, frame, heap>>
      BY <1>2, <2>1 DEF GrabFrame
    <3> QED BY <3>1 DEF ServerInv, ServerTypeOK, OnlyOf, CameraOwns, InSession, Holds, FrameInv,
              FramesAreFreed
  <2>2. CASE ~frame
    <3>1. /\ pc["camera"] # "none" /\ pc' = [pc EXCEPT !["camera"] = "read"]
          /\ frame' = TRUE /\ heap' = heap + 1
          /\ UNCHANGED <<version, config, dead, call, subscribed, cancelled, files, videoFd>>
      BY <1>2, <2>2 DEF GrabFrame, Goes
    <3>2. "read" \in Place /\ "read" # "quit"
      BY DEF Place
    <3>3. ServerInv'
      BY <3>1, <3>2, ThreadStep DEF ServerInv, ServerTypeOK
    <3>4. OnlyOf("camera") /\ CameraOwns'
      BY <3>1 DEF ServerInv, OnlyOf, CameraOwns, InSession, Holds
    <3>5. FrameInv'
      BY <2>2, <3>1 DEF FrameInv, FramesAreFreed
    <3> QED BY <3>3, <3>4, <3>5
  <2> QED BY <2>1, <2>2
<1>3. CASE CameraCancel
  <2>1. Cancel("camera", {"messages", "read"}) /\ UNCHANGED <<videoFd, frame, heap>>
    BY <1>3 DEF CameraCancel, cameraVars
  <2>2. pc["camera"] # "none" /\ UNCHANGED <<version, subscribed, files>>
        /\ pc' = [pc EXCEPT !["camera"] = AfterMain]
    BY <2>1 DEF Cancel, processVars
  <2>3. OnlyOf("camera") /\ CameraOwns'
    BY <2>1, <2>2 DEF ServerInv, OnlyOf, CameraOwns, InSession, Holds
  <2>4. FrameInv'
    BY <2>1, <2>2 DEF FrameInv, FramesAreFreed, ServerInv, AfterMain
  <2> QED BY <2>1, <2>3, <2>4, Cancelling
<1>4. CASE CameraQuit
  <2>1. MainQuit("camera", {videoFd}) /\ UNCHANGED <<videoFd, frame, heap>>
    BY <1>4 DEF CameraQuit, cameraVars
  <2>2. pc["camera"] = "quit" /\ UNCHANGED <<version, subscribed>>
        /\ pc' = [pc EXCEPT !["camera"] = "none"] /\ files' = Closed({videoFd})
    BY <2>1 DEF MainQuit, Goes, processVars
  <2>3. files[videoFd] = "camera" /\ version # "2.1"
    BY <2>2 DEF CameraOwns, InSession, Holds, ServerInv
  <2>4. OnlyOf("camera")
    BY <2>2, <2>3, ClosingOwn DEF OnlyOf, ServerInv, NamesOf
  <2>5. CameraOwns' /\ FrameInv'
    BY <2>1, <2>2, <2>3 DEF CameraOwns, InSession, ServerInv, FrameInv, FramesAreFreed
  <2> QED BY <2>1, <2>4, <2>5, Quitting
<1> QED BY <1>1, <1>2, <1>3, <1>4 DEF CameraThread, CameraPicture

LEMMA CameraCallStep ==
  ASSUME ServerInv, CameraOwns, FrameInv, CameraCall
  PROVE  ServerInv' /\ OnlyOf("camera") /\ CameraOwns' /\ FrameInv'
<1> USE DriverAssumption
<1>1. CASE CameraSetup
  <2>1. PICK n \in Fd : Opens("camera", n) /\ videoFd' = n
    BY <1>1 DEF CameraSetup
  <2>2. "camera" \in Behind /\ SetUp("camera") /\ UNCHANGED <<frame, heap>>
    BY <1>1 DEF CameraSetup, Behind
  <2>3. files' \in [Fd -> Behind] /\ files'[n] = "camera"
        /\ \A m \in Fd : files[m] # "closed" => files'[m] = files[m]
    BY <2>1, <2>2, Opening
  <2>4. OnlyOf("camera") /\ FrameInv'
    BY <2>2, <2>3 DEF SetUp, OnlyOf, processVars, ServerInv, ServerTypeOK, FrameInv, FramesAreFreed
  <2> QED BY <2>1, <2>2, <2>3, <2>4, SettingUp DEF CameraOwns, Holds
<1>2. CASE CameraOpenFails \/ InitDeviceFails
  <2>1. SetupFails("camera") /\ UNCHANGED <<dead, frame, heap>>
    BY <1>2 DEF CameraOpenFails, InitDeviceFails
  <2>2. /\ files' \in [Fd -> Behind]
        /\ \A m \in Fd : files[m] # "closed" => files'[m] = files[m]
    <3>1. CASE CameraOpenFails
      BY <3>1 DEF CameraOpenFails, ServerInv
    <3>2. CASE InitDeviceFails
      <4>1. PICK n \in Fd : Opens("camera", n)
        BY <3>2 DEF InitDeviceFails
      <4>2. "camera" \in Behind
        BY DEF Behind
      <4> QED BY <4>1, <4>2, Opening
    <3> QED BY <1>2, <3>1, <3>2
  <2>3. ServerInv'
    BY <2>1, <2>2, FailingSetup DEF ServerInv, ServerTypeOK
  <2>4. ~InSession("camera")
    BY <2>1 DEF SetupFails, CallGoes, ServerInv, InSession
  <2> QED BY <2>1, <2>2, <2>3, <2>4
          DEF SetupFails, OnlyOf, CameraOwns, InSession, FrameInv, FramesAreFreed
<1>3. CASE CameraShutdown /\ StopThread("camera")
  <2>1. UNCHANGED <<version, subscribed, pc, files, videoFd, frame, heap>>
    BY <1>3 DEF StopThread, processVars, CameraShutdown, cameraVars
  <2> QED BY <1>3, <2>1, StoppingThread
          DEF OnlyOf, CameraOwns, InSession, Holds, FrameInv, FramesAreFreed
<1>4. CASE CameraShutdown /\ Shutdown("camera", {videoFd})
  <2>1. /\ pc["camera"] = "none" /\ subscribed["camera"]
        /\ UNCHANGED <<version, pc, videoFd, frame, heap>>
        /\ subscribed' = [subscribed EXCEPT !["camera"] = FALSE]
        /\ files' = IF version = "2.1" THEN Closed({videoFd}) ELSE files
    BY <1>4 DEF Shutdown, processVars, CallGoes, ServerInv, CameraShutdown, cameraVars
  <2>2. version = "2.1" => files[videoFd] = "camera"
    BY <2>1 DEF CameraOwns, InSession, Holds
  <2>3. \A n \in Fd : files[n] \notin NamesOf("camera") \union {"closed"} => files'[n] = files[n]
    <3>1. CASE version = "2.1"
      <4>1. files' = Closed({videoFd})
        BY <3>1, <2>1
      <4>2. \A n \in {videoFd} : n \in Fd => files[n] \in NamesOf("camera")
        BY <3>1, <2>2 DEF NamesOf
      <4> QED BY <4>1, <4>2, ClosingOwn
    <3> QED BY <3>1, <2>1
  <2>4. OnlyOf("camera") /\ CameraOwns' /\ FrameInv'
    BY <2>1, <2>3 DEF OnlyOf, CameraOwns, InSession, ServerInv, ServerTypeOK, FrameInv,
         FramesAreFreed
  <2> QED BY <1>4, <2>4, ShuttingDown
<1> QED BY <1>1, <1>2, <1>3, <1>4 DEF CameraCall, CameraShutdown

-----------------------------------------------------------------------------
(* The links of the radio network.                                         *)
LEMMA LowBytes ==
  ASSUME NEW line \in Line
  PROVE  /\ line[1] % 256 \in Nat /\ line[2] % 256 \in Nat /\ line[3] \in Nat
         /\ Lower(line) \in Nat /\ Upper(line) \in Nat /\ Lower(line) <= Upper(line)
         /\ Ends(line) = {Lower(line), Upper(line)}
<1>1. line[1] \in Nat /\ line[2] \in Nat /\ line[3] \in Nat
  BY DEF Line
<1>2. line[1] % 256 \in Nat /\ line[2] % 256 \in Nat
  BY <1>1
<1> QED BY <1>1, <1>2 DEF Lower, Upper, Ends

(* The mean of two values lies between them.                               *)
LEMMA MeanIsBetween ==
  ASSUME NEW v \in Nat, NEW w \in Nat
  PROVE  /\ (v + w) \div 2 \in Nat /\ (v <= w \/ w <= v)
         /\ v <= w => v <= (v + w) \div 2 /\ (v + w) \div 2 <= w
         /\ w <= v => w <= (v + w) \div 2 /\ (v + w) \div 2 <= v
OBVIOUS

(* An empty list has the links of no line.                                 *)
LEMMA NothingMerged ==
  ASSUME answer' = <<>>, merged' = 0, links' = <<>>
  PROVE  LinksInv'
BY DEF LinksInv

(* What is said of the links is kept by merging a line.                    *)
LEMMA MergingLine ==
  ASSUME LinksInv, merged < Len(answer), answer[merged + 1] # NoLine,
         links' = WithLine(answer[merged + 1]), merged' = merged + 1, answer' = answer
  PROVE  LinksInv'
<1> DEFINE line == answer[merged + 1]
           n == Len(links)
<1>1. /\ answer \in Seq(Line \union {NoLine}) /\ merged \in 0..Len(answer) /\ links \in Seq(Link)
      /\ n \in Nat
  BY DEF LinksInv
<1>2. line \in Line /\ merged + 1 \in 1..Len(answer) /\ merged \in Nat
  BY <1>1
<1>3. /\ Lower(line) \in Nat /\ Upper(line) \in Nat /\ Lower(line) <= Upper(line)
      /\ line[3] \in Nat
  BY <1>2, LowBytes
<1>4. \A k \in 1..merged : k \in 1..(merged + 1) /\ answer[k] \in Line /\ answer[k][3] \in Nat
  <2>1. \A k \in 1..merged : answer[k] \in Line
    BY DEF LinksInv
  <2> QED BY <1>2, <2>1, LowBytes
<1>5. \A k \in 1..merged' : answer'[k] \in Line
  BY <1>1, <1>2, <1>4
<1>6. merged' \in 0..Len(answer')
  BY <1>1, <1>2
<1>7. CASE \E i \in DOMAIN links : SameLink(links[i], line)
  <2>1. PICK i \in 1..n : SameLink(links[i], line)
    BY <1>7, <1>1
  <2>2. \A j \in 1..n : links[j] \in Link
    BY <1>1
  <2>3. \A j \in 1..n : SameLink(links[j], line) <=> j = i
    BY <2>1, <2>2 DEF LinksInv, SameLink
  <2>4. links' = [j \in 1..n |-> IF j = i
                   THEN [links[j] EXCEPT !.value = (links[j].value + line[3]) \div 2] ELSE links[j]]
    <3>1. links' = [j \in DOMAIN links |->
                     IF SameLink(links[j], line)
                     THEN [links[j] EXCEPT !.value = (links[j].value + line[3]) \div 2]
                     ELSE links[j]]
      BY <1>7 DEF WithLine
    <3>2. DOMAIN links = 1..n
      BY <1>1
    <3> QED BY <2>3, <3>1, <3>2
  <2> DEFINE mean == (links[i].value + line[3]) \div 2
  <2>5. links[i].value \in Nat /\ mean \in Nat
    BY <1>3, <2>1, <2>2, MeanIsBetween DEF Link
  <2>6. /\ links'[i] = [start |-> links[i].start, end |-> links[i].end, value |-> mean]
        /\ \A j \in 1..n : j # i => links'[j] = links[j]
    BY <2>1, <2>2, <2>4 DEF Link
  <2>7. links' \in Seq(Link) /\ Len(links') = n
    <3>1. \A j \in 1..n : links'[j] \in Link
      <4>1. links[i].start \in Nat /\ links[i].end \in Nat
        BY <2>1, <2>2 DEF Link
      <4>2. links'[i] \in Link
        BY <2>5, <2>6, <4>1 DEF Link
      <4> QED BY <2>2, <2>6, <4>2
    <3>2. links' \in [1..n -> Link]
      BY <2>4, <3>1
    <3> QED BY <1>1, <3>2
  <2>8. \A j \in 1..n : links'[j].start = links[j].start /\ links'[j].end = links[j].end
    BY <2>6
  <2>9. \A j \in 1..n : \A l \in Line : SameLink(links'[j], l) <=> SameLink(links[j], l)
    BY <2>8 DEF SameLink
  <2>10. \A k \in 1..merged' : \E j \in 1..Len(links') : SameLink(links'[j], answer'[k])
    <3>1. \A k \in 1..merged : \E j \in 1..n : SameLink(links'[j], answer[k])
      BY <1>4, <2>9 DEF LinksInv
    <3>2. SameLink(links'[i], line)
      BY <1>2, <2>1, <2>9
    <3> QED BY <1>2, <2>1, <2>7, <3>1, <3>2
  <2>11. /\ line[3] <= links[i].value => line[3] <= mean /\ mean <= links[i].value
         /\ links[i].value <= line[3] => links[i].value <= mean /\ mean <= line[3]
         /\ line[3] <= links[i].value \/ links[i].value <= line[3]
    BY <1>3, <2>5, MeanIsBetween
  <2> HIDE DEF mean
  <2>12. \A j \in 1..Len(links') :
           Bounded(links[j], answer, merged) => Bounded(links'[j], answer, merged')
    <3> SUFFICES ASSUME NEW j \in 1..n, Bounded(links[j], answer, merged)
                 PROVE  Bounded(links'[j], answer, merged')
      BY <2>7
    <3>1. PICK k \in 1..merged, m \in 1..merged :
            /\ SameLink(links[j], answer[k]) /\ SameLink(links[j], answer[m])
            /\ answer[k][3] <= links[j].value /\ links[j].value <= answer[m][3]
      BY DEF Bounded
    <3>2. /\ k \in 1..merged' /\ m \in 1..merged' /\ merged + 1 \in 1..merged'
          /\ answer[k] \in Line /\ answer[m] \in Line
          /\ answer[k][3] \in Nat /\ answer[m][3] \in Nat
          /\ SameLink(links'[j], answer[k]) /\ SameLink(links'[j], answer[m])
      <4>1. k \in 1..merged' /\ m \in 1..merged' /\ merged + 1 \in 1..merged'
        BY <1>2
      <4>2. /\ answer[k] \in Line /\ answer[m] \in Line
            /\ answer[k][3] \in Nat /\ answer[m][3] \in Nat
        BY <1>4
      <4> QED BY <2>9, <3>1, <4>1, <4>2
    <3>3. CASE j # i
      BY <2>6, <3>1, <3>2, <3>3 DEF Bounded
    <3>4. CASE j = i
      <4>1. SameLink(links'[j], line) /\ links'[j].value = mean
        BY <1>2, <2>1, <2>6, <2>9, <3>4
      <4>2. CASE line[3] <= links[i].value
        <5>1. line[3] <= mean /\ mean <= links[i].value
          BY <4>2, <2>11
        <5>2. mean <= answer[m][3]
          <6>1. links[i].value <= answer[m][3] /\ answer[m][3] \in Nat
            BY <3>1, <3>2, <3>4
          <6> QED BY SMTT(20), <6>1, <5>1, <2>5
        <5> QED BY <4>1, <5>1, <5>2, <3>2 DEF Bounded
      <4>3. CASE links[i].value <= line[3]
        <5>1. links[i].value <= mean /\ mean <= line[3]
          BY <4>3, <2>11
        <5>2. answer[k][3] <= mean
          <6>1. answer[k][3] <= links[i].value /\ answer[k][3] \in Nat
            BY <3>1, <3>2, <3>4
          <6> QED BY SMTT(20), <6>1, <5>1, <2>5
        <5> QED BY <4>1, <5>1, <5>2, <3>2 DEF Bounded
      <4> QED BY <2>11, <4>2, <4>3, Zenon
    <3> QED BY <3>3, <3>4
  <2>13. \A j \in 1..Len(links') :
           links'[j].start <= links'[j].end /\ Bounded(links'[j], answer', merged')
    BY <2>7, <2>8, <2>12 DEF LinksInv
  <2>14. \A j, k \in 1..Len(links') :
           j # k => ~(links'[j].start = links'[k].start /\ links'[j].end = links'[k].end)
    <3>1. \A j, k \in 1..n :
            j # k => ~(links[j].start = links[k].start /\ links[j].end = links[k].end)
      BY DEF LinksInv
    <3> QED BY <2>7, <2>8, <3>1
  <2>15. Len(links') <= merged'
    BY <1>2, <1>1, <2>7 DEF LinksInv
  <2> QED BY <1>1, <1>5, <1>6, <2>7, <2>10, <2>13, <2>14, <2>15 DEF LinksInv
<1>8. CASE ~\E i \in DOMAIN links : SameLink(links[i], line)
  <2> DEFINE new == [start |-> Lower(line), end |-> Upper(line), value |-> line[3]]
  <2>1. links' = Append(links, new) /\ new \in Link
    BY <1>8, <1>3 DEF WithLine, Link
  <2>2. /\ links' \in Seq(Link) /\ Len(links') = n + 1 /\ links'[n + 1] = new
        /\ \A j \in 1..n : links'[j] = links[j] /\ links[j] \in Link
    BY <1>1, <2>1
  <2>3. /\ SameLink(new, line)
        /\ \A j \in 1..n : ~(links[j].start = new.start /\ links[j].end = new.end)
    BY <1>1, <1>8 DEF SameLink
  <2>4. \A k \in 1..merged' : \E j \in 1..Len(links') : SameLink(links'[j], answer'[k])
    <3>1. \A k \in 1..merged : \E j \in 1..n : SameLink(links[j], answer[k])
      BY DEF LinksInv
    <3>2. \A k \in 1..merged : \E j \in 1..(n + 1) : SameLink(links'[j], answer[k])
      <4> SUFFICES ASSUME NEW k \in 1..merged
                   PROVE  \E j \in 1..(n + 1) : SameLink(links'[j], answer[k])
        OBVIOUS
      <4>1. PICK j \in 1..n : SameLink(links[j], answer[k])
        BY <3>1
      <4>2. j \in 1..(n + 1) /\ links'[j] = links[j]
        BY <1>1, <2>2
      <4> QED BY <4>1, <4>2
    <3>3. n + 1 \in 1..(n + 1) /\ SameLink(links'[n + 1], answer[merged + 1])
      BY <1>1, <2>2, <2>3
    <3>4. \A k \in 1..merged' : k \in 1..merged \/ k = merged + 1
      BY <1>2
    <3>5. \A k \in 1..merged' : \E j \in 1..(n + 1) : SameLink(links'[j], answer[k])
      BY <3>2, <3>3, <3>4
    <3> QED BY <2>2, <3>5
  <2>5. ASSUME NEW j \in 1..n
        PROVE  links'[j].start <= links'[j].end /\ Bounded(links'[j], answer', merged')
    <3>1. PICK k \in 1..merged, m \in 1..merged :
            /\ SameLink(links[j], answer[k]) /\ SameLink(links[j], answer[m])
            /\ answer[k][3] <= links[j].value /\ links[j].value <= answer[m][3]
      BY DEF LinksInv, Bounded
    <3>2. k \in 1..merged' /\ m \in 1..merged'
      BY <1>2
    <3>3. links[j].start <= links[j].end
      BY DEF LinksInv
    <3> QED BY <2>2, <3>1, <3>2, <3>3 DEF Bounded
  <2>6. new.start <= new.end /\ Bounded(new, answer', merged')
    <3>1. merged + 1 \in 1..merged' /\ new.value = line[3] /\ line[3] <= line[3]
      BY <1>2, <1>3
    <3> QED BY <1>3, <2>3, <3>1 DEF Bounded
  <2>7. \A j \in 1..Len(links') :
          links'[j].start <= links'[j].end /\ Bounded(links'[j], answer', merged')
    BY <1>1, <2>2, <2>5, <2>6
  <2>8. \A j, k \in 1..Len(links') :
          j # k => ~(links'[j].start = links'[k].start /\ links'[j].end = links'[k].end)
    <3>1. \A j, k \in 1..n :
            j # k => ~(links[j].start = links[k].start /\ links[j].end = links[k].end)
      BY DEF LinksInv
    <3> SUFFICES ASSUME NEW j \in 1..(n + 1), NEW k \in 1..(n + 1), j # k
                 PROVE  ~(links'[j].start = links'[k].start /\ links'[j].end = links'[k].end)
      BY <2>2
    <3>2. CASE j \in 1..n /\ k \in 1..n
      <4>1. links'[j] = links[j] /\ links'[k] = links[k]
        BY <2>2, <3>2
      <4> QED BY <3>1, <3>2, <4>1
    <3>3. CASE j = n + 1 /\ k \in 1..n
      BY <2>2, <2>3, <3>3
    <3>4. CASE k = n + 1 /\ j \in 1..n
      BY <2>2, <2>3, <3>4
    <3> QED BY <1>1, <3>2, <3>3, <3>4
  <2>9. Len(links') <= merged'
    BY <1>2, <1>1, <2>2 DEF LinksInv
  <2> QED BY <1>1, <1>5, <1>6, <2>2, <2>4, <2>7, <2>8, <2>9 DEF LinksInv
<1> QED BY <1>7, <1>8

(* The invariant says that links are published once, with fair values.     *)
LEMMA LinksInvariant == LinksInv => LinksOfAnswer
<1> SUFFICES ASSUME LinksInv PROVE LinksOfAnswer
  OBVIOUS
<1>1. /\ links \in Seq(Link) /\ merged \in 0..Len(answer) /\ Len(answer) \in Nat
      /\ DOMAIN links = 1..Len(links) /\ Range(links) = {links[i] : i \in 1..Len(links)}
  BY DEF LinksInv, Range
<1>2. ASSUME NEW k \in 1..merged, NEW l, SameLink(l, answer[k])
      PROVE  Ends(answer[k]) = {l.start, l.end}
  BY <1>2, LowBytes DEF LinksInv, SameLink
<1>3. \A i \in 1..Len(links) : \E k \in 1..merged : Ends(answer[k]) = {links[i].start, links[i].end}
  BY <1>2 DEF LinksInv, Bounded
<1>4. \A k \in 1..merged : \E i \in 1..Len(links) : Ends(answer[k]) = {links[i].start, links[i].end}
  BY <1>2 DEF LinksInv
<1>5. {{l.start, l.end} : l \in Range(links)} = {Ends(answer[k]) : k \in 1..merged}
  <2> DEFINE Linked == {{l.start, l.end} : l \in Range(links)}
             Heard == {Ends(answer[k]) : k \in 1..merged}
  <2>1. ASSUME NEW l \in Range(links) PROVE {l.start, l.end} \in Heard
    <3>1. PICK i \in 1..Len(links) : l = links[i]
      BY <1>1
    <3> QED BY <1>3, <3>1
  <2>2. ASSUME NEW k \in 1..merged PROVE Ends(answer[k]) \in Linked
    <3>1. PICK i \in 1..Len(links) : Ends(answer[k]) = {links[i].start, links[i].end}
      BY <1>4
    <3>2. links[i] \in Range(links)
      BY <1>1
    <3> QED BY <3>1, <3>2
  <2> QED BY <2>1, <2>2
<1>6. ASSUME NEW i \in DOMAIN links, NEW j \in DOMAIN links, i # j
      PROVE  {links[i].start, links[i].end} # {links[j].start, links[j].end}
  <2>1. links[i] \in Link /\ links[j] \in Link
    BY <1>1
  <2>2. /\ links[i].start \in Nat /\ links[i].end \in Nat
        /\ links[j].start \in Nat /\ links[j].end \in Nat
    BY <2>1 DEF Link
  <2>3. /\ links[i].start <= links[i].end /\ links[j].start <= links[j].end
        /\ ~(links[i].start = links[j].start /\ links[i].end = links[j].end)
    BY <1>1, <1>6 DEF LinksInv
  <2> QED BY <2>2, <2>3
<1>7. ASSUME NEW l \in Range(links)
      PROVE  \E k, m \in 1..merged :
               /\ Ends(answer[k]) = {l.start, l.end} /\ Ends(answer[m]) = {l.start, l.end}
               /\ answer[k][3] <= l.value /\ l.value <= answer[m][3]
  <2>1. Bounded(l, answer, merged)
    BY <1>1 DEF LinksInv
  <2> QED BY <1>2, <2>1 DEF Bounded
<1> QED BY <1>5, <1>6, <1>7 DEF LinksOfAnswer

(* The steps of the olsrd thread, and the answers of the daemon.           *)
LEMMA OlsrdThreadStep ==
  ASSUME ServerInv, OlsrdOwns, MergeInv, OlsrdThread \/ OlsrdAnswer
  PROVE  ServerInv' /\ OnlyOf("olsrd") /\ OlsrdOwns' /\ MergeInv'
<1> USE DriverAssumption
<1> DEFINE moves(to) ==
      /\ pc["olsrd"] # "none" /\ pc' = [pc EXCEPT !["olsrd"] = to]
      /\ UNCHANGED <<version, config, call, subscribed, cancelled>>
      /\ dead' \in BOOLEAN
<1>1. ASSUME NEW to \in Place \ {"quit"}, moves(to), files' \in [Fd -> Behind],
             \A n \in Fd : files[n] \notin {"olsrd", "closed"} => files'[n] = files[n]
      PROVE  ServerInv' /\ OnlyOf("olsrd") /\ pc'["olsrd"] = to
  <2>1. ServerInv'
    BY <1>1, ThreadStep DEF ServerInv, ServerTypeOK
  <2> QED BY <1>1, <2>1 DEF OnlyOf, NamesOf, ServerInv
<1>2. ASSUME pc["olsrd"] \in {"connect", "read", "merge", "close"}, files' = Closed({sock})
      PROVE  /\ files' \in [Fd -> Behind]
             /\ \A n \in Fd : files[n] \notin {"olsrd", "closed"} => files'[n] = files[n]
  <2>1. files[sock] = "olsrd"
    BY <1>2 DEF OlsrdOwns, Holds
  <2> QED BY <1>2, <2>1, ClosingType
<1>3. CASE OlsrdSocket
  <2>1. CASE Goes("olsrd", "messages", "connect")
    <3>1. PICK n \in Fd : Opens("olsrd", n) /\ sock' = n
      BY <1>3, <2>1 DEF OlsrdSocket, Goes, ServerInv
    <3>2. files' \in [Fd -> Behind] /\ files'[n] = "olsrd"
          /\ \A m \in Fd : files[m] # "closed" => files'[m] = files[m]
      BY <3>1, Opening DEF Behind
    <3>3. moves("connect") /\ UNCHANGED <<answer, merged, links>>
      BY <1>3, <2>1 DEF OlsrdSocket, otherThanFiles, processVars, Goes, ServerInv, ServerTypeOK
    <3>4. ServerInv' /\ OnlyOf("olsrd") /\ pc'["olsrd"] = "connect"
      BY <1>1, <3>2, <3>3 DEF Place
    <3>5. OlsrdOwns'
      BY <3>1, <3>2 DEF OlsrdOwns, Holds
    <3>6. MergeInv'
      BY <2>1, <3>3, <3>4 DEF MergeInv, LinksInv, Goes
    <3> QED BY <3>4, <3>5, <3>6
  <2>2. CASE Goes("olsrd", "messages", "publish") /\ files' = files
    <3>1. moves("publish") /\ UNCHANGED <<answer, merged, links>>
      BY <1>3, <2>2 DEF OlsrdSocket, otherThanFiles, processVars, Goes, ServerInv, ServerTypeOK
    <3>2. ServerInv' /\ OnlyOf("olsrd") /\ pc'["olsrd"] = "publish"
      BY <1>1, <2>2, <3>1 DEF Place, ServerInv
    <3> QED BY <3>1, <3>2 DEF OlsrdOwns, MergeInv, LinksInv
  <2> QED BY <1>3, <2>1, <2>2 DEF OlsrdSocket
<1>4. CASE OlsrdConnect \/ OlsrdSleep
  <2>1. PICK to \in {"read", "messages"} :
          /\ moves(to) /\ UNCHANGED <<files, sock, answer, merged, links>>
          /\ to = "read" => pc["olsrd"] = "connect"
          /\ pc["olsrd"] \in {"connect", "sleep"}
    BY <1>4 DEF OlsrdConnect, OlsrdSleep, otherThanFiles, olsrdVars, processVars, Goes, ServerInv,
         ServerTypeOK
  <2>2. ServerInv' /\ OnlyOf("olsrd") /\ pc'["olsrd"] = to
    BY <1>1, <2>1 DEF Place, ServerInv
  <2>3. OlsrdOwns'
    BY <2>1, <2>2 DEF OlsrdOwns, Holds
  <2>4. MergeInv'
    BY <2>1, <2>2 DEF MergeInv, LinksInv
  <2> QED BY <2>2, <2>3, <2>4
<1>5. CASE OlsrdGivesUp \/ OlsrdClose
  <2>1. /\ pc["olsrd"] \in {"connect", "read", "close"} /\ moves("publish")
        /\ files' = Closed({sock}) /\ UNCHANGED <<answer, merged, links>>
    BY <1>5 DEF OlsrdGivesUp, OlsrdClose, otherThanFiles, olsrdVars, processVars, Goes, ServerInv,
         ServerTypeOK
  <2>2. ServerInv' /\ OnlyOf("olsrd") /\ pc'["olsrd"] = "publish"
    BY <1>1, <1>2, <2>1 DEF Place
  <2> QED BY <2>1, <2>2 DEF OlsrdOwns, MergeInv, LinksInv
<1>6. CASE OlsrdRead
  <2>1. /\ pc["olsrd"] = "read" /\ moves("merge") /\ UNCHANGED <<files, sock, merged, links>>
    BY <1>6 DEF OlsrdRead, otherThanFiles, processVars, Goes, ServerInv, ServerTypeOK
  <2>2. ServerInv' /\ OnlyOf("olsrd") /\ pc'["olsrd"] = "merge"
    BY <1>1, <2>1 DEF Place, ServerInv
  <2>3. OlsrdOwns'
    BY <2>1 DEF OlsrdOwns, Holds
  <2>4. PICK whole \in Answers : \E n \in 1..Len(whole) : answer' = SubSeq(whole, 1, n)
    BY <1>6 DEF OlsrdRead
  <2>5. answer' \in Seq(Line \union {NoLine})
    BY <2>4, AnswersAssumption DEF Line
  <2>6. merged = 0 /\ links = <<>>
    BY <2>1 DEF MergeInv
  <2>7. LinksInv'
    BY <2>1, <2>5, <2>6 DEF LinksInv
  <2> QED BY <2>2, <2>3, <2>7 DEF MergeInv
<1>7. CASE OlsrdReadCut
  <2>1. /\ pc["olsrd"] = "read" /\ moves("none") /\ UNCHANGED <<files, sock, answer, merged, links>>
    BY <1>7 DEF OlsrdReadCut, olsrdVars, Goes
  <2>2. ServerInv' /\ OnlyOf("olsrd") /\ pc'["olsrd"] = "none"
    BY <1>1, <2>1 DEF Place, ServerInv
  <2> QED BY <2>1, <2>2 DEF OlsrdOwns, MergeInv, LinksInv
<1>8. CASE OlsrdMerge
  <2>1. /\ pc["olsrd"] = "merge" /\ merged < Len(answer) /\ answer[merged + 1] # NoLine
        /\ links' = WithLine(answer[merged + 1]) /\ merged' = merged + 1
        /\ UNCHANGED <<version, config, call, subscribed, pc, cancelled, files, dead, sock, answer>>
    BY <1>8 DEF OlsrdMerge, serverVars, processVars, threadVars
  <2>2. LinksInv'
    BY <2>1, MergingLine DEF MergeInv
  <2>3. ServerInv' /\ OnlyOf("olsrd") /\ OlsrdOwns'
    BY <2>1 DEF ServerInv, ServerTypeOK, OnlyOf, OlsrdOwns, Holds
  <2> QED BY <2>1, <2>2, <2>3 DEF MergeInv
<1>9. CASE OlsrdMergeEnds
  <2>1. pc["olsrd"] = "merge" /\ moves("close") /\ UNCHANGED <<files, sock, answer, merged, links>>
    BY <1>9 DEF OlsrdMergeEnds, otherThanFiles, olsrdVars, processVars, Goes, ServerInv, ServerTypeOK
  <2>2. ServerInv' /\ OnlyOf("olsrd") /\ pc'["olsrd"] = "close"
    BY <1>1, <2>1 DEF Place, ServerInv
  <2> QED BY <2>1, <2>2 DEF OlsrdOwns, MergeInv, LinksInv, Holds
<1>10. CASE OlsrdPublish
  <2>1. /\ moves("sleep") /\ files' = files /\ answer' = <<>> /\ merged' = 0 /\ links' = <<>>
    BY <1>10 DEF OlsrdPublish, processVars, Goes, ServerInv, ServerTypeOK
  <2>2. ServerInv' /\ OnlyOf("olsrd") /\ pc'["olsrd"] = "sleep"
    BY <1>1, <2>1 DEF Place, ServerInv
  <2> QED BY <2>1, <2>2, NothingMerged DEF OlsrdOwns, MergeInv
<1>11. CASE OlsrdCancel
  <2>1. /\ Cancel("olsrd", {"messages", "connect", "read", "close", "sleep"})
        /\ answer' = <<>> /\ merged' = 0 /\ links' = <<>>
    BY <1>11 DEF OlsrdCancel
  <2>2. /\ pc' = [pc EXCEPT !["olsrd"] = AfterMain] /\ UNCHANGED <<version, subscribed, files>>
    BY <2>1 DEF Cancel, processVars
  <2>3. pc'["olsrd"] \in {"none", "quit"} /\ OnlyOf("olsrd")
    BY <2>2 DEF ServerInv, OnlyOf, AfterMain
  <2> QED BY <2>1, <2>3, Cancelling, NothingMerged DEF OlsrdOwns, MergeInv
<1>12. CASE OlsrdQuit
  <2>1. MainQuit("olsrd", {}) /\ UNCHANGED <<answer, merged, links>>
    BY <1>12 DEF OlsrdQuit, olsrdVars
  <2>2. /\ pc["olsrd"] = "quit" /\ pc' = [pc EXCEPT !["olsrd"] = "none"]
        /\ UNCHANGED <<version, subscribed>> /\ files' = Closed({})
    BY <2>1 DEF MainQuit, Goes, processVars
  <2>3. OnlyOf("olsrd") /\ pc'["olsrd"] = "none"
    BY <2>2, ClosingType DEF ServerInv, OnlyOf
  <2> QED BY <2>1, <2>2, <2>3, Quitting DEF OlsrdOwns, MergeInv, LinksInv
<1> QED BY <1>3, <1>4, <1>5, <1>6, <1>7, <1>8, <1>9, <1>10, <1>11, <1>12
        DEF OlsrdThread, OlsrdAnswer

(* What the server calls of the olsrd driver.                              *)
LEMMA OlsrdCallStep ==
  ASSUME ServerInv, OlsrdOwns, MergeInv, OlsrdCall
  PROVE  ServerInv' /\ OnlyOf("olsrd") /\ OlsrdOwns' /\ MergeInv'
<1> USE DriverAssumption
<1>1. UNCHANGED <<sock, answer, merged, links>>
  BY DEF OlsrdCall, OlsrdSetup, OlsrdSetupFails, OlsrdShutdown, olsrdVars
<1>2. CASE OlsrdSetup
  <2>1. SetUp("olsrd") /\ files' = files
    BY <1>2 DEF OlsrdSetup
  <2>2. pc["olsrd"] = "none" /\ pc'["olsrd"] = "messages" /\ OnlyOf("olsrd")
    BY <2>1 DEF SetUp, CallGoes, ServerInv, ServerTypeOK, OnlyOf, processVars
  <2>3. ServerInv'
    BY <2>1, SettingUp DEF ServerInv
  <2> QED BY <1>1, <2>2, <2>3 DEF OlsrdOwns, MergeInv, LinksInv
<1>3. CASE OlsrdSetupFails
  <2>1. SetupFails("olsrd") /\ UNCHANGED <<files, dead>>
    BY <1>3 DEF OlsrdSetupFails
  <2>2. UNCHANGED <<version, subscribed, pc>>
    BY <2>1 DEF SetupFails
  <2>3. ServerInv'
    BY <2>1, FailingSetup DEF ServerInv, ServerTypeOK
  <2> QED BY <1>1, <2>1, <2>2, <2>3 DEF OnlyOf, OlsrdOwns, Holds, MergeInv, LinksInv
<1>4. CASE OlsrdShutdown /\ StopThread("olsrd")
  <2>1. UNCHANGED <<version, subscribed, pc, files>>
    BY <1>4 DEF StopThread, processVars
  <2> QED BY <1>1, <1>4, <2>1, StoppingThread DEF OnlyOf, OlsrdOwns, Holds, MergeInv, LinksInv
<1>5. CASE OlsrdShutdown /\ Shutdown("olsrd", {})
  <2>1. /\ pc["olsrd"] = "none" /\ UNCHANGED <<version, pc>>
        /\ subscribed' = [subscribed EXCEPT !["olsrd"] = FALSE]
        /\ files' = IF version = "2.1" THEN Closed({}) ELSE files
    BY <1>5 DEF Shutdown, processVars
  <2>2. \A n \in Fd : files'[n] = files[n]
    BY <2>1, ClosingType
  <2>3. OnlyOf("olsrd")
    BY <2>1, <2>2 DEF OnlyOf, ServerInv, ServerTypeOK
  <2> QED BY <1>1, <1>5, <2>1, <2>3, ShuttingDown DEF OlsrdOwns, MergeInv, LinksInv
<1> QED BY <1>2, <1>3, <1>4, <1>5 DEF OlsrdCall, OlsrdShutdown

-----------------------------------------------------------------------------
(* The server as a whole.                                                  *)
LEMMA PlayerInvInitially ==
  ASSUME NEW release \in {"2.1", "3.0"}, NEW drivers \in SUBSET Driver, NEW robot, NEW follows,
         PlayerInit(release, drivers, robot, follows)
  PROVE  PlayerInv
<1> USE DriverAssumption DEF PlayerInit
<1>1. ServerInv
  BY DEF ServerInit, ServerInv, ServerTypeOK, Behind, Place
<1>2. OwnInv
  BY DEF ServerInit, IrInit, OwnInv, BaseOwns, IrOwns, CameraOwns, OlsrdOwns, InSession
<1>3. FrameInv
  BY DEF ServerInit, CameraInit, FrameInv, FramesAreFreed
<1>4. MergeInv
  BY DEF OlsrdInit, MergeInv, LinksInv
<1> QED BY <1>1, <1>2, <1>3, <1>4 DEF PlayerInv

(* What clients do, and polls, changes neither threads nor descriptors.    *)
LEMMA DriversUndisturbed ==
  ASSUME PlayerInv, ServerInv',
         UNCHANGED <<version, pc, subscribed, files, device, devices, videoFd, frame, heap, olsrdVars>>
  PROVE  PlayerInv'
<1>1. OwnInv'
  BY DEF PlayerInv, OwnInv, BaseOwns, IrOwns, CameraOwns, OlsrdOwns, InSession, OpenDev, Holds,
     olsrdVars
<1>2. FrameInv' /\ MergeInv'
  BY DEF PlayerInv, FrameInv, FramesAreFreed, MergeInv, LinksInv, olsrdVars
<1> QED BY <1>1, <1>2 DEF PlayerInv

(* What changes none of its variables keeps the invariant of the server.   *)
LEMMA ServerUndisturbed ==
  ASSUME ServerInv, UNCHANGED <<processVars, threadVars, files>>
  PROVE  ServerInv'
BY DEF ServerInv, ServerTypeOK, processVars, threadVars

(* Clients subscribe and unsubscribe, and ask.                             *)
LEMMA ClientStep ==
  ASSUME PlayerInv, Clients \/ Tick
  PROVE  PlayerInv'
<1>1. CASE \E d \in Driver : (Subscribe(d) \/ Unsubscribe(d)) /\ UNCHANGED driverVars
  <2>1. ServerInv'
    BY <1>1, Subscribing DEF PlayerInv
  <2>2. UNCHANGED <<version, pc, subscribed, files>>
    BY <1>1 DEF Subscribe, Unsubscribe, processVars
  <2> QED BY <1>1, <2>1, <2>2, DriversUndisturbed DEF driverVars, baseVars, irVars, cameraVars
<1>2. CASE AskPoses /\ UNCHANGED <<baseVars, cameraVars, olsrdVars>>
  <2>1. UNCHANGED <<processVars, threadVars, files, devices>>
    BY <1>2 DEF AskPoses, serverVars
  <2>2. ServerInv'
    BY <2>1, ServerUndisturbed DEF PlayerInv
  <2> QED BY <1>2, <2>1, <2>2, DriversUndisturbed DEF processVars, threadVars, baseVars, cameraVars
<1>3. CASE Tick
  <2>1. UNCHANGED <<processVars, threadVars, files, driverVars>>
    BY <1>3 DEF Tick
  <2>2. ServerInv'
    BY <2>1, ServerUndisturbed DEF PlayerInv
  <2> QED BY <2>1, <2>2, DriversUndisturbed
          DEF processVars, threadVars, driverVars, baseVars, irVars, cameraVars
<1> QED BY <1>1, <1>2, <1>3 DEF Clients

(* The base driver at work keeps what the others hold ...                  *)
LEMMA BaseAtWork ==
  ASSUME PlayerInv, BaseThread \/ BaseCall \/ RemoveBase, UNCHANGED <<irVars, cameraVars, olsrdVars>>
  PROVE  PlayerInv'
<1>1. ServerInv' /\ OnlyOf("base") /\ BaseOwns'
  BY BaseStep DEF PlayerInv, OwnInv
<1>2. UNCHANGED <<devices, videoFd, frame, heap, sock, answer, merged, links>>
  BY DEF irVars, cameraVars, olsrdVars
<1>3. IrOwns' /\ CameraOwns' /\ OlsrdOwns' /\ FrameInv'
  BY <1>1, <1>2, IrUndisturbed, CameraUndisturbed, OlsrdUndisturbed, FrameUndisturbed
     DEF PlayerInv, OwnInv
<1>4. MergeInv'
  BY <1>1, <1>2, MergeUndisturbed DEF PlayerInv
<1> QED BY <1>1, <1>3, <1>4 DEF PlayerInv, OwnInv

(* ... and so do the infrared driver ...                                   *)
LEMMA IrAtWork ==
  ASSUME PlayerInv, IrThread \/ IrSelectFails \/ IrCall, UNCHANGED <<baseVars, cameraVars, olsrdVars>>
  PROVE  PlayerInv'
<1>1. ServerInv' /\ OnlyOf("ir") /\ IrOwns'
  BY IrThreadStep, IrCallStep DEF PlayerInv, OwnInv
<1>2. UNCHANGED <<device, videoFd, frame, heap, sock, answer, merged, links>>
  BY DEF baseVars, cameraVars, olsrdVars
<1>3. BaseOwns' /\ CameraOwns' /\ OlsrdOwns' /\ FrameInv'
  BY <1>1, <1>2, BaseUndisturbed, CameraUndisturbed, OlsrdUndisturbed, FrameUndisturbed
     DEF PlayerInv, OwnInv
<1>4. MergeInv'
  BY <1>1, <1>2, MergeUndisturbed DEF PlayerInv
<1> QED BY <1>1, <1>3, <1>4 DEF PlayerInv, OwnInv

(* ... the camera driver ...                                               *)
LEMMA CameraAtWork ==
  ASSUME PlayerInv, CameraNext, UNCHANGED <<baseVars, irVars, olsrdVars>>
  PROVE  PlayerInv'
<1>1. ServerInv' /\ OnlyOf("camera") /\ CameraOwns' /\ FrameInv'
  BY CameraThreadStep, CameraCallStep DEF PlayerInv, OwnInv, CameraNext
<1>2. UNCHANGED <<device, devices, sock, answer, merged, links>>
  BY DEF baseVars, irVars, olsrdVars
<1>3. BaseOwns' /\ IrOwns' /\ OlsrdOwns'
  BY <1>1, <1>2, BaseUndisturbed, IrUndisturbed, OlsrdUndisturbed DEF PlayerInv, OwnInv
<1>4. MergeInv'
  BY <1>1, <1>2, MergeUndisturbed DEF PlayerInv
<1> QED BY <1>1, <1>3, <1>4 DEF PlayerInv, OwnInv

(* ... and the olsrd driver.                                               *)
LEMMA OlsrdAtWork ==
  ASSUME PlayerInv, OlsrdNext, UNCHANGED <<baseVars, irVars, cameraVars>>
  PROVE  PlayerInv'
<1>1. ServerInv' /\ OnlyOf("olsrd") /\ OlsrdOwns' /\ MergeInv'
  BY OlsrdThreadStep, OlsrdCallStep DEF PlayerInv, OwnInv, OlsrdNext
<1>2. UNCHANGED <<device, devices, videoFd, frame, heap>>
  BY DEF baseVars, irVars, cameraVars
<1>3. BaseOwns' /\ IrOwns' /\ CameraOwns' /\ FrameInv'
  BY <1>1, <1>2, BaseUndisturbed, IrUndisturbed, CameraUndisturbed, FrameUndisturbed
     DEF PlayerInv, OwnInv
<1> QED BY <1>1, <1>3 DEF PlayerInv, OwnInv

(* What follow does is subscribing, or changes no thread and no descriptor.*)
LEMMA FollowAtWork ==
  ASSUME PlayerInv, FollowNext
  PROVE  PlayerInv'
<1>1. UNCHANGED <<cameraVars, olsrdVars>>
  BY DEF FollowNext
<1>2. CASE Connect \/ Leave
  <2>1. UNCHANGED <<baseVars, irVars>>
    BY <1>2 DEF Connect, Leave
  <2>2. \E d \in Driver : Subscribe(d) \/ Unsubscribe(d)
    BY <1>2, DriverAssumption DEF Connect, Leave
  <2>3. ServerInv' /\ UNCHANGED <<version, pc, subscribed, files>>
    BY <2>2, Subscribing DEF PlayerInv, Subscribe, Unsubscribe, processVars
  <2> QED BY <1>1, <2>1, <2>3, DriversUndisturbed DEF baseVars, irVars, cameraVars
<1>3. CASE ConnectFails
  <2>1. CASE BaseSetupFails /\ UNCHANGED irVars
    BY <1>1, <2>1, BaseAtWork DEF BaseCall
  <2>2. CASE IrSetupFails /\ UNCHANGED baseVars
    BY <1>1, <2>2, IrAtWork DEF IrCall
  <2> QED BY <1>3, <2>1, <2>2 DEF ConnectFails
<1>4. CASE FirstRead \/ Drive \/ Connected \/ Geometry \/ GeometryFails \/ Loop \/ Stop \/ Interrupt
  <2>1. UNCHANGED <<processVars, threadVars, files, device, devices>>
    BY <1>4 DEF FirstRead, Drive, Reads, Connected, Geometry, GeometryFails, Loop, Stop, Interrupt,
         serverVars, baseVars, irVars
  <2>2. ServerInv'
    BY <2>1, ServerUndisturbed DEF PlayerInv
  <2> QED BY <1>1, <2>1, <2>2, DriversUndisturbed DEF processVars, threadVars, cameraVars
<1> QED BY <1>2, <1>3, <1>4 DEF FollowNext, FollowStep

(* Every step of the server keeps the invariant.                           *)
LEMMA PlayerInvStep == PlayerInv /\ [PlayerNext]_playerVars => PlayerInv'
<1> SUFFICES ASSUME PlayerInv, [PlayerNext]_playerVars PROVE PlayerInv'
  OBVIOUS
<1>1. CASE Clients \/ Tick
  BY <1>1, ClientStep
<1>2. CASE FollowNext
  BY <1>2, FollowAtWork
<1>3. CASE BaseSteps
  BY <1>3, BaseAtWork DEF BaseSteps, BaseCall
<1>4. CASE IrSteps
  BY <1>4, IrAtWork DEF IrSteps, IrCall
<1>5. CASE CameraSteps
  BY <1>5, CameraAtWork DEF CameraSteps
<1>6. CASE OlsrdSteps
  BY <1>6, OlsrdAtWork DEF OlsrdSteps
<1>7. CASE UNCHANGED playerVars
  <2>1. UNCHANGED <<processVars, threadVars, files, driverVars>>
    BY <1>7 DEF playerVars, serverVars
  <2>2. ServerInv'
    BY <2>1, ServerUndisturbed DEF PlayerInv
  <2> QED BY <2>1, <2>2, DriversUndisturbed
          DEF processVars, threadVars, driverVars, baseVars, irVars, cameraVars
<1> QED BY <1>1, <1>2, <1>3, <1>4, <1>5, <1>6, <1>7 DEF PlayerNext

(* The invariant of the server holds in every scenario.                    *)
LEMMA PlayerInvariance == Spec => []PlayerInv
<1>1. Init => PlayerInv
  BY PlayerInvInitially, ScenarioAssumption DEF Init
<1>2. PlayerInv /\ [Next]_vars => PlayerInv'
  <2>1. [Next]_vars => [PlayerNext]_playerVars
    BY DEF Next, vars
  <2> QED BY <2>1, PlayerInvStep
<1> QED BY <1>1, <1>2, PTL DEF Spec

(* As long as the thread of a driver may use its descriptors they are its  *)
(* own, whichever drivers are set up, fail, are cancelled anywhere, or     *)
(* lose descriptors, and whichever release closes them in which thread.    *)
THEOREM DriversOwnDescriptors == Spec => []OwnDescriptors
<1>1. PlayerInv => OwnDescriptors
  BY DEF PlayerInv, OwnInv, BaseOwns, IrOwns, CameraOwns, OlsrdOwns, InSession, OwnDescriptors
<1> QED BY <1>1, PlayerInvariance, PTL

(* No frame is lost, wherever the camera's thread is cancelled: the one    *)
(* that is allocated is the one data points to.                            *)
THEOREM NoFrameIsLost == Spec => []FramesAreFreed
<1>1. PlayerInv => FramesAreFreed
  BY DEF PlayerInv, FrameInv
<1> QED BY <1>1, PlayerInvariance, PTL

(* The links published are those of the answer, each once, with a value    *)
(* between those of its lines: for answers of any length, with lines in    *)
(* any order, of any addresses and values.                                 *)
THEOREM LinksAreThoseOfAnswer == Spec => []LinksOfAnswer
<1>1. PlayerInv => LinksOfAnswer
  BY LinksInvariant DEF PlayerInv, MergeInv
<1> QED BY <1>1, PlayerInvariance, PTL

-----------------------------------------------------------------------------
(* The mask of the infrared sensors. Only the steps of its writers change  *)
(* it, and they keep the invariant of Infrared_proofs.                     *)
(* What a write asked for is in force when its transfer is over, and what  *)
(* was reported last is what is in force: for any number of writers.       *)
THEOREM MaskInForce == Spec => []MaskIsInForce
<1>1. Init => MaskInv
  BY MaskInvInitially DEF Init
<1>2. MaskInv /\ [Next]_vars => MaskInv'
  <2>1. [Next]_vars => [BebotIrNext]_bebotIrVars
    BY DEF Next, vars
  <2> QED BY <2>1, MaskInvStep
<1> QED BY <1>1, <1>2, MaskInvariant, PTL DEF Spec

-----------------------------------------------------------------------------
(* A program that uses the library.                                        *)

(* The four nodes and their order.                                         *)
LEMMA NodesInOrder ==
  /\ Nodes = {"base", "ir", "ir0", "ir1"}
  /\ Node[1] = "base" /\ Node[2] = "ir" /\ Node[3] = "ir0" /\ Node[4] = "ir1"
<1>1. Node[1] = "base" /\ Node[2] = "ir" /\ Node[3] = "ir0" /\ Node[4] = "ir1"
  BY DEF Node
<1>2. 1..4 = {1, 2, 3, 4}
  OBVIOUS
<1> QED BY <1>1, <1>2 DEF Nodes

(* The sequence of the nodes that open.                                    *)
LEMMA InOrderType ==
  ASSUME NEW S \in SUBSET Nodes, NEW opening \in SUBSET S
  PROVE  InOrder(opening) \in Seq(S)
<1> DEFINE Part(i) == IF Node[i] \in opening THEN <<Node[i]>> ELSE <<>>
<1>1. ASSUME NEW i \in 1..4 PROVE Part(i) \in Seq(S)
  OBVIOUS
<1> HIDE DEF Part
<1>2. Part(1) \in Seq(S) /\ Part(2) \in Seq(S) /\ Part(3) \in Seq(S) /\ Part(4) \in Seq(S)
  BY <1>1
<1>3. Part(1) \o Part(2) \o Part(3) \o Part(4) \in Seq(S)
  BY <1>2
<1> QED BY <1>3 DEF InOrder, Part

(* A sequence with another, of one element or of none, after it.           *)
LEMMA Extending ==
  ASSUME NEW S, NEW s \in Seq(S), NEW t \in Seq(S)
  PROVE  /\ Len(t) = 0 => s \o t = s
         /\ Len(t) = 1 => /\ Len(s \o t) = Len(s) + 1
                          /\ \A i \in 1..Len(s) : (s \o t)[i] = s[i]
                          /\ (s \o t)[Len(s) + 1] = t[1]
<1>1. s \o t \in Seq(S) /\ Len(s \o t) = Len(s) + Len(t)
  OBVIOUS
<1>2. \A i \in 1..Len(s) : (s \o t)[i] = s[i]
  OBVIOUS
<1>3. CASE Len(t) = 0
  BY <1>1, <1>2, <1>3
<1>4. CASE Len(t) = 1
  <2>1. \A j \in 1..Len(t) : (s \o t)[Len(s) + j] = t[j]
    OBVIOUS
  <2> QED BY <1>1, <1>2, <1>4, <2>1
<1> QED BY <1>3, <1>4

(* The nodes of the two kinds of robots.                                   *)
IsOld(s) == Len(s) = 2 /\ s[1] = "base" /\ s[2] = "ir"

IsNew(s) == Len(s) = 3 /\ s[1] = "base" /\ s[2] = "ir0" /\ s[3] = "ir1"

(* The masks accepted are those of the two kinds of robots.                *)
LEMMA AcceptedInOrder ==
  ASSUME NEW opening \in SUBSET Nodes, Accepted(opening)
  PROVE  IsOld(InOrder(opening)) \/ IsNew(InOrder(opening))
<1> DEFINE Bit(i, value) == IF Node[i] \in opening THEN value ELSE 0
           Part(i) == IF Node[i] \in opening THEN <<Node[i]>> ELSE <<>>
           first == Part(1) \o Part(2)
           second == first \o Part(3)
           third == second \o Part(4)
<1>1. Bit(1, 1) + Bit(2, 2) + Bit(3, 4) + Bit(4, 8) \in {3, 13}
  BY DEF Accepted, Mask
<1>2. \/ Node[1] \in opening /\ Node[2] \in opening /\ Node[3] \notin opening /\ Node[4] \notin opening
      \/ Node[1] \in opening /\ Node[2] \notin opening /\ Node[3] \in opening /\ Node[4] \in opening
  BY <1>1
<1>3. ASSUME NEW i \in 1..4
      PROVE  /\ Part(i) \in Seq(Nodes)
             /\ Len(Part(i)) = IF Node[i] \in opening THEN 1 ELSE 0
             /\ Node[i] \in opening => Part(i)[1] = Node[i]
  OBVIOUS
<1> HIDE DEF Part
<1>4. first \in Seq(Nodes) /\ second \in Seq(Nodes) /\ third \in Seq(Nodes)
  BY <1>3
<1>5. CASE Node[1] \in opening /\ Node[2] \in opening /\ Node[3] \notin opening /\ Node[4] \notin opening
  <2>1. Len(Part(1)) = 1 /\ Len(Part(2)) = 1 /\ Len(Part(3)) = 0 /\ Len(Part(4)) = 0
    BY <1>3, <1>5
  <2>2. third = second /\ second = first
    <3>1. /\ first \in Seq(Nodes) /\ Part(3) \in Seq(Nodes) /\ Len(Part(3)) = 0
          /\ second \in Seq(Nodes) /\ Part(4) \in Seq(Nodes) /\ Len(Part(4)) = 0
      BY <1>3, <1>4, <2>1
    <3> QED BY <3>1, Extending, Zenon
  <2>3. Len(first) = 2 /\ first[1] = Node[1] /\ first[2] = Node[2]
    BY <1>3, <1>5, <2>1, Extending
  <2> QED BY <2>2, <2>3, NodesInOrder DEF InOrder, IsOld, Part
<1>6. CASE Node[1] \in opening /\ Node[2] \notin opening /\ Node[3] \in opening /\ Node[4] \in opening
  <2>1. Len(Part(1)) = 1 /\ Len(Part(2)) = 0 /\ Len(Part(3)) = 1 /\ Len(Part(4)) = 1
    BY <1>3, <1>6
  <2>2. first = Part(1)
    <3>1. Part(1) \in Seq(Nodes) /\ Part(2) \in Seq(Nodes) /\ Len(Part(2)) = 0
      BY <1>3, <2>1
    <3> QED BY <3>1, Extending, Zenon
  <2>3. Len(second) = 2 /\ second[1] = Node[1] /\ second[2] = Node[3]
    <3>1. first \in Seq(Nodes) /\ Part(3) \in Seq(Nodes) /\ Len(Part(3)) = 1
      BY <1>3, <1>4, <2>1
    <3>2. /\ Len(second) = Len(first) + 1 /\ second[Len(first) + 1] = Part(3)[1]
          /\ \A i \in 1..Len(first) : second[i] = first[i]
      BY <3>1, Extending, Zenon
    <3> QED BY <1>3, <1>6, <2>1, <2>2, <3>2
  <2> HIDE DEF second
  <2>4. Len(third) = 3 /\ third[1] = Node[1] /\ third[2] = Node[3] /\ third[3] = Node[4]
    <3>1. /\ Len(third) = Len(second) + 1 /\ third[Len(second) + 1] = Part(4)[1]
          /\ \A i \in 1..Len(second) : third[i] = second[i]
      <4>1. second \in Seq(Nodes) /\ Part(4) \in Seq(Nodes)
        BY <1>3, <1>4
      <4> QED BY <2>1, <4>1, Extending
    <3> QED BY <1>3, <1>6, <2>3, <3>1
  <2> QED BY <2>4, NodesInOrder DEF InOrder, IsNew, Part, second
<1> QED BY <1>2, <1>5, <1>6

(* bebot_init leaves the descriptors at the places of their nodes.         *)
LEMMA OpeningInPlace ==
  ASSUME NEW opening \in SUBSET Nodes, bebot_init(opening)
  PROVE  DevicesInPlace'
<1> SUFFICES ASSUME opened' = TRUE
             PROVE  \A i \in DOMAIN fd' : /\ i = 1 <=> fd'[i] = "base"
                                          /\ i > 1 => Offset(i) = FirstSensor(fd'[i])
  BY DEF DevicesInPlace
<1>1. Accepted(opening)
  BY DEF bebot_init
<1>2. InOrder(opening) \in Seq(Nodes) /\ (IsOld(InOrder(opening)) \/ IsNew(InOrder(opening)))
  BY <1>1, AcceptedInOrder, InOrderType
<1>3. fd' = InOrder(opening)
  BY <1>2 DEF bebot_init, IsOld, IsNew
<1>4. CASE IsOld(fd')
  <2>1. DOMAIN fd' = 1..2
    BY <1>2, <1>3, <1>4 DEF IsOld
  <2> QED BY <1>4, <2>1 DEF IsOld, Offset, FirstSensor
<1>5. CASE IsNew(fd')
  <2>1. DOMAIN fd' = 1..3
    BY <1>2, <1>3, <1>5 DEF IsNew
  <2> QED BY <1>5, <2>1 DEF IsNew, Offset, FirstSensor
<1> QED BY <1>2, <1>3, <1>4, <1>5

(* Closing keeps the places.                                               *)
LEMMA InPlaceUndisturbed ==
  ASSUME DevicesInPlace, fd' = fd, opened' \in {opened, FALSE}
  PROVE  DevicesInPlace'
BY DEF DevicesInPlace

(* Only bebot_init opens.                                                  *)
LEMMA InPlaceStep == ClientTypeOK /\ DevicesInPlace /\ [Next]_vars => DevicesInPlace'
<1> SUFFICES ASSUME ClientTypeOK, DevicesInPlace, [Next]_vars PROVE DevicesInPlace'
  OBVIOUS
<1>1. CASE \E opening \in SUBSET present : bebot_init(opening)
  BY <1>1, OpeningInPlace DEF ClientTypeOK
<1>2. CASE fd' = fd /\ opened' \in {opened, FALSE}
  BY <1>2, InPlaceUndisturbed
<1>3. CASE AvoidNext
  BY <1>1, <1>2, <1>3 DEF AvoidNext, Start, Round, LeaveLoop, Move, Poll, RemoveDevice
<1>4. CASE WiiNext
  BY <1>1, <1>2, <1>4
     DEF WiiNext, Pair, Control, Home, PollFails, LeaveRobot, Press, Lose, Poll, RemoveDevice, clientVars
<1>5. CASE UNCHANGED clientVars
  BY <1>2, <1>5 DEF clientVars
<1> QED BY <1>3, <1>4, <1>5 DEF Next, vars

(* A program begins with nothing open and nothing seen.                    *)
LEMMA ClientTypeInitially ==
  ASSUME NEW names \in SUBSET Nodes, ClientInit(names)
  PROVE  ClientTypeOK
<1>1. Dark \in [Ring -> Nat] /\ <<0, 0>> \in Int \X Int
  BY DEF Dark
<1>2. fd \in Seq(present) /\ Len(fd) = 0 /\ opened \in BOOLEAN
  <2>1. <<>> \in Seq(present) /\ Len(<<>>) = 0
    OBVIOUS
  <2> QED BY <2>1 DEF ClientInit
<1> QED BY <1>1, <1>2 DEF ClientInit, ClientTypeOK

(* Integer division of the speeds.                                         *)
LEMMA QuotientType ==
  ASSUME NEW a \in Int, NEW b \in {10, 15, 20}
  PROVE  Quotient(a, b) \in Int
BY DEF Quotient

(* Opening keeps the types of the library.                                 *)
LEMMA OpeningType ==
  ASSUME ClientTypeOK, NEW opening \in SUBSET present, bebot_init(opening)
  PROVE  ClientTypeOK'
<1> DEFINE s == InOrder(opening)
<1>1. s \in Seq(present) /\ Len(s) \in Nat
  BY InOrderType DEF ClientTypeOK
<1> HIDE DEF s
<1>2. UNCHANGED <<present, gone, motors, scene>> /\ waiting' = [d \in Nodes |-> Nothing] /\ seen' = Dark
      /\ opened' \in BOOLEAN /\ fd' = IF Len(s) > 3 THEN SubSeq(s, 1, 3) ELSE s
  BY DEF bebot_init, s
<1>3. fd' \in Seq(present') /\ Len(fd') <= 3
  <2>1. CASE Len(s) > 3
    <3>1. SubSeq(s, 1, 3) \in Seq(present) /\ Len(SubSeq(s, 1, 3)) = 3
      BY <1>1, <2>1
    <3> QED BY <1>2, <2>1, <3>1
  <2>2. CASE ~(Len(s) > 3)
    BY <1>1, <1>2, <2>2
  <2> QED BY <2>1, <2>2
<1>4. Dark \in [Ring -> Nat]
  BY DEF Dark
<1> QED BY <1>2, <1>3, <1>4 DEF ClientTypeOK

(* What is read is measured of twelve sensors.                             *)
LEMMA UpdatingType ==
  ASSUME ClientTypeOK, bebot_update
  PROVE  seen' \in [Ring -> Nat] /\ waiting' \in [Nodes -> Scenes \union {Dark, Nothing}]
<1> DEFINE Slots(i) == IF i = 1 THEN {} ELSE Offset(i)..(Offset(i) + 5)
           Value(i, k) == waiting[fd[i]][FirstSensor(fd[i]) + k - Offset(i)]
<1>1. ASSUME NEW i \in Synced, NEW k \in Ring, k \in Slots(i)
      PROVE  Value(i, k) \in Nat
  <2>1. fd[i] \in Nodes /\ waiting[fd[i]] # Nothing
    BY DEF Synced, ClientTypeOK
  <2>2. waiting[fd[i]] \in [Ring -> Nat]
    BY <2>1, SceneAssumption DEF ClientTypeOK, Dark
  <2>3. FirstSensor(fd[i]) + k - Offset(i) \in Ring
    BY <1>1 DEF FirstSensor, Offset, Ring
  <2> QED BY <2>2, <2>3
<1>2. seen' = [k \in Ring |->
                 IF \E i \in Synced : k \in Slots(i)
                 THEN LET i == CHOOSE i \in Synced : k \in Slots(i) IN Value(i, k)
                 ELSE seen[k]]
  BY DEF bebot_update
<1> HIDE DEF Value, Slots
<1>3. ASSUME NEW k \in Ring PROVE seen'[k] \in Nat
  <2>1. CASE \E i \in Synced : k \in Slots(i)
    <3> DEFINE c == CHOOSE i \in Synced : k \in Slots(i)
    <3>1. c \in Synced /\ k \in Slots(c)
      BY <2>1
    <3>2. seen'[k] = Value(c, k)
      BY <1>2, <2>1
    <3> HIDE DEF c
    <3> QED BY <1>1, <3>1, <3>2
  <2>2. CASE ~ \E i \in Synced : k \in Slots(i)
    BY <1>2, <2>2 DEF ClientTypeOK
  <2> QED BY <2>1, <2>2
<1>4. seen' \in [Ring -> Nat]
  BY <1>2, <1>3
<1>5. waiting' \in [Nodes -> Scenes \union {Dark, Nothing}]
  BY DEF bebot_update, ClientTypeOK
<1> QED BY <1>4, <1>5

(* Setting the speed keeps them.                                           *)
LEMMA SpeedType ==
  ASSUME motors \in Int \X Int, NEW left \in Int, NEW right \in Int, bebot_set_speed(left, right)
  PROVE  motors' \in Int \X Int
BY DEF bebot_set_speed

(* Polls and removals of the devices keep them.                            *)
LEMMA DeviceStepType ==
  ASSUME ClientTypeOK, Move \/ \E d \in Nodes : Poll(d) \/ RemoveDevice(d)
  PROVE  ClientTypeOK'
<1>1. CASE Move
  BY <1>1 DEF Move, ClientTypeOK
<1>2. ASSUME NEW d \in Nodes, Poll(d) PROVE ClientTypeOK'
  BY <1>2 DEF Poll, ClientTypeOK
<1>3. ASSUME NEW d \in Nodes, RemoveDevice(d) PROVE ClientTypeOK'
  <2>1. d \in present
    BY <1>3 DEF RemoveDevice, ClientTypeOK, Range
  <2>2. gone' \subseteq present /\ motors' \in Int \X Int
    BY <1>3, <2>1 DEF RemoveDevice, ClientTypeOK
  <2> QED BY <1>3, <2>2 DEF RemoveDevice, ClientTypeOK
<1> QED BY <1>1, <1>2, <1>3

-----------------------------------------------------------------------------
(* avoid.                                                                  *)
LEMMA AvoidSpeeds ==
  ASSUME NEW b \in [Ring -> Nat]
  PROVE  Left(b) \in Int /\ Right(b) \in Int
<1>1. \A k \in Ring : Counted(b[k]) \in Int
  BY DEF Counted
<1>2. Ahead(b) \in Int /\ Turn(b) \in Int
  BY <1>1 DEF Ahead, Turn, Ring
<1>3. Quotient(Ahead(b), Scale) \in Int /\ Quotient(Turn(b), Scale) \in Int
  BY <1>2, QuotientType DEF Scale
<1> QED BY <1>3 DEF Left, Right, Straight

(* Every step of avoid keeps its types.                                    *)
LEMMA AvoidTypeStep ==
  ASSUME AvoidTypeOK, AvoidNext
  PROVE  AvoidTypeOK'
<1>1. CASE Start
  <2>1. ClientTypeOK'
    BY <1>1, OpeningType DEF Start, AvoidTypeOK
  <2> QED BY <1>1, <2>1 DEF Start, AvoidTypeOK
<1>2. CASE Round
  <2>1. seen' \in [Ring -> Nat] /\ waiting' \in [Nodes -> Scenes \union {Dark, Nothing}]
    BY <1>2, UpdatingType DEF Round, AvoidTypeOK
  <2>2. Left(seen') \in Int /\ Right(seen') \in Int
    BY <2>1, AvoidSpeeds
  <2>3. motors' \in Int \X Int /\ run' \in BOOLEAN
    <3>1. CASE UNCHANGED <<run, motors>>
      BY <3>1 DEF AvoidTypeOK, ClientTypeOK
    <3>2. CASE Act(seen')
      <4>1. \/ UNCHANGED motors
            \/ bebot_set_speed(0, 0)
            \/ bebot_set_speed(Left(seen'), Right(seen'))
        BY <3>2 DEF Act
      <4>2. run' \in BOOLEAN
        BY <3>2 DEF Act, AvoidTypeOK, BackCovered
      <4> QED BY <2>2, <4>1, <4>2, SpeedType DEF AvoidTypeOK, ClientTypeOK
    <3> QED BY <1>2, <3>1, <3>2 DEF Round
  <2> QED BY <1>2, <2>1, <2>3 DEF Round, AvoidTypeOK, ClientTypeOK
<1>3. CASE LeaveLoop
  BY <1>3 DEF LeaveLoop, AvoidTypeOK, ClientTypeOK
<1>4. CASE (Move \/ \E d \in Nodes : Poll(d) \/ RemoveDevice(d)) /\ UNCHANGED <<avoidPc, run>>
  BY <1>4, DeviceStepType DEF AvoidTypeOK
<1> QED BY <1>1, <1>2, <1>3, <1>4 DEF AvoidNext

-----------------------------------------------------------------------------
(* wiibot.                                                                 *)
LEMMA LimitType ==
  ASSUME NEW a \in Int, NEW b \in Int, NEW c \in Int
  PROVE  limit(a, b, c) \in Int
BY DEF limit

(* The level stays between its limits, in its steps.                       *)
LEMMA LevelType ==
  ASSUME WiiTypeOK, NEW down
  PROVE  NewLevel(down) \in {50, 100, 150, 200, 250, 300}
<1> DEFINE plus == IF "PLUS" \in down THEN limit(0, level + 50, 300) ELSE level
<1>1. plus \in {50, 100, 150, 200, 250, 300}
  BY DEF WiiTypeOK, limit
<1> HIDE DEF plus
<1>2. limit(plus - 50, 50, 300) \in {50, 100, 150, 200, 250, 300}
  BY <1>1 DEF limit
<1> QED BY <1>1, <1>2 DEF NewLevel, plus

(* The speeds of a direction are integers.                                 *)
LEMMA SpeedsType ==
  ASSUME NEW ahead \in Int, NEW turn \in Int, level' \in Int
  PROVE  Speeds(ahead, turn)[1] \in Int /\ Speeds(ahead, turn)[2] \in Int
<1> DEFINE a == Quotient(ahead * level', 10)
           t == Quotient(turn * level', 15)
<1>1. ahead * level' \in Int /\ turn * level' \in Int
  OBVIOUS
<1>2. a \in Int /\ t \in Int
  BY <1>1, QuotientType
<1> HIDE DEF a, t
<1>3. limit(-300, a + t, 300) \in Int /\ limit(-300, a - t, 300) \in Int
  <2>1. a + t \in Int /\ a - t \in Int /\ -300 \in Int /\ 300 \in Int
    BY <1>2
  <2>2. limit(-300, a + t, 300) \in Int
    BY <2>1 DEF limit
  <2>3. limit(-300, a - t, 300) \in Int
    BY <2>1 DEF limit
  <2> QED BY <2>2, <2>3
<1>4. Speeds(ahead, turn) = <<limit(-300, a + t, 300), limit(-300, a - t, 300)>>
  BY DEF Speeds, a, t
<1> QED BY <1>3, <1>4

(* The speeds wiibot asks for are integers.                                *)
LEMMA SteeringType ==
  ASSUME motors \in Int \X Int, level' \in Int, NEW s, Steer(s)
  PROVE  motors' \in Int \X Int
<1>1. ASSUME NEW ahead \in Int, NEW turn \in Int,
             bebot_set_speed(Speeds(ahead, turn)[1], Speeds(ahead, turn)[2])
      PROVE  motors' \in Int \X Int
  BY <1>1, SpeedsType, SpeedType
<1>2. CASE "B" \in s
  <2>1. PICK tilt \in Tilts :
          LET speeds == Speeds(limit(-10, tilt[1], 10), limit(-10, tilt[2], 10))
          IN bebot_set_speed(speeds[1], speeds[2])
    BY <1>2 DEF Steer
  <2>2. limit(-10, tilt[1], 10) \in Int /\ limit(-10, tilt[2], 10) \in Int
    <3>1. tilt[1] \in Int /\ tilt[2] \in Int /\ -10 \in Int /\ 10 \in Int
      BY TiltAssumption
    <3> QED BY <3>1, LimitType
  <2> QED BY <1>1, <2>1, <2>2
<1>3. CASE "B" \notin s
  <2>1. By("UP", "DOWN", s) \in Int /\ By("RIGHT", "LEFT", s) \in Int
    BY DEF By
  <2> QED BY <1>1, <1>3, <2>1 DEF Steer
<1> QED BY <1>2, <1>3

Buttons == Presses \union {{}, {"PLUS", "MINUS"}}

(* The buttons remembered are buttons that were pressed together.          *)
LEMMA ButtonTypes ==
  ASSUME wiiPc' \in {wiiPc, "pair", "loop", "exit"},
         pressed' \in {pressed} \union Presses, state' \in {state, pressed},
         buttons' \in {buttons, state'}, lost' \in BOOLEAN,
         level' \in {50, 100, 150, 200, 250, 300}, WiiTypeOK
  PROVE  WiiTypeOK'
<1>1. pressed \in Buttons /\ state \in Buttons /\ buttons \in Buttons
  BY DEF WiiTypeOK, Buttons
<1>2. pressed' \in Buttons /\ state' \in Buttons /\ buttons' \in Buttons
  BY <1>1 DEF Buttons
<1>3. {pressed', state', buttons'} \subseteq Buttons
  BY <1>2
<1>4. wiiPc' \in {"absent", "pair", "loop", "exit"}
  BY DEF WiiTypeOK
<1> QED BY <1>3, <1>4 DEF WiiTypeOK, Buttons

(* Every step of wiibot keeps its types.                                   *)
LEMMA WiiTypeStep ==
  ASSUME ClientTypeOK, WiiTypeOK, WiiNext
  PROVE  ClientTypeOK' /\ WiiTypeOK'
<1>1. CASE Pair
  <2>1. PICK opening \in SUBSET present : bebot_init(opening)
    BY <1>1 DEF Pair
  <2>2. ClientTypeOK'
    BY <2>1, OpeningType
  <2>3. wiiPc' \in {"loop", "exit"} /\ state' = pressed /\ lost' = FALSE
        /\ UNCHANGED <<pressed, buttons, level>>
    BY <1>1 DEF Pair
  <2>4. /\ wiiPc' \in {wiiPc, "pair", "loop", "exit"} /\ pressed' \in {pressed} \union Presses
        /\ state' \in {state, pressed} /\ buttons' \in {buttons, state'} /\ lost' \in BOOLEAN
    BY <2>3
  <2>5. level' \in {50, 100, 150, 200, 250, 300}
    BY <2>3 DEF WiiTypeOK
  <2> QED BY <2>2, <2>4, <2>5, ButtonTypes
<1>2. CASE Control
  <2>1. /\ bebot_update /\ state' \in {state, pressed} /\ level' = NewLevel(state' \ buttons)
        /\ buttons' = state' /\ Steer(state')
        /\ UNCHANGED <<present, gone, fd, opened, scene, wiiPc, pressed, lost>>
    BY <1>2 DEF Control
  <2>2. level' \in {50, 100, 150, 200, 250, 300}
    BY <2>1, LevelType
  <2>3. motors' \in Int \X Int
    BY <2>1, <2>2, SteeringType DEF ClientTypeOK
  <2>4. seen' \in [Ring -> Nat] /\ waiting' \in [Nodes -> Scenes \union {Dark, Nothing}]
    BY <2>1, UpdatingType
  <2>5. ClientTypeOK'
    BY <2>1, <2>3, <2>4 DEF ClientTypeOK
  <2>6. WiiTypeOK'
    BY <2>1, <2>2 DEF WiiTypeOK
  <2> QED BY <2>5, <2>6
<1>3. CASE Home \/ PollFails
  <2>1. LeaveRobot
    BY <1>3 DEF Home, PollFails
  <2>2. /\ UNCHANGED <<present, gone, fd, waiting, seen, motors, scene>> /\ opened' = FALSE
        /\ wiiPc' = "pair" /\ UNCHANGED <<pressed, lost, state, buttons, level>>
    BY <2>1 DEF LeaveRobot
  <2>3. ClientTypeOK'
    BY <2>2 DEF ClientTypeOK
  <2>4. lost' \in BOOLEAN /\ level' \in {50, 100, 150, 200, 250, 300}
    BY <2>2 DEF WiiTypeOK
  <2> QED BY <2>2, <2>3, <2>4, ButtonTypes
<1>4. CASE Press \/ Lose
  <2>1. ClientTypeOK'
    BY <1>4 DEF Press, Lose, clientVars, ClientTypeOK
  <2>2. CASE Press
    <3>1. /\ pressed' \in Presses /\ UNCHANGED <<wiiPc, lost, state, buttons, level>>
          /\ lost \in BOOLEAN /\ level \in {50, 100, 150, 200, 250, 300}
      BY <2>2 DEF Press, WiiTypeOK
    <3> QED BY <2>1, <3>1, ButtonTypes
  <2>3. CASE Lose
    <3>1. /\ lost' = TRUE /\ UNCHANGED <<wiiPc, pressed, state, buttons, level>>
          /\ level \in {50, 100, 150, 200, 250, 300}
      BY <2>3 DEF Lose, WiiTypeOK
    <3> QED BY <2>1, <3>1, ButtonTypes
  <2> QED BY <1>4, <2>1, <2>2, <2>3
<1>5. CASE (\E d \in Nodes : Poll(d) \/ RemoveDevice(d)) /\ UNCHANGED WiiOwn
  BY <1>5, DeviceStepType DEF WiiTypeOK, WiiOwn
<1> QED BY <1>1, <1>2, <1>3, <1>4, <1>5 DEF WiiNext

(* Every step of the robot keeps the types of both programs.               *)
LEMMA ProgramsTypeStep ==
  ASSUME AvoidTypeOK, WiiTypeOK, [Next]_vars
  PROVE  AvoidTypeOK' /\ WiiTypeOK'
<1>1. CASE AvoidNext /\ UNCHANGED WiiOwn
  BY <1>1, AvoidTypeStep DEF WiiOwn, WiiTypeOK
<1>2. CASE WiiNext /\ UNCHANGED <<avoidPc, run>>
  BY <1>2, WiiTypeStep DEF AvoidTypeOK
<1>3. CASE UNCHANGED <<clientVars, avoidPc, run, WiiOwn>>
  BY <1>3 DEF clientVars, WiiOwn, AvoidTypeOK, ClientTypeOK, WiiTypeOK
<1> QED BY <1>1, <1>2, <1>3 DEF Next, vars

-----------------------------------------------------------------------------
(* The types of the drivers and of follow, as their steps keep them.       *)

(* What the drivers may find ready, and the client in its inbox.           *)
Delivered ==
  /\ ready \subseteq {"base"} \union {IrName(i) : i \in IrDev}
  /\ inbox \subseteq Driver

(* The rest of the types of the infrared driver.                           *)
IrTypes ==
  /\ pc["ir"] \in {"none", "messages", "select", "quit"}
  /\ nodes \subseteq IrDev /\ asked \in BOOLEAN

(* The base driver's own steps.                                            *)
LEMMA BaseTypes ==
  ASSUME ServerInv, BaseTypeOK, Delivered, BaseThread \/ BaseCall \/ RemoveBase
  PROVE  BaseTypeOK' /\ Delivered'
<1> USE DriverAssumption, SpeedAssumption DEF BaseTypeOK, Delivered
<1>1. CASE BaseCommand
  <2>1. Tail(commands) \in Seq(Speed) /\ Len(Tail(commands)) <= QueueLength /\ Head(commands) \in Speed
    BY <1>1 DEF BaseCommand
  <2>2. UNCHANGED <<pc, ready, inbox, device, removed>>
    BY <1>1 DEF BaseCommand, serverVars, threadVars
  <2> QED BY <1>1, <2>1, <2>2 DEF BaseCommand
<1>2. CASE BaseWaits \/ BaseReadFails
  <2>1. UNCHANGED <<ready, inbox, baseVars>> /\ pc'["base"] \in {"read", "messages"}
    BY <1>2 DEF BaseWaits, BaseReadFails, Goes, ServerInv
  <2> QED BY <2>1 DEF baseVars
<1>3. CASE BaseRead
  <2>1. /\ UNCHANGED baseVars /\ pc'["base"] = "messages"
        /\ ready' \subseteq ready /\ inbox' = inbox \union {"base"}
    BY <1>3 DEF BaseRead, Goes, ServerInv
  <2> QED BY <2>1 DEF baseVars
<1>4. CASE BaseCancel
  <2>1. UNCHANGED <<ready, inbox, baseVars>> /\ pc'["base"] \in {"none", "quit"}
    BY <1>4 DEF BaseCancel, Cancel, AfterMain, ServerInv
  <2> QED BY <2>1 DEF baseVars
<1>5. CASE BaseQuit
  <2>1. UNCHANGED <<ready, inbox, baseVars>> /\ pc'["base"] = "none"
    BY <1>5 DEF BaseQuit, MainQuit, Goes, ServerInv
  <2> QED BY <2>1 DEF baseVars
<1>6. CASE BaseSetup
  <2>1. /\ UNCHANGED <<inbox, commands, wheels, removed>> /\ ready' \subseteq ready /\ device' \in Fd
        /\ pc'["base"] = "messages"
    BY <1>6 DEF BaseSetup, SetUp, ServerInv
  <2> QED BY <2>1
<1>7. CASE BaseSetupFails
  <2>1. UNCHANGED <<ready, inbox, commands, wheels, removed, pc>> /\ device' = NoFd
    BY <1>7 DEF BaseSetupFails, SetupFails
  <2> QED BY <2>1
<1>8. CASE BaseShutdown
  <2>1. UNCHANGED <<ready, inbox, pc, baseVars>>
    BY <1>8 DEF BaseShutdown, StopThread, Shutdown
  <2> QED BY <2>1 DEF baseVars
<1>9. CASE RemoveBase
  <2>1. /\ UNCHANGED <<inbox, pc, device, commands>> /\ ready' \subseteq ready
        /\ removed' = TRUE /\ wheels' = 0
    BY <1>9 DEF RemoveBase, threadVars
  <2> QED BY <2>1
<1> QED BY <1>1, <1>2, <1>3, <1>4, <1>5, <1>6, <1>7, <1>8, <1>9 DEF BaseThread, BaseCall

(* The infrared driver's own steps.                                        *)
LEMMA IrTypesStep ==
  ASSUME ServerInv, IrTypes, Delivered, IrThread \/ IrSelectFails \/ IrCall
  PROVE  IrTypes' /\ Delivered'
<1> USE DriverAssumption DEF IrTypes, Delivered
<1>1. CASE IrMessages
  <2>1. UNCHANGED <<ready, inbox, nodes>> /\ pc'["ir"] = "select" /\ asked' = FALSE
    BY <1>1 DEF IrMessages, Goes, ServerInv
  <2> QED BY <2>1
<1>2. CASE IrSelect
  <2>1. Goes("ir", "select", "messages") /\ UNCHANGED <<nodes, asked>>
        /\ ready' \subseteq ready /\ inbox' = inbox \union {"ir"}
    BY <1>2 DEF IrSelect
  <2>2. pc'["ir"] = "messages"
    BY <2>1 DEF Goes, ServerInv
  <2> QED BY <2>1, <2>2
<1>3. CASE IrSelectFails \/ IrCancel \/ IrQuit
  <2>1. UNCHANGED <<ready, inbox, irVars>> /\ pc'["ir"] \in {"none", "quit"}
    BY <1>3 DEF IrSelectFails, IrCancel, Cancel, IrQuit, MainQuit, Goes, AfterMain, ServerInv
  <2> QED BY <2>1 DEF irVars
<1>4. CASE IrSetup
  <2>1. SetUp("ir") /\ UNCHANGED <<inbox, nodes, asked>> /\ ready' \subseteq ready
    BY <1>4 DEF IrSetup
  <2>2. pc'["ir"] = "messages"
    BY <2>1 DEF SetUp, ServerInv
  <2> QED BY <2>1, <2>2
<1>5. CASE IrSetupFails \/ IrShutdown
  <2>1. UNCHANGED <<ready, inbox, pc, irVars>>
    BY <1>5 DEF IrSetupFails, SetupFails, IrShutdown, StopThread, Shutdown
  <2> QED BY <2>1 DEF irVars
<1> QED BY <1>1, <1>2, <1>3, <1>4, <1>5 DEF IrThread, IrCall

(* The camera driver's own steps: its frames are those of FrameInv.        *)
LEMMA CameraTypes ==
  ASSUME ServerInv, FrameInv', CameraTypeOK, Delivered, CameraNext
  PROVE  CameraTypeOK' /\ Delivered'
<1> USE DriverAssumption, SkipAssumption
<1>1. frame' \in BOOLEAN /\ heap' \in Nat
  BY DEF FrameInv, FramesAreFreed
<1>2. /\ pc'["camera"] \in {"none", "messages", "grab", "read", "refresh", "quit"}
      /\ videoFd' \in Fd \union {NoFd} /\ index' \in 0..Skip /\ Delivered'
  <2> USE DEF CameraTypeOK, Delivered
  <2>1. CASE CameraSleep \/ CameraRead
    <3>1. UNCHANGED <<ready, inbox, cameraVars>> /\ pc'["camera"] \in {"grab", "refresh"}
      BY <2>1 DEF CameraSleep, CameraRead, Goes, ServerInv
    <3> QED BY <3>1 DEF cameraVars
  <2>2. CASE GrabFrame
    <3>1. UNCHANGED <<ready, inbox, videoFd, index>> /\ pc'["camera"] \in {"grab", "read"}
      BY <2>2 DEF GrabFrame, Goes, ServerInv
    <3> QED BY <3>1
  <2>3. CASE CameraReadFails
    <3>1. UNCHANGED <<ready, inbox, videoFd, index>> /\ pc'["camera"] = "messages"
      BY <2>3 DEF CameraReadFails, Goes, ServerInv
    <3> QED BY <3>1
  <2>4. CASE RefreshData
    <3>1. /\ UNCHANGED <<ready, videoFd>> /\ pc'["camera"] = "messages"
          /\ inbox' \in {inbox, inbox \union {"camera"}}
          /\ index' = 0 \/ (index < Skip /\ index' = index + 1)
      BY <2>4 DEF RefreshData, Goes, ServerInv
    <3>2. index' \in 0..Skip
      BY <3>1
    <3> QED BY <3>1, <3>2
  <2>5. CASE CameraCancel \/ CameraQuit
    <3>1. UNCHANGED <<ready, inbox, cameraVars>> /\ pc'["camera"] \in {"none", "quit"}
      BY <2>5 DEF CameraCancel, Cancel, CameraQuit, MainQuit, Goes, AfterMain, ServerInv
    <3> QED BY <3>1 DEF cameraVars
  <2>6. CASE CameraSetup
    <3>1. UNCHANGED <<ready, inbox>> /\ pc'["camera"] = "messages" /\ videoFd' \in Fd /\ index' = 0
      BY <2>6 DEF CameraSetup, SetUp, ServerInv
    <3> QED BY <3>1
  <2>7. CASE CameraOpenFails \/ InitDeviceFails
    <3>1. UNCHANGED <<ready, inbox, pc, index>> /\ videoFd' \in Fd \union {NoFd}
      BY <2>7 DEF CameraOpenFails, InitDeviceFails, SetupFails
    <3> QED BY <3>1
  <2>8. CASE CameraShutdown
    <3>1. UNCHANGED <<ready, inbox, pc, cameraVars>>
      BY <2>8 DEF CameraShutdown, StopThread, Shutdown
    <3> QED BY <3>1 DEF cameraVars
  <2> QED BY <2>1, <2>2, <2>3, <2>4, <2>5, <2>6, <2>7, <2>8
          DEF CameraNext, CameraThread, CameraPicture, CameraCall
<1> QED BY <1>1, <1>2 DEF CameraTypeOK

(* The olsrd driver's own steps: its links are those of MergeInv.          *)
LEMMA OlsrdTypes ==
  ASSUME ServerInv, MergeInv', OlsrdTypeOK, Delivered, OlsrdNext
  PROVE  OlsrdTypeOK' /\ Delivered'
<1> USE DriverAssumption
<1> DEFINE Places == {"none", "messages", "connect", "read", "merge", "close", "publish", "sleep",
                      "quit"}
<1>1. merged' \in 0..Len(answer') /\ Len(links') <= merged'
  BY DEF MergeInv, LinksInv
<1>2. pc'["olsrd"] \in Places /\ sock' \in Fd \union {NoFd} /\ Delivered'
  <2> USE DEF OlsrdTypeOK, Delivered
  <2>1. CASE OlsrdSocket
    <3>1. /\ UNCHANGED <<ready, inbox>> /\ pc'["olsrd"] \in {"connect", "publish"}
          /\ sock' \in Fd \union {sock}
      BY <2>1 DEF OlsrdSocket, otherThanFiles, Goes, ServerInv
    <3> QED BY <3>1
  <2>2. CASE OlsrdConnect \/ OlsrdGivesUp \/ OlsrdMergeEnds \/ OlsrdClose \/ OlsrdSleep \/ OlsrdRead
    <3>1. /\ UNCHANGED <<ready, inbox, sock>>
          /\ pc'["olsrd"] \in {"read", "publish", "close", "messages", "merge"}
      BY <2>2 DEF OlsrdConnect, OlsrdGivesUp, OlsrdMergeEnds, OlsrdClose, OlsrdSleep, OlsrdRead,
           otherThanFiles, olsrdVars, Goes, ServerInv
    <3> QED BY <3>1
  <2>3. CASE OlsrdReadCut
    <3>1. UNCHANGED <<ready, inbox, sock>> /\ pc'["olsrd"] = "none"
      BY <2>3 DEF OlsrdReadCut, olsrdVars, Goes, ServerInv
    <3> QED BY <3>1
  <2>4. CASE OlsrdMerge
    <3>1. UNCHANGED <<ready, inbox, sock, pc>>
      BY <2>4 DEF OlsrdMerge, serverVars, threadVars
    <3> QED BY <3>1
  <2>5. CASE OlsrdPublish
    <3>1. /\ UNCHANGED ready /\ inbox' = inbox \union {"olsrd"} /\ sock' = NoFd
          /\ pc'["olsrd"] = "sleep"
      BY <2>5 DEF OlsrdPublish, Goes, ServerInv
    <3> QED BY <3>1
  <2>6. CASE OlsrdCancel
    <3>1. UNCHANGED <<ready, inbox>> /\ sock' = NoFd /\ pc'["olsrd"] \in {"none", "quit"}
      BY <2>6 DEF OlsrdCancel, Cancel, AfterMain, ServerInv
    <3> QED BY <3>1
  <2>7. CASE OlsrdQuit
    <3>1. UNCHANGED <<ready, inbox, sock>> /\ pc'["olsrd"] = "none"
      BY <2>7 DEF OlsrdQuit, MainQuit, Goes, ServerInv, olsrdVars
    <3> QED BY <3>1
  <2>8. CASE OlsrdSetup
    <3>1. UNCHANGED <<ready, inbox, sock>> /\ pc'["olsrd"] = "messages"
      BY <2>8 DEF OlsrdSetup, SetUp, ServerInv, olsrdVars
    <3> QED BY <3>1
  <2>9. CASE OlsrdSetupFails \/ OlsrdShutdown
    <3>1. UNCHANGED <<ready, inbox, sock, pc>>
      BY <2>9 DEF OlsrdSetupFails, SetupFails, OlsrdShutdown, StopThread, Shutdown, olsrdVars
    <3> QED BY <3>1
  <2> QED BY <2>1, <2>2, <2>3, <2>4, <2>5, <2>6, <2>7, <2>8, <2>9
          DEF OlsrdNext, OlsrdThread, OlsrdAnswer, OlsrdCall
<1> QED BY <1>1, <1>2 DEF OlsrdTypeOK

(* A message more, or none when the queue is full.                         *)
LEMMA QueuedType ==
  ASSUME commands \in Seq(Speed), Len(commands) <= QueueLength, NEW v \in Speed
  PROVE  Queued(v) \in Seq(Speed) /\ Len(Queued(v)) <= QueueLength
<1>1. Append(commands, v) \in Seq(Speed) /\ Len(Append(commands, v)) = Len(commands) + 1
  OBVIOUS
<1>2. Len(commands) \in Nat
  OBVIOUS
<1> QED BY <1>1, <1>2, SpeedAssumption DEF Queued

Types == BaseTypeOK /\ IrTypes /\ CameraTypeOK /\ OlsrdTypeOK /\ FollowTypeOK /\ Delivered

(* Another driver keeps its types while one is at work.                    *)
LEMMA TypesUndisturbed ==
  ASSUME ServerInv, NEW d \in {"base", "ir", "camera", "olsrd"}, OnlyOf(d)
  PROVE  /\ d # "base" /\ UNCHANGED baseVars /\ BaseTypeOK => BaseTypeOK'
         /\ d # "ir" /\ UNCHANGED irVars /\ IrTypes => IrTypes'
         /\ d # "camera" /\ UNCHANGED cameraVars /\ CameraTypeOK => CameraTypeOK'
         /\ d # "olsrd" /\ UNCHANGED olsrdVars /\ OlsrdTypeOK => OlsrdTypeOK'
<1> USE DriverAssumption
<1>1. \A e \in {"base", "ir", "camera", "olsrd"} : e # d => pc'[e] = pc[e]
  BY DEF OnlyOf
<1>2. d # "base" /\ UNCHANGED baseVars /\ BaseTypeOK => BaseTypeOK'
  BY <1>1 DEF baseVars, BaseTypeOK
<1>3. d # "ir" /\ UNCHANGED irVars /\ IrTypes => IrTypes'
  BY <1>1 DEF irVars, IrTypes
<1>4. d # "camera" /\ UNCHANGED cameraVars /\ CameraTypeOK => CameraTypeOK'
  BY <1>1 DEF cameraVars, CameraTypeOK
<1>5. d # "olsrd" /\ UNCHANGED olsrdVars /\ OlsrdTypeOK => OlsrdTypeOK'
  BY <1>1 DEF olsrdVars, OlsrdTypeOK
<1> QED BY <1>2, <1>3, <1>4, <1>5

(* The steps of follow.                                                    *)
LEMMA FollowTypes ==
  ASSUME PlayerInv, Types, FollowNext
  PROVE  Types'
<1> USE DriverAssumption
<1>1. UNCHANGED <<cameraVars, olsrdVars>>
  BY DEF FollowNext
<1>2. CASE ConnectFails
  <2>1. FollowTypeOK'
    BY <1>2 DEF ConnectFails, FollowGoes, Types, FollowTypeOK, Stage
  <2>2. CASE BaseSetupFails /\ UNCHANGED irVars
    <3>1. OnlyOf("base")
      BY <2>2, BaseStep DEF BaseCall, PlayerInv, OwnInv
    <3>2. BaseTypeOK' /\ Delivered'
      BY <2>2, BaseTypes DEF BaseCall, PlayerInv, Types
    <3> QED BY <1>1, <2>1, <2>2, <3>1, <3>2, TypesUndisturbed DEF Types, PlayerInv
  <2>3. CASE IrSetupFails /\ UNCHANGED baseVars
    <3>1. OnlyOf("ir")
      BY <2>3, IrCallStep DEF IrCall, PlayerInv, OwnInv
    <3>2. IrTypes' /\ Delivered'
      BY <2>3, IrTypesStep DEF IrCall, PlayerInv, Types
    <3> QED BY <1>1, <2>1, <2>3, <3>1, <3>2, TypesUndisturbed DEF Types, PlayerInv
  <2> QED BY <1>2, <2>2, <2>3 DEF ConnectFails
<1>3. CASE FirstRead \/ Drive \/ Connected \/ Geometry \/ GeometryFails \/ Loop \/ Stop
           \/ Interrupt \/ Connect \/ Leave
  <2>1. /\ UNCHANGED <<pc, ready, device, wheels, removed, nodes, devices, poses, slots>>
        /\ inbox' \subseteq inbox
    BY <1>3 DEF FirstRead, Drive, Reads, Connected, Geometry, GeometryFails, Loop, Stop, Interrupt,
         Connect, Leave, Subscribe, Unsubscribe, serverVars, threadVars, baseVars, irVars
  <2>2. asked' \in {asked, TRUE}
    BY <1>3 DEF FirstRead, Drive, Connected, Geometry, GeometryFails, Loop, Stop, Interrupt,
         Connect, Leave, irVars
  <2>3. commands' = commands \/ \E v \in Speed : commands' = Queued(v)
    BY <1>3, SpeedAssumption DEF FirstRead, Drive, Connected, Geometry, GeometryFails, Loop, Stop,
         Interrupt, Connect, Leave, baseVars
  <2>4. commands' \in Seq(Speed) /\ Len(commands') <= QueueLength
    BY <2>3, QueuedType DEF Types, BaseTypeOK
  <2>5. BaseTypeOK' /\ IrTypes' /\ Delivered'
    BY <2>1, <2>2, <2>4 DEF Types, BaseTypeOK, IrTypes, Delivered
  <2>6. CameraTypeOK' /\ OlsrdTypeOK'
    BY <1>1, <2>1 DEF Types, CameraTypeOK, OlsrdTypeOK, cameraVars, olsrdVars
  <2>7. FollowTypeOK'
    <3>1. stage' \in Stage /\ running' \in BOOLEAN
      BY <1>3 DEF FirstRead, Drive, Connected, Geometry, GeometryFails, Loop, Stop, Interrupt,
           Connect, Leave, followVars, FollowGoes, Stage, Types, FollowTypeOK
    <3>2. irSeen' \in BOOLEAN
      BY <1>3 DEF FirstRead, Drive, Reads, Connected, Geometry, GeometryFails, Loop, Stop,
           Interrupt, Connect, Leave, followVars, Types, FollowTypeOK
    <3> QED BY <3>1, <3>2 DEF FollowTypeOK
  <2> QED BY <2>5, <2>6, <2>7 DEF Types
<1> QED BY <1>2, <1>3 DEF FollowNext, FollowStep

(* What other clients do, and the polls.                                   *)
LEMMA ClientTypes ==
  ASSUME PlayerInv, Types, Clients \/ Tick
  PROVE  Types'
<1>1. CASE Clients
  <2>1. /\ UNCHANGED <<pc, ready, inbox, baseVars, nodes, cameraVars, olsrdVars, followVars>>
        /\ asked' \in {asked, TRUE}
    BY <1>1 DEF Clients, AskPoses, Subscribe, Unsubscribe, driverVars, irVars, serverVars, threadVars
  <2>2. BaseTypeOK' /\ IrTypes' /\ Delivered'
    BY <2>1 DEF Types, BaseTypeOK, IrTypes, Delivered, baseVars
  <2>3. CameraTypeOK' /\ OlsrdTypeOK' /\ FollowTypeOK'
    BY <2>1 DEF Types, CameraTypeOK, OlsrdTypeOK, FollowTypeOK, cameraVars, olsrdVars, followVars
  <2> QED BY <2>2, <2>3 DEF Types
<1>2. CASE Tick
  <2>1. UNCHANGED <<pc, inbox, driverVars, running, irSeen>>
    BY <1>2 DEF Tick, threadVars
  <2>2. ready' \subseteq {"base"} \union {IrName(i) : i \in IrDev}
    BY <1>2 DEF Tick, Types, Delivered
  <2>3. BaseTypeOK' /\ IrTypes' /\ Delivered'
    BY <2>1, <2>2 DEF Types, BaseTypeOK, IrTypes, Delivered, driverVars, baseVars, irVars
  <2>4. CameraTypeOK' /\ OlsrdTypeOK'
    BY <2>1 DEF Types, CameraTypeOK, OlsrdTypeOK, driverVars, cameraVars, olsrdVars
  <2>5. Nap
    BY <1>2 DEF Tick
  <2>6. stage' \in Stage
    BY <2>5 DEF Nap, Types, FollowTypeOK, Stage
  <2> QED BY <2>1, <2>3, <2>4, <2>6 DEF Types, FollowTypeOK
<1> QED BY <1>1, <1>2

(* Every step of the server keeps the types of its drivers.                *)
LEMMA TypesStep == PlayerInv /\ PlayerInv' /\ Types /\ [PlayerNext]_playerVars => Types'
<1> SUFFICES ASSUME PlayerInv, PlayerInv', Types, [PlayerNext]_playerVars PROVE Types'
  OBVIOUS
<1>1. CASE Clients \/ Tick
  BY <1>1, ClientTypes
<1>2. CASE FollowNext
  BY <1>2, FollowTypes
<1>3. CASE BaseSteps
  <2>1. (BaseThread \/ BaseCall \/ RemoveBase) /\ UNCHANGED <<irVars, cameraVars, olsrdVars, followVars>>
    BY <1>3 DEF BaseSteps, BaseCall
  <2>2. OnlyOf("base") /\ BaseTypeOK' /\ Delivered'
    BY <2>1, BaseStep, BaseTypes DEF PlayerInv, OwnInv, Types
  <2>3. FollowTypeOK'
    BY <2>1 DEF Types, FollowTypeOK, followVars
  <2> QED BY <2>1, <2>2, <2>3, TypesUndisturbed DEF Types, PlayerInv
<1>4. CASE IrSteps
  <2>1. (IrThread \/ IrSelectFails \/ IrCall) /\ UNCHANGED <<baseVars, cameraVars, olsrdVars, followVars>>
    BY <1>4 DEF IrSteps, IrCall
  <2>2. OnlyOf("ir") /\ IrTypes' /\ Delivered'
    BY <2>1, IrThreadStep, IrCallStep, IrTypesStep DEF PlayerInv, OwnInv, Types
  <2>3. FollowTypeOK'
    BY <2>1 DEF Types, FollowTypeOK, followVars
  <2> QED BY <2>1, <2>2, <2>3, TypesUndisturbed DEF Types, PlayerInv
<1>5. CASE CameraSteps
  <2>1. CameraNext /\ UNCHANGED <<baseVars, irVars, olsrdVars, followVars>>
    BY <1>5 DEF CameraSteps
  <2>2. OnlyOf("camera") /\ CameraTypeOK' /\ Delivered'
    BY <2>1, CameraThreadStep, CameraCallStep, CameraTypes DEF PlayerInv, OwnInv, Types, CameraNext
  <2>3. FollowTypeOK'
    BY <2>1 DEF Types, FollowTypeOK, followVars
  <2> QED BY <2>1, <2>2, <2>3, TypesUndisturbed DEF Types, PlayerInv
<1>6. CASE OlsrdSteps
  <2>1. OlsrdNext /\ UNCHANGED <<baseVars, irVars, cameraVars, followVars>>
    BY <1>6 DEF OlsrdSteps
  <2>2. OnlyOf("olsrd") /\ OlsrdTypeOK' /\ Delivered'
    BY <2>1, OlsrdThreadStep, OlsrdCallStep, OlsrdTypes DEF PlayerInv, OwnInv, Types, OlsrdNext
  <2>3. FollowTypeOK'
    BY <2>1 DEF Types, FollowTypeOK, followVars
  <2> QED BY <2>1, <2>2, <2>3, TypesUndisturbed DEF Types, PlayerInv
<1>7. CASE UNCHANGED playerVars
  BY <1>7 DEF playerVars, serverVars, threadVars, driverVars, baseVars, irVars, cameraVars, olsrdVars,
     followVars, Types, BaseTypeOK, IrTypes, CameraTypeOK, OlsrdTypeOK, FollowTypeOK, Delivered
<1> QED BY <1>1, <1>2, <1>3, <1>4, <1>5, <1>6, <1>7 DEF PlayerNext

-----------------------------------------------------------------------------
(* Only the infrared driver changes the slots, the poses or the devices.   *)
LEMMA SlotsFollow == SlotInv /\ [Next]_vars => SlotInv'
<1> SUFFICES ASSUME SlotInv, [Next]_vars PROVE SlotInv'
  OBVIOUS
<1>1. CASE IrMessages \/ IrSelect
  BY <1>1, SlotsStep
<1>2. CASE IrSetup
  BY <1>2, SlotsCleared DEF IrSetup
<1>3. CASE UNCHANGED <<devices, poses, slots>>
  BY <1>3, SlotsUndisturbed
<1>4. CASE IrSteps
  BY <1>1, <1>2, <1>3, <1>4
     DEF IrSteps, IrThread, IrSelectFails, IrCancel, IrQuit, IrSetupFails, IrShutdown, irVars
<1>5. CASE Clients \/ Tick
  BY <1>3, <1>5 DEF Clients, Tick, AskPoses, driverVars, irVars
<1>6. CASE FollowNext
  BY <1>3, <1>6
     DEF FollowNext, FollowStep, Connect, Connected, ConnectFails, IrSetupFails, GeometryFails,
         FirstRead, Geometry, Loop, Drive, Stop, Leave, Interrupt, irVars
<1>7. CASE UNCHANGED irVars
  BY <1>3, <1>7 DEF irVars
<1>8. CASE PlayerNext
  BY <1>4, <1>5, <1>6, <1>7, <1>8 DEF PlayerNext, BaseSteps, CameraSteps, OlsrdSteps
<1> QED BY <1>7, <1>8 DEF Next, vars, playerVars, driverVars

(* Before Setup nothing is written and nothing answered.                   *)
LEMMA SlotsInitially ==
  ASSUME NEW robot, IrInit(robot)
  PROVE  SlotInv
BY DEF IrInit, SlotInv

(* The index at which a client finds the range of a sensor is that of its  *)
(* pose: for robots with any number of devices of any numbers of sensors,  *)
(* whichever of them open, fail to, or come and go between two sessions.   *)
THEOREM SlotsArePoses == Spec => []SlotsFollowPoses
<1>1. Init => SlotInv
  BY SlotsInitially DEF Init, PlayerInit
<1> QED BY <1>1, SlotsFollow, SlotInvariant, PTL DEF Spec

-----------------------------------------------------------------------------
(* The programs begin with nothing open.                                   *)
LEMMA ClientsInitially == Init => AvoidTypeOK /\ WiiTypeOK /\ DevicesInPlace
<1> SUFFICES ASSUME NEW s \in Scenarios, AvoidInit(s.nodes, s.program = "avoid"),
                    WiiInit(s.program = "wiibot")
             PROVE  AvoidTypeOK /\ WiiTypeOK /\ DevicesInPlace
  BY DEF Init
<1>1. ClientTypeOK
  BY ClientTypeInitially, ScenarioAssumption DEF AvoidInit
<1>2. avoidPc \in {"absent", "init", "loop", "left"} /\ run \in BOOLEAN /\ opened = FALSE
  BY DEF AvoidInit, ClientInit
<1>3. WiiTypeOK
  BY DEF WiiInit, WiiTypeOK
<1> QED BY <1>1, <1>2, <1>3 DEF AvoidTypeOK, DevicesInPlace

(* The types of the programs, with the places of their devices.            *)
LEMMA ClientsInvariance == Spec => [](AvoidTypeOK /\ WiiTypeOK /\ DevicesInPlace)
<1>1. AvoidTypeOK => ClientTypeOK
  BY DEF AvoidTypeOK
<1> QED BY <1>1, ClientsInitially, ProgramsTypeStep, InPlaceStep, PTL DEF Spec

(* Which device a descriptor of the library is, and where its sensors lie  *)
(* on the ring, follows from its position: for every robot, whichever of   *)
(* its nodes open.                                                         *)
THEOREM DevicesFoundByPlace == Spec => []DevicesInPlace
BY ClientsInvariance, PTL

-----------------------------------------------------------------------------
(* The types of all variables.                                             *)
LEMMA TypesInitially ==
  ASSUME NEW release, NEW drivers, NEW robot \in SUBSET IrDev, NEW follows \in BOOLEAN,
         PlayerInit(release, drivers, robot, follows)
  PROVE  Types
<1> USE DriverAssumption, SpeedAssumption, SkipAssumption DEF PlayerInit
<1>1. pc = [d \in Driver |-> "none"] /\ ready = {} /\ inbox = {}
  BY DEF ServerInit
<1>2. BaseTypeOK
  <2>1. commands \in Seq(Speed) /\ Len(commands) <= QueueLength
    <3>1. commands = <<>> /\ Len(<<>>) = 0 /\ <<>> \in Seq(Speed)
      BY DEF BaseInit
    <3> QED BY <3>1
  <2>2. pc["base"] = "none"
    BY <1>1
  <2> QED BY <2>1, <2>2 DEF BaseInit, BaseTypeOK
<1>3. IrTypes /\ Delivered
  BY <1>1 DEF IrInit, IrTypes, Delivered
<1>4. CameraTypeOK
  <2>1. pc["camera"] = "none" /\ 0 \in 0..Skip /\ 0 \in Nat
    BY <1>1
  <2>2. videoFd = NoFd /\ frame = FALSE /\ heap = 0 /\ index = 0
    BY DEF CameraInit
  <2> QED BY <2>1, <2>2 DEF CameraTypeOK
<1>5. OlsrdTypeOK
  BY <1>1 DEF OlsrdInit, OlsrdTypeOK
<1>6. FollowTypeOK
  BY DEF FollowInit, FollowTypeOK, Stage
<1> QED BY <1>2, <1>3, <1>4, <1>5, <1>6 DEF Types

(* Bits are switched, transferred and reported within their words.         *)
LEMMA MaskTypeStep == BebotIrTypeOK /\ MaskInv /\ [BebotIrNext]_bebotIrVars => BebotIrTypeOK'
<1> SUFFICES ASSUME BebotIrTypeOK, MaskInv, [BebotIrNext]_bebotIrVars PROVE BebotIrTypeOK'
  OBVIOUS
<1>1. MaskType'
  BY MaskInvStep DEF MaskInv
<1>2. irFault' \in BOOLEAN
  BY DEF BebotIrTypeOK, BebotIrNext, bebotIrVars, bebot_ir_probe, bebot_ir_probe_fails,
     bebot_ir_remove, BeginSwitch, SwitchBits, SwitchFaults, Sync, SyncFails, Report,
     write_enable, write_enable_fails
<1>3. /\ enable' \subseteq Word /\ register' \subseteq Word
      /\ told' = <<>> \/ told'[1] \subseteq Sensors
  <2>1. Sensors \subseteq Word
    BY SensorAssumption DEF Sensors, Word
  <2>2. CASE bebot_ir_probe \/ bebot_ir_probe_fails \/ bebot_ir_remove
    BY <2>2 DEF BebotIrTypeOK, bebot_ir_probe, bebot_ir_probe_fails, bebot_ir_remove, write_enable,
         write_enable_fails
  <2>3. CASE \E w \in Writer : BeginSwitch(w)
    BY <2>3 DEF BebotIrTypeOK, BeginSwitch
  <2>4. CASE \E w \in Writer : SwitchBits(w) \/ SwitchFaults(w)
    BY <2>1, <2>4 DEF BebotIrTypeOK, SwitchBits, SwitchFaults
  <2>5. CASE \E w \in Writer : Sync(w) \/ SyncFails(w)
    BY <2>5 DEF BebotIrTypeOK, Sync, SyncFails, write_enable, write_enable_fails
  <2>6. CASE \E w \in Writer : Report(w)
    BY <2>6 DEF BebotIrTypeOK, Report
  <2>7. CASE UNCHANGED bebotIrVars
    BY <2>7 DEF BebotIrTypeOK, bebotIrVars
  <2> QED BY <2>2, <2>3, <2>4, <2>5, <2>6, <2>7 DEF BebotIrNext
<1> QED BY <1>1, <1>2, <1>3 DEF BebotIrTypeOK, MaskType

(* Every variable has the type its program expects of it, in all scenarios.*)
THEOREM TypeCorrectness == Spec => []TypeOK
<1>1. Init => Types /\ BebotIrTypeOK /\ MaskInv /\ SlotInv
  <2> SUFFICES ASSUME NEW s \in Scenarios,
                      PlayerInit(s.release, s.drivers, s.robot, s.follows),
                      BebotIrInit(s.program = "switch")
               PROVE  Types /\ BebotIrTypeOK /\ MaskInv /\ SlotInv
    BY DEF Init
  <2>1. s.robot \in SUBSET IrDev /\ s.follows \in BOOLEAN
    BY ScenarioAssumption
  <2>2. Types
    BY <2>1, TypesInitially
  <2>3. MaskInv
    BY MaskInvInitially
  <2>4. BebotIrTypeOK
    BY <2>3 DEF BebotIrInit, BebotIrTypeOK, MaskInv, MaskType
  <2>5. SlotInv
    BY SlotsInitially DEF PlayerInit
  <2> QED BY <2>2, <2>3, <2>4, <2>5
<1>2. [Next]_vars => [PlayerNext]_playerVars /\ [BebotIrNext]_bebotIrVars
  BY DEF Next, vars
<1>3. PlayerInv /\ PlayerInv' /\ Types /\ [Next]_vars => Types'
  BY <1>2, TypesStep
<1>4. BebotIrTypeOK /\ MaskInv /\ [Next]_vars => BebotIrTypeOK'
  BY <1>2, MaskTypeStep
<1>5. MaskInv /\ [Next]_vars => MaskInv'
  BY <1>2, MaskInvStep
<1>6. PlayerInv /\ SlotInv /\ Types => PlayerTypeOK
  BY SlotInvariant DEF PlayerInv, ServerInv, OwnInv, IrOwns, SlotInv, Types, Delivered, IrTypes,
     IrTypeOK, PlayerTypeOK
<1>7. PlayerInv /\ SlotInv /\ Types /\ BebotIrTypeOK /\ AvoidTypeOK /\ WiiTypeOK => TypeOK
  BY <1>6 DEF TypeOK
<1> QED
  BY <1>1, <1>3, <1>4, <1>5, <1>7, SlotsFollow, PlayerInvariance, ClientsInvariance, PTL DEF Spec
=============================================================================
