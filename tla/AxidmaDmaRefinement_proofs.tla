---------------------- MODULE AxidmaDmaRefinement_proofs ----------------------
(***************************************************************************)
(* The transfer path implements the safety part of TransferService, for    *)
(* every set of threads, channels and signals and every bound on the       *)
(* cookies.                                                                *)
(***************************************************************************)
EXTENDS AxidmaDmaRefinement, AxidmaDma_proofs

ClientView  == <<Answered, Using, Awaiting, Mine>>
ChannelView == <<lastUsed, Live, performed>>

-----------------------------------------------------------------------------
(* What a client sees is a function of the frame of its thread.            *)

LEMMA ViewOf ==
  ASSUME NEW t \in Threads
  PROVE  /\ Answered[t] = IF InACall(t) THEN "busy" ELSE IF rc[t] = "OK" THEN "OK" ELSE "failed"
         /\ \A c : c \in Using[t] <=> InACall(t) /\ \E i \in Leg : c = tfr[t][i].chan
         /\ Awaiting[t] = IF InACall(t) /\ Final(t).wait THEN Final(t).chan ELSE NULL
         /\ \A x : x \in Mine[t] <=> \E i \in Leg : /\ tfr[t][i].cookie # 0
                                                   /\ x = <<tfr[t][i].chan, tfr[t][i].cookie>>
BY DEF Answered, Using, Awaiting, Mine

LEMMA ViewAfter ==
  ASSUME NEW t \in Threads
  PROVE  /\ Answered'[t] = IF InACall(t)' THEN "busy" ELSE IF rc'[t] = "OK" THEN "OK" ELSE "failed"
         /\ \A c : c \in Using'[t] <=> InACall(t)' /\ \E i \in Leg : c = tfr'[t][i].chan
         /\ Awaiting'[t] = IF InACall(t)' /\ Final(t)'.wait THEN Final(t)'.chan ELSE NULL
         /\ \A x : x \in Mine'[t] <=> \E i \in Leg : /\ tfr'[t][i].cookie # 0
                                                    /\ x = <<tfr'[t][i].chan, tfr'[t][i].cookie>>
BY DEF Answered, Using, Awaiting, Mine

LEMMA SameElements ==
  ASSUME NEW A, NEW B, \A x : x \in A <=> x \in B
  PROVE  A = B
OBVIOUS

LEMMA SameViews ==
  ASSUME NEW t \in Threads, SameFrame(t)
  PROVE  /\ Answered'[t] = Answered[t] /\ Using'[t] = Using[t]
         /\ Awaiting'[t] = Awaiting[t] /\ Mine'[t] = Mine[t]
<1>1. (InACall(t)' <=> InACall(t)) /\ Final(t)' = Final(t)
  BY DEF SameFrame, InACall, Final, LastLeg
<1>2. Answered'[t] = Answered[t]
  BY <1>1, ViewOf, ViewAfter DEF SameFrame
<1>3. Using'[t] = Using[t]
  <2>1. \A x : x \in Using'[t] <=> x \in Using[t]
    BY <1>1, ViewOf, ViewAfter DEF SameFrame
  <2> QED
    BY <2>1, SameElements
<1>4. Awaiting'[t] = Awaiting[t]
  BY <1>1, ViewOf, ViewAfter
<1>5. Mine'[t] = Mine[t]
  <2>1. \A x : x \in Mine'[t] <=> x \in Mine[t]
    BY ViewOf, ViewAfter DEF SameFrame
  <2> QED
    BY <2>1, SameElements
<1> QED
  BY <1>2, <1>3, <1>4, <1>5

(* A function that changes at one argument at most.                        *)
LEMMA ChangedAt ==
  ASSUME NEW S, NEW f, NEW g, NEW t \in S,
         f = [x \in S |-> f[x]], g = [x \in S |-> g[x]],
         \A x \in S : x # t => g[x] = f[x]
  PROVE  g = [f EXCEPT ![t] = g[t]]
OBVIOUS

LEMMA Views ==
  /\ Answered = [t \in Threads |-> Answered[t]] /\ Using = [t \in Threads |-> Using[t]]
  /\ Awaiting = [t \in Threads |-> Awaiting[t]] /\ Mine = [t \in Threads |-> Mine[t]]
  /\ Live = [c \in Chans |-> Live[c]]
BY DEF Answered, Using, Awaiting, Mine, Live

LEMMA ViewsAfter ==
  /\ Answered' = [t \in Threads |-> Answered'[t]] /\ Using' = [t \in Threads |-> Using'[t]]
  /\ Awaiting' = [t \in Threads |-> Awaiting'[t]] /\ Mine' = [t \in Threads |-> Mine'[t]]
  /\ Live' = [c \in Chans |-> Live'[c]]
BY DEF Answered, Using, Awaiting, Mine, Live

(* A step of one thread changes what that client sees, and nobody else.    *)
LEMMA ClientStep ==
  ASSUME NEW t \in Threads, \A u \in Threads : u # t => SameFrame(u)
  PROVE  /\ Answered' = [Answered EXCEPT ![t] = Answered'[t]]
         /\ Using'    = [Using EXCEPT ![t] = Using'[t]]
         /\ Awaiting' = [Awaiting EXCEPT ![t] = Awaiting'[t]]
         /\ Mine'     = [Mine EXCEPT ![t] = Mine'[t]]
<1>1. \A u \in Threads : u # t =>
        /\ Answered'[u] = Answered[u] /\ Using'[u] = Using[u]
        /\ Awaiting'[u] = Awaiting[u] /\ Mine'[u] = Mine[u]
  BY SameViews
<1>2. Answered' = [Answered EXCEPT ![t] = Answered'[t]]
  BY <1>1, Views, ViewsAfter, ChangedAt
<1>3. Using' = [Using EXCEPT ![t] = Using'[t]]
  BY <1>1, Views, ViewsAfter, ChangedAt
<1>4. Awaiting' = [Awaiting EXCEPT ![t] = Awaiting'[t]]
  BY <1>1, Views, ViewsAfter, ChangedAt
<1>5. Mine' = [Mine EXCEPT ![t] = Mine'[t]]
  BY <1>1, Views, ViewsAfter, ChangedAt
<1> QED
  BY <1>2, <1>3, <1>4, <1>5

LEMMA NoClientStep ==
  ASSUME \A u \in Threads : SameFrame(u)
  PROVE  UNCHANGED ClientView
<1>1. \A u \in Threads :
        /\ Answered'[u] = Answered[u] /\ Using'[u] = Using[u]
        /\ Awaiting'[u] = Awaiting[u] /\ Mine'[u] = Mine[u]
  BY SameViews
<1>2. Answered' = Answered /\ Using' = Using
  BY <1>1, Views, ViewsAfter
<1>3. Awaiting' = Awaiting /\ Mine' = Mine
  BY <1>1, Views, ViewsAfter
<1> QED
  BY <1>2, <1>3 DEF ClientView

(* A step within a call, short of a submission, shows the client nothing.  *)
LEMMA BusyStep ==
  ASSUME NEW t \in Threads, \A u \in Threads : u # t => SameFrame(u),
         pc[t] # "idle", pc'[t] # "idle", tfr'[t] = tfr[t], op'[t] = op[t]
  PROVE  UNCHANGED ClientView
<1>1. InACall(t) /\ InACall(t)' /\ Final(t)' = Final(t)
  BY DEF InACall, Final, LastLeg
<1>2. Answered'[t] = Answered[t] /\ Awaiting'[t] = Awaiting[t]
  BY <1>1, ViewOf, ViewAfter
<1>3. Using'[t] = Using[t]
  <2>1. \A x : x \in Using'[t] <=> x \in Using[t]
    BY <1>1, ViewOf, ViewAfter
  <2> QED
    BY <2>1, SameElements
<1>4. Mine'[t] = Mine[t]
  <2>1. \A x : x \in Mine'[t] <=> x \in Mine[t]
    BY ViewOf, ViewAfter
  <2> QED
    BY <2>1, SameElements
<1>5. \A u \in Threads :
        /\ Answered'[u] = Answered[u] /\ Using'[u] = Using[u]
        /\ Awaiting'[u] = Awaiting[u] /\ Mine'[u] = Mine[u]
  BY <1>2, <1>3, <1>4, SameViews
<1>6. Answered' = Answered /\ Using' = Using
  BY <1>5, Views, ViewsAfter
<1>7. Awaiting' = Awaiting /\ Mine' = Mine
  BY <1>5, Views, ViewsAfter
<1> QED
  BY <1>6, <1>7 DEF ClientView

-----------------------------------------------------------------------------
(* What the engine's lists are to the service.                             *)

LEMMA LiveOf ==
  ASSUME NEW c \in Chans
  PROVE  /\ \A n : n \in Live[c] <=> n \in Cookies /\ stage[c][n] \in {"pending", "active"}
         /\ \A n : n \in Live'[c] <=> n \in Cookies /\ stage'[c][n] \in {"pending", "active"}
BY DEF Live

LEMMA SubmitLive ==
  ASSUME TypeOK, NEW c \in Chans, NEW n \in Cookies, NEW t, NEW notice,
         EngineSubmit(c, n, t, notice)
  PROVE  Live' = [Live EXCEPT ![c] = @ \cup {n}]
<1>1. /\ \A m \in Cookies : stage'[c][m] = IF m = n THEN "pending" ELSE stage[c][m]
      /\ \A d \in Chans : d # c => stage'[d] = stage[d]
  BY DEF EngineSubmit, TypeOK, EngineTypeOK
<1>2. Live'[c] = Live[c] \cup {n}
  BY <1>1, LiveOf
<1>3. ASSUME NEW d \in Chans, d # c
      PROVE  Live'[d] = Live[d]
  <2>1. \A m : m \in Live'[d] <=> m \in Live[d]
    BY <1>1, <1>3, LiveOf
  <2> QED
    BY <2>1, SameElements
<1>4. Live' = [Live EXCEPT ![c] = Live'[c]]
  BY <1>3, Views, ViewsAfter, ChangedAt
<1> QED
  BY <1>2, <1>4

LEMMA IssueLive ==
  ASSUME TypeOK, NEW c \in Chans, EngineIssue(c)
  PROVE  Live' = Live
<1>1. \A d \in Chans, m \in Cookies :
        stage'[d][m] \in {"pending", "active"} <=> stage[d][m] \in {"pending", "active"}
  BY DEF EngineIssue, TypeOK, EngineTypeOK
<1>2. \A d \in Chans : Live'[d] = Live[d]
  BY <1>1, LiveOf
<1> QED
  BY <1>2, Views, ViewsAfter

LEMMA TerminateLive ==
  ASSUME TypeOK, NEW c \in Chans, EngineTerminate(c)
  PROVE  Live' = [Live EXCEPT ![c] = {}]
<1>1. /\ \A m \in Cookies : stage'[c][m] \notin {"pending", "active"}
      /\ \A d \in Chans : d # c => stage'[d] = stage[d]
  BY DEF EngineTerminate, TypeOK, EngineTypeOK
<1>2. Live'[c] = {}
  BY <1>1, LiveOf
<1>3. ASSUME NEW d \in Chans, d # c
      PROVE  Live'[d] = Live[d]
  <2>1. \A m : m \in Live'[d] <=> m \in Live[d]
    BY <1>1, <1>3, LiveOf
  <2> QED
    BY <2>1, SameElements
<1>4. Live' = [Live EXCEPT ![c] = Live'[c]]
  BY <1>3, Views, ViewsAfter, ChangedAt
<1> QED
  BY <1>2, <1>4

(* The callback works on descriptors the hardware is through with.         *)
LEMMA CallbackLive ==
  ASSUME DmaInv, NEW c \in Chans, Kernel(c)
  PROVE  UNCHANGED ChannelView
<1> USE DEF DmaInv, TypeOK, EngineTypeOK
<1>1. ASSUME \A d \in Chans, m \in Cookies :
               stage'[d][m] \in {"pending", "active"} <=> stage[d][m] \in {"pending", "active"}
      PROVE  Live' = Live
  <2>1. \A d \in Chans : Live'[d] = Live[d]
    BY <1>1, LiveOf
  <2> QED
    BY <2>1, Views, ViewsAfter
<1>2. CASE UNCHANGED engineVars
  BY <1>1, <1>2 DEF engineVars, ChannelView
<1>3. CASE CallbackEnter(c)
  BY <1>1, <1>3 DEF CallbackEnter, ChannelView
<1>4. ASSUME NEW how \in Finished, NEW whom, cb[c].pc # "idle", CallbackReturn(c, how, whom)
      PROVE  UNCHANGED ChannelView
  <2>1. cb[c].cookie \in Cookies /\ stage[c][cb[c].cookie] = "callback"
    BY <1>4, CallbackHasDescriptor
  <2> QED
    BY <1>1, <1>4, <2>1 DEF CallbackReturn, ChannelView, Finished
<1>5. CASE CallbackComplete(c)
  BY <1>2, <1>4, <1>5 DEF CallbackComplete, Oops, Finished
<1>6. CASE CallbackSend(c)
  BY <1>2, <1>4, <1>6 DEF CallbackSend, Oops, Finished
<1> QED
  BY <1>2, <1>3, <1>4, <1>5, <1>6 DEF Kernel, CallbackReadComp, CallbackReadSignal, Finished

LEMMA PerformStep ==
  ASSUME DmaInv, NEW c \in Chans, HwComplete(c)
  PROVE  Service!Perform(c)
<1> USE DEF DmaInv, TypeOK, EngineTypeOK
<1>1. PICK n \in Cookies :
        /\ stage[c][n] = "active"
        /\ \A m \in Cookies : m < n => stage[c][m] # "active"
        /\ stage' = [stage EXCEPT ![c][n] = "done"]
        /\ performed' = [performed EXCEPT ![c] = @ \cup {n}]
        /\ UNCHANGED <<lastUsed, callVars>>
  BY DEF HwComplete
<1>2. n \in Live[c]
  BY <1>1, LiveOf
<1>3. ASSUME NEW m \in Live[c]
      PROVE  n <= m
  <2>1. m \in Cookies /\ m \in Nat /\ n \in Nat /\ stage[c][m] \in {"pending", "active"}
    BY <1>3, LiveOf DEF Cookies
  <2>2. CASE stage[c][m] = "active"
    BY <1>1, <2>1, <2>2
  <2>3. CASE stage[c][m] = "pending"
    BY <1>1, <2>1, <2>3 DEF EngineInv, EngineOK
  <2> QED
    BY <2>1, <2>2, <2>3
<1>4. Live' = [Live EXCEPT ![c] = @ \ {n}]
  <2>1. /\ \A m \in Cookies : stage'[c][m] = IF m = n THEN "done" ELSE stage[c][m]
        /\ \A d \in Chans : d # c => stage'[d] = stage[d]
    BY <1>1
  <2>2. Live'[c] = Live[c] \ {n}
    <3>1. \A m : m \in Live'[c] <=> m \in Live[c] \ {n}
      BY <2>1, LiveOf
    <3> QED
      BY <3>1, SameElements
  <2>3. ASSUME NEW d \in Chans, d # c
        PROVE  Live'[d] = Live[d]
    <3>1. \A m : m \in Live'[d] <=> m \in Live[d]
      BY <2>1, <2>3, LiveOf
    <3> QED
      BY <3>1, SameElements
  <2>4. Live' = [Live EXCEPT ![c] = Live'[c]]
    BY <2>3, Views, ViewsAfter, ChangedAt
  <2> QED
    BY <2>2, <2>4
<1>5. UNCHANGED ClientView
  BY <1>1, NoClientStep DEF callVars, SameFrame
<1> QED
  BY <1>1, <1>2, <1>3, <1>4, <1>5 DEF Service!Perform, Service!clientVars, ClientView

-----------------------------------------------------------------------------
(* A call begins.                                                          *)

(* A call has channels of the driver, and waits on one of them at most.    *)
LEMMA CallChannels ==
  ASSUME TypeOK, NEW t \in Threads
  PROVE  /\ \A i \in Leg : tfr[t][i].chan \in Chans
         /\ Using[t] \subseteq Chans
         /\ InACall(t) => Using[t] # {}
         /\ Awaiting[t] \in Using[t] \cup {NULL}
<1>1. LastLeg(t) \in Leg /\ 1 \in Leg
  BY DEF LastLeg, Leg
<1>2. \A i \in Leg : tfr[t][i].chan \in Chans
  BY DEF TypeOK, CallTypeOK, Transfer
<1>3. Using[t] \subseteq Chans
  BY <1>2, ViewOf
<1>4. InACall(t) => tfr[t][1].chan \in Using[t] /\ Final(t).chan \in Using[t]
  BY <1>1, ViewOf DEF Final
<1>5. Awaiting[t] \in Using[t] \cup {NULL}
  BY <1>4, ViewOf
<1> QED
  BY <1>2, <1>3, <1>4, <1>5

LEMMA RequestStep ==
  ASSUME TypeOK, TypeOK', NEW t \in Threads, \A u \in Threads : u # t => SameFrame(u),
         pc[t] = "idle", pc'[t] # "idle",
         \A i \in Leg : tfr[t][i].cookie = 0 /\ tfr'[t][i].cookie = 0,
         UNCHANGED <<lastUsed, stage, performed>>
  PROVE  Service!Request(t)
<1>1. ~InACall(t) /\ InACall(t)'
  BY DEF InACall
<1>2. Answered[t] # "busy" /\ Answered'[t] = "busy"
  BY <1>1, ViewOf, ViewAfter
<1>3. Mine'[t] = Mine[t]
  <2>1. \A x : x \in Mine'[t] <=> x \in Mine[t]
    BY ViewOf, ViewAfter
  <2> QED
    BY <2>1, SameElements
<1>4. /\ Using'[t] \subseteq Chans /\ Using'[t] # {}
      /\ Awaiting'[t] \in Using'[t] \cup {NULL}
      /\ Awaiting'[t] \in Chans \cup {NULL}
  <2>1. /\ 1 \in Leg /\ LastLeg(t)' \in Leg
        /\ \A i \in Leg : tfr'[t][i].chan \in Chans
    BY DEF TypeOK, CallTypeOK, Transfer, LastLeg, Leg
  <2>2. Using'[t] \subseteq Chans
    BY <2>1, ViewAfter
  <2>3. tfr'[t][1].chan \in Using'[t] /\ Final(t)'.chan \in Using'[t]
    BY <1>1, <2>1, ViewAfter DEF Final
  <2>4. Awaiting'[t] \in Using'[t] \cup {NULL}
    BY <2>3, ViewAfter
  <2> QED
    BY <2>2, <2>3, <2>4
<1>5. UNCHANGED <<Mine, ChannelView>>
  <2>1. Mine' = [Mine EXCEPT ![t] = Mine[t]]
    BY <1>3, ClientStep
  <2>2. Mine' = Mine
    BY <2>1, Views
  <2> QED
    BY <2>2 DEF ChannelView, Live
<1>6. /\ Answered' = [Answered EXCEPT ![t] = "busy"]
      /\ Using'    = [Using EXCEPT ![t] = Using'[t]]
      /\ Awaiting' = [Awaiting EXCEPT ![t] = Awaiting'[t]]
  BY <1>2, ClientStep
<1> QED
  BY <1>2, <1>4, <1>5, <1>6
     DEF Service!Request, Service!Idle, Service!channelVars, ChannelView

LEMMA AnswerAtOnceStep ==
  ASSUME NEW t \in Threads, \A u \in Threads : u # t => SameFrame(u),
         pc[t] = "idle", pc'[t] = "idle", tfr'[t] = tfr[t],
         UNCHANGED <<lastUsed, stage, performed>>
  PROVE  Service!AnswerAtOnce(t)
<1>1. ~InACall(t) /\ ~InACall(t)'
  BY DEF InACall
<1>2. Answered[t] # "busy" /\ Answered'[t] \in {"OK", "failed"}
  BY <1>1, ViewOf, ViewAfter
<1>3. Using'[t] = Using[t]
  <2>1. \A x : x \in Using'[t] <=> x \in Using[t]
    BY <1>1, ViewOf, ViewAfter
  <2> QED
    BY <2>1, SameElements
<1>4. Awaiting'[t] = Awaiting[t]
  BY <1>1, ViewOf, ViewAfter
<1>5. Mine'[t] = Mine[t]
  <2>1. \A x : x \in Mine'[t] <=> x \in Mine[t]
    BY ViewOf, ViewAfter
  <2> QED
    BY <2>1, SameElements
<1>6. UNCHANGED <<Using, Awaiting, Mine>>
  BY <1>3, <1>4, <1>5, ClientStep, Views
<1>7. UNCHANGED ChannelView
  BY DEF ChannelView, Live
<1> QED
  BY <1>2, <1>6, <1>7, ClientStep
     DEF Service!AnswerAtOnce, Service!Idle, Service!channelVars, ChannelView

LEMMA StopStep ==
  ASSUME TypeOK, NEW t \in Threads, \A u \in Threads : u # t => SameFrame(u),
         NEW c \in Chans, StopChannel(t, c)
  PROVE  Service!Stop(t, c)
<1>1. /\ pc[t] = "idle" /\ pc'[t] = "idle" /\ tfr'[t] = tfr[t] /\ rc'[t] = "OK"
      /\ UNCHANGED <<lastUsed, performed>>
  BY DEF StopChannel, Refuse, EngineTerminate, TypeOK, CallTypeOK
<1>2. ~InACall(t) /\ ~InACall(t)'
  BY <1>1 DEF InACall
<1>3. Answered[t] # "busy" /\ Answered'[t] = "OK"
  BY <1>1, <1>2, ViewOf, ViewAfter
<1>4. Using'[t] = Using[t]
  <2>1. \A x : x \in Using'[t] <=> x \in Using[t]
    BY <1>2, ViewOf, ViewAfter
  <2> QED
    BY <2>1, SameElements
<1>5. Awaiting'[t] = Awaiting[t]
  BY <1>2, ViewOf, ViewAfter
<1>6. Mine'[t] = Mine[t]
  <2>1. \A x : x \in Mine'[t] <=> x \in Mine[t]
    BY <1>1, ViewOf, ViewAfter
  <2> QED
    BY <2>1, SameElements
<1>7. UNCHANGED <<Using, Awaiting, Mine>>
  BY <1>4, <1>5, <1>6, ClientStep, Views
<1>8. Live' = [Live EXCEPT ![c] = {}]
  BY TerminateLive DEF StopChannel
<1>9. Answered' = [Answered EXCEPT ![t] = "OK"]
  BY <1>3, ClientStep
<1> QED
  BY <1>1, <1>3, <1>7, <1>8, <1>9 DEF Service!Stop, Service!Idle

LEMMA StartCallIsRequest ==
  ASSUME DmaInv, TypeOK', NEW t \in Threads, \A u \in Threads : u # t => SameFrame(u),
         StartCall(t)
  PROVE  Service!Request(t) \/ Service!AnswerAtOnce(t)
<1> DEFINE Begun == /\ pc[t] = "idle" /\ pc'[t] = "prep"
                    /\ \A i \in Leg : tfr'[t][i].cookie = 0
           Refused == pc[t] = "idle" /\ UNCHANGED <<pc, tfr>>
<1>1. ASSUME NEW o, NEW c, NEW d, NEW v, NEW w,
             Begin(t, o, NewTransfer(c, v), NewTransfer(d, w))
      PROVE  Begun
  BY <1>1 DEF Begin, NewTransfer, DmaInv, TypeOK, CallTypeOK
<1>2. ASSUME NEW code, Refuse(t, code)
      PROVE  Refused
  BY <1>2 DEF Refuse
<1>3. ASSUME NEW c, NEW w, NEW o, NEW dir, OneWay(t, o, dir, c, w)
      PROVE  Begun \/ Refused
  BY <1>1, <1>2, <1>3 DEF OneWay
<1>4. ASSUME NEW tx, NEW rx, NEW w, RwTransfer(t, tx, rx, w)
      PROVE  Begun \/ Refused
  BY <1>1, <1>2, <1>4 DEF RwTransfer
<1>5. ASSUME NEW c, VideoTransfer(t, c)
      PROVE  Begun \/ Refused
  BY <1>1, <1>2, <1>5 DEF VideoTransfer
<1>6. Begun \/ Refused
  <2> HIDE DEF Begun, Refused
  <2> QED
    BY <1>3, <1>4, <1>5 DEF StartCall, ReadTransfer, WriteTransfer
<1>7. UNCHANGED <<lastUsed, stage, performed>>
  BY DEF StartCall, engineVars
<1>8. ASSUME pc[t] = "idle"
      PROVE  \A i \in Leg : tfr[t][i].cookie = 0
  <2>1. tfr[t] = NoFrame
    BY <1>8 DEF DmaInv, FrameInv, FrameOK
  <2> QED
    BY <2>1 DEF NoFrame
<1> QED
  BY <1>6, <1>7, <1>8, RequestStep, AnswerAtOnceStep DEF DmaInv

-----------------------------------------------------------------------------
(* A call puts its transfers on their channels.                            *)

LEMMA AcceptStep ==
  ASSUME DmaInv, TypeOK', NEW t \in Threads, \A u \in Threads : u # t => SameFrame(u),
         Submit(t), pc'[t] # "stop_dma"
  PROVE  Service!Accept(t, Chan(t))
<1> USE DEF DmaInv
<1> DEFINE c == Chan(t)
<1>1. PICK n \in Cookies :
        /\ EngineSubmit(c, n, t, Wanted(Cur(t)))
        /\ tfr' = [tfr EXCEPT ![t][leg[t]].cookie = n]
        /\ pc[t] = "submit" /\ pc'[t] # "idle" /\ op' = op
  BY DEF Submit, Goto, Fail, TypeOK, CallTypeOK
<1>2. /\ leg[t] \in Leg /\ LastLeg(t) \in Leg /\ c \in Chans /\ n # 0
      /\ tfr[t][leg[t]] = Cur(t) /\ Cur(t).chan = c
  BY CurType, ConstantsAssumption DEF TypeOK, CallTypeOK, Cookies, Cur, Chan
<1>3. /\ \A i \in Leg : i # leg[t] => tfr'[t][i] = tfr[t][i]
      /\ tfr'[t][leg[t]].cookie = n
      /\ tfr'[t][leg[t]].chan = c
      /\ tfr'[t][leg[t]].wait = Cur(t).wait
  <2>1. /\ \A i \in Leg : i # leg[t] => tfr'[t][i] = tfr[t][i]
        /\ tfr'[t][leg[t]] = [Cur(t) EXCEPT !.cookie = n]
    BY <1>1, <1>2 DEF TypeOK, CallTypeOK
  <2> QED
    BY <2>1, <1>2, CurType DEF TypeOK, Transfer
<1>4. \A i \in Leg : /\ tfr'[t][i].chan = tfr[t][i].chan
                     /\ tfr'[t][i].wait = tfr[t][i].wait
  BY <1>2, <1>3
<1>5. InACall(t) /\ InACall(t)'
  BY <1>1 DEF InACall
<1>6. Cur(t).cookie = 0 /\ \A i \in Leg : tfr[t][i].cookie # 0 => tfr[t][i].chan # c
  <2>1. FrameOK(t) /\ pc[t] \in PrepStates
    BY <1>1 DEF FrameInv, PrepStates
  <2>2. CASE leg[t] = 1
    BY <2>1, <2>2, <1>2 DEF FrameOK, Leg
  <2>3. CASE leg[t] = 2
    <3>1. op[t] = "rw"
      BY <2>1, <2>3 DEF FrameOK, LastLeg
    <3> QED
      BY <2>1, <2>3, <3>1, <1>2 DEF FrameOK, Leg
  <2> QED
    BY <2>2, <2>3, <1>2 DEF Leg
<1>7. c \in Using[t] /\ \A m : <<c, m>> \notin Mine[t]
  BY <1>2, <1>5, <1>6, ViewOf
<1>8. Answered[t] = "busy" /\ Answered'[t] = Answered[t]
  BY <1>5, ViewOf, ViewAfter
<1>9. Using'[t] = Using[t]
  <2>1. \A x : x \in Using'[t] <=> x \in Using[t]
    BY <1>4, <1>5, ViewOf, ViewAfter
  <2> QED
    BY <2>1, SameElements
<1>10. Awaiting'[t] = Awaiting[t]
  <2>1. Final(t)'.wait = Final(t).wait /\ Final(t)'.chan = Final(t).chan
    BY <1>1, <1>2, <1>4 DEF Final, LastLeg
  <2> QED
    BY <2>1, <1>5, ViewOf, ViewAfter
<1>11. Mine'[t] = Mine[t] \cup {<<c, n>>}
  <2>1. \A x : x \in Mine'[t] <=> x \in Mine[t] \cup {<<c, n>>}
    <3>1. ASSUME NEW x, x \in Mine'[t]
          PROVE  x \in Mine[t] \cup {<<c, n>>}
      BY <3>1, <1>3, ViewOf, ViewAfter
    <3>2. ASSUME NEW x, x \in Mine[t]
          PROVE  x \in Mine'[t]
      <4>1. PICK i \in Leg : tfr[t][i].cookie # 0 /\ x = <<tfr[t][i].chan, tfr[t][i].cookie>>
        BY <3>2, ViewOf
      <4>2. i # leg[t]
        BY <4>1, <1>2, <1>6
      <4> QED
        BY <4>1, <4>2, <1>3, ViewAfter
    <3>3. <<c, n>> \in Mine'[t]
      BY <1>2, <1>3, ViewAfter
    <3> QED
      BY <3>1, <3>2, <3>3
  <2> QED
    BY <2>1, SameElements
<1>12. UNCHANGED <<Answered, Using, Awaiting>>
  BY <1>8, <1>9, <1>10, ClientStep, Views
<1>13. Mine' = [Mine EXCEPT ![t] = @ \cup {<<c, n>>}]
  BY <1>11, ClientStep
<1>14. /\ lastUsed[c] < MaxCookie /\ n = lastUsed[c] + 1
       /\ lastUsed' = [lastUsed EXCEPT ![c] = lastUsed[c] + 1]
       /\ UNCHANGED performed
  BY <1>1 DEF EngineSubmit
<1>15. Live' = [Live EXCEPT ![c] = @ \cup {n}]
  BY <1>1, <1>2, SubmitLive
<1> QED
  BY <1>7, <1>8, <1>12, <1>13, <1>14, <1>15 DEF Service!Accept

-----------------------------------------------------------------------------
(* A call returns.                                                         *)

(* Its last leg is the only one that can have been waited for.             *)
LEMMA AwaitedIsFinal ==
  ASSUME DmaInv, NEW t \in Threads, Awaiting[t] # NULL
  PROVE  /\ InACall(t) /\ Final(t).wait /\ Awaiting[t] = Final(t).chan
         /\ \A n : <<Awaiting[t], n>> \in Mine[t] <=>
                      n = Final(t).cookie /\ Final(t).cookie # 0
<1>1. InACall(t) /\ Final(t).wait /\ Awaiting[t] = Final(t).chan
  BY ViewOf
<1>2. FrameOK(t)
  BY DEF DmaInv, FrameInv
<1>3. ASSUME NEW i \in Leg, tfr[t][i].cookie # 0, tfr[t][i].chan = Final(t).chan
      PROVE  i = LastLeg(t)
  BY <1>2, <1>3 DEF FrameOK, Final, LastLeg, Leg
<1>4. LastLeg(t) \in Leg
  BY DEF LastLeg, Leg
<1>5. ASSUME NEW n, <<Awaiting[t], n>> \in Mine[t]
      PROVE  n = Final(t).cookie /\ Final(t).cookie # 0
  BY <1>1, <1>3, <1>5, ViewOf DEF Final
<1>6. Final(t).cookie # 0 => <<Awaiting[t], Final(t).cookie>> \in Mine[t]
  BY <1>1, <1>4, ViewOf DEF Final
<1> QED
  BY <1>1, <1>5, <1>6

LEMMA AnswerStep ==
  ASSUME TypeOK, NEW t \in Threads, \A u \in Threads : u # t => SameFrame(u),
         NEW from, from # "idle", NEW code, Return(t, from, code),
         UNCHANGED <<lastUsed, performed>>,
         UNCHANGED Live \/ \E c \in Using[t] : Live' = [Live EXCEPT ![c] = {}],
         Awaiting[t] # NULL =>
            /\ \A n \in Cookies : <<Awaiting[t], n>> \in Mine[t] => n \notin Live'[Awaiting[t]]
            /\ code = "OK" => \E n \in performed[Awaiting[t]] : <<Awaiting[t], n>> \in Mine[t]
  PROVE  Service!Answer(t)
<1>1. /\ pc[t] = from /\ pc'[t] = "idle" /\ rc'[t] = code /\ tfr'[t] = NoFrame
  BY DEF Return, TypeOK, CallTypeOK
<1>2. InACall(t) /\ ~InACall(t)'
  BY <1>1 DEF InACall
<1>3. /\ Answered[t] = "busy"
      /\ Answered'[t] = IF code = "OK" THEN "OK" ELSE "failed"
  BY <1>1, <1>2, ViewOf, ViewAfter
<1>4. Using'[t] = {}
  <2>1. \A x : x \in Using'[t] <=> x \in {}
    BY <1>2, ViewAfter
  <2> QED
    BY <2>1, SameElements
<1>5. Awaiting'[t] = NULL
  BY <1>2, ViewAfter
<1>6. Mine'[t] = {}
  <2>1. \A i \in Leg : tfr'[t][i].cookie = 0
    BY <1>1 DEF NoFrame
  <2>2. \A x : x \in Mine'[t] <=> x \in {}
    BY <2>1, ViewAfter
  <2> QED
    BY <2>2, SameElements
<1>7. /\ Using'    = [Using EXCEPT ![t] = {}]
      /\ Awaiting' = [Awaiting EXCEPT ![t] = NULL]
      /\ Mine'     = [Mine EXCEPT ![t] = {}]
  BY <1>4, <1>5, <1>6, ClientStep
<1>8. \E a \in {"OK", "failed"} :
        /\ Awaiting[t] # NULL =>
             /\ \A n \in Cookies : <<Awaiting[t], n>> \in Mine[t] => n \notin Live'[Awaiting[t]]
             /\ a = "OK" => \E n \in performed[Awaiting[t]] : <<Awaiting[t], n>> \in Mine[t]
        /\ Answered' = [Answered EXCEPT ![t] = a]
  <2>1. Answered' = [Answered EXCEPT ![t] = IF code = "OK" THEN "OK" ELSE "failed"]
    BY <1>3, ClientStep
  <2>2. CASE code = "OK"
    BY <2>1, <2>2
  <2>3. CASE code # "OK"
    <3> WITNESS "failed" \in {"OK", "failed"}
    <3> QED
      BY <2>1, <2>3
  <2> QED
    BY <2>2, <2>3
<1> QED
  BY <1>3, <1>7, <1>8 DEF Service!Answer, Service!Transfers, Cookies

LEMMA LegDoneStep ==
  ASSUME DmaInv, NEW t \in Threads, \A u \in Threads : u # t => SameFrame(u),
         NEW from, from # "idle", LegDone(t, from),
         UNCHANGED <<lastUsed, performed, Live>>,
         leg[t] = LastLeg(t) /\ Cur(t).wait =>
            /\ Cur(t).cookie \notin Live[Chan(t)]
            /\ Cur(t).cookie \in performed[Chan(t)]
  PROVE  Service!Answer(t) \/ UNCHANGED <<ClientView, ChannelView>>
<1> USE DEF DmaInv
<1>1. CASE /\ Goto(t, from, "issue") /\ UNCHANGED <<op, tfr, rc>>
  <2>1. pc[t] # "idle" /\ pc'[t] # "idle" /\ tfr'[t] = tfr[t] /\ op'[t] = op[t]
    BY <1>1 DEF Goto, TypeOK, CallTypeOK
  <2> QED
    BY <2>1, BusyStep DEF ChannelView
<1>2. CASE leg[t] = LastLeg(t) /\ Return(t, from, "OK")
  <2>1. Final(t) = Cur(t)
    BY <1>2 DEF Final, Cur
  <2>2. ASSUME Awaiting[t] # NULL
        PROVE  /\ \A n \in Cookies : <<Awaiting[t], n>> \in Mine[t] => n \notin Live'[Awaiting[t]]
               /\ \E n \in performed[Awaiting[t]] : <<Awaiting[t], n>> \in Mine[t]
    <3>1. /\ Cur(t).wait /\ Awaiting[t] = Chan(t) /\ Chan(t) \in Chans
          /\ \A n : <<Awaiting[t], n>> \in Mine[t] <=> n = Cur(t).cookie /\ Cur(t).cookie # 0
      BY <2>1, <2>2, AwaitedIsFinal, CurType DEF Chan, TypeOK
    <3>2. Cur(t).cookie \in performed[Chan(t)] /\ Cur(t).cookie \notin Live'[Chan(t)]
      BY <1>2, <3>1
    <3>3. Cur(t).cookie # 0
      BY <3>1, <3>2, ConstantsAssumption DEF TypeOK, EngineTypeOK, Cookies
    <3> QED
      BY <3>1, <3>2, <3>3
  <2> QED
    BY <1>2, <2>2, AnswerStep
<1> QED
  BY <1>1, <1>2 DEF LegDone

LEMMA CheckStatusStep ==
  ASSUME DmaInv, LastCookieInv, NEW t \in Threads, \A u \in Threads : u # t => SameFrame(u),
         CheckStatus(t)
  PROVE  Service!Answer(t) \/ UNCHANGED <<ClientView, ChannelView>>
<1> USE DEF DmaInv
<1>1. pc[t] = "status" /\ UNCHANGED <<lastUsed, stage, performed>>
  BY DEF CheckStatus, LegDone, Goto, Return, Fail, engineVars
<1>2. Live' = Live
  BY <1>1 DEF Live
<1>3. CASE Fail(t, "status", "EBUSY")
  <2>1. pc'[t] # "idle" /\ tfr'[t] = tfr[t] /\ op'[t] = op[t]
    BY <1>3 DEF Fail, Goto, TypeOK, CallTypeOK
  <2> QED
    BY <1>1, <1>2, <2>1, BusyStep DEF ChannelView
<1>4. CASE TxComplete(Chan(t), Cur(t).cookie) /\ LegDone(t, "status")
  <2>1. FrameOK(t) /\ leg[t] \in Leg /\ LastLeg(t) \in Leg /\ Chan(t) \in Chans
    BY CurType DEF FrameInv, TypeOK, CallTypeOK
  <2>2. Cur(t).cookie # 0
    BY <1>1, <2>1 DEF FrameOK, StartStates, Cur, Leg
  <2>3. Cur(t).cookie = lastUsed[Chan(t)]
    BY <2>1, <2>2 DEF LastCookieInv, Cur, Chan
  <2>4. /\ lastUsed[Chan(t)] \in Nat /\ lastComplete[Chan(t)] \in Nat
        /\ lastComplete[Chan(t)] <= lastUsed[Chan(t)]
    BY <2>1, ConstantsAssumption DEF TypeOK, EngineTypeOK, EngineInv, EngineOK
  <2>5. Cur(t).cookie = lastComplete[Chan(t)] /\ Cur(t).cookie \in Nat
    BY <1>4, <2>3, <2>4 DEF TxComplete
  <2>6. Cur(t).cookie \in performed[Chan(t)]
    BY <2>1, <2>2, <2>5 DEF EngineInv, EngineOK
  <2>7. Cur(t).cookie \notin Live[Chan(t)]
    <3>1. Cur(t).cookie <= lastComplete[Chan(t)]
      BY <2>5
    <3>2. \A n \in Cookies : n <= lastComplete[Chan(t)] =>
                                stage[Chan(t)][n] \notin {"pending", "active"}
      BY <2>1 DEF EngineInv, EngineOK
    <3> QED
      BY <2>1, <3>1, <3>2, LiveOf
  <2> QED
    BY <1>1, <1>2, <1>4, <2>6, <2>7, LegDoneStep
<1> QED
  BY <1>3, <1>4 DEF CheckStatus

LEMMA StopDmaStep ==
  ASSUME DmaInv, NEW t \in Threads, \A u \in Threads : u # t => SameFrame(u), StopDma(t)
  PROVE  Service!Answer(t)
<1> USE DEF DmaInv
<1> DEFINE code == IF op[t] = "video" THEN "OK" ELSE rc[t]
<1>1. /\ EngineTerminate(Chan(t)) /\ Return(t, "stop_dma", code) /\ pc[t] = "stop_dma"
      /\ UNCHANGED <<lastUsed, performed>>
  BY DEF StopDma, EngineTerminate, Return
<1>2. leg[t] \in Leg /\ LastLeg(t) \in Leg /\ Chan(t) \in Chans /\ FrameOK(t)
  BY CurType DEF FrameInv, TypeOK, CallTypeOK
<1>3. Live' = [Live EXCEPT ![Chan(t)] = {}]
  BY <1>1, <1>2, TerminateLive
<1>4. Chan(t) \in Using[t]
  BY <1>1, <1>2, ViewOf DEF InACall, Chan, Cur
<1>5. ASSUME Awaiting[t] # NULL
      PROVE  /\ \A n \in Cookies : <<Awaiting[t], n>> \in Mine[t] => n \notin Live'[Awaiting[t]]
             /\ code # "OK"
  <2>1. /\ Final(t).wait /\ Awaiting[t] = Final(t).chan
        /\ \A n : <<Awaiting[t], n>> \in Mine[t] <=> n = Final(t).cookie /\ Final(t).cookie # 0
    BY <1>5, AwaitedIsFinal
  <2>2. code # "OK"
    BY <1>1, <1>2, <2>1 DEF FrameOK, Final, LastLeg
  <2>3. CASE leg[t] = LastLeg(t)
    <3>1. Awaiting[t] = Chan(t)
      BY <2>1, <2>3 DEF Final, Chan, Cur
    <3>2. Live'[Chan(t)] = {}
      BY <1>2, <1>3, Views
    <3> QED
      BY <2>2, <3>1, <3>2
  <2>4. CASE leg[t] # LastLeg(t)
    <3>1. leg[t] = 1 /\ LastLeg(t) = 2
      BY <1>2, <2>4 DEF FrameOK, LastLeg, Leg
    <3>2. Final(t).cookie = 0
      BY <1>1, <1>2, <3>1 DEF FrameOK, Final
    <3> QED
      BY <2>1, <2>2, <3>2
  <2> QED
    BY <2>3, <2>4
<1> QED
  BY <1>1, <1>3, <1>4, <1>5, AnswerStep

LEMMA InCallIsService ==
  ASSUME DmaInv, LastCookieInv, TypeOK', NEW t \in Threads,
         \A u \in Threads : u # t => SameFrame(u), InCall(t)
  PROVE  \/ Service!Answer(t)
         \/ Service!Accept(t, Chan(t))
         \/ UNCHANGED <<ClientView, ChannelView>>
<1> USE DEF DmaInv
<1>1. Chan(t) \in Chans
  BY CurType DEF TypeOK
<1>2. ASSUME pc[t] # "idle", pc'[t] # "idle", tfr'[t] = tfr[t], op'[t] = op[t],
             UNCHANGED engineVars
      PROVE  UNCHANGED <<ClientView, ChannelView>>
  BY <1>2, BusyStep DEF engineVars, ChannelView, Live
<1>3. CASE PrepDescriptor(t) \/ SetCbComp(t) \/ SetCbSignal(t) \/ SetCbProcess(t)
           \/ Wake(t) \/ Timeout(t)
  <2>1. /\ pc[t] # "idle" /\ pc'[t] # "idle" /\ tfr' = tfr /\ op' = op
        /\ UNCHANGED engineVars
    BY <1>3 DEF PrepDescriptor, SetCbComp, WriteComp, SetCbSignal, SetCbProcess, Wake, Timeout,
       Fail, Goto, TypeOK, CallTypeOK
  <2> QED
    BY <1>2, <2>1
<1>4. CASE Submit(t)
  <2>1. CASE Fail(t, "submit", "EBUSY") /\ UNCHANGED engineVars
    <3>1. pc[t] # "idle" /\ pc'[t] # "idle" /\ tfr' = tfr /\ op' = op
      BY <2>1 DEF Fail, Goto, TypeOK, CallTypeOK
    <3> QED
      BY <1>2, <2>1, <3>1
  <2>2. CASE pc'[t] # "stop_dma"
    BY <1>4, <2>2, AcceptStep
  <2> QED
    BY <1>4, <2>1, <2>2 DEF Submit, Goto, TypeOK, CallTypeOK
<1>5. CASE Issue(t)
  <2>1. Live' = Live /\ UNCHANGED <<lastUsed, performed>>
    BY <1>1, <1>5, IssueLive DEF Issue, EngineIssue
  <2>2. CASE Goto(t, "issue", "wait") /\ UNCHANGED <<op, tfr, leg, rc>>
    <3>1. pc[t] # "idle" /\ pc'[t] # "idle"
      BY <2>2 DEF Goto, TypeOK, CallTypeOK
    <3> QED
      BY <2>1, <2>2, <3>1, BusyStep DEF ChannelView
  <2>3. CASE ~Cur(t).wait /\ LegDone(t, "issue")
    BY <2>1, <2>3, LegDoneStep
  <2> QED
    BY <1>5, <2>2, <2>3 DEF Issue
<1> QED
  BY <1>3, <1>4, <1>5, CheckStatusStep, StopDmaStep DEF InCall

-----------------------------------------------------------------------------
LEMMA InitIsService == Init => Service!Init
<1> SUFFICES ASSUME Init PROVE Service!Init
  OBVIOUS
<1>1. \A t \in Threads : ~InACall(t) /\ rc[t] = "OK" /\ \A i \in Leg : tfr[t][i].cookie = 0
  BY DEF Init, InACall, NoFrame
<1>2. \A t \in Threads : Answered[t] = "OK" /\ Awaiting[t] = NULL
  BY <1>1, ViewOf
<1>3. ASSUME NEW t \in Threads
      PROVE  Using[t] = {} /\ Mine[t] = {}
  <2>1. (\A x : x \in Using[t] <=> x \in {}) /\ (\A x : x \in Mine[t] <=> x \in {})
    BY <1>1, ViewOf
  <2> QED
    BY <2>1, SameElements
<1>4. ASSUME NEW c \in Chans
      PROVE  Live[c] = {}
  <2>1. \A n : n \in Live[c] <=> n \in {}
    BY LiveOf DEF Init
  <2> QED
    BY <2>1, SameElements
<1> QED
  BY <1>2, <1>3, <1>4, Views DEF Service!Init, Init

LEMMA StepIsService ==
  ASSUME DmaInv, LastCookieInv, [Next]_vars
  PROVE  [Service!Next]_(Service!vars)
<1> USE DEF DmaInv
<1>1. TypeOK'
  BY NextType
<1>2. ASSUME NEW t \in Threads,
             \/ StartCall(t) \/ SetSignal(t) \/ InCall(t)
             \/ \E c \in Uses[t] : StopChannel(t, c)
      PROVE  Service!Next \/ UNCHANGED <<ClientView, ChannelView>>
  <2>1. \A u \in Threads : u # t => SameFrame(u)
    BY <1>2, OtherFrames
  <2>2. CASE StartCall(t)
    BY <1>1, <2>1, <2>2, StartCallIsRequest DEF Service!Next
  <2>3. CASE SetSignal(t)
    <3>1. /\ pc[t] = "idle" /\ pc'[t] = "idle" /\ tfr'[t] = tfr[t]
          /\ UNCHANGED <<lastUsed, stage, performed>>
      BY <2>3 DEF SetSignal, Refuse, engineVars
    <3> QED
      BY <2>1, <3>1, AnswerAtOnceStep DEF Service!Next
  <2>4. CASE InCall(t)
    BY <1>1, <2>1, <2>4, InCallIsService, CurType DEF Service!Next, TypeOK
  <2>5. ASSUME NEW c \in Uses[t], StopChannel(t, c)
        PROVE  Service!Next
    <3>1. c \in Chans
      BY ConstantsAssumption
    <3> QED
      BY <2>1, <2>5, <3>1, StopStep DEF Service!Next
  <2> QED
    BY <1>2, <2>2, <2>3, <2>4, <2>5
<1>3. ASSUME NEW c \in Chans, HwComplete(c)
      PROVE  Service!Next
  BY <1>3, PerformStep DEF Service!Next
<1>4. ASSUME NEW c \in Chans, Kernel(c)
      PROVE  UNCHANGED <<ClientView, ChannelView>>
  <2>1. \A u \in Threads : SameFrame(u)
    BY <1>4 DEF Kernel, CallbackEnter, CallbackReadComp, CallbackComplete,
       CallbackReadSignal, CallbackSend, callVars, SameFrame
  <2> QED
    BY <1>4, <2>1, NoClientStep, CallbackLive
<1>5. ASSUME UNCHANGED vars
      PROVE  UNCHANGED <<ClientView, ChannelView>>
  <2>1. \A u \in Threads : SameFrame(u)
    BY <1>5 DEF vars, callVars, SameFrame
  <2>2. UNCHANGED ChannelView
    BY <1>5 DEF vars, engineVars, ChannelView, Live
  <2> QED
    BY <2>1, <2>2, NoClientStep
<1>6. UNCHANGED <<ClientView, ChannelView>> => UNCHANGED Service!vars
  BY DEF Service!vars, Service!clientVars, Service!channelVars, ClientView, ChannelView
<1> QED
  BY <1>2, <1>3, <1>4, <1>5, <1>6 DEF Next

(* With one thread per channel, everything a client sees of the transfer   *)
(* path is a behaviour of TransferService: however the completion, the     *)
(* timeout and the callback interleave, a call that waits answers 0 only   *)
(* for a transfer that was carried out, and answers nothing while the      *)
(* hardware may still touch its buffer (axidma_dma.c:276-319).             *)
THEOREM ImplementsServiceSafety ==
  ASSUME ExclusiveUse
  PROVE  Spec => Service!Safety
<1>1. DmaInv /\ LastCookieInv /\ [Next]_vars => [Service!Next]_(Service!vars)
  BY StepIsService
<1> QED
  BY <1>1, InitIsService, DmaInvHolds, LastCookieHolds, PTL DEF Spec, Service!Safety
=============================================================================
