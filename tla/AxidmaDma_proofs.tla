--------------------------- MODULE AxidmaDma_proofs ---------------------------
(***************************************************************************)
(* Theorems about the transfer path, for every set of threads, channels    *)
(* and signals and every bound on the cookies.                             *)
(***************************************************************************)
EXTENDS AxidmaDmaInv, TLAPS

USE DEF recordVars, WriteComp, Oops

-----------------------------------------------------------------------------
(* Type correctness.                                                       *)

LEMMA NoFrameType == NoFrame \in [Leg -> Transfer]
<1>1. (CHOOSE c \in Chans : TRUE) \in Chans
  BY ConstantsAssumption
<1> QED
  BY <1>1, ConstantsAssumption DEF NoFrame, Transfer

LEMMA InitType == Init => TypeOK
BY NoFrameType, ConstantsAssumption
   DEF Init, TypeOK, CallTypeOK, EngineTypeOK, CallStates, Stages, Notices,
       CbData, Callback, IdleCallback, Leg, Cookies

(* The struct a call works on, and its channel.                            *)
LEMMA CurType ==
  ASSUME CallTypeOK, NEW t \in Threads
  PROVE  /\ LastLeg(t) \in Leg
         /\ Cur(t) \in Transfer
         /\ Chan(t) \in Chans
         /\ Cur(t).wait \in BOOLEAN
         /\ Cur(t).notify_signal \in RtSignals \cup {NoSignal}
         /\ Cur(t).cookie \in 0..MaxCookie
<1>1. LastLeg(t) \in Leg
  BY DEF LastLeg, Leg
<1>2. Cur(t) \in Transfer
  BY DEF CallTypeOK, Cur
<1> QED
  BY <1>1, <1>2 DEF Chan, Transfer

LEMMA ReturnType ==
  ASSUME CallTypeOK, NEW t \in Threads, NEW from, NEW code \in Errors \cup {"OK"},
         Return(t, from, code)
  PROVE  CallTypeOK'
BY NoFrameType DEF CallTypeOK, Return, CallStates, Leg

LEMMA GotoType ==
  ASSUME CallTypeOK, NEW t \in Threads, NEW from, NEW to \in CallStates,
         Goto(t, from, to)
  PROVE  pc' \in [Threads -> CallStates]
BY DEF CallTypeOK, Goto

LEMMA FailType ==
  ASSUME CallTypeOK, NEW t \in Threads, NEW from, NEW code \in Errors,
         Fail(t, from, code)
  PROVE  CallTypeOK'
BY DEF CallTypeOK, Fail, Goto, CallStates

LEMMA LegDoneType ==
  ASSUME CallTypeOK, NEW t \in Threads, NEW from, LegDone(t, from)
  PROVE  CallTypeOK'
<1>1. CASE Return(t, from, "OK")
  BY <1>1, ReturnType
<1>2. CASE /\ Goto(t, from, "issue")
           /\ leg' = [leg EXCEPT ![t] = 2]
           /\ UNCHANGED <<op, tfr, rc>>
  BY <1>2 DEF CallTypeOK, Goto, CallStates, Leg
<1> QED
  BY <1>1, <1>2 DEF LegDone

LEMMA StartCallType ==
  ASSUME TypeOK, NEW t \in Threads, StartCall(t)
  PROVE  TypeOK'
<1>1. ASSUME NEW c \in Chans, NEW w \in BOOLEAN
      PROVE  NewTransfer(c, w) \in Transfer
  BY ConstantsAssumption DEF NewTransfer, Transfer, TypeOK
<1>2. ASSUME NEW code \in Errors \cup {"OK"}, Refuse(t, code)
      PROVE  CallTypeOK'
  BY <1>2 DEF Refuse, TypeOK, CallTypeOK
<1>3. ASSUME NEW o \in TransferOps, NEW x \in Transfer, NEW y \in Transfer,
             Begin(t, o, x, y)
      PROVE  CallTypeOK'
  BY <1>3 DEF Begin, TypeOK, CallTypeOK, CallStates, Leg
<1>4. Uses[t] \subseteq Chans
  BY ConstantsAssumption
<1>5. CallTypeOK'
  <2>1. ASSUME NEW c \in Chans, VideoTransfer(t, c)
        PROVE  CallTypeOK'
    BY <2>1, <1>1, <1>2, <1>3 DEF VideoTransfer, TransferOps
  <2>2. ASSUME NEW c \in Chans, NEW w \in BOOLEAN, NEW o \in TransferOps,
               NEW dir, OneWay(t, o, dir, c, w)
        PROVE  CallTypeOK'
    BY <2>2, <1>1, <1>2, <1>3 DEF OneWay, Errors
  <2>3. ASSUME NEW tx \in Chans, NEW rx \in Chans, NEW w \in BOOLEAN,
               RwTransfer(t, tx, rx, w)
        PROVE  CallTypeOK'
    BY <2>3, <1>1, <1>2, <1>3 DEF RwTransfer, TransferOps, Errors
  <2> QED
    BY <2>1, <2>2, <2>3, <1>4
       DEF StartCall, ReadTransfer, WriteTransfer, TransferOps
<1> QED
  BY <1>5 DEF StartCall, TypeOK, EngineTypeOK, engineVars

LEMMA EngineSubmitType ==
  ASSUME EngineTypeOK, NEW c \in Chans, NEW n \in Cookies, NEW t \in Threads,
         NEW notice \in Notices, EngineSubmit(c, n, t, notice)
  PROVE  EngineTypeOK'
BY ConstantsAssumption DEF EngineTypeOK, EngineSubmit, Stages, Cookies

LEMMA EngineType ==
  ASSUME EngineTypeOK, NEW c \in Chans
  PROVE  /\ EngineIssue(c) => EngineTypeOK'
         /\ EngineTerminate(c) => EngineTypeOK'
         /\ HwComplete(c) => EngineTypeOK'
         /\ CallbackEnter(c) => EngineTypeOK'
<1>1. ASSUME EngineIssue(c) PROVE EngineTypeOK'
  BY <1>1 DEF EngineTypeOK, EngineIssue, Stages
<1>2. ASSUME EngineTerminate(c) PROVE EngineTypeOK'
  BY <1>2 DEF EngineTypeOK, EngineTerminate, Stages
<1>3. ASSUME HwComplete(c) PROVE EngineTypeOK'
  BY <1>3, ConstantsAssumption DEF EngineTypeOK, HwComplete, Stages, Cookies
<1>4. ASSUME CallbackEnter(c) PROVE EngineTypeOK'
  BY <1>4 DEF EngineTypeOK, CallbackEnter, Stages
<1> QED
  BY <1>1, <1>2, <1>3, <1>4

(* Assigning one field of a record keeps the record's type.                *)
LEMMA CbDataUpdate ==
  ASSUME NEW r \in CbData,
         NEW p \in Threads \cup {NULL, Garbage},
         NEW s \in RtSignals \cup {NoSignal, Garbage}
  PROVE  /\ [r EXCEPT !.comp = p] \in CbData
         /\ [r EXCEPT !.notify_signal = s] \in CbData
         /\ [r EXCEPT !.process = p] \in CbData
BY DEF CbData

LEMMA TransferUpdate ==
  ASSUME NEW x \in Transfer, NEW n \in 0..MaxCookie
  PROVE  [x EXCEPT !.cookie = n] \in Transfer
BY DEF Transfer

LEMMA KernelType ==
  ASSUME TypeOK, NEW c \in Chans, Kernel(c)
  PROVE  TypeOK'
<1>1. cb_data[c] \in CbData /\ cb[c] \in Callback
  BY DEF TypeOK
<1>2. ASSUME NEW how \in Stages, NEW whom \in Threads \cup {NULL, Garbage},
             CallbackReturn(c, how, whom)
      PROVE  EngineTypeOK' /\ cb' \in [Chans -> Callback]
  <2>1. IdleCallback \in Callback
    BY ConstantsAssumption DEF Callback, IdleCallback
  <2>2. cb' \in [Chans -> Callback]
    BY <2>1, <1>2 DEF CallbackReturn, TypeOK
  <2>3. EngineTypeOK'
    BY <1>2 DEF CallbackReturn, TypeOK, EngineTypeOK
  <2> QED
    BY <2>2, <2>3
<1>8. ASSUME Oops(c)
      PROVE  EngineTypeOK' /\ cb' \in [Chans -> Callback]
  <2>1. [cb[c] EXCEPT !.pc = "oops"] \in Callback
    BY <1>1 DEF Callback
  <2>2. cb' = [cb EXCEPT ![c] = [cb[c] EXCEPT !.pc = "oops"]]
    BY <1>8
  <2> QED
    BY <2>1, <2>2, <1>8 DEF TypeOK, EngineTypeOK, engineVars
<1>3. CASE CallbackEnter(c)
  <2>1. cb' \in [Chans -> Callback]
    <3>1. PICK n \in Cookies :
             cb' = [cb EXCEPT ![c] = [pc |-> "enter", cookie |-> n, comp |-> NULL]]
      BY <1>3 DEF CallbackEnter
    <3>2. [pc |-> "enter", cookie |-> n, comp |-> NULL] \in Callback
      BY ConstantsAssumption DEF Callback, Cookies
    <3> QED
      BY <3>1, <3>2 DEF TypeOK
  <2> QED
    BY <2>1, <1>3, EngineType DEF CallbackEnter, TypeOK, CallTypeOK, callVars
<1>4. CASE CallbackReadComp(c)
  <2>1. [cb[c] EXCEPT !.pc = IF cb_data[c].comp # NULL THEN "complete" ELSE "signal",
                      !.comp = cb_data[c].comp] \in Callback
    BY <1>1 DEF Callback, CbData
  <2>2. cb' \in [Chans -> Callback]
    BY <2>1, <1>4 DEF CallbackReadComp, TypeOK
  <2> QED
    BY <2>2, <1>4
       DEF CallbackReadComp, TypeOK, CallTypeOK, EngineTypeOK, callVars, engineVars
<1>5. CASE CallbackComplete(c)
  <2>1. PICK comp \in {cb[c].comp, cb_data[c].comp} :
           /\ done' = [t \in Threads |-> IF t = comp THEN TRUE ELSE done[t]]
           /\ CallbackReturn(c, "woke", comp) \/ Oops(c)
    BY <1>5 DEF CallbackComplete
  <2>2. comp \in Threads \cup {NULL, Garbage} /\ "woke" \in Stages
    BY <1>1 DEF Callback, CbData, Stages
  <2>3. EngineTypeOK' /\ cb' \in [Chans -> Callback]
    BY <2>1, <2>2, <1>2, <1>8
  <2>4. done' \in [Threads -> BOOLEAN]
    BY <2>1 DEF TypeOK
  <2> QED
    BY <2>3, <2>4, <1>5 DEF CallbackComplete, TypeOK, CallTypeOK, callVars
<1>6. CASE CallbackReadSignal(c)
  <2>1. CASE cb' = [cb EXCEPT ![c].pc = "send"] /\ UNCHANGED engineVars
    <3>1. [cb[c] EXCEPT !.pc = "send"] \in Callback
      BY <1>1 DEF Callback
    <3>2. cb' = [cb EXCEPT ![c] = [cb[c] EXCEPT !.pc = "send"]]
      BY <2>1
    <3>3. cb' \in [Chans -> Callback]
      BY <3>1, <3>2 DEF TypeOK
    <3> QED
      BY <3>3, <2>1, <1>6
         DEF CallbackReadSignal, TypeOK, CallTypeOK, EngineTypeOK, callVars, engineVars
  <2>2. CASE CallbackReturn(c, "silent", NULL)
    BY <2>2, <1>6, <1>2 DEF CallbackReadSignal, TypeOK, CallTypeOK, callVars, Stages
  <2> QED
    BY <2>1, <2>2, <1>6 DEF CallbackReadSignal
<1>7. CASE CallbackSend(c)
  <2>1. cb_data[c].process \in Threads \cup {NULL, Garbage}
    BY <1>1 DEF CbData
  <2>2. EngineTypeOK' /\ cb' \in [Chans -> Callback]
    BY <2>1, <1>2, <1>7, <1>8 DEF CallbackSend, Stages
  <2> QED
    BY <2>2, <1>7 DEF CallbackSend, TypeOK, CallTypeOK, callVars
<1> QED
  BY <1>3, <1>4, <1>5, <1>6, <1>7 DEF Kernel

LEMMA InCallType ==
  ASSUME TypeOK, NEW t \in Threads, InCall(t)
  PROVE  TypeOK'
<1>1. CallTypeOK /\ EngineTypeOK
  BY DEF TypeOK
<1>2. Cur(t) \in Transfer /\ Chan(t) \in Chans
  BY <1>1, CurType
<1>3. CASE PrepDescriptor(t)
  <2>1. CallTypeOK'
    BY <1>1, <1>3, GotoType, FailType DEF PrepDescriptor, CallTypeOK, CallStates, Errors
  <2> QED
    BY <2>1, <1>3 DEF PrepDescriptor, TypeOK, EngineTypeOK, engineVars
<1>4. CASE SetCbComp(t)
  <2>1. cb_data' \in [Chans -> CbData]
    <3> DEFINE p == IF Cur(t).wait THEN t ELSE NULL
    <3>1. cb_data' = [cb_data EXCEPT ![Chan(t)] = [cb_data[Chan(t)] EXCEPT !.comp = p]]
      BY <1>4 DEF SetCbComp
    <3> QED
      BY <3>1, <1>2, CbDataUpdate DEF TypeOK
  <2>2. torn' \in [Chans -> SUBSET Cookies]
    BY <1>4, <1>2 DEF SetCbComp, OtherKind, TypeOK
  <2> QED
    BY <2>1, <2>2, <1>4, <1>1, GotoType
       DEF SetCbComp, TypeOK, CallTypeOK, CallStates, EngineTypeOK, engineVars
<1>5. CASE SetCbSignal(t)
  <2>1. cb_data' \in [Chans -> CbData]
    <3> DEFINE s == IF Cur(t).wait THEN NoSignal ELSE Cur(t).notify_signal
    <3>1. cb_data' = [cb_data EXCEPT ![Chan(t)] =
                        [cb_data[Chan(t)] EXCEPT !.notify_signal = s]]
      BY <1>5 DEF SetCbSignal
    <3>2. s \in RtSignals \cup {NoSignal, Garbage}
      BY <1>1, CurType
    <3> QED
      BY <3>1, <3>2, <1>2, CbDataUpdate DEF TypeOK
  <2> QED
    BY <2>1, <1>5, <1>1, GotoType
       DEF SetCbSignal, TypeOK, CallTypeOK, CallStates, EngineTypeOK, engineVars
<1>6. CASE SetCbProcess(t)
  <2>1. cb_data' \in [Chans -> CbData]
    <3> DEFINE p == IF Cur(t).wait THEN NULL ELSE t
    <3>1. cb_data' = [cb_data EXCEPT ![Chan(t)] =
                        [cb_data[Chan(t)] EXCEPT !.process = p]]
      BY <1>6 DEF SetCbProcess
    <3> QED
      BY <3>1, <1>2, CbDataUpdate DEF TypeOK
  <2>2. done' \in [Threads -> BOOLEAN]
    BY <1>6 DEF SetCbProcess, TypeOK
  <2> QED
    BY <2>1, <2>2, <1>6, <1>1, GotoType
       DEF SetCbProcess, TypeOK, CallTypeOK, CallStates, EngineTypeOK, engineVars
<1>7. CASE Submit(t)
  <2>1. ASSUME NEW n \in Cookies,
               EngineSubmit(Chan(t), n, t, Wanted(Cur(t))),
               tfr' = [tfr EXCEPT ![t][leg[t]].cookie = n],
               \/ Goto(t, "submit", "prep") /\ leg' = [leg EXCEPT ![t] = 2]
               \/ Goto(t, "submit", "issue") /\ leg' = [leg EXCEPT ![t] = 1],
               UNCHANGED <<op, rc>>
        PROVE  CallTypeOK' /\ EngineTypeOK'
    <3>1. EngineTypeOK'
      BY <2>1, <1>1, <1>2, EngineSubmitType DEF Wanted, Notices
    <3>2. tfr' \in [Threads -> [Leg -> Transfer]]
      <4> DEFINE x == [Cur(t) EXCEPT !.cookie = n]
      <4>1. x \in Transfer
        BY <1>2, TransferUpdate, ConstantsAssumption DEF Cookies
      <4>2. tfr' = [tfr EXCEPT ![t] = [tfr[t] EXCEPT ![leg[t]] = x]]
        BY <2>1 DEF Cur
      <4> QED
        BY <4>1, <4>2, <1>1 DEF CallTypeOK
    <3>3. pc' \in [Threads -> CallStates] /\ leg' \in [Threads -> Leg]
      BY <2>1, <1>1, GotoType DEF CallTypeOK, CallStates, Leg
    <3> QED
      BY <3>1, <3>2, <3>3, <2>1, <1>1 DEF CallTypeOK
  <2>2. ASSUME Fail(t, "submit", "EBUSY"), UNCHANGED engineVars
        PROVE  CallTypeOK' /\ EngineTypeOK'
    BY <2>2, <1>1, FailType DEF Errors, EngineTypeOK, engineVars
  <2> QED
    BY <2>1, <2>2, <1>7 DEF Submit, TypeOK
<1>8. CASE Issue(t)
  <2>1. CallTypeOK'
    BY <1>8, <1>1, LegDoneType, GotoType DEF Issue, CallTypeOK, CallStates
  <2> QED
    BY <2>1, <1>8, <1>1, <1>2, EngineType DEF Issue, TypeOK
<1>9. CASE Wake(t)
  BY <1>9, <1>1, GotoType
     DEF Wake, TypeOK, CallTypeOK, CallStates, EngineTypeOK, engineVars
<1>10. CASE Timeout(t)
  BY <1>10, <1>1, FailType DEF Timeout, TypeOK, Errors, EngineTypeOK, engineVars
<1>11. CASE CheckStatus(t)
  BY <1>11, <1>1, FailType, LegDoneType
     DEF CheckStatus, TypeOK, Errors, EngineTypeOK, engineVars
<1>12. CASE StopDma(t)
  <2>1. rc[t] \in Errors \cup {"OK"}
    BY <1>1 DEF CallTypeOK
  <2>2. CallTypeOK'
    BY <2>1, <1>12, <1>1, ReturnType DEF StopDma
  <2> QED
    BY <2>2, <1>12, <1>1, <1>2, EngineType DEF StopDma, TypeOK
<1> QED
  BY <1>3, <1>4, <1>5, <1>6, <1>7, <1>8, <1>9, <1>10, <1>11, <1>12 DEF InCall

LEMMA NextType ==
  ASSUME TypeOK, [Next]_vars
  PROVE  TypeOK'
<1>1. ASSUME NEW t \in Threads, SetSignal(t)
      PROVE  TypeOK'
  BY <1>1 DEF SetSignal, Refuse, TypeOK, CallTypeOK, EngineTypeOK, engineVars, Errors
<1>2. ASSUME NEW t \in Threads, NEW c \in Uses[t], StopChannel(t, c)
      PROVE  TypeOK'
  <2>1. c \in Chans
    BY ConstantsAssumption
  <2> QED
    BY <2>1, <1>2, EngineType DEF StopChannel, Refuse, TypeOK, CallTypeOK, Errors
<1>3. ASSUME NEW c \in Chans, HwComplete(c)
      PROVE  TypeOK'
  BY <1>3, EngineType DEF HwComplete, TypeOK, CallTypeOK, callVars
<1>4. CASE UNCHANGED vars
  BY <1>4 DEF vars, callVars, engineVars, TypeOK, CallTypeOK, EngineTypeOK
<1> QED
  BY <1>1, <1>2, <1>3, <1>4, StartCallType, InCallType, KernelType DEF Next

(* Every variable of the transfer path keeps its type: the cookie counters *)
(* stay within the bound, every status a call carries is one the code      *)
(* names, and cb_data only ever holds threads, NULL or its first garbage.  *)
THEOREM TypeCorrect == Spec => []TypeOK
<1>1. Init => TypeOK
  BY InitType
<1>2. TypeOK /\ [Next]_vars => TypeOK'
  BY NextType
<1> QED
  BY <1>1, <1>2, PTL DEF Spec

-----------------------------------------------------------------------------
(* The engine.                                                             *)

(* What a step can do to the engine and the callbacks.                     *)
EngineStep(c) ==
    \/ \E n \in Cookies, t \in Threads, notice \in Notices :
          EngineSubmit(c, n, t, notice) /\ UNCHANGED cb
    \/ EngineIssue(c) /\ UNCHANGED cb
    \/ EngineTerminate(c) /\ UNCHANGED cb
    \/ HwComplete(c)
    \/ Kernel(c)

LEMMA StepOfEngine ==
  ASSUME TypeOK, [Next]_vars
  PROVE  \/ UNCHANGED <<engineVars, cb>>
         \/ \E c \in Chans : EngineStep(c)
<1>1. \A t \in Threads : Chan(t) \in Chans /\ Wanted(Cur(t)) \in Notices
  BY CurType DEF TypeOK, Wanted, Notices
<1>2. ASSUME NEW t \in Threads, InCall(t)
      PROVE  \/ UNCHANGED <<engineVars, cb>>
             \/ EngineStep(Chan(t))
  <2>1. CASE Submit(t)
    BY <2>1, <1>1 DEF Submit, EngineStep
  <2>2. CASE Issue(t)
    BY <2>2 DEF Issue, EngineStep
  <2>3. CASE StopDma(t)
    BY <2>3 DEF StopDma, EngineStep
  <2> QED
    BY <2>1, <2>2, <2>3, <1>2
       DEF InCall, PrepDescriptor, SetCbComp, SetCbSignal, SetCbProcess, Wake,
           Timeout, CheckStatus
<1>3. ASSUME NEW t \in Threads, StartCall(t) \/ SetSignal(t)
      PROVE  UNCHANGED <<engineVars, cb>>
  BY <1>3 DEF StartCall, SetSignal
<1>4. ASSUME NEW t \in Threads, NEW c \in Uses[t], StopChannel(t, c)
      PROVE  c \in Chans /\ EngineStep(c)
  BY <1>4, ConstantsAssumption DEF StopChannel, EngineStep
<1> QED
  BY <1>1, <1>2, <1>3, <1>4 DEF Next, vars, EngineStep

LEMMA EngineInvStep ==
  ASSUME TypeOK, EngineInv, CallbackInv, [Next]_vars
  PROVE  EngineInv' /\ CallbackInv'
<1>1. ASSUME UNCHANGED <<engineVars, cb>>
      PROVE  EngineInv' /\ CallbackInv'
  BY <1>1 DEF engineVars, EngineInv, EngineOK, CallbackInv
<1>2. ASSUME NEW c \in Chans, EngineStep(c)
      PROVE  EngineInv' /\ CallbackInv'
  <2> USE DEF EngineInv, EngineOK, CallbackInv
  <2>1. ASSUME NEW n \in Cookies, NEW t \in Threads, NEW notice \in Notices,
               EngineSubmit(c, n, t, notice), UNCHANGED cb
        PROVE  EngineInv' /\ CallbackInv'
    <3>1. /\ n = lastUsed[c] + 1 /\ n \in Nat /\ lastUsed[c] \in Nat
          /\ lastUsed'[c] = n
          /\ lastComplete' = lastComplete /\ performed' = performed
          /\ \A m \in Cookies : stage'[c][m] = IF m = n THEN "pending" ELSE stage[c][m]
          /\ \A d \in Chans : d # c => lastUsed'[d] = lastUsed[d] /\ stage'[d] = stage[d]
      BY <2>1, ConstantsAssumption DEF EngineSubmit, TypeOK, EngineTypeOK, Cookies
    <3>2. lastComplete[c] \in Nat /\ \A m \in Cookies : m \in Nat
      BY ConstantsAssumption DEF TypeOK, EngineTypeOK, Cookies
    <3>3. EngineOK(c)'
      <4>1. /\ lastComplete[c] <= n
            /\ \A m \in Cookies : stage'[c][m] = "free" <=> m > n
            /\ \A m \in Cookies : m <= lastComplete[c] =>
                                     stage'[c][m] \notin {"pending", "active"}
        BY <3>1, <3>2
      <4>2. \A k, m \in Cookies : stage'[c][k] = "active" /\ stage'[c][m] = "pending" => k < m
        BY <3>1, <3>2
      <4> QED
        BY <4>1, <4>2, <3>1
    <3>4. ASSUME NEW d \in Chans, d # c
          PROVE  EngineOK(d)'
      BY <3>4, <3>1
    <3>5. CallbackInv'
      BY <3>1, <3>2, <2>1
    <3> QED
      BY <3>3, <3>4, <3>5
  <2>2. ASSUME EngineIssue(c), UNCHANGED cb
        PROVE  EngineInv' /\ CallbackInv'
    BY <2>2 DEF EngineIssue, TypeOK, EngineTypeOK
  <2>3. ASSUME EngineTerminate(c), UNCHANGED cb
        PROVE  EngineInv' /\ CallbackInv'
    BY <2>3 DEF EngineTerminate, TypeOK, EngineTypeOK
  <2>4. CASE HwComplete(c)
    BY <2>4, ConstantsAssumption DEF HwComplete, TypeOK, EngineTypeOK, Cookies
  <2>5. CASE CallbackEnter(c)
    BY <2>5 DEF CallbackEnter, TypeOK, EngineTypeOK
  <2>6. ASSUME NEW how \in Finished, NEW whom, cb[c].pc # "idle",
               CallbackReturn(c, how, whom)
        PROVE  EngineInv' /\ CallbackInv'
    BY <2>6 DEF CallbackReturn, TypeOK, EngineTypeOK, Finished, IdleCallback
  <2>7. CASE CallbackReadComp(c)
    BY <2>7 DEF CallbackReadComp, engineVars, TypeOK
  <2>8. CASE CallbackReadSignal(c)
    <3>1. CASE cb' = [cb EXCEPT ![c].pc = "send"] /\ UNCHANGED engineVars
      BY <2>8, <3>1 DEF CallbackReadSignal, engineVars, TypeOK
    <3> QED
      BY <3>1, <2>6, <2>8 DEF CallbackReadSignal, Finished
  <2>9. ASSUME cb[c].pc # "idle", Oops(c)
        PROVE  EngineInv' /\ CallbackInv'
    BY <2>9 DEF engineVars, TypeOK
  <2>10. CASE CallbackComplete(c)
    BY <2>6, <2>9, <2>10 DEF CallbackComplete, Finished
  <2>11. CASE CallbackSend(c)
    BY <2>6, <2>9, <2>11 DEF CallbackSend, Finished
  <2> QED
    BY <1>2, <2>1, <2>2, <2>3, <2>4, <2>5, <2>7, <2>8, <2>10, <2>11
       DEF EngineStep, Kernel
<1> QED
  BY <1>1, <1>2, StepOfEngine
-----------------------------------------------------------------------------
(* The frames of the calls.                                                *)

SameFrame(t) ==
    /\ pc'[t] = pc[t] /\ op'[t] = op[t] /\ tfr'[t] = tfr[t]
    /\ leg'[t] = leg[t] /\ rc'[t] = rc[t]

LEMMA CookiesGrow ==
  ASSUME TypeOK, [Next]_vars, NEW c \in Chans
  PROVE  lastUsed[c] <= lastUsed'[c]
<1>1. ASSUME NEW d \in Chans, EngineStep(d)
      PROVE  lastUsed[c] <= lastUsed'[c]
  <2>1. \A n \in Nat : n <= n + 1
    OBVIOUS
  <2>2. lastUsed[c] \in Nat /\ lastUsed[d] \in Nat
    BY DEF TypeOK, EngineTypeOK
  <2>3. lastUsed' = lastUsed \/ lastUsed' = [lastUsed EXCEPT ![d] = lastUsed[d] + 1]
    <3>1. CASE Kernel(d) \/ HwComplete(d) \/ EngineIssue(d) \/ EngineTerminate(d)
      BY <3>1 DEF Kernel, EngineIssue, EngineTerminate, HwComplete, CallbackEnter,
         CallbackReadComp, CallbackComplete, CallbackReadSignal, CallbackSend,
         CallbackReturn, engineVars
    <3>2. CASE \E n \in Cookies, t \in Threads, notice \in Notices :
                 EngineSubmit(d, n, t, notice) /\ UNCHANGED cb
      BY <3>2 DEF EngineSubmit
    <3> QED
      BY <3>1, <3>2, <1>1 DEF EngineStep
  <2>4. lastUsed'[c] = IF lastUsed' # lastUsed /\ c = d THEN lastUsed[c] + 1 ELSE lastUsed[c]
    BY <2>3 DEF TypeOK, EngineTypeOK
  <2> QED
    BY <2>1, <2>2, <2>4
<1>2. CASE UNCHANGED <<engineVars, cb>>
  BY <1>2 DEF engineVars, TypeOK, EngineTypeOK
<1> QED
  BY <1>1, <1>2, StepOfEngine

LEMMA FrameKept ==
  ASSUME TypeOK, [Next]_vars, NEW t \in Threads, FrameOK(t), SameFrame(t)
  PROVE  FrameOK(t)'
<1>1. \A i \in Leg : tfr[t][i].chan \in Chans /\ tfr[t][i].cookie \in Nat
  BY DEF TypeOK, CallTypeOK, Transfer
<1>2. \A i \in Leg : lastUsed[tfr[t][i].chan] <= lastUsed'[tfr[t][i].chan]
  BY <1>1, CookiesGrow
<1>3. \A i \in Leg : lastUsed[tfr[t][i].chan] \in Nat /\ lastUsed'[tfr[t][i].chan] \in Nat
  BY <1>1, NextType DEF TypeOK, EngineTypeOK
<1>4. \A i \in Leg : tfr'[t][i].cookie <= lastUsed'[tfr'[t][i].chan]
  BY <1>1, <1>2, <1>3 DEF FrameOK, SameFrame
<1> QED
  BY <1>4 DEF FrameOK, SameFrame, Cur, LastLeg

(* A step of one thread leaves the others' frames alone.                   *)
LEMMA OtherFrames ==
  ASSUME TypeOK, NEW t \in Threads, NEW u \in Threads, u # t,
         \/ StartCall(t) \/ SetSignal(t) \/ InCall(t)
         \/ \E c \in Uses[t] : StopChannel(t, c)
  PROVE  SameFrame(u)
<1> USE DEF TypeOK, CallTypeOK, SameFrame
<1>1. ASSUME NEW code, Refuse(t, code) PROVE SameFrame(u)
  BY <1>1 DEF Refuse
<1>2. ASSUME NEW o, NEW x, NEW y, Begin(t, o, x, y) PROVE SameFrame(u)
  BY <1>2 DEF Begin
<1>3. ASSUME NEW from, NEW code, Return(t, from, code) PROVE SameFrame(u)
  BY <1>3 DEF Return
<1>4. ASSUME NEW from, NEW to, Goto(t, from, to) PROVE pc'[u] = pc[u]
  BY <1>4 DEF Goto
<1>5. ASSUME NEW from, NEW code, Fail(t, from, code) PROVE SameFrame(u)
  BY <1>5 DEF Fail, Goto
<1>6. ASSUME NEW from, LegDone(t, from) PROVE SameFrame(u)
  BY <1>6, <1>3, <1>4 DEF LegDone
<1>7. CASE StartCall(t)
  <2>1. ASSUME NEW c, NEW w, NEW o, NEW dir, OneWay(t, o, dir, c, w)
        PROVE  SameFrame(u)
    BY <2>1, <1>1, <1>2 DEF OneWay
  <2>2. ASSUME NEW tx, NEW rx, NEW w, RwTransfer(t, tx, rx, w)
        PROVE  SameFrame(u)
    BY <2>2, <1>1, <1>2 DEF RwTransfer
  <2>3. ASSUME NEW c, VideoTransfer(t, c)
        PROVE  SameFrame(u)
    BY <2>3, <1>1, <1>2 DEF VideoTransfer
  <2> QED
    BY <1>7, <2>1, <2>2, <2>3 DEF StartCall, ReadTransfer, WriteTransfer
<1>8. CASE SetSignal(t) \/ \E c \in Uses[t] : StopChannel(t, c)
  BY <1>8, <1>1 DEF SetSignal, StopChannel
<1>9. CASE InCall(t)
  <2>1. CASE PrepDescriptor(t)
    BY <2>1, <1>4, <1>5 DEF PrepDescriptor
  <2>2. CASE SetCbComp(t) \/ SetCbSignal(t) \/ SetCbProcess(t) \/ Wake(t)
    BY <2>2, <1>4 DEF SetCbComp, SetCbSignal, SetCbProcess, Wake
  <2>3. CASE Submit(t)
    BY <2>3, <1>4, <1>5 DEF Submit
  <2>4. CASE Issue(t)
    BY <2>4, <1>4, <1>6 DEF Issue
  <2>5. CASE Timeout(t) \/ CheckStatus(t)
    BY <2>5, <1>5, <1>6 DEF Timeout, CheckStatus
  <2>6. CASE StopDma(t)
    BY <2>6, <1>3 DEF StopDma
  <2> QED
    BY <1>9, <2>1, <2>2, <2>3, <2>4, <2>5, <2>6 DEF InCall
<1> QED
  BY <1>7, <1>8, <1>9

(* A call that starts has a fresh frame.                                   *)
LEMMA StartCallFrame ==
  ASSUME TypeOK, NEW t \in Threads, FrameOK(t), StartCall(t)
  PROVE  FrameOK(t)'
<1>1. lastUsed' = lastUsed
  BY DEF StartCall, engineVars
<1>2. ASSUME NEW code, Refuse(t, code)
      PROVE  FrameOK(t)'
  BY <1>1, <1>2 DEF Refuse, FrameOK, Cur, LastLeg, PrepStates, StartStates, TypeOK, CallTypeOK
<1>3. ASSUME NEW o \in TransferOps, NEW c \in Chans, NEW d \in Chans,
             NEW v \in BOOLEAN, NEW w \in BOOLEAN,
             o = "rw" => c # d /\ ~v,
             o = "video" => ~v,
             Begin(t, o, NewTransfer(c, v), NewTransfer(d, w))
      PROVE  FrameOK(t)'
  <2>1. /\ pc'[t] = "prep" /\ op'[t] = o /\ leg'[t] = 1
        /\ tfr'[t] = [i \in Leg |-> IF i = 1 THEN NewTransfer(c, v) ELSE NewTransfer(d, w)]
    BY <1>3 DEF Begin, TypeOK, CallTypeOK
  <2>2. /\ tfr'[t][1].cookie = 0 /\ tfr'[t][2].cookie = 0
        /\ tfr'[t][1].chan = c /\ tfr'[t][2].chan = d /\ tfr'[t][1].wait = v
    BY <2>1 DEF NewTransfer, Leg
  <2>3. 0 <= lastUsed'[c] /\ 0 <= lastUsed'[d]
    BY <1>1 DEF TypeOK, EngineTypeOK
  <2> QED
    BY <1>3, <2>1, <2>2, <2>3
       DEF FrameOK, Cur, LastLeg, PrepStates, StartStates, Leg, TransferOps
<1>4. Uses[t] \subseteq Chans
  BY ConstantsAssumption
<1>5. ASSUME NEW c \in Chans, NEW w \in BOOLEAN, NEW o \in {"read", "write"},
             NEW dir, OneWay(t, o, dir, c, w)
      PROVE  FrameOK(t)'
  BY <1>5, <1>2, <1>3 DEF OneWay, TransferOps
<1>6. ASSUME NEW tx \in Chans, NEW rx \in Chans, NEW w \in BOOLEAN,
             RwTransfer(t, tx, rx, w)
      PROVE  FrameOK(t)'
  <2>1. Dir[tx] = "WRITE" /\ Dir[rx] = "READ" => tx # rx
    OBVIOUS
  <2> QED
    BY <2>1, <1>6, <1>2, <1>3 DEF RwTransfer, TransferOps
<1>7. ASSUME NEW c \in Chans, VideoTransfer(t, c)
      PROVE  FrameOK(t)'
  BY <1>7, <1>2, <1>3 DEF VideoTransfer, TransferOps
<1> QED
  BY <1>4, <1>5, <1>6, <1>7 DEF StartCall, ReadTransfer, WriteTransfer

LEMMA InCallFrame ==
  ASSUME TypeOK, [Next]_vars, NEW t \in Threads, FrameOK(t), InCall(t)
  PROVE  FrameOK(t)'
<1> USE DEF PrepStates, StartStates
<1>1. CallTypeOK /\ TypeOK'
  BY NextType DEF TypeOK
<1>2. LastLeg(t) \in {1, 2} /\ leg[t] \in {1, 2}
  BY <1>1 DEF LastLeg, CallTypeOK, Leg
<1>3. ASSUME NEW i \in Leg
      PROVE  /\ tfr[t][i].chan \in Chans /\ tfr[t][i].cookie \in Nat
             /\ tfr[t][i].cookie <= lastUsed'[tfr[t][i].chan]
  <2>1. tfr[t][i].chan \in Chans /\ tfr[t][i].cookie \in Nat
    BY <1>1 DEF CallTypeOK, Transfer
  <2>2. /\ lastUsed[tfr[t][i].chan] \in Nat /\ lastUsed'[tfr[t][i].chan] \in Nat
        /\ lastUsed[tfr[t][i].chan] <= lastUsed'[tfr[t][i].chan]
    BY <2>1, <1>1, CookiesGrow DEF TypeOK, EngineTypeOK
  <2> QED
    BY <2>1, <2>2 DEF FrameOK
<1>4. ASSUME NEW from, NEW code, Return(t, from, code)
      PROVE  FrameOK(t)'
  <2>1. /\ pc'[t] = "idle" /\ op'[t] = "none" /\ tfr'[t] = NoFrame /\ leg'[t] = 1
    BY <1>4, <1>1 DEF Return, CallTypeOK
  <2>2. \A i \in Leg : /\ NoFrame[i].cookie = 0 /\ ~NoFrame[i].wait
                       /\ NoFrame[i].chan \in Chans
    BY ConstantsAssumption DEF NoFrame
  <2>3. \A c \in Chans : 0 <= lastUsed'[c]
    BY <1>1 DEF TypeOK, EngineTypeOK
  <2> QED
    BY <2>1, <2>2, <2>3 DEF FrameOK, Cur, LastLeg, Leg
<1>5. ASSUME NEW from, NEW code \in Errors, Fail(t, from, code),
             leg[t] = 1 => tfr[t][2].cookie = 0
      PROVE  FrameOK(t)'
  BY <1>5, <1>1, <1>3 DEF Fail, Goto, FrameOK, CallTypeOK, Cur, LastLeg, Errors
<1>6. ASSUME NEW from, LegDone(t, from), from \in StartStates
      PROVE  FrameOK(t)'
  <2>1. CASE leg[t] < LastLeg(t) /\ Goto(t, from, "issue")
             /\ leg' = [leg EXCEPT ![t] = 2] /\ UNCHANGED <<op, tfr, rc>>
    BY <2>1, <1>6, <1>1, <1>2, <1>3 DEF Goto, FrameOK, CallTypeOK, Cur, LastLeg
  <2> QED
    BY <2>1, <1>4, <1>6 DEF LegDone
<1>7. ASSUME NEW from \in PrepStates, NEW to \in PrepStates, Goto(t, from, to),
             UNCHANGED <<op, tfr, leg, rc>>
      PROVE  FrameOK(t)'
  BY <1>7, <1>1, <1>3 DEF Goto, FrameOK, CallTypeOK, Cur, LastLeg
<1>8. CASE PrepDescriptor(t)
  BY <1>8, <1>5, <1>7 DEF PrepDescriptor, Fail, Goto, FrameOK, Errors
<1>9. CASE SetCbComp(t) \/ SetCbSignal(t) \/ SetCbProcess(t)
  BY <1>9, <1>7 DEF SetCbComp, SetCbSignal, SetCbProcess
<1>10. CASE Submit(t)
  <2>1. ASSUME NEW n \in Cookies,
               EngineSubmit(Chan(t), n, t, Wanted(Cur(t))),
               tfr' = [tfr EXCEPT ![t][leg[t]].cookie = n],
               \/ leg[t] < LastLeg(t) /\ Goto(t, "submit", "prep")
                                      /\ leg' = [leg EXCEPT ![t] = 2]
               \/ leg[t] = LastLeg(t) /\ Goto(t, "submit", "issue")
                                      /\ leg' = [leg EXCEPT ![t] = 1],
               UNCHANGED <<op, rc>>
        PROVE  FrameOK(t)'
    <3>1. /\ tfr'[t][leg[t]] = [Cur(t) EXCEPT !.cookie = n]
          /\ \A i \in Leg : i # leg[t] => tfr'[t][i] = tfr[t][i]
      BY <2>1, <1>1 DEF CallTypeOK, Cur
    <3>2. /\ tfr'[t][leg[t]].cookie = n
          /\ tfr'[t][leg[t]].chan = Chan(t)
          /\ tfr'[t][leg[t]].wait = Cur(t).wait
      BY <3>1, <1>1, CurType DEF Transfer, Chan
    <3>3. n # 0 /\ n <= lastUsed'[Chan(t)]
      BY <2>1, <1>1, CurType, ConstantsAssumption
         DEF EngineSubmit, Cookies, TypeOK, EngineTypeOK
    <3>4. \A i \in Leg : tfr'[t][i].cookie <= lastUsed'[tfr'[t][i].chan]
      BY <3>1, <3>2, <3>3, <1>3
    <3>5. pc[t] = "submit"
      BY <2>1 DEF Goto
    <3>6. op'[t] = op[t] /\ rc'[t] = rc[t]
      BY <2>1
    <3>7. CASE leg[t] < LastLeg(t)
      <4>1. op[t] = "rw" /\ leg[t] = 1 /\ pc'[t] = "prep" /\ leg'[t] = 2
        BY <3>7, <2>1, <1>1, <1>2 DEF LastLeg, Goto, CallTypeOK
      <4> QED
        BY <4>1, <3>1, <3>2, <3>3, <3>4, <3>5, <3>6 DEF FrameOK, Cur, LastLeg, Chan, Leg
    <3>8. CASE leg[t] = LastLeg(t)
      <4>1. pc'[t] = "issue" /\ leg'[t] = 1
        BY <3>8, <2>1, <1>1, <1>2 DEF LastLeg, Goto, CallTypeOK
      <4> QED
        <5>1. CASE op[t] = "rw"
          <6>1. leg[t] = 2 /\ LastLeg(t) = 2 /\ \A i \in 1..2 : i = 1 \/ i = 2
            BY <5>1, <3>8 DEF LastLeg
          <6>2. /\ tfr'[t][1] = tfr[t][1]
                /\ tfr'[t][2].cookie = n /\ tfr'[t][2].chan = tfr[t][2].chan
            BY <6>1, <3>1, <3>2 DEF Chan, Cur, Leg
          <6>3. tfr[t][1].cookie # 0
            BY <6>1, <3>5 DEF FrameOK
          <6> QED
            BY <6>1, <6>2, <6>3, <5>1, <4>1, <3>3, <3>4, <3>6 DEF FrameOK, LastLeg
        <5>2. CASE op[t] # "rw"
          <6>1. leg[t] = 1 /\ \A i \in 1..1 : i = 1
            BY <5>2, <3>8 DEF LastLeg
          <6>2. /\ tfr'[t][1].cookie = n /\ tfr'[t][2].cookie = 0
                /\ tfr'[t][1].wait = tfr[t][1].wait
            BY <6>1, <5>2, <3>1, <3>2 DEF FrameOK, Cur, Leg
          <6> QED
            BY <6>1, <6>2, <5>2, <4>1, <3>3, <3>4, <3>5, <3>6
               DEF FrameOK, LastLeg
        <5> QED
          BY <5>1, <5>2
    <3> QED
      BY <3>7, <3>8, <2>1
  <2>2. CASE Fail(t, "submit", "EBUSY")
    BY <2>2, <1>5 DEF Fail, Goto, FrameOK, Errors
  <2> QED
    BY <2>1, <2>2, <1>10 DEF Submit
<1>11. CASE Issue(t)
  <2>1. CASE Cur(t).wait /\ Goto(t, "issue", "wait") /\ UNCHANGED <<op, tfr, leg, rc>>
    BY <2>1, <1>1, <1>3 DEF Goto, FrameOK, CallTypeOK, Cur, LastLeg
  <2> QED
    BY <2>1, <1>6, <1>11 DEF Issue
<1>12. CASE Wake(t)
  BY <1>12, <1>1, <1>3 DEF Wake, Goto, FrameOK, CallTypeOK, Cur, LastLeg
<1>13. pc[t] \in {"wait", "status"} /\ leg[t] = 1 => tfr[t][2].cookie = 0
  BY DEF FrameOK, Cur
<1>14. CASE Timeout(t)
  BY <1>14, <1>5, <1>13 DEF Timeout, Fail, Goto, Errors
<1>15. CASE CheckStatus(t)
  BY <1>15, <1>5, <1>6, <1>13 DEF CheckStatus, Fail, Goto, Errors
<1>16. CASE StopDma(t)
  BY <1>16, <1>4 DEF StopDma
<1> QED
  BY <1>8, <1>9, <1>10, <1>11, <1>12, <1>14, <1>15, <1>16 DEF InCall

LEMMA FrameInvStep ==
  ASSUME TypeOK, FrameInv, [Next]_vars
  PROVE  FrameInv'
<1> SUFFICES ASSUME NEW u \in Threads
             PROVE  FrameOK(u)'
  BY DEF FrameInv
<1>1. FrameOK(u)
  BY DEF FrameInv
<1>2. ASSUME NEW t \in Threads,
             \/ StartCall(t) \/ SetSignal(t) \/ InCall(t)
             \/ \E c \in Uses[t] : StopChannel(t, c)
      PROVE  FrameOK(u)'
  <2>1. CASE u # t
    BY <2>1, <1>1, <1>2, OtherFrames, FrameKept
  <2>2. CASE u = t /\ (SetSignal(t) \/ \E c \in Uses[t] : StopChannel(t, c))
    <3>1. /\ pc'[t] = "idle" /\ pc[t] = "idle"
          /\ op'[t] = op[t] /\ tfr'[t] = tfr[t] /\ leg'[t] = leg[t]
      BY <2>2 DEF SetSignal, StopChannel, Refuse
    <3>2. lastUsed' = lastUsed
      BY <2>2 DEF SetSignal, StopChannel, EngineTerminate, engineVars
    <3> QED
      BY <2>2, <3>1, <3>2, <1>1 DEF FrameOK, Cur, LastLeg, PrepStates, StartStates
  <2>3. CASE u = t /\ (StartCall(t) \/ InCall(t))
    BY <2>3, <1>1, StartCallFrame, InCallFrame
  <2> QED
    BY <2>1, <2>2, <2>3, <1>2
<1>3. ASSUME NEW c \in Chans, HwComplete(c) \/ Kernel(c)
      PROVE  FrameOK(u)'
  BY <1>1, <1>3, FrameKept
     DEF HwComplete, Kernel, CallbackEnter, CallbackReadComp, CallbackComplete,
         CallbackReadSignal, CallbackSend, callVars, SameFrame
<1>4. CASE UNCHANGED vars
  BY <1>1, <1>4, FrameKept DEF vars, callVars, SameFrame
<1> QED
  BY <1>2, <1>3, <1>4 DEF Next
-----------------------------------------------------------------------------
(* No DMA behind a call that returned.                                     *)

SubmitsNow(t, n) ==
    /\ pc[t] = "submit" /\ pc'[t] # "idle"
    /\ EngineSubmit(Chan(t), n, t, Wanted(Cur(t)))
    /\ tfr' = [tfr EXCEPT ![t][leg[t]].cookie = n]

(* A descriptor that is listed after a step was listed before it, or is    *)
(* being submitted.                                                        *)
LEMMA ListedBefore ==
  ASSUME TypeOK, EngineInv, CallbackInv, [Next]_vars,
         NEW c \in Chans, NEW n \in Cookies,
         stage'[c][n] \in {"pending", "active"}
  PROVE  \/ /\ stage[c][n] \in {"pending", "active"}
            /\ owner'[c][n] = owner[c][n] /\ asked'[c][n] = asked[c][n]
         \/ \E t \in Threads : Chan(t) = c /\ SubmitsNow(t, n)
<1> DEFINE Kept == /\ stage[c][n] \in {"pending", "active"}
                   /\ owner'[c][n] = owner[c][n] /\ asked'[c][n] = asked[c][n]
<1> USE DEF TypeOK, EngineTypeOK
<1>1. ASSUME UNCHANGED engineVars PROVE Kept
  BY <1>1 DEF engineVars
<1>2. ASSUME NEW d \in Chans, EngineIssue(d) \/ EngineTerminate(d) PROVE Kept
  <2>1. CASE EngineIssue(d)
    BY <2>1 DEF EngineIssue
  <2>2. CASE EngineTerminate(d)
    BY <2>2 DEF EngineTerminate
  <2> QED
    BY <1>2, <2>1, <2>2
<1>3. ASSUME NEW d \in Chans, HwComplete(d) \/ CallbackEnter(d) PROVE Kept
  <2>1. CASE HwComplete(d)
    BY <2>1 DEF HwComplete
  <2>2. CASE CallbackEnter(d)
    BY <2>2 DEF CallbackEnter
  <2> QED
    BY <1>3, <2>1, <2>2
<1>4. ASSUME NEW d \in Chans, NEW how \in Finished, NEW whom,
             CallbackReturn(d, how, whom)
      PROVE  Kept
  BY <1>4 DEF CallbackReturn, Finished
<1>5. ASSUME NEW d \in Chans, Kernel(d) PROVE Kept
  BY <1>1, <1>3, <1>4, <1>5
     DEF Kernel, CallbackReadComp, CallbackComplete, CallbackReadSignal, CallbackSend,
         Finished
<1>6. ASSUME NEW t \in Threads, NEW m \in Cookies, SubmitsNow(t, m)
      PROVE  Kept \/ (Chan(t) = c /\ SubmitsNow(t, n))
  <2>1. CASE Chan(t) = c /\ m = n
    BY <2>1, <1>6
  <2>2. CASE Chan(t) # c \/ m # n
    BY <2>2, <1>6 DEF SubmitsNow, EngineSubmit
  <2> QED
    BY <2>1, <2>2
<1>7. ASSUME NEW t \in Threads, InCall(t)
      PROVE  Kept \/ (Chan(t) = c /\ SubmitsNow(t, n))
  <2>1. CASE Submit(t)
    <3>1. ASSUME NEW m \in Cookies,
                 EngineSubmit(Chan(t), m, t, Wanted(Cur(t))),
                 tfr' = [tfr EXCEPT ![t][leg[t]].cookie = m],
                 Goto(t, "submit", "prep") \/ Goto(t, "submit", "issue")
          PROVE  SubmitsNow(t, m)
      BY <3>1 DEF SubmitsNow, Goto, CallTypeOK
    <3> QED
      BY <3>1, <2>1, <1>1, <1>6 DEF Submit
  <2>2. CASE Issue(t) \/ StopDma(t)
    BY <2>2, <1>2, CurType DEF Issue, StopDma
  <2> QED
    BY <2>1, <2>2, <1>1, <1>7
       DEF InCall, PrepDescriptor, SetCbComp, SetCbSignal, SetCbProcess, Wake,
           Timeout, CheckStatus
<1>8. ASSUME NEW t \in Threads, StartCall(t) \/ SetSignal(t) PROVE Kept
  BY <1>1, <1>8 DEF StartCall, SetSignal
<1>9. ASSUME NEW t \in Threads, NEW d \in Uses[t], StopChannel(t, d) PROVE Kept
  BY <1>2, <1>9, ConstantsAssumption DEF StopChannel
<1>10. CASE UNCHANGED vars
  BY <1>1, <1>10 DEF vars
<1> QED
  BY <1>3, <1>5, <1>7, <1>8, <1>9, <1>10 DEF Next

(* The leg whose descriptor somebody waits for is the one the call is at,  *)
(* unless the call is a read-write transfer at its first leg.              *)
LEMMA WaitedLeg ==
  ASSUME TypeOK, NEW t \in Threads, FrameOK(t), NEW i \in Leg,
         tfr[t][i].wait, tfr[t][i].cookie # 0, i # leg[t]
  PROVE  op[t] = "rw" /\ leg[t] = 1 /\ i = 2
BY DEF FrameOK, TypeOK, CallTypeOK, Leg, LastLeg

(* What a step does to a frame in which a listed descriptor is waited for. *)
LEMMA FrameStaysAlive ==
  ASSUME TypeOK, EngineInv, FrameInv, [Next]_vars,
         NEW c \in Chans, NEW n \in Cookies, NEW t \in Threads, NEW i \in Leg,
         stage[c][n] \in {"pending", "active"},
         stage'[c][n] \in {"pending", "active"},
         pc[t] # "idle", tfr[t][i].chan = c, tfr[t][i].cookie = n, tfr[t][i].wait,
         InCall(t)
  PROVE  pc'[t] # "idle" /\ tfr'[t][i] = tfr[t][i]
<1>1. FrameOK(t) /\ n # 0 /\ CallTypeOK
  BY ConstantsAssumption DEF FrameInv, Cookies, TypeOK
<1>2. i # leg[t] => op[t] = "rw" /\ leg[t] = 1 /\ i = 2
  BY <1>1, WaitedLeg
<1>3. i = leg[t] => Cur(t).cookie = n /\ Chan(t) = c /\ Cur(t).wait
  BY DEF Cur, Chan
<1>4. ASSUME NEW from, NEW to, Goto(t, from, to), to # "idle", tfr' = tfr
      PROVE  pc'[t] # "idle" /\ tfr'[t][i] = tfr[t][i]
  BY <1>4, <1>1 DEF Goto, CallTypeOK
<1>5. ASSUME NEW from, NEW code, Fail(t, from, code)
      PROVE  pc'[t] # "idle" /\ tfr'[t][i] = tfr[t][i]
  BY <1>5, <1>4 DEF Fail
<1>6. ASSUME NEW from, LegDone(t, from), i = leg[t] => FALSE
      PROVE  pc'[t] # "idle" /\ tfr'[t][i] = tfr[t][i]
  BY <1>6, <1>2, <1>4 DEF LegDone, LastLeg
<1>7. CASE PrepDescriptor(t)
  BY <1>7, <1>4, <1>5 DEF PrepDescriptor
<1>8. CASE SetCbComp(t) \/ SetCbSignal(t) \/ SetCbProcess(t) \/ Wake(t)
  BY <1>8, <1>4 DEF SetCbComp, SetCbSignal, SetCbProcess, Wake
<1>9. CASE Submit(t)
  <2>1. i # leg[t]
    BY <1>1, <1>3, <1>9 DEF FrameOK, PrepStates, Submit, Goto, Fail
  <2>2. ASSUME NEW m, tfr' = [tfr EXCEPT ![t][leg[t]].cookie = m],
               Goto(t, "submit", "prep") \/ Goto(t, "submit", "issue")
        PROVE  pc'[t] # "idle" /\ tfr'[t][i] = tfr[t][i]
    BY <2>1, <2>2, <1>1 DEF Goto, CallTypeOK
  <2> QED
    BY <2>2, <1>5, <1>9 DEF Submit
<1>10. CASE Issue(t)
  BY <1>10, <1>3, <1>4, <1>6 DEF Issue
<1>11. CASE Timeout(t)
  BY <1>11, <1>5 DEF Timeout
<1>12. CASE CheckStatus(t)
  <2>1. ASSUME i = leg[t], TxComplete(Chan(t), Cur(t).cookie)
        PROVE  FALSE
    <3>1. n <= lastComplete[c] \/ n > lastUsed[c]
      BY <2>1, <1>3 DEF TxComplete
    <3>2. n <= lastUsed[c] /\ n \in Nat /\ lastUsed[c] \in Nat
      BY <1>1, ConstantsAssumption DEF FrameOK, TypeOK, EngineTypeOK, Cookies
    <3> QED
      BY <3>1, <3>2 DEF EngineInv, EngineOK
  <2> QED
    BY <2>1, <1>5, <1>6, <1>12 DEF CheckStatus
<1>13. CASE StopDma(t)
  <2>1. i = leg[t]
    BY <1>13, <1>1, <1>2 DEF StopDma, Return, FrameOK
  <2>2. EngineTerminate(c)
    BY <2>1, <1>3, <1>13 DEF StopDma
  <2> QED
    BY <2>2 DEF EngineTerminate, TypeOK, EngineTypeOK
<1> QED
  BY <1>7, <1>8, <1>9, <1>10, <1>11, <1>12, <1>13 DEF InCall

LEMMA WaitedInvStep ==
  ASSUME DmaInv, [Next]_vars
  PROVE  WaitedInv'
<1> SUFFICES ASSUME NEW c \in Chans, NEW n \in Cookies,
                    stage'[c][n] \in {"pending", "active"}, asked'[c][n] = "wake"
             PROVE  \E i \in Leg : /\ pc'[owner'[c][n]] # "idle"
                                   /\ tfr'[owner'[c][n]][i].chan = c
                                   /\ tfr'[owner'[c][n]][i].cookie = n
                                   /\ tfr'[owner'[c][n]][i].wait
  BY DEF WaitedInv
<1> USE DEF DmaInv
<1>1. CASE /\ stage[c][n] \in {"pending", "active"}
           /\ owner'[c][n] = owner[c][n] /\ asked'[c][n] = asked[c][n]
  <2> DEFINE t == owner[c][n]
  <2>1. t \in Threads
    BY <1>1 DEF OwnerInv
  <2>2. PICK i \in Leg : /\ pc[t] # "idle" /\ tfr[t][i].chan = c
                         /\ tfr[t][i].cookie = n /\ tfr[t][i].wait
    BY <1>1 DEF WaitedInv
  <2>3. pc'[t] # "idle" /\ tfr'[t][i] = tfr[t][i]
    <3>1. CASE InCall(t)
      BY <3>1, <2>1, <2>2, <1>1, FrameStaysAlive
    <3>2. CASE SameFrame(t)
      BY <3>2, <2>2 DEF SameFrame
    <3>3. SameFrame(t) \/ InCall(t)
      <4>1. ASSUME NEW u \in Threads,
                   \/ StartCall(u) \/ SetSignal(u) \/ InCall(u)
                   \/ \E d \in Uses[u] : StopChannel(u, d)
            PROVE  SameFrame(t) \/ InCall(t)
        <5>1. CASE u # t
          BY <5>1, <4>1, <2>1, OtherFrames
        <5>2. ~(StartCall(t) \/ SetSignal(t) \/ \E d \in Uses[t] : StopChannel(t, d))
          BY <2>2 DEF StartCall, ReadTransfer, WriteTransfer, OneWay, RwTransfer,
             VideoTransfer, SetSignal, StopChannel, Refuse, Begin
        <5> QED
          BY <5>1, <5>2, <4>1
      <4>2. ASSUME NEW d \in Chans, HwComplete(d) \/ Kernel(d)
            PROVE  SameFrame(t)
        BY <4>2 DEF HwComplete, Kernel, CallbackEnter, CallbackReadComp,
           CallbackComplete, CallbackReadSignal, CallbackSend, callVars, SameFrame
      <4>3. CASE UNCHANGED vars
        BY <4>3 DEF vars, callVars, SameFrame
      <4> QED
        BY <4>1, <4>2, <4>3 DEF Next
    <3> QED
      BY <3>1, <3>2, <3>3
  <2> QED
    BY <2>2, <2>3, <1>1
<1>2. ASSUME NEW t \in Threads, Chan(t) = c, SubmitsNow(t, n)
      PROVE  \E i \in Leg : /\ pc'[owner'[c][n]] # "idle"
                            /\ tfr'[owner'[c][n]][i].chan = c
                            /\ tfr'[owner'[c][n]][i].cookie = n
                            /\ tfr'[owner'[c][n]][i].wait
  <2>1. owner'[c][n] = t /\ Wanted(Cur(t)) = "wake"
    BY <1>2 DEF SubmitsNow, EngineSubmit, TypeOK, EngineTypeOK
  <2>2. Cur(t).wait
    BY <2>1 DEF Wanted
  <2>3. tfr'[t][leg[t]] = [Cur(t) EXCEPT !.cookie = n] /\ leg[t] \in Leg
    BY <1>2 DEF SubmitsNow, TypeOK, CallTypeOK, Cur
  <2>4. Cur(t) \in Transfer
    BY CurType DEF TypeOK
  <2>5. /\ tfr'[t][leg[t]].chan = c /\ tfr'[t][leg[t]].cookie = n
        /\ tfr'[t][leg[t]].wait
    BY <2>2, <2>3, <2>4, <1>2 DEF Transfer, Chan
  <2> QED
    BY <2>1, <2>3, <2>5, <1>2 DEF SubmitsNow
<1> QED
  BY <1>1, <1>2, ListedBefore

LEMMA OwnerInvStep ==
  ASSUME TypeOK, EngineInv, CallbackInv, OwnerInv, [Next]_vars
  PROVE  OwnerInv'
<1> USE DEF OwnerInv, TypeOK, EngineTypeOK
<1>1. CASE UNCHANGED <<engineVars, cb>>
  BY <1>1 DEF engineVars
<1>2. ASSUME NEW c \in Chans, EngineStep(c)
      PROVE  OwnerInv'
  <2>1. ASSUME NEW n \in Cookies, NEW t \in Threads, NEW notice \in Notices,
               EngineSubmit(c, n, t, notice)
        PROVE  OwnerInv'
    BY <2>1 DEF EngineSubmit
  <2>2. CASE EngineIssue(c) \/ EngineTerminate(c)
    <3>1. ASSUME NEW d \in Chans, NEW n \in Cookies, stage'[d][n] # "free"
          PROVE  stage[d][n] # "free" /\ owner'[d][n] = owner[d][n]
      <4>1. CASE EngineIssue(c)
        BY <3>1, <4>1 DEF EngineIssue
      <4>2. CASE EngineTerminate(c)
        BY <3>1, <4>2 DEF EngineTerminate
      <4> QED
        BY <2>2, <4>1, <4>2
    <3> QED
      BY <3>1
  <2>3. CASE HwComplete(c)
    BY <2>3 DEF HwComplete
  <2>4. CASE CallbackEnter(c)
    BY <2>4 DEF CallbackEnter
  <2>5. ASSUME NEW how, NEW whom, CallbackReturn(c, how, whom), cb[c].pc # "idle"
        PROVE  OwnerInv'
    BY <2>5 DEF CallbackReturn, CallbackInv
  <2>6. CASE CallbackReadComp(c)
    BY <2>6 DEF CallbackReadComp, engineVars
  <2>7. CASE CallbackReadSignal(c)
    BY <2>7, <2>5 DEF CallbackReadSignal, engineVars
  <2>8. ASSUME Oops(c)
        PROVE  OwnerInv'
    BY <2>8 DEF engineVars
  <2>9. CASE CallbackComplete(c)
    BY <2>5, <2>8, <2>9 DEF CallbackComplete
  <2>10. CASE CallbackSend(c)
    BY <2>5, <2>8, <2>10 DEF CallbackSend
  <2> QED
    BY <1>2, <2>1, <2>2, <2>3, <2>4, <2>6, <2>7, <2>9, <2>10 DEF EngineStep, Kernel
<1> QED
  BY <1>1, <1>2, StepOfEngine

LEMMA DmaInvInit == Init => DmaInv
<1> SUFFICES ASSUME Init PROVE DmaInv
  OBVIOUS
<1> USE DEF Init
<1>1. TypeOK
  BY InitType
<1>2. EngineInv /\ CallbackInv /\ OwnerInv /\ WaitedInv
  BY ConstantsAssumption
     DEF EngineInv, EngineOK, CallbackInv, OwnerInv, WaitedInv, Cookies, IdleCallback
<1>3. ASSUME NEW t \in Threads
      PROVE  FrameOK(t)
  <2>1. /\ pc[t] = "idle" /\ op[t] = "none" /\ leg[t] = 1
        /\ tfr[t] = NoFrame
    OBVIOUS
  <2>2. \A i \in Leg : NoFrame[i].cookie = 0 /\ NoFrame[i].chan \in Chans
    BY NoFrameType DEF NoFrame, Transfer
  <2>3. \A i \in Leg : tfr[t][i].cookie <= lastUsed[tfr[t][i].chan]
    BY <2>1, <2>2
  <2> QED
    BY <2>1, <2>2, <2>3 DEF FrameOK, LastLeg, PrepStates, StartStates, Leg
<1> QED
  BY <1>1, <1>2, <1>3 DEF DmaInv, FrameInv

(* The inductive invariant of the transfer path.                           *)
THEOREM DmaInvHolds == Spec => []DmaInv
<1>1. DmaInv /\ [Next]_vars => DmaInv'
  BY NextType, EngineInvStep, FrameInvStep, OwnerInvStep, WaitedInvStep DEF DmaInv
<1> QED
  BY <1>1, DmaInvInit, PTL DEF Spec

(* For any number of threads sharing any channels: once a blocking call    *)
(* has returned, whatever it returned, the hardware neither holds nor will *)
(* be given a descriptor that points into its buffer.                      *)
THEOREM NoDmaBehindACall == Spec => []NoDmaAfterReturn
<1>1. DmaInv => NoDmaAfterReturn
  BY DEF DmaInv, WaitedInv, NoDmaAfterReturn
<1> QED
  BY <1>1, DmaInvHolds, PTL

-----------------------------------------------------------------------------
(* What a blocking 0 means, with one thread per channel.                   *)

LEMMA CookieTaken ==
  ASSUME TypeOK, [Next]_vars, NEW c \in Chans
  PROVE  \/ lastUsed'[c] = lastUsed[c]
         \/ \E t \in Threads, n \in Cookies :
               Chan(t) = c /\ SubmitsNow(t, n) /\ lastUsed'[c] = n
<1> USE DEF TypeOK, EngineTypeOK
<1>1. ASSUME UNCHANGED engineVars PROVE lastUsed'[c] = lastUsed[c]
  BY <1>1 DEF engineVars
<1>2. ASSUME NEW d, EngineIssue(d) \/ EngineTerminate(d) PROVE lastUsed'[c] = lastUsed[c]
  BY <1>2 DEF EngineIssue, EngineTerminate
<1>3. ASSUME NEW d \in Chans, HwComplete(d) \/ Kernel(d)
      PROVE  lastUsed'[c] = lastUsed[c]
  BY <1>1, <1>3
     DEF HwComplete, Kernel, CallbackEnter, CallbackReadComp, CallbackComplete,
         CallbackReadSignal, CallbackSend, CallbackReturn
<1>4. ASSUME NEW t \in Threads, InCall(t)
      PROVE  \/ lastUsed'[c] = lastUsed[c]
             \/ \E n \in Cookies : Chan(t) = c /\ SubmitsNow(t, n) /\ lastUsed'[c] = n
  <2>1. CASE Submit(t)
    <3>1. ASSUME NEW n \in Cookies,
                 EngineSubmit(Chan(t), n, t, Wanted(Cur(t))),
                 tfr' = [tfr EXCEPT ![t][leg[t]].cookie = n],
                 Goto(t, "submit", "prep") \/ Goto(t, "submit", "issue")
          PROVE  /\ SubmitsNow(t, n)
                 /\ lastUsed'[c] = IF Chan(t) = c THEN n ELSE lastUsed[c]
      BY <3>1 DEF SubmitsNow, Goto, CallTypeOK, EngineSubmit
    <3> QED
      BY <3>1, <2>1, <1>1 DEF Submit
  <2> QED
    BY <2>1, <1>1, <1>2, <1>4
       DEF InCall, PrepDescriptor, SetCbComp, SetCbSignal, SetCbProcess, Issue, Wake,
           Timeout, CheckStatus, StopDma
<1>5. ASSUME NEW t \in Threads, StartCall(t) \/ SetSignal(t)
      PROVE  lastUsed'[c] = lastUsed[c]
  BY <1>1, <1>5 DEF StartCall, SetSignal
<1>6. ASSUME NEW t \in Threads, NEW d \in Uses[t], StopChannel(t, d)
      PROVE  lastUsed'[c] = lastUsed[c]
  BY <1>2, <1>6 DEF StopChannel
<1>7. CASE UNCHANGED vars
  BY <1>1, <1>7 DEF vars
<1> QED
  BY <1>3, <1>4, <1>5, <1>6, <1>7 DEF Next

(* A step inside a call keeps the frame, ends it, or enters a cookie.      *)
LEMMA InCallLegs ==
  ASSUME TypeOK, NEW t \in Threads, InCall(t)
  PROVE  \/ tfr'[t] = tfr[t]
         \/ pc'[t] = "idle" /\ tfr'[t] = NoFrame
         \/ \E n \in Cookies : SubmitsNow(t, n)
<1> USE DEF TypeOK, CallTypeOK
<1>1. ASSUME NEW from, NEW code, Return(t, from, code)
      PROVE  pc'[t] = "idle" /\ tfr'[t] = NoFrame
  BY <1>1 DEF Return
<1>2. ASSUME NEW from, LegDone(t, from)
      PROVE  tfr'[t] = tfr[t] \/ (pc'[t] = "idle" /\ tfr'[t] = NoFrame)
  BY <1>1, <1>2 DEF LegDone
<1>3. CASE Submit(t)
  <2>1. ASSUME NEW n \in Cookies,
               EngineSubmit(Chan(t), n, t, Wanted(Cur(t))),
               tfr' = [tfr EXCEPT ![t][leg[t]].cookie = n],
               Goto(t, "submit", "prep") \/ Goto(t, "submit", "issue")
        PROVE  SubmitsNow(t, n)
    BY <2>1 DEF SubmitsNow, Goto
  <2> QED
    BY <2>1, <1>3 DEF Submit, Fail
<1>4. CASE Issue(t) \/ CheckStatus(t) \/ StopDma(t)
  BY <1>1, <1>2, <1>4 DEF Issue, CheckStatus, StopDma, Fail
<1> QED
  BY <1>3, <1>4
     DEF InCall, PrepDescriptor, SetCbComp, SetCbSignal, SetCbProcess, Wake, Timeout, Fail

LEMMA LastCookieStep ==
  ASSUME ExclusiveUse, DmaInv, LastCookieInv, [Next]_vars
  PROVE  LastCookieInv'
<1> USE DEF DmaInv
<1> SUFFICES ASSUME NEW u \in Threads, NEW i \in Leg
             PROVE  /\ pc'[u] # "idle" => tfr'[u][i].chan \in Uses[u]
                    /\ tfr'[u][i].cookie # 0 =>
                          tfr'[u][i].cookie = lastUsed'[tfr'[u][i].chan]
  BY DEF LastCookieInv
<1>1. /\ pc[u] # "idle" => tfr[u][i].chan \in Uses[u]
      /\ tfr[u][i].cookie # 0 => tfr[u][i].cookie = lastUsed[tfr[u][i].chan]
      /\ tfr[u][i].chan \in Chans
  BY DEF LastCookieInv, TypeOK, CallTypeOK, Transfer
<1>2. FrameOK(u) /\ FrameOK(u)'
  BY FrameInvStep DEF FrameInv
<1>3. \A j \in Leg : NoFrame[j].cookie = 0
  BY DEF NoFrame
<1>4. ASSUME NEW t \in Threads, NEW n \in Cookies, SubmitsNow(t, n)
      PROVE  Chan(t) \in Uses[t] /\ pc[t] # "idle"
  BY <1>4 DEF SubmitsNow, LastCookieInv, Cur, Chan, TypeOK, CallTypeOK
<1>5. ASSUME tfr'[u] = tfr[u], pc'[u] # "idle" => pc[u] # "idle",
             tfr[u][i].cookie # 0 => lastUsed'[tfr[u][i].chan] = lastUsed[tfr[u][i].chan]
      PROVE  /\ pc'[u] # "idle" => tfr'[u][i].chan \in Uses[u]
             /\ tfr'[u][i].cookie # 0 => tfr'[u][i].cookie = lastUsed'[tfr'[u][i].chan]
  BY <1>1, <1>5
<1>6. ASSUME tfr[u][i].cookie # 0,
             \A n \in Cookies : ~SubmitsNow(u, n)
      PROVE  lastUsed'[tfr[u][i].chan] = lastUsed[tfr[u][i].chan]
  <2>1. pc[u] # "idle"
    BY <1>2, <1>3, <1>6 DEF FrameOK
  <2>2. ASSUME NEW t \in Threads, NEW n \in Cookies, SubmitsNow(t, n)
        PROVE  Chan(t) # tfr[u][i].chan
    <3>1. t # u
      BY <1>6, <2>2
    <3> QED
      BY <3>1, <2>1, <2>2, <1>1, <1>4 DEF ExclusiveUse
  <2> QED
    BY <2>2, <1>1, CookieTaken
<1>7. ASSUME NEW n \in Cookies, SubmitsNow(u, n)
      PROVE  /\ pc'[u] # "idle" => tfr'[u][i].chan \in Uses[u]
             /\ tfr'[u][i].cookie # 0 => tfr'[u][i].cookie = lastUsed'[tfr'[u][i].chan]
  <2>1. /\ tfr'[u][leg[u]] = [Cur(u) EXCEPT !.cookie = n]
        /\ \A j \in Leg : j # leg[u] => tfr'[u][j] = tfr[u][j]
        /\ leg[u] \in Leg
    BY <1>7 DEF SubmitsNow, TypeOK, CallTypeOK, Cur
  <2>2. /\ lastUsed'[Chan(u)] = n
        /\ \A d \in Chans : d # Chan(u) => lastUsed'[d] = lastUsed[d]
    BY <1>7, CurType DEF SubmitsNow, EngineSubmit, TypeOK, EngineTypeOK
  <2>3. CASE i = leg[u]
    <3>1. tfr'[u][i].cookie = n /\ tfr'[u][i].chan = Chan(u)
      BY <2>1, <2>3, CurType DEF Transfer, Chan, TypeOK
    <3> QED
      BY <3>1, <2>2, <1>4, <1>7
  <2>4. CASE i # leg[u]
    <3>1. tfr[u][i].cookie # 0 => tfr[u][i].chan # Chan(u)
      BY <2>1, <2>4, <1>2, <1>7
         DEF FrameOK, SubmitsNow, PrepStates, Chan, Cur, Leg, LastLeg
    <3> QED
      BY <3>1, <2>1, <2>2, <2>4, <1>1, <1>4, <1>7
  <2> QED
    BY <2>3, <2>4
<1>8. CASE \E n \in Cookies : SubmitsNow(u, n)
  BY <1>7, <1>8
<1>9. CASE \A n \in Cookies : ~SubmitsNow(u, n)
  <2>1. CASE InCall(u)
    BY <2>1, <1>3, <1>5, <1>6, <1>9, InCallLegs DEF InCall, PrepDescriptor, SetCbComp,
       SetCbSignal, SetCbProcess, Submit, Issue, Wake, Timeout, CheckStatus, StopDma,
       Goto, Fail, LegDone, Return
  <2>2. CASE SameFrame(u)
    BY <2>2, <1>5, <1>6, <1>9 DEF SameFrame
  <2>3. CASE StartCall(u)
    <3>1. ASSUME NEW code, Refuse(u, code)
          PROVE  tfr'[u] = tfr[u] /\ pc'[u] = pc[u]
      BY <3>1 DEF Refuse
    <3>2. ASSUME NEW o, NEW c \in Uses[u], NEW d \in Uses[u], NEW v, NEW w,
                 Begin(u, o, NewTransfer(c, v), NewTransfer(d, w))
          PROVE  tfr'[u][i].chan \in Uses[u] /\ tfr'[u][i].cookie = 0
      BY <3>2 DEF Begin, NewTransfer, TypeOK, CallTypeOK
    <3>3. \/ tfr'[u] = tfr[u] /\ pc'[u] = pc[u]
          \/ tfr'[u][i].chan \in Uses[u] /\ tfr'[u][i].cookie = 0
      <4>1. ASSUME NEW c \in Uses[u], NEW w, NEW o, NEW dir, OneWay(u, o, dir, c, w)
            PROVE  \/ tfr'[u] = tfr[u] /\ pc'[u] = pc[u]
                   \/ tfr'[u][i].chan \in Uses[u] /\ tfr'[u][i].cookie = 0
        BY <4>1, <3>1, <3>2 DEF OneWay
      <4>2. ASSUME NEW tx \in Uses[u], NEW rx \in Uses[u], NEW w, RwTransfer(u, tx, rx, w)
            PROVE  \/ tfr'[u] = tfr[u] /\ pc'[u] = pc[u]
                   \/ tfr'[u][i].chan \in Uses[u] /\ tfr'[u][i].cookie = 0
        BY <4>2, <3>1, <3>2 DEF RwTransfer
      <4>3. ASSUME NEW c \in Uses[u], VideoTransfer(u, c)
            PROVE  \/ tfr'[u] = tfr[u] /\ pc'[u] = pc[u]
                   \/ tfr'[u][i].chan \in Uses[u] /\ tfr'[u][i].cookie = 0
        BY <4>3, <3>1, <3>2 DEF VideoTransfer
      <4> QED
        BY <4>1, <4>2, <4>3, <2>3 DEF StartCall, ReadTransfer, WriteTransfer
    <3> QED
      BY <3>3, <1>5, <1>6, <1>9
  <2>4. CASE SetSignal(u) \/ \E c \in Uses[u] : StopChannel(u, c)
    BY <2>4, <1>5, <1>6, <1>9 DEF SetSignal, StopChannel, Refuse
  <2>5. InCall(u) \/ SameFrame(u) \/ StartCall(u) \/ SetSignal(u)
        \/ \E c \in Uses[u] : StopChannel(u, c)
    <3>1. ASSUME NEW t \in Threads,
                 \/ StartCall(t) \/ SetSignal(t) \/ InCall(t)
                 \/ \E d \in Uses[t] : StopChannel(t, d)
          PROVE  InCall(u) \/ SameFrame(u) \/ StartCall(u) \/ SetSignal(u)
                 \/ \E c \in Uses[u] : StopChannel(u, c)
      BY <3>1, OtherFrames
    <3>2. ASSUME NEW d \in Chans, HwComplete(d) \/ Kernel(d)
          PROVE  SameFrame(u)
      BY <3>2 DEF HwComplete, Kernel, CallbackEnter, CallbackReadComp,
         CallbackComplete, CallbackReadSignal, CallbackSend, callVars, SameFrame
    <3>3. CASE UNCHANGED vars
      BY <3>3 DEF vars, callVars, SameFrame
    <3> QED
      BY <3>1, <3>2, <3>3 DEF Next
  <2> QED
    BY <2>1, <2>2, <2>3, <2>4, <2>5
<1> QED
  BY <1>8, <1>9

LEMMA LastCookieInit == Init => LastCookieInv
<1> SUFFICES ASSUME Init, NEW t \in Threads, NEW i \in Leg
             PROVE  pc[t] = "idle" /\ tfr[t][i].cookie = 0
  BY DEF LastCookieInv
<1> QED
  BY DEF Init, NoFrame

(* The steps of a call that can be its last.                               *)
LEMMA CallEnds ==
  ASSUME TypeOK, NEW t \in Threads, [Next]_vars, pc[t] # "idle", pc'[t] = "idle"
  PROVE  Issue(t) \/ CheckStatus(t) \/ StopDma(t)
<1>1. ASSUME NEW u \in Threads,
             \/ StartCall(u) \/ SetSignal(u) \/ InCall(u)
             \/ \E d \in Uses[u] : StopChannel(u, d)
      PROVE  u = t /\ InCall(t)
  <2>1. u = t
    BY <1>1, OtherFrames DEF SameFrame
  <2> QED
    BY <1>1, <2>1 DEF StartCall, ReadTransfer, WriteTransfer, OneWay, RwTransfer,
       VideoTransfer, SetSignal, StopChannel, Refuse, Begin
<1>2. ~(UNCHANGED vars \/ \E d \in Chans : HwComplete(d) \/ Kernel(d))
  BY DEF vars, callVars, HwComplete, Kernel, CallbackEnter, CallbackReadComp,
     CallbackComplete, CallbackReadSignal, CallbackSend
<1>3. InCall(t)
  BY <1>1, <1>2 DEF Next
<1>4. ASSUME NEW from, NEW to, to # "idle", Goto(t, from, to)
      PROVE  FALSE
  BY <1>4 DEF Goto, TypeOK, CallTypeOK
<1> QED
  BY <1>3, <1>4 DEF InCall, PrepDescriptor, SetCbComp, SetCbSignal, SetCbProcess,
     Submit, Wake, Timeout, Fail

LEMMA SuccessStep ==
  ASSUME DmaInv, LastCookieInv, [Next]_vars
  PROVE  RealSuccess
<1> USE DEF DmaInv
<1> SUFFICES ASSUME NEW t \in Threads, pc[t] # "idle", pc'[t] = "idle",
                    rc'[t] = "OK", Cur(t).wait
             PROVE  Cur(t).cookie \in performed[Chan(t)]
  BY DEF RealSuccess
<1>1. FrameOK(t) /\ leg[t] \in Leg /\ LastLeg(t) \in Leg /\ Chan(t) \in Chans
  BY CurType DEF FrameInv, TypeOK, CallTypeOK
<1>2. CASE Issue(t)
  BY <1>2 DEF Issue, Goto, TypeOK, CallTypeOK
<1>3. CASE CheckStatus(t)
  <2>1. pc[t] = "status" /\ TxComplete(Chan(t), Cur(t).cookie)
    BY <1>3 DEF CheckStatus, LegDone, Goto, Return, Fail, TypeOK, CallTypeOK
  <2>2. Cur(t).cookie # 0
    BY <2>1, <1>1 DEF FrameOK, StartStates, Cur, Leg
  <2>3. Cur(t).cookie = lastUsed[Chan(t)]
    BY <2>2, <1>1 DEF LastCookieInv, Cur, Chan
  <2>4. /\ lastUsed[Chan(t)] \in Nat /\ lastComplete[Chan(t)] \in Nat
        /\ lastComplete[Chan(t)] <= lastUsed[Chan(t)]
    BY <1>1, ConstantsAssumption DEF TypeOK, EngineTypeOK, EngineInv, EngineOK
  <2>5. Cur(t).cookie = lastComplete[Chan(t)]
    BY <2>1, <2>3, <2>4 DEF TxComplete
  <2> QED
    BY <2>2, <2>5, <1>1 DEF EngineInv, EngineOK
<1>4. CASE StopDma(t)
  <2>1. pc[t] = "stop_dma" /\ rc[t] # "OK"
    BY <1>4, <1>1 DEF StopDma, Return, FrameOK
  <2>2. op[t] # "video"
    BY <1>1 DEF FrameOK, LastLeg, Cur, Leg
  <2> QED
    BY <1>4, <2>1, <2>2 DEF StopDma, Return, TypeOK, CallTypeOK
<1> QED
  BY <1>2, <1>3, <1>4, CallEnds

THEOREM LastCookieHolds ==
  ASSUME ExclusiveUse
  PROVE  Spec => []LastCookieInv
<1>1. DmaInv /\ LastCookieInv /\ [Next]_vars => LastCookieInv'
  BY LastCookieStep
<1> QED
  BY <1>1, LastCookieInit, DmaInvHolds, PTL DEF Spec

(* With one thread per channel, as README.md asks, a blocking transfer     *)
(* that returns 0 was carried out by the hardware, for any number of       *)
(* channels and of transfers, whatever callbacks, timeouts and stops of    *)
(* earlier calls did in between.                                           *)
THEOREM BlockingZeroIsReal ==
  ASSUME ExclusiveUse
  PROVE  Spec => SuccessIsReal
<1>1. DmaInv /\ LastCookieInv /\ [Next]_vars => [RealSuccess]_vars
  BY SuccessStep
<1> QED
  BY <1>1, DmaInvHolds, LastCookieHolds, PTL DEF Spec, SuccessIsReal

-----------------------------------------------------------------------------
(* What a call leaves behind.                                              *)

(* A descriptor that has been taken off the pending list stays off it.     *)
LEMMA SentStays ==
  ASSUME TypeOK, CallbackInv, [Next]_vars, NEW c \in Chans, NEW n \in Cookies,
         n <= lastUsed[c], stage[c][n] # "pending"
  PROVE  stage'[c][n] # "pending"
<1> USE DEF TypeOK, EngineTypeOK
<1>1. CASE UNCHANGED <<engineVars, cb>>
  BY <1>1 DEF engineVars
<1>2. ASSUME NEW d \in Chans, EngineStep(d)
      PROVE  stage'[c][n] # "pending"
  <2>1. ASSUME NEW m \in Cookies, NEW t \in Threads, NEW notice \in Notices,
               EngineSubmit(d, m, t, notice)
        PROVE  stage'[c][n] # "pending"
    <3>1. lastUsed[c] \in Nat /\ n \in Nat
      BY DEF Cookies
    <3>2. ~(c = d /\ m = n)
      BY <2>1, <3>1 DEF EngineSubmit
    <3> QED
      BY <2>1, <3>2 DEF EngineSubmit
  <2>2. CASE EngineIssue(d)
    BY <2>2 DEF EngineIssue
  <2>3. CASE EngineTerminate(d)
    BY <2>3 DEF EngineTerminate
  <2>4. CASE HwComplete(d)
    BY <2>4 DEF HwComplete
  <2>5. CASE CallbackEnter(d)
    BY <2>5 DEF CallbackEnter
  <2>6. ASSUME NEW how \in Finished, NEW whom, CallbackReturn(d, how, whom)
        PROVE  stage'[c][n] # "pending"
    BY <2>6 DEF CallbackReturn, Finished
  <2>7. CASE CallbackReadComp(d)
    BY <2>7 DEF CallbackReadComp, engineVars
  <2>8. CASE CallbackReadSignal(d)
    BY <2>8, <2>6 DEF CallbackReadSignal, Finished, engineVars
  <2>9. CASE Oops(d)
    BY <2>9 DEF engineVars
  <2>10. CASE CallbackComplete(d)
    BY <2>6, <2>9, <2>10 DEF CallbackComplete, Finished
  <2>11. CASE CallbackSend(d)
    BY <2>6, <2>9, <2>11 DEF CallbackSend, Finished
  <2> QED
    BY <1>2, <2>1, <2>2, <2>3, <2>4, <2>5, <2>7, <2>8, <2>10, <2>11
       DEF EngineStep, Kernel
<1> QED
  BY <1>1, <1>2, StepOfEngine

(* What other threads, the engine and the callbacks do leaves a thread's   *)
(* frame alone; what the thread does itself is a step of one of four kinds.*)
LEMMA ThreadStep ==
  ASSUME TypeOK, [Next]_vars, NEW u \in Threads
  PROVE  SameFrame(u) \/ InCall(u) \/ StartCall(u) \/ SetSignal(u)
         \/ \E c \in Uses[u] : StopChannel(u, c)
<1>1. ASSUME NEW t \in Threads,
             \/ StartCall(t) \/ SetSignal(t) \/ InCall(t)
             \/ \E c \in Uses[t] : StopChannel(t, c)
      PROVE  SameFrame(u) \/ InCall(u) \/ StartCall(u) \/ SetSignal(u)
             \/ \E c \in Uses[u] : StopChannel(u, c)
  BY <1>1, OtherFrames
<1>2. ASSUME NEW d \in Chans, HwComplete(d) \/ Kernel(d)
      PROVE  SameFrame(u)
  BY <1>2 DEF HwComplete, Kernel, CallbackEnter, CallbackReadComp,
     CallbackComplete, CallbackReadSignal, CallbackSend, callVars, SameFrame
<1>3. CASE UNCHANGED vars
  BY <1>3 DEF vars, callVars, SameFrame
<1> QED
  BY <1>1, <1>2, <1>3 DEF Next

(* A refused call, a set signal and a stop leave their thread idle; a call *)
(* that is accepted is at its first leg.                                   *)
LEMMA IdleStep ==
  ASSUME TypeOK, NEW u \in Threads,
         \/ StartCall(u) \/ SetSignal(u)
         \/ \E c \in Uses[u] : StopChannel(u, c)
  PROVE  /\ pc[u] = "idle" /\ pc'[u] \in {"idle", "prep"}
         /\ pc'[u] = "idle" => op'[u] = op[u] /\ tfr'[u] = tfr[u] /\ leg'[u] = leg[u]
<1> USE DEF TypeOK, CallTypeOK
<1>1. ASSUME NEW code, Refuse(u, code)
      PROVE  /\ pc[u] = "idle" /\ pc'[u] = "idle"
             /\ op'[u] = op[u] /\ tfr'[u] = tfr[u] /\ leg'[u] = leg[u]
  BY <1>1 DEF Refuse
<1>2. ASSUME NEW o, NEW x, NEW y, Begin(u, o, x, y)
      PROVE  pc[u] = "idle" /\ pc'[u] = "prep"
  BY <1>2 DEF Begin
<1> QED
  BY <1>1, <1>2 DEF StartCall, ReadTransfer, WriteTransfer, OneWay, RwTransfer,
     VideoTransfer, SetSignal, StopChannel

SentOK(t) ==
    /\ pc[t] \in {"wait", "status"} => ~Unsent(t, leg[t])
    /\ pc[t] \in StartStates /\ leg[t] = 2 => ~Unsent(t, 1)
    /\ pc[t] = "stop_dma" =>
          /\ rc[t] \in {"EBUSY", "EINVAL", "ETIME"}
          /\ rc[t] = "ETIME" /\ leg[t] = 2 => tfr[t][1].cookie # 0 /\ ~Unsent(t, 1)

LEMMA SentInvStep ==
  ASSUME DmaInv, SentInv, [Next]_vars
  PROVE  SentInv'
<1> USE DEF DmaInv
<1> SUFFICES ASSUME NEW u \in Threads
             PROVE  SentOK(u)'
  BY DEF SentInv, SentOK
<1> USE DEF SentOK
<1>1. /\ SentOK(u) /\ FrameOK(u) /\ CallTypeOK
      /\ leg[u] \in Leg /\ LastLeg(u) \in Leg /\ Chan(u) \in Chans
  BY CurType DEF SentInv, FrameInv, TypeOK, CallTypeOK
<1>2. ASSUME NEW i \in Leg, tfr[u][i].cookie # 0, ~Unsent(u, i), tfr'[u][i] = tfr[u][i]
      PROVE  ~Unsent(u, i)'
  <2>1. tfr[u][i].chan \in Chans /\ tfr[u][i].cookie \in Cookies
    BY <1>1, <1>2, ConstantsAssumption DEF CallTypeOK, Transfer, Cookies
  <2>2. tfr[u][i].cookie <= lastUsed[tfr[u][i].chan]
    BY <1>1 DEF FrameOK
  <2> QED
    BY <1>2, <2>1, <2>2, SentStays DEF Unsent
<1>3. /\ pc[u] \in StartStates => Cur(u).cookie # 0
      /\ pc[u] \in StartStates /\ leg[u] = 2 => tfr[u][1].cookie # 0
  BY <1>1 DEF FrameOK, Cur, Leg, LastLeg
<1>4. ASSUME NEW from, NEW code \in {"EBUSY", "EINVAL"}, Fail(u, from, code)
      PROVE  SentOK(u)'
  BY <1>1, <1>4 DEF Fail, Goto, CallTypeOK, StartStates
<1>5. ASSUME pc'[u] \in {"idle", "prep", "cb_comp", "cb_signal", "cb_process", "submit"}
      PROVE  SentOK(u)'
  BY <1>5 DEF StartStates
<1>6. CASE SameFrame(u)
  <2>1. pc[u] \in {"wait", "status"} => ~Unsent(u, leg[u])'
    BY <1>1, <1>2, <1>3, <1>6 DEF SameFrame, StartStates, Unsent, Cur
  <2>2. ~Unsent(u, 1) /\ tfr[u][1].cookie # 0 => ~Unsent(u, 1)'
    BY <1>2, <1>6 DEF SameFrame, Leg
  <2> QED
    BY <2>1, <2>2, <1>1, <1>3, <1>6 DEF SameFrame, Unsent
<1>7. CASE \/ StartCall(u) \/ SetSignal(u)
           \/ \E c \in Uses[u] : StopChannel(u, c)
  BY <1>5, <1>7, IdleStep
<1>8. CASE PrepDescriptor(u)
  BY <1>1, <1>4, <1>5, <1>8 DEF PrepDescriptor, Goto, CallTypeOK
<1>9. CASE SetCbComp(u) \/ SetCbSignal(u) \/ SetCbProcess(u)
  BY <1>1, <1>5, <1>9 DEF SetCbComp, SetCbSignal, SetCbProcess, Goto, CallTypeOK
<1>10. CASE Submit(u)
  <2>1. ASSUME Goto(u, "submit", "prep") PROVE SentOK(u)'
    BY <2>1, <1>1, <1>5 DEF Goto, CallTypeOK
  <2>2. ASSUME Goto(u, "submit", "issue"), leg' = [leg EXCEPT ![u] = 1] PROVE SentOK(u)'
    BY <2>2, <1>1 DEF Goto, CallTypeOK
  <2> QED
    BY <2>1, <2>2, <1>4, <1>10 DEF Submit
<1>11. CASE Issue(u)
  <2>1. Cur(u).cookie \in Cookies
    BY <1>1, <1>3, <1>11, CurType, ConstantsAssumption
       DEF Issue, LegDone, Goto, Return, StartStates, Cookies
  <2>2. \A n \in Cookies : stage'[Chan(u)][n] # "pending"
    BY <1>1, <1>11 DEF Issue, EngineIssue, TypeOK, EngineTypeOK
  <2>3. CASE Goto(u, "issue", "wait") /\ UNCHANGED <<op, tfr, leg, rc>>
    <3>1. ~Unsent(u, leg[u])'
      BY <2>1, <2>2, <2>3 DEF Unsent, Cur, Chan
    <3>2. leg[u] = 2 => ~Unsent(u, 1)'
      BY <1>1, <1>2, <1>3, <2>3 DEF Goto, StartStates, Leg
    <3> QED
      BY <3>1, <3>2, <2>3, <1>1 DEF Goto, CallTypeOK, Unsent
  <2>4. CASE leg[u] < LastLeg(u) /\ Goto(u, "issue", "issue")
             /\ leg' = [leg EXCEPT ![u] = 2] /\ UNCHANGED <<op, tfr, rc>>
    <3>1. leg[u] = 1
      BY <2>4, <1>1 DEF Leg
    <3>2. ~Unsent(u, 1)'
      BY <2>1, <2>2, <2>4, <3>1 DEF Unsent, Cur, Chan
    <3> QED
      BY <3>2, <2>4, <1>1 DEF Goto, CallTypeOK
  <2>5. CASE Return(u, "issue", "OK")
    BY <2>5, <1>1, <1>5 DEF Return, CallTypeOK
  <2> QED
    BY <2>3, <2>4, <2>5, <1>11 DEF Issue, LegDone
<1>12. CASE Wake(u)
  BY <1>12, <1>1 DEF Wake, Goto, CallTypeOK, engineVars, Unsent, StartStates
<1>13. CASE Timeout(u)
  BY <1>13, <1>1, <1>3 DEF Timeout, Fail, Goto, CallTypeOK, engineVars, Unsent, StartStates
<1>14. CASE CheckStatus(u)
  <2>1. CASE leg[u] < LastLeg(u) /\ Goto(u, "status", "issue")
             /\ leg' = [leg EXCEPT ![u] = 2] /\ UNCHANGED <<op, tfr, rc>>
    <3>1. leg[u] = 1
      BY <2>1, <1>1 DEF Leg
    <3> QED
      BY <3>1, <2>1, <1>1, <1>14 DEF CheckStatus, Goto, CallTypeOK, engineVars, Unsent
  <2>2. CASE Return(u, "status", "OK")
    BY <2>2, <1>1, <1>5 DEF Return, CallTypeOK
  <2> QED
    BY <2>1, <2>2, <1>4, <1>14 DEF CheckStatus, LegDone
<1>15. CASE StopDma(u)
  BY <1>15, <1>1, <1>5 DEF StopDma, Return, CallTypeOK
<1> QED
  BY <1>6, <1>7, <1>8, <1>9, <1>10, <1>11, <1>12, <1>13, <1>14, <1>15, ThreadStep
     DEF InCall
LEMMA SentInvInit == Init => SentInv
BY DEF Init, SentInv, StartStates

LEMMA LegsLeftStep ==
  ASSUME DmaInv, SentInv, [Next]_vars
  PROVE  LegsLeft
<1> USE DEF DmaInv
<1> SUFFICES ASSUME NEW t \in Threads, pc[t] # "idle", pc'[t] = "idle",
                    NEW n \in Cookies, NEW i \in Leg, tfr[t][i].cookie = n
             PROVE  LET c == tfr[t][i].chan
                        transmitLeg == op[t] = "rw" /\ i = 1 /\ leg[t] = 2
                    IN /\ stage'[c][n] = "pending" =>
                             transmitLeg /\ rc'[t] \in {"EBUSY", "EINVAL"}
                       /\ stage'[c][n] = "active" /\ rc'[t] # "OK" => transmitLeg
  BY DEF LegsLeft
<1> DEFINE c == tfr[t][i].chan
<1>1. /\ FrameOK(t) /\ SentOK(t) /\ CallTypeOK
      /\ leg[t] \in Leg /\ LastLeg(t) \in Leg /\ Chan(t) \in Chans /\ c \in Chans
      /\ n # 0 /\ n <= lastUsed[c]
  BY CurType, ConstantsAssumption
     DEF SentInv, SentOK, FrameInv, FrameOK, TypeOK, CallTypeOK, Transfer, Cookies
<1>2. leg[t] = LastLeg(t) => i = leg[t] \/ (op[t] = "rw" /\ i = 1 /\ leg[t] = 2)
  BY <1>1 DEF FrameOK, LastLeg, Leg
<1>3. CASE Issue(t)
  <2>1. leg[t] = LastLeg(t) /\ rc'[t] = "OK" /\ pc[t] = "issue"
    BY <1>1, <1>3 DEF Issue, LegDone, Goto, Return, CallTypeOK
  <2>2. EngineIssue(Chan(t))
    BY <1>3 DEF Issue
  <2>3. i = leg[t] => stage'[c][n] # "pending"
    BY <1>1, <2>2 DEF EngineIssue, Cur, Chan, TypeOK, EngineTypeOK
  <2>4. i = 1 /\ leg[t] = 2 => stage[c][n] # "pending"
    BY <1>1, <2>1 DEF SentOK, StartStates, Unsent
  <2>5. stage'[c][n] # "pending"
    BY <1>1, <1>2, <2>1, <2>3, <2>4, SentStays
  <2> QED
    BY <2>1, <2>5
<1>4. CASE CheckStatus(t)
  <2>1. /\ leg[t] = LastLeg(t) /\ rc'[t] = "OK" /\ pc[t] = "status"
        /\ stage' = stage
    BY <1>1, <1>4 DEF CheckStatus, LegDone, Fail, Goto, Return, CallTypeOK, engineVars
  <2>2. stage[c][n] # "pending"
    BY <1>1, <1>2, <2>1 DEF SentOK, StartStates, Unsent
  <2> QED
    BY <2>1, <2>2
<1>5. CASE StopDma(t)
  <2>1. pc[t] = "stop_dma" /\ EngineTerminate(Chan(t))
    BY <1>5 DEF StopDma, Return
  <2>2. CASE i = leg[t]
    BY <1>1, <2>1, <2>2 DEF EngineTerminate, Cur, Chan, TypeOK, EngineTypeOK
  <2>3. CASE i # leg[t]
    <3>1. op[t] = "rw" /\ i = 1 /\ leg[t] = 2
      BY <1>1, <2>1, <2>3 DEF FrameOK, LastLeg, Leg
    <3>2. rc'[t] = rc[t] /\ rc[t] \in {"EBUSY", "EINVAL", "ETIME"}
      BY <1>1, <1>5, <2>1, <3>1 DEF StopDma, Return, CallTypeOK, SentOK
    <3>3. rc[t] = "ETIME" => stage'[c][n] # "pending"
      BY <1>1, <2>1, <3>1, SentStays DEF SentOK, Unsent
    <3> QED
      BY <3>1, <3>2, <3>3
  <2> QED
    BY <2>2, <2>3
<1> QED
  BY <1>3, <1>4, <1>5, CallEnds

(* For any number of threads sharing any channels: when a call returns,    *)
(* what it leaves for the next call to send, or after an error for the     *)
(* hardware to carry on with, is at most the transmit leg of a read-write  *)
(* transfer whose receive leg failed (axidma_dma.c:534-547).               *)
THEOREM TransmitLegsStayBehind == Spec => OnlyTransmitLegsStayBehind
<1>1. DmaInv /\ SentInv /\ [Next]_vars => SentInv'
  BY SentInvStep
<1>2. DmaInv /\ SentInv /\ [Next]_vars => [LegsLeft]_vars
  BY LegsLeftStep
<1> QED
  BY <1>1, <1>2, SentInvInit, DmaInvHolds, PTL DEF Spec, OnlyTransmitLegsStayBehind

-----------------------------------------------------------------------------
(* The callback record.                                                    *)

(* Only the three assignments of axidma_prep_transfer change a record.     *)
LEMMA RecordStep ==
  ASSUME TypeOK, [Next]_vars, NEW c \in Chans
  PROVE  \/ cb_data'[c] = cb_data[c]
         \/ \E t \in Threads : /\ Chan(t) = c
                               /\ SetCbComp(t) \/ SetCbSignal(t) \/ SetCbProcess(t)
<1> DEFINE Writes(t) == SetCbComp(t) \/ SetCbSignal(t) \/ SetCbProcess(t)
<1>1. ASSUME NEW t \in Threads, Writes(t)
      PROVE  cb_data'[c] = cb_data[c] \/ Chan(t) = c
  BY <1>1 DEF SetCbComp, SetCbSignal, SetCbProcess, TypeOK
<1>2. ASSUME NEW t \in Threads, InCall(t)
      PROVE  cb_data' = cb_data \/ Writes(t)
  BY <1>2 DEF InCall, PrepDescriptor, Submit, Issue, Wake, Timeout, CheckStatus, StopDma
<1>3. ASSUME NEW t \in Threads,
             StartCall(t) \/ SetSignal(t) \/ \E d \in Uses[t] : StopChannel(t, d)
      PROVE  cb_data' = cb_data
  BY <1>3 DEF StartCall, SetSignal, StopChannel
<1>4. ASSUME NEW d \in Chans, HwComplete(d) \/ Kernel(d)
      PROVE  cb_data' = cb_data
  BY <1>4 DEF HwComplete, Kernel, CallbackEnter, CallbackReadComp, CallbackComplete,
     CallbackReadSignal, CallbackSend
<1>5. CASE UNCHANGED vars
  BY <1>5 DEF vars
<1> QED
  BY <1>1, <1>2, <1>3, <1>4, <1>5 DEF Next

(* What the assignments leave in it.                                       *)
LEMMA RecordWritten ==
  ASSUME TypeOK, NEW t \in Threads
  PROVE  LET r == cb_data[Chan(t)]
             s == cb_data'[Chan(t)]
         IN  /\ SetCbComp(t) =>
                   /\ s.comp = IF Cur(t).wait THEN t ELSE NULL
                   /\ s.notify_signal = r.notify_signal /\ s.process = r.process
             /\ SetCbSignal(t) =>
                   /\ s.notify_signal =
                         IF Cur(t).wait THEN NoSignal ELSE Cur(t).notify_signal
                   /\ s.comp = r.comp /\ s.process = r.process
             /\ SetCbProcess(t) =>
                   /\ s.process = IF Cur(t).wait THEN NULL ELSE t
                   /\ s.comp = r.comp /\ s.notify_signal = r.notify_signal
<1>1. Chan(t) \in Chans /\ cb_data[Chan(t)] \in CbData /\ cb_data \in [Chans -> CbData]
  BY CurType DEF TypeOK
<1>2. /\ SetCbComp(t) => cb_data'[Chan(t)] =
             [cb_data[Chan(t)] EXCEPT !.comp = IF Cur(t).wait THEN t ELSE NULL]
      /\ SetCbSignal(t) => cb_data'[Chan(t)] =
             [cb_data[Chan(t)] EXCEPT !.notify_signal =
                 IF Cur(t).wait THEN NoSignal ELSE Cur(t).notify_signal]
      /\ SetCbProcess(t) => cb_data'[Chan(t)] =
             [cb_data[Chan(t)] EXCEPT !.process = IF Cur(t).wait THEN NULL ELSE t]
  BY <1>1 DEF SetCbComp, SetCbSignal, SetCbProcess
<1>3. ASSUME SetCbComp(t)
      PROVE  /\ cb_data'[Chan(t)].comp = IF Cur(t).wait THEN t ELSE NULL
             /\ cb_data'[Chan(t)].notify_signal = cb_data[Chan(t)].notify_signal
             /\ cb_data'[Chan(t)].process = cb_data[Chan(t)].process
  BY <1>1, <1>2, <1>3 DEF CbData
<1>4. ASSUME SetCbSignal(t)
      PROVE  /\ cb_data'[Chan(t)].notify_signal =
                    IF Cur(t).wait THEN NoSignal ELSE Cur(t).notify_signal
             /\ cb_data'[Chan(t)].comp = cb_data[Chan(t)].comp
             /\ cb_data'[Chan(t)].process = cb_data[Chan(t)].process
  BY <1>1, <1>2, <1>4 DEF CbData
<1>5. ASSUME SetCbProcess(t)
      PROVE  /\ cb_data'[Chan(t)].process = IF Cur(t).wait THEN NULL ELSE t
             /\ cb_data'[Chan(t)].comp = cb_data[Chan(t)].comp
             /\ cb_data'[Chan(t)].notify_signal = cb_data[Chan(t)].notify_signal
  BY <1>1, <1>2, <1>5 DEF CbData
<1> QED
  BY <1>3, <1>4, <1>5

(* A step inside a call, by what it does to the thread's place in it.      *)
LEMMA PrepSteps ==
  ASSUME TypeOK, [Next]_vars, NEW u \in Threads,
         pc'[u] \in {"cb_signal", "cb_process", "submit"}
  PROVE  \/ SameFrame(u)
         \/ /\ pc'[u] = "cb_signal" /\ SetCbComp(u)
            /\ tfr'[u] = tfr[u] /\ leg'[u] = leg[u]
         \/ /\ pc[u] = "cb_signal" /\ pc'[u] = "cb_process" /\ SetCbSignal(u)
            /\ tfr'[u] = tfr[u] /\ leg'[u] = leg[u]
         \/ /\ pc[u] = "cb_process" /\ pc'[u] = "submit" /\ SetCbProcess(u)
            /\ tfr'[u] = tfr[u] /\ leg'[u] = leg[u]
<1> USE DEF TypeOK, CallTypeOK
<1>1. ASSUME NEW from, NEW to, Goto(u, from, to)
      PROVE  pc[u] = from /\ pc'[u] = to
  BY <1>1 DEF Goto
<1>2. ASSUME NEW from, NEW code, Return(u, from, code)
      PROVE  FALSE
  BY <1>2 DEF Return
<1>3. ASSUME StartCall(u) \/ SetSignal(u) \/ \E c \in Uses[u] : StopChannel(u, c)
      PROVE  FALSE
  BY <1>3, IdleStep
<1>4. ASSUME InCall(u)
      PROVE  SetCbComp(u) \/ SetCbSignal(u) \/ SetCbProcess(u)
  BY <1>1, <1>2, <1>4
     DEF InCall, PrepDescriptor, Submit, Issue, Wake, Timeout, CheckStatus, StopDma,
         LegDone, Fail
<1>5. ASSUME SetCbComp(u) \/ SetCbSignal(u) \/ SetCbProcess(u)
      PROVE  tfr'[u] = tfr[u] /\ leg'[u] = leg[u]
  BY <1>5 DEF SetCbComp, SetCbSignal, SetCbProcess
<1> QED
  BY <1>1, <1>3, <1>4, <1>5, ThreadStep DEF SetCbComp, SetCbSignal, SetCbProcess

LEMMA WrittenStep ==
  ASSUME DmaInv, WrittenInv, [Next]_vars
  PROVE  WrittenInv'
<1> USE DEF DmaInv
<1>1. ASSUME NEW c \in Chans
      PROVE  /\ cb_data[c].comp # Garbage => cb_data'[c].comp # Garbage
             /\ cb_data[c].process # Garbage => cb_data'[c].process # Garbage
  <2>1. ASSUME NEW t \in Threads, Chan(t) = c,
               SetCbComp(t) \/ SetCbSignal(t) \/ SetCbProcess(t)
        PROVE  /\ cb_data[c].comp # Garbage => cb_data'[c].comp # Garbage
               /\ cb_data[c].process # Garbage => cb_data'[c].process # Garbage
    BY <2>1, RecordWritten, DistinctAssumption
  <2> QED
    BY <2>1, RecordStep
<1>2. ASSUME NEW u \in Threads
      PROVE  /\ pc'[u] \in {"cb_signal", "cb_process", "submit"} =>
                    cb_data'[Chan(u)'].comp # Garbage
             /\ pc'[u] = "submit" => cb_data'[Chan(u)'].process # Garbage
  <2> SUFFICES ASSUME pc'[u] \in {"cb_signal", "cb_process", "submit"}
               PROVE  /\ cb_data'[Chan(u)'].comp # Garbage
                      /\ pc'[u] = "submit" => cb_data'[Chan(u)'].process # Garbage
    OBVIOUS
  <2>1. Chan(u) \in Chans /\ cb_data[Chan(u)] \in CbData
    BY CurType DEF TypeOK
  <2>2. Chan(u)' = Chan(u)
    BY PrepSteps DEF Chan, Cur, SameFrame
  <2>3. CASE SameFrame(u)
    BY <2>1, <2>2, <2>3, <1>1 DEF SameFrame, WrittenInv
  <2>4. CASE SetCbComp(u) /\ pc'[u] = "cb_signal"
    BY <2>2, <2>4, RecordWritten, DistinctAssumption
  <2>5. CASE pc[u] = "cb_signal" /\ pc'[u] = "cb_process"
    BY <2>1, <2>2, <2>5, <1>1 DEF WrittenInv
  <2>6. CASE SetCbProcess(u) /\ pc[u] = "cb_process"
    BY <2>1, <2>2, <2>6, <1>1, RecordWritten, DistinctAssumption DEF WrittenInv
  <2> QED
    BY <2>3, <2>4, <2>5, <2>6, PrepSteps
<1>3. ASSUME NEW c \in Chans, lastUsed'[c] # 0
      PROVE  cb_data'[c].comp # Garbage /\ cb_data'[c].process # Garbage
  <2>1. cb_data[c].comp # Garbage /\ cb_data[c].process # Garbage
    BY <1>3, CookieTaken DEF WrittenInv, SubmitsNow
  <2> QED
    BY <2>1, <1>1
<1> QED
  BY <1>2, <1>3 DEF WrittenInv

(* A callback that runs has a descriptor, and one that exists was          *)
(* submitted.                                                              *)
LEMMA CallbackHasDescriptor ==
  ASSUME DmaInv, NEW c \in Chans, cb[c].pc # "idle"
  PROVE  /\ cb[c].cookie \in Cookies /\ stage[c][cb[c].cookie] = "callback"
         /\ lastUsed[c] # 0
<1>1. cb[c].cookie \in Cookies /\ stage[c][cb[c].cookie] = "callback"
  BY DEF DmaInv, CallbackInv
<1>2. ~(cb[c].cookie > lastUsed[c]) /\ lastUsed[c] \in Nat
  BY <1>1 DEF DmaInv, EngineInv, EngineOK, TypeOK, EngineTypeOK
<1> QED
  BY <1>1, <1>2, ConstantsAssumption DEF Cookies

LEMMA NoGarbageStep ==
  ASSUME DmaInv, WrittenInv, NoGarbageRead, [Next]_vars
  PROVE  NoGarbageRead'
<1> USE DEF DmaInv, NoGarbageRead, TypeOK, EngineTypeOK
<1>1. CASE UNCHANGED <<engineVars, cb>>
  BY <1>1 DEF engineVars
<1>2. ASSUME NEW c \in Chans, EngineStep(c)
      PROVE  NoGarbageRead'
  <2>1. CASE \/ \E n \in Cookies, t \in Threads, notice \in Notices :
                   EngineSubmit(c, n, t, notice) /\ UNCHANGED cb
             \/ EngineIssue(c) /\ UNCHANGED cb
             \/ EngineTerminate(c) /\ UNCHANGED cb
             \/ HwComplete(c)
    BY <2>1 DEF EngineSubmit, EngineIssue, EngineTerminate, HwComplete
  <2>2. ASSUME cb[c].pc # "idle"
        PROVE  cb_data[c].comp # Garbage /\ cb_data[c].process # Garbage
    BY <2>2, CallbackHasDescriptor DEF WrittenInv
  <2>3. ASSUME NEW how, NEW whom, whom # Garbage, CallbackReturn(c, how, whom)
        PROVE  NoGarbageRead'
    BY <2>3, DistinctAssumption DEF CallbackReturn, IdleCallback
  <2>4. CASE CallbackEnter(c)
    BY <2>4, DistinctAssumption DEF CallbackEnter
  <2>5. CASE CallbackReadComp(c)
    <3>1. cb'[c].comp = cb_data[c].comp /\ \A d \in Chans : d # c => cb'[d] = cb[d]
      BY <2>5 DEF CallbackReadComp, Callback
    <3> QED
      BY <2>2, <2>5, <3>1 DEF CallbackReadComp, engineVars
  <2>9. ASSUME Oops(c)
        PROVE  NoGarbageRead'
    <3>1. \A d \in Chans : cb'[d].comp = cb[d].comp
      BY <2>9 DEF Callback
    <3> QED
      BY <2>9, <3>1 DEF engineVars
  <2>6. CASE CallbackComplete(c)
    <3>1. \A comp \in {cb[c].comp, cb_data[c].comp} : comp # Garbage
      BY <2>2, <2>6 DEF CallbackComplete
    <3> QED
      BY <3>1, <2>3, <2>6, <2>9 DEF CallbackComplete
  <2>7. CASE CallbackReadSignal(c)
    <3>1. CASE cb' = [cb EXCEPT ![c].pc = "send"] /\ UNCHANGED engineVars
      <4>1. \A d \in Chans : cb'[d].comp = cb[d].comp
        BY <3>1 DEF Callback
      <4> QED
        BY <3>1, <4>1 DEF engineVars
    <3> QED
      BY <3>1, <2>3, <2>7, DistinctAssumption DEF CallbackReadSignal
  <2>8. CASE CallbackSend(c)
    BY <2>2, <2>3, <2>8, <2>9, DistinctAssumption DEF CallbackSend
  <2> QED
    BY <1>2, <2>1, <2>4, <2>5, <2>6, <2>7, <2>8 DEF EngineStep, Kernel
<1> QED
  BY <1>1, <1>2, StepOfEngine

(* For any number of threads sharing any channels: the callback never acts *)
(* on a field of the kmalloc'ed cb_data that no call has written           *)
(* (axidma_dma.c:701).                                                     *)
THEOREM NoGarbageIsRead == Spec => []NoGarbageRead
<1>1. Init => WrittenInv /\ NoGarbageRead
  BY DistinctAssumption DEF Init, WrittenInv, NoGarbageRead, IdleCallback
<1>2. DmaInv /\ WrittenInv /\ [Next]_vars => WrittenInv'
  BY WrittenStep
<1>3. DmaInv /\ WrittenInv /\ NoGarbageRead /\ [Next]_vars => NoGarbageRead'
  BY NoGarbageStep
<1> QED
  BY <1>1, <1>2, <1>3, DmaInvHolds, PTL DEF Spec

-----------------------------------------------------------------------------
(* Notifications, on channels used by one thread each.                     *)

SameAsking(x, y) ==
    x.chan = y.chan /\ x.wait = y.wait /\ x.notify_signal = y.notify_signal

(* A call's channels, and what it asks for on them, are settled when it    *)
(* begins.                                                                 *)
LEMMA AskingStep ==
  ASSUME TypeOK, [Next]_vars, NEW u \in Threads, pc'[u] # "idle"
  PROVE  \/ /\ pc[u] # "idle"
            /\ \A i \in Leg : SameAsking(tfr'[u][i], tfr[u][i])
         \/ /\ pc[u] = "idle" /\ UNCHANGED notify_signal
            /\ \A i \in Leg : \E c \in Uses[u] : \E w \in Waits[c] :
                  tfr'[u][i] = NewTransfer(c, w)
<1> USE DEF TypeOK, CallTypeOK
<1>1. CASE SameFrame(u)
  BY <1>1 DEF SameFrame, SameAsking
<1>2. CASE InCall(u)
  <2>1. pc[u] # "idle"
    BY <1>2 DEF InCall, PrepDescriptor, SetCbComp, SetCbSignal, SetCbProcess,
       Submit, Issue, Wake, Timeout, CheckStatus, StopDma, Goto, Fail, LegDone, Return
  <2>2. ASSUME NEW n \in Cookies, SubmitsNow(u, n)
        PROVE  \A i \in Leg : SameAsking(tfr'[u][i], tfr[u][i])
    <3>1. /\ tfr'[u][leg[u]] = [Cur(u) EXCEPT !.cookie = n]
          /\ \A j \in Leg : j # leg[u] => tfr'[u][j] = tfr[u][j]
      BY <2>2 DEF SubmitsNow, Cur
    <3>2. SameAsking([Cur(u) EXCEPT !.cookie = n], Cur(u))
      BY CurType DEF Transfer, SameAsking
    <3> QED
      BY <3>1, <3>2 DEF Cur, SameAsking
  <2> QED
    BY <2>1, <2>2, <1>2, InCallLegs DEF SameAsking
<1>3. CASE StartCall(u)
  <2>1. ASSUME NEW code, Refuse(u, code)
        PROVE  FALSE
    BY <2>1 DEF Refuse
  <2>2. ASSUME NEW o, NEW c \in Uses[u], NEW d \in Uses[u],
               NEW v \in Waits[c], NEW w \in Waits[d],
               Begin(u, o, NewTransfer(c, v), NewTransfer(d, w))
        PROVE  /\ pc[u] = "idle"
               /\ \A i \in Leg : \E e \in Uses[u] : \E z \in Waits[e] :
                     tfr'[u][i] = NewTransfer(e, z)
    BY <2>2 DEF Begin
  <2>3. ASSUME NEW c \in Uses[u], NEW w, NEW o, NEW dir, OneWay(u, o, dir, c, w)
        PROVE  /\ pc[u] = "idle"
               /\ \A i \in Leg : \E e \in Uses[u] : \E z \in Waits[e] :
                     tfr'[u][i] = NewTransfer(e, z)
    BY <2>1, <2>2, <2>3 DEF OneWay
  <2>4. ASSUME NEW tx \in Uses[u], NEW rx \in Uses[u], NEW w, RwTransfer(u, tx, rx, w)
        PROVE  /\ pc[u] = "idle"
               /\ \A i \in Leg : \E e \in Uses[u] : \E z \in Waits[e] :
                     tfr'[u][i] = NewTransfer(e, z)
    BY <2>1, <2>2, <2>4 DEF RwTransfer
  <2>5. ASSUME NEW c \in Uses[u], VideoTransfer(u, c)
        PROVE  /\ pc[u] = "idle"
               /\ \A i \in Leg : \E e \in Uses[u] : \E z \in Waits[e] :
                     tfr'[u][i] = NewTransfer(e, z)
    BY <2>1, <2>2, <2>5 DEF VideoTransfer
  <2> QED
    BY <2>3, <2>4, <2>5, <1>3 DEF StartCall, ReadTransfer, WriteTransfer
<1>4. ~(SetSignal(u) \/ \E c \in Uses[u] : StopChannel(u, c))
  BY DEF SetSignal, StopChannel, Refuse
<1> QED
  BY <1>1, <1>2, <1>3, <1>4, ThreadStep

(* A valid signal is replaced by valid ones only.                          *)
LEMMA SignalStaysValid ==
  ASSUME [Next]_vars, notify_signal \in RtSignals
  PROVE  notify_signal' \in RtSignals
<1>1. ASSUME NEW t \in Threads, SetSignal(t)
      PROVE  notify_signal' \in RtSignals
  BY <1>1 DEF SetSignal
<1> QED
  BY <1>1 DEF Next, vars, StartCall, StopChannel, InCall, PrepDescriptor, SetCbComp,
     SetCbSignal, SetCbProcess, Submit, Issue, Wake, Timeout, CheckStatus, StopDma,
     HwComplete, Kernel, CallbackEnter, CallbackReadComp, CallbackComplete,
     CallbackReadSignal, CallbackSend

LEMMA AskingInvStep ==
  ASSUME TypeOK, AskingInv, [Next]_vars
  PROVE  AskingInv'
<1> SUFFICES ASSUME NEW u \in Threads, pc'[u] # "idle"
             PROVE  /\ tfr'[u][1].notify_signal = tfr'[u][2].notify_signal
                    /\ tfr'[u][1].notify_signal \in RtSignals => notify_signal' \in RtSignals
                    /\ \A i \in Leg : tfr'[u][i].wait \in Waits[tfr'[u][i].chan]
  BY DEF AskingInv
<1>1. CASE pc[u] # "idle" /\ \A i \in Leg : SameAsking(tfr'[u][i], tfr[u][i])
  BY <1>1, SignalStaysValid DEF SameAsking, AskingInv, Leg
<1>2. CASE /\ UNCHANGED notify_signal
           /\ \A i \in Leg : \E c \in Uses[u] : \E w \in Waits[c] :
                 tfr'[u][i] = NewTransfer(c, w)
  <2>1. ASSUME NEW i \in Leg
        PROVE  /\ tfr'[u][i].notify_signal = notify_signal
               /\ tfr'[u][i].wait \in Waits[tfr'[u][i].chan]
    <3>1. PICK c \in Uses[u] : \E w \in Waits[c] : tfr'[u][i] = NewTransfer(c, w)
      BY <1>2
    <3>2. PICK w \in Waits[c] : tfr'[u][i] = NewTransfer(c, w)
      BY <3>1
    <3> QED
      BY <3>2 DEF NewTransfer
  <2> QED
    BY <2>1, <1>2 DEF Leg
<1> QED
  BY <1>1, <1>2, AskingStep

(* With one thread per channel nobody else writes the record of a channel  *)
(* a call is at.                                                           *)
LEMMA RecordIsMine ==
  ASSUME ExclusiveUse, TypeOK, LastCookieInv, [Next]_vars,
         NEW u \in Threads, pc[u] # "idle",
         ~(SetCbComp(u) \/ SetCbSignal(u) \/ SetCbProcess(u))
  PROVE  cb_data'[Chan(u)] = cb_data[Chan(u)]
<1>1. ASSUME NEW t \in Threads, SetCbComp(t) \/ SetCbSignal(t) \/ SetCbProcess(t)
      PROVE  Chan(t) # Chan(u)
  <2>1. t # u /\ pc[t] # "idle"
    BY <1>1 DEF SetCbComp, SetCbSignal, SetCbProcess, Goto
  <2>2. Chan(t) \in Uses[t] /\ Chan(u) \in Uses[u]
    BY <2>1 DEF LastCookieInv, Chan, Cur, TypeOK, CallTypeOK
  <2> QED
    BY <2>1, <2>2 DEF ExclusiveUse
<1> QED
  BY <1>1, CurType, RecordStep DEF TypeOK

LEMMA RecordInvStep ==
  ASSUME ExclusiveUse, TypeOK, LastCookieInv, RecordInv, [Next]_vars
  PROVE  RecordInv'
<1> SUFFICES ASSUME NEW u \in Threads, pc'[u] \in {"cb_signal", "cb_process", "submit"}
             PROVE  /\ cb_data'[Chan(u)'].comp = IF Cur(u)'.wait THEN u ELSE NULL
                    /\ pc'[u] \in {"cb_process", "submit"} /\ ~Cur(u)'.wait =>
                          cb_data'[Chan(u)'].notify_signal = Cur(u)'.notify_signal
                    /\ pc'[u] = "submit" /\ ~Cur(u)'.wait => cb_data'[Chan(u)'].process = u
  BY DEF RecordInv
<1>1. Cur(u)' = Cur(u) /\ Chan(u)' = Chan(u)
  BY PrepSteps DEF Cur, Chan, SameFrame
<1>2. CASE SameFrame(u)
  <2>1. ~(SetCbComp(u) \/ SetCbSignal(u) \/ SetCbProcess(u))
    BY <1>2 DEF SameFrame, SetCbComp, SetCbSignal, SetCbProcess, Goto, TypeOK, CallTypeOK
  <2> QED
    BY <1>1, <1>2, <2>1, RecordIsMine DEF SameFrame, RecordInv
<1>3. CASE pc'[u] = "cb_signal" /\ SetCbComp(u)
  BY <1>1, <1>3, RecordWritten
<1>4. CASE pc[u] = "cb_signal" /\ pc'[u] = "cb_process" /\ SetCbSignal(u)
  BY <1>1, <1>4, RecordWritten DEF RecordInv
<1>5. CASE pc[u] = "cb_process" /\ pc'[u] = "submit" /\ SetCbProcess(u)
  BY <1>1, <1>5, RecordWritten DEF RecordInv
<1> QED
  BY <1>2, <1>3, <1>4, <1>5, PrepSteps

(* A descriptor that exists after a step was there before it, asking the   *)
(* same for the same thread, or is being submitted; and its callback was   *)
(* still to come if it is now.                                             *)
LEMMA DescriptorStep ==
  ASSUME DmaInv, [Next]_vars, NEW c \in Chans, NEW n \in Cookies,
         stage'[c][n] # "free"
  PROVE  \/ /\ stage[c][n] # "free"
            /\ owner'[c][n] = owner[c][n] /\ asked'[c][n] = asked[c][n]
            /\ stage'[c][n] \in Outstanding => stage[c][n] \in Outstanding
         \/ \E t \in Threads : Chan(t) = c /\ SubmitsNow(t, n)
<1> DEFINE Same == /\ stage[c][n] # "free"
                   /\ owner'[c][n] = owner[c][n] /\ asked'[c][n] = asked[c][n]
                   /\ stage'[c][n] \in Outstanding => stage[c][n] \in Outstanding
<1> USE DEF DmaInv, TypeOK, EngineTypeOK, Outstanding
<1>1. ASSUME UNCHANGED engineVars PROVE Same
  BY <1>1 DEF engineVars
<1>2. ASSUME NEW d \in Chans, EngineIssue(d) \/ EngineTerminate(d) PROVE Same
  <2>1. CASE EngineIssue(d)
    BY <2>1 DEF EngineIssue
  <2>2. CASE EngineTerminate(d)
    BY <2>2 DEF EngineTerminate
  <2> QED
    BY <1>2, <2>1, <2>2
<1>3. ASSUME NEW d \in Chans, HwComplete(d) \/ CallbackEnter(d) PROVE Same
  <2>1. CASE HwComplete(d)
    BY <2>1 DEF HwComplete
  <2>2. CASE CallbackEnter(d)
    BY <2>2 DEF CallbackEnter
  <2> QED
    BY <1>3, <2>1, <2>2
<1>4. ASSUME NEW d \in Chans, NEW how \in Finished, NEW whom, cb[d].pc # "idle",
             CallbackReturn(d, how, whom)
      PROVE  Same
  BY <1>4, CallbackHasDescriptor DEF CallbackReturn, Finished
<1>5. ASSUME NEW d \in Chans, Kernel(d) PROVE Same
  BY <1>1, <1>3, <1>4, <1>5 DEF Kernel, CallbackReadComp, CallbackComplete,
     CallbackReadSignal, CallbackSend, Finished
<1>6. ASSUME NEW t \in Threads, InCall(t)
      PROVE  Same \/ (Chan(t) = c /\ SubmitsNow(t, n))
  <2>1. CASE Submit(t)
    <3>1. ASSUME NEW m \in Cookies, EngineSubmit(Chan(t), m, t, Wanted(Cur(t)))
          PROVE  Same \/ (Chan(t) = c /\ m = n)
      BY <3>1 DEF EngineSubmit
    <3> QED
      BY <1>1, <2>1, <3>1 DEF Submit, SubmitsNow, Goto, CallTypeOK
  <2>2. CASE Issue(t) \/ StopDma(t)
    BY <1>2, <2>2, CurType DEF Issue, StopDma
  <2> QED
    BY <1>1, <1>6, <2>1, <2>2 DEF InCall, PrepDescriptor, SetCbComp, SetCbSignal,
       SetCbProcess, Wake, Timeout, CheckStatus
<1>7. ASSUME NEW t \in Threads,
             StartCall(t) \/ SetSignal(t) \/ \E d \in Uses[t] : StopChannel(t, d)
      PROVE  Same
  BY <1>1, <1>2, <1>7, ConstantsAssumption DEF StartCall, SetSignal, StopChannel
<1> QED
  BY <1>1, <1>3, <1>5, <1>6, <1>7 DEF Next, vars

SignalledFrames(c) ==
    /\ notify_signal \in RtSignals
    /\ \A t \in Threads, i \in Leg : pc[t] # "idle" /\ tfr[t][i].chan = c =>
          tfr[t][i].notify_signal \in RtSignals

(* Once every call at a channel asks for a valid signal, so does every     *)
(* later one: it takes the signal that is set.                             *)
LEMMA SignalledFramesStep ==
  ASSUME TypeOK, [Next]_vars, NEW c \in Chans, SignalledFrames(c)
  PROVE  SignalledFrames(c)'
<1>1. notify_signal' \in RtSignals
  BY SignalStaysValid DEF SignalledFrames
<1>2. ASSUME NEW u \in Threads, NEW i \in Leg, pc'[u] # "idle", tfr'[u][i].chan = c
      PROVE  tfr'[u][i].notify_signal \in RtSignals
  <2>1. CASE pc[u] # "idle" /\ \A j \in Leg : SameAsking(tfr'[u][j], tfr[u][j])
    BY <1>2, <2>1 DEF SameAsking, SignalledFrames
  <2>2. CASE \A j \in Leg : \E d \in Uses[u] : \E w \in Waits[d] :
                tfr'[u][j] = NewTransfer(d, w)
    <3>1. PICK d, w : tfr'[u][i] = NewTransfer(d, w)
      BY <2>2
    <3> QED
      BY <3>1 DEF NewTransfer, SignalledFrames
  <2> QED
    BY <1>2, <2>1, <2>2, AskingStep
<1> QED
  BY <1>1, <1>2 DEF SignalledFrames

(* A call's place on its channel.                                          *)
LEMMA CallAt ==
  ASSUME TypeOK, LastCookieInv, AskingInv, NEW t \in Threads, pc[t] # "idle"
  PROVE  /\ Chan(t) \in Chans /\ Chan(t) \in Uses[t]
         /\ Cur(t).wait \in BOOLEAN /\ Cur(t).wait \in Waits[Chan(t)]
<1>1. leg[t] \in Leg
  BY DEF TypeOK, CallTypeOK
<1> QED
  BY <1>1, CurType DEF TypeOK, LastCookieInv, AskingInv, Chan, Cur

(* The descriptor a call is submitting fits the record the call wrote.     *)
LEMMA NewFits ==
  ASSUME ExclusiveUse, DmaInv, LastCookieInv, AskingInv, RecordInv, [Next]_vars,
         NEW c \in Chans, NEW n \in Cookies, NEW t \in Threads,
         Chan(t) = c, SubmitsNow(t, n)
  PROVE  /\ c \in Uses[owner'[c][n]]
         /\ (asked'[c][n] = "wake") \in Waits[c]
         /\ Fits(c, n)'
<1> USE DEF DmaInv
<1>1. pc[t] = "submit"
  BY DEF SubmitsNow
<1>2. c \in Uses[t] /\ Cur(t).wait \in BOOLEAN /\ Cur(t).wait \in Waits[c]
  BY <1>1, CallAt
<1>3. /\ owner'[c][n] = t /\ asked'[c][n] = Wanted(Cur(t))
      /\ (asked'[c][n] = "wake") = Cur(t).wait
  <2>1. owner'[c][n] = t /\ asked'[c][n] = Wanted(Cur(t))
    BY DEF SubmitsNow, EngineSubmit, TypeOK, EngineTypeOK
  <2> QED
    BY <2>1, <1>2 DEF Wanted
<1>4. cb_data'[c] = cb_data[c]
  <2>1. ~(SetCbComp(t) \/ SetCbSignal(t) \/ SetCbProcess(t))
    BY <1>1 DEF SetCbComp, SetCbSignal, SetCbProcess, Goto
  <2> QED
    BY <1>1, <2>1, RecordIsMine
<1>5. /\ cb_data[c].comp = IF Cur(t).wait THEN t ELSE NULL
      /\ ~Cur(t).wait => /\ cb_data[c].notify_signal = Cur(t).notify_signal
                         /\ cb_data[c].process = t
  BY <1>1 DEF RecordInv
<1>6. ASSUME asked'[c][n] = "signal"
      PROVE  Cur(t).notify_signal \in RtSignals /\ SignalledFrames(c)'
  <2>1. Cur(t).notify_signal \in RtSignals
    BY <1>3, <1>6 DEF Wanted
  <2>2. \A i \in Leg : tfr[t][i].notify_signal \in RtSignals
    BY <1>1, <2>1 DEF AskingInv, Cur, Leg, TypeOK, CallTypeOK
  <2>3. notify_signal \in RtSignals
    BY <1>1, <2>2 DEF AskingInv, Leg
  <2>4. ASSUME NEW u \in Threads, NEW i \in Leg, pc[u] # "idle", tfr[u][i].chan = c
        PROVE  tfr[u][i].notify_signal \in RtSignals
    <3>1. c \in Uses[u]
      BY <2>4 DEF LastCookieInv
    <3> QED
      BY <1>2, <2>2, <3>1 DEF ExclusiveUse
  <2>5. SignalledFrames(c)
    BY <2>3, <2>4 DEF SignalledFrames
  <2> QED
    BY <2>1, <2>5, SignalledFramesStep
<1>7. ASSUME asked'[c][n] = "wake"
      PROVE  BlockingFits(c, n)'
  BY <1>3, <1>4, <1>5, <1>7 DEF BlockingFits
<1>8. ASSUME asked'[c][n] # "wake"
      PROVE  AsyncFits(c, n)'
  <2>1. ~Cur(t).wait
    BY <1>2, <1>3, <1>8
  <2> QED
    BY <1>3, <1>4, <1>5, <1>6, <2>1 DEF AsyncFits, SignalledFrames
<1> QED
  BY <1>2, <1>3, <1>7, <1>8 DEF Fits

(* Only the first of the three assignments tears descriptors, and none is  *)
(* ever mended.                                                            *)
LEMMA TornStep ==
  ASSUME TypeOK, [Next]_vars, NEW c \in Chans
  PROVE  \/ torn'[c] = torn[c]
         \/ \E t \in Threads : /\ Chan(t) = c /\ SetCbComp(t)
                               /\ torn'[c] = torn[c] \cup OtherKind(t)
<1> DEFINE Tears == \E t \in Threads : /\ Chan(t) = c /\ SetCbComp(t)
                                       /\ torn'[c] = torn[c] \cup OtherKind(t)
<1>1. ASSUME NEW t \in Threads, SetCbComp(t)
      PROVE  torn'[c] = torn[c] \/ Tears
  <2>1. torn' = [torn EXCEPT ![Chan(t)] = torn[Chan(t)] \cup OtherKind(t)]
    BY <1>1 DEF SetCbComp
  <2>2. CASE Chan(t) = c
    <3>1. torn'[c] = torn[c] \cup OtherKind(t)
      BY <2>1, <2>2 DEF TypeOK
    <3> QED
      BY <1>1, <2>2, <3>1
  <2>3. CASE Chan(t) # c
    BY <2>1, <2>3 DEF TypeOK
  <2> QED
    BY <2>2, <2>3
<1>2. ASSUME NEW t \in Threads, InCall(t)
      PROVE  torn'[c] = torn[c] \/ SetCbComp(t)
  BY <1>2 DEF InCall, PrepDescriptor, SetCbSignal, SetCbProcess, Submit, Issue, Wake,
     Timeout, CheckStatus, StopDma
<1>3. ASSUME NEW t \in Threads,
             StartCall(t) \/ SetSignal(t) \/ \E d \in Uses[t] : StopChannel(t, d)
      PROVE  torn' = torn
  BY <1>3 DEF StartCall, SetSignal, StopChannel
<1>4. ASSUME NEW d \in Chans, HwComplete(d) \/ Kernel(d)
      PROVE  torn' = torn
  BY <1>4 DEF HwComplete, Kernel, CallbackEnter, CallbackReadComp, CallbackComplete,
     CallbackReadSignal, CallbackSend
<1>5. CASE UNCHANGED vars
  BY <1>5 DEF vars
<1> QED
  BY <1>1, <1>2, <1>3, <1>4, <1>5 DEF Next

(* An outstanding descriptor keeps fitting a record that only its own      *)
(* thread rewrites, as long as it is not torn.                             *)
LEMMA StillFits ==
  ASSUME ExclusiveUse, DmaInv, LastCookieInv, AskingInv, RecordInv, FitsInv, [Next]_vars,
         NEW c \in Chans, NEW n \in Cookies,
         stage[c][n] \in Outstanding, n \notin torn'[c],
         owner'[c][n] = owner[c][n], asked'[c][n] = asked[c][n]
  PROVE  Fits(c, n)'
<1> USE DEF DmaInv
<1> DEFINE Writes(t) == SetCbComp(t) \/ SetCbSignal(t) \/ SetCbProcess(t)
<1>1. /\ owner[c][n] \in Threads /\ owner[c][n] # NULL
      /\ c \in Uses[owner[c][n]]
  BY DistinctAssumption DEF OwnerInv, FitsInv, Outstanding
<1>2. n \notin torn[c] /\ Fits(c, n)
  BY TornStep DEF FitsInv
<1>3. ASSUME NEW t \in Threads, Chan(t) = c, Writes(t)
      PROVE  /\ t = owner[c][n] /\ t # NULL /\ pc[t] # "idle"
             /\ (asked[c][n] = "wake") <=> Cur(t).wait
  <2>1. pc[t] # "idle"
    BY <1>3 DEF SetCbComp, SetCbSignal, SetCbProcess, Goto
  <2>2. t = owner[c][n] /\ t # NULL /\ Cur(t).wait \in BOOLEAN
    BY <1>1, <1>3, <2>1, CallAt DEF ExclusiveUse
  <2>3. CASE SetCbComp(t)
    <3>1. torn'[c] = torn[c] \cup OtherKind(t)
      BY <1>3, <2>3 DEF SetCbComp, TypeOK
    <3>2. n \notin OtherKind(t)
      BY <3>1
    <3> QED
      BY <1>3, <2>1, <2>2, <3>2 DEF OtherKind
  <2>4. CASE SetCbSignal(t) \/ SetCbProcess(t)
    <3>1. cb_data[c].comp = IF Cur(t).wait THEN t ELSE NULL
      BY <1>3, <2>4 DEF RecordInv, SetCbSignal, SetCbProcess, Goto
    <3> QED
      BY <1>2, <2>1, <2>2, <3>1 DEF Fits, BlockingFits, AsyncFits
  <2> QED
    BY <1>3, <2>3, <2>4
<1>4. ASSUME asked[c][n] = "wake"
      PROVE  BlockingFits(c, n)'
  <2>1. BlockingFits(c, n)
    BY <1>2, <1>4 DEF Fits
  <2>2. ASSUME NEW t \in Threads, Chan(t) = c, Writes(t)
        PROVE  cb_data'[c].comp = owner[c][n]
    BY <1>3, <1>4, <2>1, <2>2, RecordWritten DEF BlockingFits
  <2> QED
    BY <2>1, <2>2, RecordStep DEF BlockingFits
<1>5. ASSUME asked[c][n] # "wake"
      PROVE  AsyncFits(c, n)'
  <2>1. AsyncFits(c, n)
    BY <1>2, <1>5 DEF Fits
  <2>2. ASSUME NEW t \in Threads, Chan(t) = c, Writes(t)
        PROVE  /\ cb_data'[c].comp = NULL
               /\ cb_data'[c].process = owner[c][n]
               /\ asked[c][n] = "signal" => cb_data'[c].notify_signal \in RtSignals
    <3>1. t = owner[c][n] /\ pc[t] # "idle" /\ ~Cur(t).wait
      BY <1>3, <1>5, <2>2
    <3>2. asked[c][n] = "signal" => Cur(t).notify_signal \in RtSignals
      BY <2>1, <2>2, <3>1 DEF AsyncFits, Chan, Cur, TypeOK, CallTypeOK
    <3>3. CASE SetCbComp(t)
      BY <2>1, <2>2, <3>1, <3>3, RecordWritten DEF AsyncFits
    <3>4. CASE SetCbSignal(t)
      BY <2>1, <2>2, <3>1, <3>2, <3>4, RecordWritten DEF AsyncFits
    <3>5. CASE SetCbProcess(t)
      BY <2>1, <2>2, <3>1, <3>5, RecordWritten DEF AsyncFits
    <3> QED
      BY <2>2, <3>3, <3>4, <3>5
  <2>3. /\ cb_data'[c].comp = NULL
        /\ cb_data'[c].process = owner[c][n]
        /\ asked[c][n] = "signal" => cb_data'[c].notify_signal \in RtSignals
    <3>1. CASE cb_data'[c] = cb_data[c]
      BY <2>1, <3>1 DEF AsyncFits
    <3> QED
      BY <2>2, <3>1, RecordStep
  <2>4. asked[c][n] = "signal" => SignalledFrames(c)'
    <3>1. asked[c][n] = "signal" => SignalledFrames(c)
      BY <2>1 DEF AsyncFits, SignalledFrames
    <3> QED
      BY <3>1, SignalledFramesStep
  <2> QED
    BY <2>3, <2>4 DEF AsyncFits, SignalledFrames
<1> QED
  BY <1>4, <1>5 DEF Fits

LEMMA FitsInvStep ==
  ASSUME ExclusiveUse, DmaInv, LastCookieInv, AskingInv, RecordInv, FitsInv, [Next]_vars
  PROVE  FitsInv'
<1> SUFFICES ASSUME NEW c \in Chans, NEW n \in Cookies, stage'[c][n] # "free"
             PROVE  /\ c \in Uses[owner'[c][n]]
                    /\ (asked'[c][n] = "wake") \in Waits[c]
                    /\ stage'[c][n] \in Outstanding /\ n \notin torn'[c] => Fits(c, n)'
  BY DEF FitsInv, Outstanding
<1>1. CASE \E t \in Threads : Chan(t) = c /\ SubmitsNow(t, n)
  BY <1>1, NewFits
<1>2. CASE /\ stage[c][n] # "free"
           /\ owner'[c][n] = owner[c][n] /\ asked'[c][n] = asked[c][n]
           /\ stage'[c][n] \in Outstanding => stage[c][n] \in Outstanding
  <2>1. c \in Uses[owner[c][n]] /\ (asked[c][n] = "wake") \in Waits[c]
    BY <1>2 DEF FitsInv
  <2> QED
    BY <1>2, <2>1, StillFits
<1> QED
  BY <1>1, <1>2, DescriptorStep

(* On a channel used in one way there is no call of the other kind.        *)
LEMMA TornInvStep ==
  ASSUME DmaInv, LastCookieInv, AskingInv, FitsInv, TornInv, [Next]_vars
  PROVE  TornInv'
<1> USE DEF DmaInv
<1> SUFFICES ASSUME NEW c \in Chans, Pure(c)
             PROVE  torn'[c] = {}
  BY DEF TornInv, Pure
<1>1. ASSUME NEW t \in Threads, Chan(t) = c, SetCbComp(t), NEW n \in OtherKind(t)
      PROVE  FALSE
  <2>1. Cur(t).wait \in Waits[c] /\ Cur(t).wait \in BOOLEAN
    BY <1>1, CallAt DEF SetCbComp, Goto
  <2>2. /\ n \in Cookies /\ stage[c][n] \in Outstanding
        /\ (asked[c][n] = "wake") # Cur(t).wait
    BY <1>1 DEF OtherKind
  <2>3. (asked[c][n] = "wake") \in Waits[c]
    BY <2>2 DEF FitsInv, Outstanding
  <2> QED
    BY <2>1, <2>2, <2>3 DEF Pure
<1> QED
  BY <1>1, TornStep DEF TornInv

(* A submitted descriptor remains whose it was, and what it asked for.     *)
LEMMA DescriptorKept ==
  ASSUME DmaInv, [Next]_vars, NEW c \in Chans, NEW n \in Cookies, stage[c][n] # "free"
  PROVE  owner'[c][n] = owner[c][n] /\ asked'[c][n] = asked[c][n]
<1> USE DEF DmaInv, TypeOK, EngineTypeOK
<1>1. CASE UNCHANGED <<engineVars, cb>>
  BY <1>1 DEF engineVars
<1>2. ASSUME NEW d \in Chans, NEW m \in Cookies, NEW t \in Threads, NEW notice \in Notices,
             EngineSubmit(d, m, t, notice)
      PROVE  owner'[c][n] = owner[c][n] /\ asked'[c][n] = asked[c][n]
  <2>1. lastUsed[d] \in Nat /\ m \in Nat
    BY DEF Cookies
  <2>2. stage[d][m] = "free"
    BY <1>2, <2>1 DEF EngineSubmit, EngineInv, EngineOK
  <2> QED
    BY <1>2, <2>2 DEF EngineSubmit
<1>3. ASSUME NEW d \in Chans,
             EngineIssue(d) \/ EngineTerminate(d) \/ HwComplete(d) \/ Kernel(d)
      PROVE  owner'[c][n] = owner[c][n] /\ asked'[c][n] = asked[c][n]
  BY <1>3 DEF EngineIssue, EngineTerminate, HwComplete, Kernel, CallbackEnter,
     CallbackReadComp, CallbackComplete, CallbackReadSignal, CallbackSend,
     CallbackReturn, engineVars
<1> QED
  BY <1>1, <1>2, <1>3, StepOfEngine DEF EngineStep

(* How a callback gets past its first read of the record.                  *)
LEMMA ReaderStep ==
  ASSUME DmaInv, [Next]_vars, NEW c \in Chans, cb'[c].pc \notin {"idle", "enter"}
  PROVE  /\ cb[c].pc # "idle" /\ cb'[c].cookie = cb[c].cookie
         /\ \/ cb'[c] = cb[c]
            \/ /\ cb[c].pc = "enter"
               /\ cb'[c].comp = cb_data[c].comp
               /\ cb'[c].pc = IF cb_data[c].comp # NULL THEN "complete" ELSE "signal"
            \/ cb[c].pc = "signal" /\ cb'[c].pc = "send"
            \/ cb[c].pc = "complete" /\ NULL \in {cb[c].comp, cb_data[c].comp}
            \/ cb[c].pc = "send" /\ cb_data[c].process = NULL
<1> USE DEF DmaInv, TypeOK
<1>1. CASE UNCHANGED cb
  BY <1>1
<1>2. ASSUME NEW d \in Chans, d # c, HwComplete(d) \/ Kernel(d)
      PROVE  cb'[c] = cb[c]
  BY <1>2 DEF HwComplete, Kernel, CallbackEnter, CallbackReadComp, CallbackComplete,
     CallbackReadSignal, CallbackSend, CallbackReturn
<1>3. ASSUME NEW how, NEW whom, CallbackReturn(c, how, whom)
      PROVE  FALSE
  BY <1>3 DEF CallbackReturn, IdleCallback
<1>4. ~CallbackEnter(c)
  BY DEF CallbackEnter
<1>5. ASSUME CallbackReadComp(c)
      PROVE  /\ cb[c].pc = "enter" /\ cb'[c].cookie = cb[c].cookie
             /\ cb'[c].comp = cb_data[c].comp
             /\ cb'[c].pc = IF cb_data[c].comp # NULL THEN "complete" ELSE "signal"
  BY <1>5 DEF CallbackReadComp, Callback
<1>6. ASSUME CallbackReadSignal(c)
      PROVE  /\ cb[c].pc = "signal" /\ cb'[c].pc = "send"
             /\ cb'[c].cookie = cb[c].cookie
  BY <1>3, <1>6 DEF CallbackReadSignal, Callback
<1>7. ASSUME CallbackComplete(c)
      PROVE  /\ cb[c].pc = "complete" /\ NULL \in {cb[c].comp, cb_data[c].comp}
             /\ cb'[c].cookie = cb[c].cookie
  BY <1>3, <1>7 DEF CallbackComplete, Callback
<1>8. ASSUME CallbackSend(c)
      PROVE  /\ cb[c].pc = "send" /\ cb_data[c].process = NULL
             /\ cb'[c].cookie = cb[c].cookie
  BY <1>3, <1>8 DEF CallbackSend, Callback
<1>9. ASSUME NEW d \in Chans, EngineStep(d)
      PROVE  UNCHANGED cb \/ Kernel(d)
  BY <1>9 DEF EngineStep, HwComplete
<1> QED
  BY <1>1, <1>2, <1>4, <1>5, <1>6, <1>7, <1>8, <1>9, StepOfEngine DEF Kernel

(* A running callback's descriptor.                                        *)
LEMMA ReadersDescriptor ==
  ASSUME DmaInv, FitsInv, NEW c \in Chans, cb[c].pc # "idle"
  PROVE  /\ cb[c].cookie \in Cookies /\ stage[c][cb[c].cookie] # "free"
         /\ owner[c][cb[c].cookie] # NULL
         /\ cb[c].cookie \notin torn[c] => Fits(c, cb[c].cookie)
<1>1. cb[c].cookie \in Cookies /\ stage[c][cb[c].cookie] = "callback"
  BY CallbackHasDescriptor
<1>2. owner[c][cb[c].cookie] \in Threads
  BY <1>1 DEF DmaInv, OwnerInv
<1> QED
  BY <1>1, <1>2, DistinctAssumption DEF FitsInv, Outstanding

LEMMA ReaderInvStep ==
  ASSUME DmaInv, FitsInv, ReaderInv, [Next]_vars
  PROVE  ReaderInv'
<1> USE DEF DmaInv
<1> SUFFICES ASSUME NEW c \in Chans, cb'[c].pc \notin {"idle", "enter"},
                    cb'[c].cookie \notin torn'[c]
             PROVE  ReaderOK(c, cb[c].cookie)' /\ cb'[c].cookie = cb[c].cookie
  BY DEF ReaderInv, ReaderOK
<1> DEFINE n == cb[c].cookie
<1>1. cb[c].pc # "idle" /\ cb'[c].cookie = n
  BY ReaderStep
<1>2. n \notin torn[c]
  BY <1>1, TornStep
<1>3. Fits(c, n) /\ owner[c][n] # NULL
  BY <1>1, <1>2, ReadersDescriptor
<1>4. owner'[c][n] = owner[c][n] /\ asked'[c][n] = asked[c][n]
  BY <1>1, ReadersDescriptor, DescriptorKept
<1>5. cb[c].pc # "enter" => ReaderOK(c, n)
  BY <1>1, <1>2 DEF ReaderInv
<1>6. /\ asked[c][n] = "wake" => cb'[c].pc = "complete" /\ cb'[c].comp = owner[c][n]
      /\ asked[c][n] # "wake" => cb'[c].pc \in {"signal", "send"}
  <2>1. CASE cb'[c] = cb[c]
    BY <1>5, <2>1 DEF ReaderOK
  <2>2. CASE /\ cb'[c].comp = cb_data[c].comp
             /\ cb'[c].pc = IF cb_data[c].comp # NULL THEN "complete" ELSE "signal"
    BY <1>3, <2>2 DEF Fits, BlockingFits, AsyncFits
  <2>3. CASE cb[c].pc = "signal" /\ cb'[c].pc = "send"
    BY <1>5, <2>3 DEF ReaderOK
  <2>4. CASE cb[c].pc = "complete" /\ NULL \in {cb[c].comp, cb_data[c].comp}
    BY <1>3, <1>5, <2>4 DEF ReaderOK, Fits, BlockingFits
  <2>5. CASE cb[c].pc = "send" /\ cb_data[c].process = NULL
    BY <1>3, <1>5, <2>5 DEF ReaderOK, Fits, AsyncFits
  <2> QED
    BY <2>1, <2>2, <2>3, <2>4, <2>5, ReaderStep
<1> QED
  BY <1>1, <1>4, <1>6 DEF ReaderOK

(* How a descriptor's callback comes to an end.                            *)
Ending(c, n) ==
    \/ /\ cb[c].pc = "complete"
       /\ stage'[c][n] = "woke" /\ told'[c][n] \in {cb[c].comp, cb_data[c].comp}
    \/ /\ cb[c].pc \in {"signal", "send"} /\ cb_data[c].notify_signal \notin RtSignals
       /\ stage'[c][n] = "silent"
    \/ /\ cb[c].pc = "send"
       /\ stage'[c][n] = "signalled" /\ told'[c][n] = cb_data[c].process

LEMMA FinishStep ==
  ASSUME DmaInv, [Next]_vars, NEW c \in Chans, NEW n \in Cookies,
         stage'[c][n] \in Finished
  PROVE  \/ stage'[c][n] = stage[c][n] /\ told'[c][n] = told[c][n]
         \/ cb[c].cookie = n /\ stage[c][n] # "free" /\ Ending(c, n)
<1> DEFINE Same == stage'[c][n] = stage[c][n] /\ told'[c][n] = told[c][n]
<1> DEFINE Ends == cb[c].cookie = n /\ stage[c][n] # "free" /\ Ending(c, n)
<1> USE DEF DmaInv, TypeOK, EngineTypeOK
<1>1. ASSUME UNCHANGED engineVars PROVE Same
  BY <1>1 DEF engineVars
<1>2. ASSUME NEW d \in Chans, NEW m \in Cookies, NEW t \in Threads, NEW notice \in Notices,
             EngineSubmit(d, m, t, notice)
      PROVE  Same
  BY <1>2 DEF EngineSubmit, Finished
<1>3. ASSUME NEW d \in Chans, EngineIssue(d) PROVE Same
  BY <1>3 DEF EngineIssue, Finished
<1>4. ASSUME NEW d \in Chans, EngineTerminate(d) PROVE Same
  BY <1>4 DEF EngineTerminate, Finished
<1>5. ASSUME NEW d \in Chans, HwComplete(d) \/ CallbackEnter(d) PROVE Same
  BY <1>5 DEF HwComplete, CallbackEnter, Finished
<1>6. ASSUME NEW d \in Chans, NEW how, NEW whom, cb[d].pc # "idle",
             CallbackReturn(d, how, whom)
      PROVE  \/ Same
             \/ /\ d = c /\ cb[c].cookie = n /\ stage[c][n] # "free"
                /\ stage'[c][n] = how /\ told'[c][n] = whom
  BY <1>6, CallbackHasDescriptor DEF CallbackReturn
<1>7. ASSUME NEW d \in Chans, Kernel(d)
      PROVE  Same \/ Ends
  <2>1. CASE CallbackEnter(d) \/ CallbackReadComp(d)
    BY <1>1, <1>5, <2>1 DEF CallbackReadComp
  <2>2. CASE CallbackComplete(d)
    <3>1. PICK comp \in {cb[d].comp, cb_data[d].comp} :
                CallbackReturn(d, "woke", comp) \/ Oops(d)
      BY <2>2 DEF CallbackComplete
    <3>2. CASE CallbackReturn(d, "woke", comp)
      BY <1>6, <2>2, <3>1, <3>2 DEF CallbackComplete, Ending
    <3> QED
      BY <1>1, <3>1, <3>2
  <2>3. CASE CallbackReadSignal(d)
    BY <1>1, <1>6, <2>3 DEF CallbackReadSignal, Ending
  <2>4. CASE CallbackSend(d)
    <3>1. CASE CallbackReturn(d, "signalled", cb_data[d].process)
      BY <1>6, <2>4, <3>1 DEF CallbackSend, Ending
    <3>2. CASE cb_data[d].notify_signal \notin RtSignals /\ CallbackReturn(d, "silent", NULL)
      BY <1>6, <2>4, <3>2 DEF CallbackSend, Ending
    <3> QED
      BY <1>1, <2>4, <3>1, <3>2 DEF CallbackSend
  <2> QED
    BY <1>7, <2>1, <2>2, <2>3, <2>4 DEF Kernel
<1> QED
  BY <1>1, <1>2, <1>3, <1>4, <1>5, <1>7, StepOfEngine DEF EngineStep

LEMMA NotifiedStep ==
  ASSUME DmaInv, FitsInv, ReaderInv, NotifiedAsAsked, [Next]_vars
  PROVE  NotifiedAsAsked'
<1> USE DEF DmaInv
<1>1. ASSUME NEW c \in Chans, cb'[c].pc = "oops"
      PROVE  cb'[c].cookie \in torn'[c]
  <2>1. ~ReaderOK(c, cb[c].cookie)' \/ cb'[c].cookie # cb[c].cookie
    BY <1>1 DEF ReaderOK
  <2>2. cb'[c].cookie = cb[c].cookie
    BY <1>1, ReaderStep
  <2>3. ReaderInv'
    BY ReaderInvStep
  <2> QED
    BY <1>1, <2>1, <2>2, <2>3 DEF ReaderInv, ReaderOK
<1>2. ASSUME NEW c \in Chans, NEW n \in Cookies,
             n \notin torn'[c], stage'[c][n] \in Finished
      PROVE  /\ asked'[c][n] = "wake" => stage'[c][n] = "woke"
             /\ asked'[c][n] = "signal" => stage'[c][n] = "signalled"
             /\ stage'[c][n] = "woke" => asked'[c][n] = "wake"
             /\ stage'[c][n] # "silent" => told'[c][n] = owner'[c][n]
  <2>1. stage[c][n] # "free" /\ n \notin torn[c]
    BY <1>2, FinishStep, TornStep DEF Finished
  <2>2. owner'[c][n] = owner[c][n] /\ asked'[c][n] = asked[c][n]
    BY <2>1, DescriptorKept
  <2>3. CASE stage'[c][n] = stage[c][n] /\ told'[c][n] = told[c][n]
    BY <1>2, <2>1, <2>2, <2>3 DEF NotifiedAsAsked
  <2>4. CASE cb[c].cookie = n /\ Ending(c, n)
    <3>1. cb[c].pc \notin {"idle", "enter"}
      BY <2>4 DEF Ending
    <3>2. Fits(c, n) /\ ReaderOK(c, n)
      BY <2>1, <2>4, <3>1, ReadersDescriptor DEF ReaderInv
    <3>3. CASE asked[c][n] = "wake"
      <4>1. /\ cb[c].pc = "complete" /\ cb[c].comp = owner[c][n]
            /\ cb_data[c].comp = owner[c][n]
        BY <3>2, <3>3 DEF Fits, BlockingFits, ReaderOK
      <4> QED
        BY <2>2, <2>4, <3>3, <4>1 DEF Ending
    <3>4. CASE asked[c][n] # "wake"
      <4>1. /\ cb[c].pc \in {"signal", "send"} /\ cb_data[c].process = owner[c][n]
            /\ asked[c][n] = "signal" => cb_data[c].notify_signal \in RtSignals
        BY <3>2, <3>4 DEF Fits, AsyncFits, ReaderOK
      <4> QED
        BY <2>2, <2>4, <3>4, <4>1 DEF Ending
    <3> QED
      BY <3>3, <3>4
  <2> QED
    BY <1>2, <2>3, <2>4, FinishStep
<1> QED
  BY <1>1, <1>2 DEF NotifiedAsAsked

LEMMA NotifyInit == Init => NotifyInv
<1> SUFFICES ASSUME Init PROVE NotifyInv
  OBVIOUS
<1>1. AskingInv /\ RecordInv /\ TornInv
  BY DEF Init, AskingInv, RecordInv, TornInv
<1>2. FitsInv /\ ReaderInv /\ NotifiedAsAsked
  BY DEF Init, FitsInv, ReaderInv, NotifiedAsAsked, IdleCallback, Finished, Outstanding
<1> QED
  BY <1>1, <1>2 DEF NotifyInv

LEMMA NotifyInvHolds ==
  ASSUME ExclusiveUse
  PROVE  Spec => []NotifyInv
<1>1. DmaInv /\ LastCookieInv /\ NotifyInv /\ [Next]_vars => NotifyInv'
  BY AskingInvStep, RecordInvStep, FitsInvStep, TornInvStep, ReaderInvStep, NotifiedStep
     DEF DmaInv, NotifyInv
<1> QED
  BY <1>1, NotifyInit, DmaInvHolds, LastCookieHolds, PTL DEF Spec

(* With one thread per channel, every callback that has run told the       *)
(* thread that submitted the descriptor, and in the way it asked for, and  *)
(* none used a null pointer, however the writing and the reading of        *)
(* cb_data interleave (axidma_dma.c:144-161, 244-258): unless a call of    *)
(* the other kind rewrote the record in between.                           *)
THEOREM NotificationsAreAsAsked ==
  ASSUME ExclusiveUse
  PROVE  Spec => []NotifiedAsAsked
<1>1. NotifyInv => NotifiedAsAsked
  BY DEF NotifyInv
<1> QED
  BY <1>1, NotifyInvHolds, PTL

(* On a channel used only for blocking, or only for asynchronous,          *)
(* transfers there is no such call, so there all callbacks are right.      *)
THEOREM OneKindIsAlwaysRight ==
  ASSUME ExclusiveUse
  PROVE  Spec => [](NotifiedAsAsked /\ \A c \in Chans : Pure(c) => torn[c] = {})
<1>1. NotifyInv => NotifiedAsAsked /\ \A c \in Chans : Pure(c) => torn[c] = {}
  BY DEF NotifyInv, TornInv
<1> QED
  BY <1>1, NotifyInvHolds, PTL
=============================================================================
