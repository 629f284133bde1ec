----------------------- MODULE PpuReservation_proofs -----------------------
(***************************************************************************)
(* Theorems about PpuReservation for every to_repeat and every number of   *)
(* lost reservations.                                                      *)
(***************************************************************************)
EXTENDS PpuReservation, TLAPS

InCallback == {"callback", "act", "op_store"}
MainLabels == InCallback \cup
  {"create", "set_addr", "load", "store_cb", "store_signal", "spin", "store",
   "print", "store_exit", "store_stop", "join", "finished"}
HelperLabels == InCallback \cup
  {"not_created", "wait", "check_exit", "fetch", "clear", "exited"}

M == pc["main"]
H == pc["helper"]
Ending == {"store_exit", "store_stop", "join", "finished"}

\* Where the main thread can be in each group of tests.
Control ==
  /\ M \in MainLabels /\ H \in HelperLabels
  /\ row = 15 <=> M \in Ending
  /\ M \in InCallback => row \in OnSelf
  /\ M \in {"store_cb", "store_signal", "spin"} => row \in Async
  /\ M = "create" <=> H = "not_created"
  /\ M = "op_store" => row = 8
  /\ M # "print" => try < ToRepeat /\ ~success

\* signal hands the shared data to the helper and back.
Handoff ==
  /\ signal = 1 => M \in {"spin", "join", "finished"}
  /\ M = "join" => signal = 1
  /\ exit = 1 <=> M \in {"store_stop", "join", "finished"}
  /\ M \in {"store_signal", "spin"} => cb = Callback(row)
  /\ H \in InCallback \cup {"fetch", "clear"} => M = "spin" /\ signal = 1
  /\ H = "check_exit" => signal = 1
  /\ H = "exited" => M \in {"join", "finished"}
  /\ H \in InCallback \cup {"clear"} => called = Callback(row)
  /\ H = "op_store" => row = 13

\* The callback of an asynchronous test has run.
Ran == M = "store" \/ (M = "spin" /\ (signal = 0 \/ H = "clear"))

\* A callback that takes the reservation has taken it when the store comes.
Taken ==
  /\ H # "op_store" => ~resv["helper"]
  /\ row \in {8, 9} /\ M = "store" => ~resv["main"]
  /\ row \in {11, 13} /\ Ran => ~resv["main"]
  /\ success => row \in Rows /\ Expected[row]
  /\ \A r \in DOMAIN printed : printed[r] => Expected[r]

\* Where the tests hold a reservation, unless a context switch took it.
Holding == {"store_cb", "store_signal", "spin", "store", "callback", "act"}

\* Every try of a test that should succeed, except the running one, lost its
\* reservation to a context switch.
Counted ==
  row \in Rows /\ Expected[row] =>
    /\ M # "print" => try <= losses
    /\ M = "print" => success \/ losses >= ToRepeat
    /\ M \in Holding => resv["main"] \/ try < losses

IInv == TypeOK /\ Control /\ Handoff /\ Taken /\ Counted
-----------------------------------------------------------------------------
LEMMA ExpectedRows == \A r \in Rows : Expected[r] <=> r \notin {8, 9, 11, 13}
BY DEF Expected, Rows

LEMMA CallbackRows ==
  \A r \in OnSelf \cup Async :
    /\ Callback(r) \in Functions
    /\ Callback(r) = "change_addr" <=> r \in {5, 10}
    /\ Callback(r) = "write_val" <=> r \in {6, 11}
    /\ Callback(r) = "invalidate_cache" <=> r \in {7, 12}
    /\ Callback(r) = "atomic_op" <=> r \in {8, 13}
    /\ Callback(r) = "store_cond" <=> r \in {9, 14}
BY DEF Callback, Calls, Functions, OnSelf, Async

\* The test the helper is in, from the function it runs.
LEMMA HelperRow ==
  ASSUME IInv, H = "act"
  PROVE  /\ M = "spin" /\ signal = 1
         /\ called = "change_addr" => row = 10
         /\ called = "write_val" => row = 11
         /\ called = "invalidate_cache" => row = 12
         /\ called = "atomic_op" => row = 13
         /\ called = "store_cond" => row = 14
<1>1. called = Callback(row) /\ row \in Async /\ M = "spin" /\ signal = 1
  BY DEF IInv, Handoff, Control, InCallback
<1>2. QED
  BY <1>1, CallbackRows DEF Async

LEMMA InitIInv == Init => IInv
<1> SUFFICES ASSUME Init PROVE IInv
  OBVIOUS
<1>1. printed \in Seq(BOOLEAN) /\ Len(printed) = 0 /\ DOMAIN printed = {}
  BY DEF Init
<1>2. M = "create" /\ H = "not_created" /\ pc \in [Threads -> Labels]
  BY DEF Init, M, H, Threads, Labels
<1>3. TypeOK
  <2>1. resv \in [Threads -> BOOLEAN] /\ ea \in [Threads -> Offsets]
    BY DEF Init, Threads, Offsets
  <2>2. /\ signal \in 0..1 /\ exit \in 0..1 /\ addr \in Offsets
        /\ row \in 1..15 /\ try \in 0..ToRepeat /\ losses \in 0..MaxLosses
    BY RepeatAssumption DEF Init, Offsets
  <2>3. cb = "none" /\ called = "none" /\ success = FALSE /\ row = 1
    BY DEF Init
  <2>4. Len(printed) = row - 1
    BY <1>1, <2>3
  <2>5. cb \in Functions \cup {"none"} /\ called \in Functions \cup {"none"}
    BY <2>3
  <2>6. QED
    BY <1>1, <1>2, <2>1, <2>2, <2>3, <2>4, <2>5, Zenon DEF TypeOK
<1>4. QED
  BY <1>1, <1>2, <1>3, RepeatAssumption DEF Init, IInv, Control, Handoff, Taken, Counted, InCallback, MainLabels, HelperLabels,
       Ending, Ran, Holding, Threads, Rows

\* Printing a result: the sequence grows by the result of the test that ends.
LEMMA PrintIInv == IInv /\ PrintResult => IInv'
<1> SUFFICES ASSUME IInv, PrintResult PROVE IInv'
  OBVIOUS
<1>1. row \in Rows /\ printed' = Append(printed, success) /\ success \in BOOLEAN
      /\ printed \in Seq(BOOLEAN) /\ Len(printed) = row - 1
  BY DEF PrintResult, IInv, TypeOK, Control, Ending, M, Rows
<1>2. /\ printed' \in Seq(BOOLEAN) /\ Len(printed') = row
      /\ DOMAIN printed = 1..(row - 1) /\ DOMAIN printed' = 1..row
      /\ \A r \in 1..(row - 1) : printed'[r] = printed[r]
      /\ printed'[row] = success
  BY <1>1 DEF Rows
<1>3. /\ M' \in {"set_addr", "load", "store_exit"} /\ H' = H /\ resv' = resv
      /\ M' = "store_exit" <=> row' = 15
      /\ M = "print" /\ success' = FALSE /\ row' = row + 1 /\ try' = 0 /\ losses' = 0
      /\ UNCHANGED <<signal, exit, addr, cb, called, ea>>
  BY <1>1 DEF PrintResult, IInv, TypeOK, M, H, Goto, Body, Threads, data, Rows
<1>4. TypeOK'
  <2>1. row' \in 1..15 /\ Len(printed') = row' - 1
    <3>1. row' \in 1..15 /\ row = row' - 1
      BY <1>1, <1>3 DEF Rows
    <3>2. QED
      BY <1>2, <3>1
  <2>2. 0 \in 0..ToRepeat /\ 0 \in 0..MaxLosses
    BY RepeatAssumption
  <2>3. try' \in 0..ToRepeat /\ losses' \in 0..MaxLosses /\ success' \in BOOLEAN
    BY <1>3, <2>2
  <2>4. pc' \in [Threads -> Labels]
    BY DEF PrintResult, Goto, Body, IInv, TypeOK, Threads, Labels
  <2>5. /\ signal' \in 0..1 /\ exit' \in 0..1 /\ addr' \in Offsets
        /\ cb' \in Functions \cup {"none"} /\ called' \in Functions \cup {"none"}
        /\ ea' \in [Threads -> Offsets] /\ resv' \in [Threads -> BOOLEAN]
    BY <1>3 DEF IInv, TypeOK
  <2>6. QED
    BY <1>2, <2>1, <2>3, <2>4, <2>5, Zenon DEF TypeOK
<1>5. Control' /\ Handoff'
  BY <1>1, <1>3, RepeatAssumption
  DEF IInv, Control, Handoff, MainLabels, HelperLabels, InCallback, Ending, Rows
<1>6. (success => Expected[row]) /\ \A r \in DOMAIN printed : printed[r] => Expected[r]
  BY DEF IInv, Taken
<1>7. ASSUME NEW r \in DOMAIN printed', printed'[r] PROVE Expected[r]
  <2>1. r = row \/ r \in DOMAIN printed
    BY <1>1, <1>2 DEF Rows
  <2>2. CASE r = row
    BY <1>2, <1>6, <1>7, <2>2
  <2>3. CASE r \in DOMAIN printed
    BY <1>2, <1>6, <1>7, <2>3
  <2>4. QED
    BY <2>1, <2>2, <2>3
<1>8. Taken'
  BY <1>3, <1>7 DEF IInv, Taken, Ran
<1>9. Counted'
  BY <1>3 DEF Counted, Holding
<1>10. QED
  BY <1>4, <1>5, <1>8, <1>9 DEF IInv

LEMMA StepIInv == IInv /\ [Next]_vars => IInv'
<1> SUFFICES ASSUME IInv, [Next]_vars PROVE IInv'
  OBVIOUS
<1>p. PrintResult => IInv'
  BY PrintIInv
<1>h. H = "act" => /\ M = "spin" /\ signal = 1
                   /\ called = "change_addr" => row = 10
                   /\ called = "write_val" => row = 11
                   /\ called = "invalidate_cache" => row = 12
                   /\ called = "atomic_op" => row = 13
                   /\ called = "store_cond" => row = 14
  BY HelperRow
<1> USE RepeatAssumption, ExpectedRows, CallbackRows
    DEF IInv, TypeOK, Control, Handoff, Taken, Counted, M, H, InCallback,
        MainLabels, HelperLabels, Ending, Ran, Holding, Threads,
        Offsets, Labels, Goto, Body, Plain, OnSelf, Async, Rows, data, test
<1>1. CASE CreateHelper
  BY <1>1 DEF CreateHelper, Reserve, Store, StoreConditional
<1>2. CASE SetAddr
  BY <1>2 DEF SetAddr, Reserve, Store, StoreConditional
<1>3. CASE Load
  BY <1>3 DEF Load, Reserve, Store, StoreConditional
<1>4. CASE StoreCb
  BY <1>4 DEF StoreCb, Reserve, Store, StoreConditional
<1>5. CASE StoreSignal
  BY <1>5 DEF StoreSignal, Reserve, Store, StoreConditional
<1>6. CASE SpinOver
  BY <1>6 DEF SpinOver, Reserve, Store, StoreConditional
<1>7. CASE StoreAndRepeat
  BY <1>7 DEF StoreAndRepeat, Reserve, Store, StoreConditional
<1>8. CASE PrintResult
  BY <1>8, <1>p
<1>9. CASE StoreExit
  BY <1>9 DEF StoreExit, Reserve, Store, StoreConditional
<1>10. CASE StoreStop
  BY <1>10 DEF StoreStop, Reserve, Store, StoreConditional
<1>11. CASE JoinHelper
  BY <1>11 DEF JoinHelper, Reserve, Store, StoreConditional
<1>12. CASE LoadAddr("main")
  BY <1>12 DEF LoadAddr, Function, Return, Reserve, Store, StoreConditional
<1>13. CASE LoadAddr("helper")
  BY <1>13 DEF LoadAddr, Function, Return, Reserve, Store, StoreConditional
<1>14. CASE ChangeAddr("main")
  BY <1>14 DEF ChangeAddr, Function, Return, Reserve, Store, StoreConditional
<1>15. CASE ChangeAddr("helper")
  <2>1. row = 10 /\ M = "spin" /\ signal = 1
    BY <1>15, <1>h DEF ChangeAddr, Function
  <2>2. pc' = [pc EXCEPT !["helper"] = "clear"]
    BY <1>15 DEF ChangeAddr, Return
  <2>3. QED
    BY <1>15, <2>1, <2>2 DEF ChangeAddr, Reserve, Store, StoreConditional
<1>16. CASE WriteVal("main")
  BY <1>16 DEF WriteVal, Function, Return, Reserve, Store, StoreConditional
<1>17. CASE WriteVal("helper")
  <2>1. row = 11 /\ M = "spin" /\ signal = 1
    BY <1>17, <1>h DEF WriteVal, Function
  <2>2. pc' = [pc EXCEPT !["helper"] = "clear"]
    BY <1>17 DEF WriteVal, Return
  <2>3. QED
    BY <1>17, <2>1, <2>2 DEF WriteVal, Reserve, Store, StoreConditional
<1>18. CASE InvalidateCache("main")
  BY <1>18 DEF InvalidateCache, Function, Return, Reserve, Store, StoreConditional
<1>19. CASE InvalidateCache("helper")
  <2>1. row = 12 /\ M = "spin" /\ signal = 1
    BY <1>19, <1>h DEF InvalidateCache, Function
  <2>2. pc' = [pc EXCEPT !["helper"] = "clear"]
    BY <1>19 DEF InvalidateCache, Return
  <2>3. QED
    BY <1>19, <2>1, <2>2 DEF InvalidateCache, Reserve, Store, StoreConditional
<1>20. CASE AtomicOpLoad("main")
  BY <1>20 DEF AtomicOpLoad, Function, Return, Reserve, Store, StoreConditional
<1>21. CASE AtomicOpLoad("helper")
  <2>1. row = 13 /\ M = "spin" /\ signal = 1
    BY <1>21, <1>h DEF AtomicOpLoad, Function
  <2>2. pc' = [pc EXCEPT !["helper"] = "op_store"]
    BY <1>21 DEF AtomicOpLoad, Return
  <2>3. QED
    BY <1>21, <2>1, <2>2 DEF AtomicOpLoad, Reserve, Store, StoreConditional
<1>22. CASE AtomicOpStore("main")
  BY <1>22 DEF AtomicOpStore, Function, Return, Reserve, Store, StoreConditional
<1>23. CASE AtomicOpStore("helper")
  BY <1>23 DEF AtomicOpStore, Function, Return, Reserve, Store, StoreConditional
<1>24. CASE StoreCond("main")
  BY <1>24 DEF StoreCond, Function, Return, Reserve, Store, StoreConditional
<1>25. CASE StoreCond("helper")
  <2>1. row = 14 /\ M = "spin" /\ signal = 1
    BY <1>25, <1>h DEF StoreCond, Function
  <2>2. pc' = [pc EXCEPT !["helper"] = "clear"]
    BY <1>25 DEF StoreCond, Return
  <2>3. QED
    BY <1>25, <2>1, <2>2 DEF StoreCond, Reserve, Store, StoreConditional
<1>26. CASE SeeSignal
  BY <1>26 DEF SeeSignal
<1>27. CASE CheckExit
  BY <1>27 DEF CheckExit
<1>28. CASE FetchCb
  BY <1>28 DEF FetchCb
<1>29. CASE ClearSignal
  BY <1>29 DEF ClearSignal
<1>30. ASSUME NEW t \in Threads, ContextSwitch(t) PROVE IInv'
  BY <1>30 DEF ContextSwitch
<1>31. CASE UNCHANGED vars
  BY <1>31 DEF vars
<1> HIDE DEF IInv, TypeOK, Control, Handoff, Taken, Counted, M, H, Threads, vars, data, test
<1>32. QED
  BY <1>1, <1>2, <1>3, <1>4, <1>5, <1>6, <1>7, <1>8, <1>9,
     <1>10, <1>11, <1>12, <1>13, <1>14, <1>15, <1>16, <1>17, <1>18,
     <1>19, <1>20, <1>21, <1>22, <1>23, <1>24, <1>25, <1>26, <1>27,
     <1>28, <1>29, <1>30, <1>31
  DEF Next, Main, Helper, CallbackStep

-----------------------------------------------------------------------------
\* The inductive invariant holds throughout.
THEOREM Invariance == Spec => []IInv
<1>1. Init => IInv
  BY InitIInv
<1>2. IInv /\ [Next]_vars => IInv'
  BY StepIInv
<1>3. QED
  BY <1>1, <1>2, PTL DEF Spec, SafeSpec

\* Every variable keeps its type.
THEOREM TypeCorrect == Spec => []TypeOK
<1>1. IInv => TypeOK
  BY DEF IInv
<1>2. QED
  BY <1>1, Invariance, PTL

\* For any to_repeat and any number of losses: a test that lost fewer
\* reservations than it has tries prints what the console printed.
THEOREM ResultsAgree == Spec => ResultsAsExpected
<1>1. ASSUME IInv, Next, printed' # printed
      PROVE  printed'[row] = Expected[row] \/ losses >= ToRepeat
  <2>1. PrintResult
    BY <1>1, Zenon
    DEF Next, Main, Helper, ContextSwitch, CreateHelper, SetAddr, Load, StoreCb, StoreSignal,
        SpinOver, StoreAndRepeat, StoreExit, StoreStop, JoinHelper, CallbackStep, LoadAddr,
        ChangeAddr, WriteVal, InvalidateCache, AtomicOpLoad, AtomicOpStore, StoreCond,
        SeeSignal, CheckExit, FetchCb, ClearSignal, test
  <2>2. row \in Rows /\ M = "print" /\ success \in BOOLEAN
    BY <1>1, <2>1 DEF PrintResult, IInv, TypeOK, Control, Ending, M, Rows
  <2>3. printed \in Seq(BOOLEAN) /\ Len(printed) = row - 1 /\ printed' = Append(printed, success)
    BY <1>1, <2>1 DEF PrintResult, IInv, TypeOK
  <2>4. printed'[row] = success
    BY <2>2, <2>3 DEF Rows
  <2>5. (success => Expected[row]) /\ (Expected[row] => success \/ losses >= ToRepeat)
    BY <1>1, <2>2 DEF IInv, Taken, Counted
  <2>6. Expected[row] \in BOOLEAN
    BY <2>2 DEF Expected
  <2>7. QED
    BY <2>2, <2>4, <2>5, <2>6
<1>2. IInv /\ [Next]_vars => [printed' # printed =>
                              printed'[row] = Expected[row] \/ losses >= ToRepeat]_vars
  BY <1>1
<1>3. QED
  BY <1>2, Invariance, PTL DEF Spec, SafeSpec, ResultsAsExpected

\* However many reservations are lost, no test succeeds that should not.
THEOREM SuccessIsTrue == Spec => []NoFalseSuccess
<1>1. IInv => NoFalseSuccess
  BY DEF IInv, Taken, NoFalseSuccess
<1>2. QED
  BY <1>1, Invariance, PTL

\* The helper is active only inside wrap_callback and keeps no reservation.
THEOREM HelperStaysQuiet == Spec => []HelperQuiet
<1>1. IInv => HelperQuiet
  BY DEF IInv, Taken, Handoff, HelperQuiet, H, M, InCallback
<1>2. QED
  BY <1>1, Invariance, PTL
-----------------------------------------------------------------------------
(* wrap_callback and helper_thread implement RemoteCall. *)

\* A callback the helper runs ends with a step to "clear", and only that is
\* seen from outside.
LEMMA RemoteCallback ==
  ASSUME IInv, CallbackStep("helper")
  PROVE  Remote!Run \/ UNCHANGED Remote!vars
<1>1. signal = 1 /\ exit = 0 /\ H # "clear" /\ UNCHANGED <<signal, exit, cb>>
  <2>1. H \in InCallback /\ UNCHANGED <<signal, exit, cb>>
    BY DEF CallbackStep, LoadAddr, ChangeAddr, WriteVal, InvalidateCache,
           AtomicOpLoad, AtomicOpStore, StoreCond, H, InCallback, data
  <2>2. QED
    BY <2>1 DEF IInv, TypeOK, Handoff, InCallback
<1>2. CASE H' = "clear"
  BY <1>1, <1>2 DEF H, Remote!Run
<1>3. CASE H' # "clear"
  BY <1>1, <1>3 DEF H, Remote!vars
<1>4. QED
  BY <1>2, <1>3

LEMMA RemoteStep == IInv /\ [Next]_vars => [Remote!Next]_(Remote!vars)
<1> SUFFICES ASSUME IInv, [Next]_vars PROVE [Remote!Next]_(Remote!vars)
  OBVIOUS
<1>1. /\ signal \in 0..1 /\ exit \in 0..1 /\ pc \in [Threads -> Labels]
      /\ Control /\ Handoff
  BY DEF IInv, TypeOK
<1>2. CASE StoreSignal
  <2>1. /\ signal = 0 /\ exit = 0 /\ signal' = 1 /\ exit' = 0 /\ cb' = cb
        /\ H # "clear" /\ H' = H
    BY <1>1, <1>2 DEF StoreSignal, Control, Handoff, M, H, Goto, Threads
  <2>2. cb \in Functions
    BY <1>1, <1>2, CallbackRows DEF StoreSignal, Control, Handoff, M
  <2>3. Remote!Call(cb)
    BY <2>1 DEF Remote!Call, H
  <2>4. QED
    BY <2>2, <2>3 DEF Remote!Next
<1>3. CASE ClearSignal
  <2>1. /\ signal = 1 /\ exit = 0 /\ signal' = 0 /\ H = "clear" /\ H' = "wait"
    BY <1>1, <1>3 DEF ClearSignal, Handoff, M, H, Goto, Threads
  <2>2. Remote!Return
    BY <2>1 DEF Remote!Return, H
  <2>3. QED
    BY <2>2 DEF Remote!Next
<1>4. CASE StoreStop
  <2>1. signal = 0 /\ exit = 1 /\ signal' = 1 /\ exit' = 1 /\ H' = H
    BY <1>1, <1>4 DEF StoreStop, Handoff, M, H, Goto, Threads
  <2>2. Remote!Stop
    BY <2>1 DEF Remote!Stop, H
  <2>3. QED
    BY <2>2 DEF Remote!Next
<1>5. CASE CallbackStep("helper")
  BY <1>5, RemoteCallback DEF Remote!Next
<1>6. CASE StoreCb \/ StoreExit
  <2>1. signal = 0 /\ signal' = 0 /\ H' = H
    BY <1>1, <1>6 DEF StoreCb, StoreExit, Handoff, M, H, Goto, Threads
  <2>2. QED
    BY <2>1 DEF Remote!vars, H
<1>7. CASE SeeSignal \/ CheckExit \/ FetchCb
  <2>1. UNCHANGED <<signal, exit, cb>> /\ H # "clear" /\ H' # "clear"
    BY <1>1, <1>7 DEF SeeSignal, CheckExit, FetchCb, H, Goto, Threads, data
  <2>2. QED
    BY <2>1 DEF Remote!vars, H
<1>8. CASE CreateHelper
  <2>1. UNCHANGED <<signal, exit, cb>> /\ H # "clear" /\ H' # "clear"
    BY <1>1, <1>8 DEF CreateHelper, Control, M, H, Threads, data
  <2>2. QED
    BY <2>1 DEF Remote!vars, H
<1>9. CASE SetAddr \/ Load \/ SpinOver \/ StoreAndRepeat \/ PrintResult
           \/ JoinHelper \/ CallbackStep("main")
  <2>1. UNCHANGED <<signal, exit, cb>> /\ H' = H
    BY <1>1, <1>9
    DEF SetAddr, Load, SpinOver, StoreAndRepeat, PrintResult, JoinHelper, CallbackStep,
        LoadAddr, ChangeAddr, WriteVal, InvalidateCache, AtomicOpLoad, AtomicOpStore,
        StoreCond, Return, H, Goto, Threads, data
  <2>2. QED
    BY <2>1 DEF Remote!vars, H
<1>10. CASE (\E t \in Threads : ContextSwitch(t)) \/ UNCHANGED vars
  <2>1. UNCHANGED <<signal, exit, cb>> /\ H' = H
    BY <1>10 DEF ContextSwitch, vars, H, data
  <2>2. QED
    BY <2>1 DEF Remote!vars, H
<1>11. QED
  BY <1>2, <1>3, <1>4, <1>5, <1>6, <1>7, <1>8, <1>9, <1>10 DEF Next, Main, Helper

\* A callback handed over runs exactly once before wrap_callback returns, and
\* none runs after the helper is told to stop.
THEOREM ImplementsRemoteCall == Spec => Remote!SafeSpec
<1>1. Init => Remote!Init
  BY DEF Init, Remote!Init, Threads
<1>2. IInv /\ [Next]_vars => [Remote!Next]_(Remote!vars)
  BY RemoteStep
<1>3. QED
  BY <1>1, <1>2, Invariance, PTL DEF Spec, SafeSpec, Remote!SafeSpec

=============================================================================
