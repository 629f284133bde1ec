--------------------------- MODULE PpuReservation ---------------------------
(***************************************************************************)
(* The PPU half of spu_tests/atomic reservations tests: the main thread    *)
(* reserves a cache line, a callback touches the line on the same thread   *)
(* or on the helper thread, and the main thread stores conditionally.      *)
(* One step is one access to memory the two threads share; load_vol and    *)
(* store_vol fence each access, so the steps interleave in program order.  *)
(*                                                                         *)
(* Every store writes 0 to a line of zeros, so the line's value is left    *)
(* out: what the tests print depends only on who holds a reservation.      *)
(***************************************************************************)
EXTENDS Naturals, Sequences

CONSTANTS ToRepeat,   \* to_repeat: how often a test is tried (500 in the code)
          MaxLosses   \* bound: reservations lost to context switches, per test

ASSUME RepeatAssumption == ToRepeat \in Nat \ {0} /\ MaxLosses \in Nat

VARIABLES signal, cb, exit, addr,   \* thread_data_t, shared by both threads
          resv,      \* does the thread hold a reservation of rdata's line
          pc,        \* where each thread is
          ea,        \* the address a callback loaded from data.addr
          called,    \* the callback the helper loaded from data.cb
          row,       \* the test being run: 4 plain, 5 on self, 5 asynchronous
          try,       \* j, the loop counter of the test
          success,   \* the test's result so far
          printed,   \* what the finished tests printed
          losses     \* reservations lost to context switches in this test

data == <<signal, cb, exit, addr>>
test == <<row, try, success, printed>>
vars == <<data, resv, pc, ea, called, test, losses>>

Threads == {"main", "helper"}
Offsets == {0, 120}                 \* 0x78: still in the same 128 byte line
Calls == <<"change_addr", "write_val", "invalidate_cache", "atomic_op", "store_cond">>
Functions == {"change_addr", "write_val", "invalidate_cache", "atomic_op", "store_cond"}
Rows == 1..14
Plain == 1..4
OnSelf == 5..9
Async == 10..14

\* The function the test of row r runs between the load and the store.
Callback(r) == IF r \in OnSelf THEN Calls[r - 4] ELSE Calls[r - 9]

\* The results the real console printed: all tests succeed but atomic_op and
\* store_cond on self, write_val and atomic_op on the helper.
Expected == [r \in Rows |-> r \notin {8, 9, 11, 13}]

Goto(t, l) == pc' = [pc EXCEPT ![t] = l]

\* The processor's reservation of rdata's line: a store of one thread takes
\* the reservation of the other, a conditional store uses up its own.
Reserve(t) == resv' = [resv EXCEPT ![t] = TRUE]
Store(t) == resv' = [u \in Threads |-> u = t /\ resv[t]]
StoreConditional(t) ==
  resv' = IF resv[t] THEN [u \in Threads |-> FALSE] ELSE resv

\* Where a test's loop body begins: the plain tests do not set data.addr.
Body(r) == IF r \in Plain THEN "load" ELSE "set_addr"

Init == /\ signal = 0 /\ cb = "none" /\ exit = 0 /\ addr = 0
        /\ resv = [t \in Threads |-> FALSE]
        /\ pc = [t \in Threads |-> IF t = "main" THEN "create" ELSE "not_created"]
        /\ ea = [t \in Threads |-> 0]
        /\ called = "none"
        /\ row = 1 /\ try = 0 /\ success = FALSE /\ printed = <<>>
        /\ losses = 0
-----------------------------------------------------------------------------
(* The callbacks, run by either thread. *)

Function(t) == IF t = "main" THEN Callback(row) ELSE called
Return(t) == Goto(t, IF t = "main" THEN "store" ELSE "clear")

\* Every callback begins by loading data.addr.
LoadAddr(t) == /\ pc[t] = "callback"
               /\ ea' = [ea EXCEPT ![t] = addr]
               /\ Goto(t, "act")
               /\ UNCHANGED <<data, resv, called, test, losses>>

ChangeAddr(t) == /\ pc[t] = "act" /\ Function(t) = "change_addr"
                 /\ addr' = 120 - ea[t]
                 /\ Return(t)
                 /\ UNCHANGED <<signal, cb, exit, resv, ea, called, test, losses>>

WriteVal(t) == /\ pc[t] = "act" /\ Function(t) = "write_val"
               /\ Store(t)
               /\ Return(t)
               /\ UNCHANGED <<data, ea, called, test, losses>>

InvalidateCache(t) == /\ pc[t] = "act" /\ Function(t) = "invalidate_cache"
                      /\ Return(t)
                      /\ UNCHANGED <<data, resv, ea, called, test, losses>>

AtomicOpLoad(t) == /\ pc[t] = "act" /\ Function(t) = "atomic_op"
                   /\ Reserve(t)
                   /\ Goto(t, "op_store")
                   /\ UNCHANGED <<data, ea, called, test, losses>>

AtomicOpStore(t) == /\ pc[t] = "op_store"
                    /\ StoreConditional(t)
                    /\ IF resv[t] THEN Return(t) ELSE Goto(t, "act")
                    /\ UNCHANGED <<data, ea, called, test, losses>>

StoreCond(t) == /\ pc[t] = "act" /\ Function(t) = "store_cond"
                /\ StoreConditional(t)
                /\ Return(t)
                /\ UNCHANGED <<data, ea, called, test, losses>>

CallbackStep(t) == \/ LoadAddr(t) \/ ChangeAddr(t) \/ WriteVal(t)
                   \/ InvalidateCache(t) \/ AtomicOpLoad(t)
                   \/ AtomicOpStore(t) \/ StoreCond(t)
-----------------------------------------------------------------------------
(* ppu_reservation_tests, on the main thread. *)

CreateHelper == /\ pc["main"] = "create"
                /\ pc' = [pc EXCEPT !["main"] = Body(row), !["helper"] = "wait"]
                /\ UNCHANGED <<data, resv, ea, called, test, losses>>

SetAddr == /\ pc["main"] = "set_addr"
           /\ addr' = 0
           /\ Goto("main", "load")
           /\ UNCHANGED <<signal, cb, exit, resv, ea, called, test, losses>>

Load == /\ pc["main"] = "load"
        /\ Reserve("main")
        /\ Goto("main", IF row \in Plain THEN "store"
                        ELSE IF row \in OnSelf THEN "callback" ELSE "store_cb")
        /\ UNCHANGED <<data, ea, called, test, losses>>

\* wrap_callback
StoreCb == /\ pc["main"] = "store_cb"
           /\ cb' = Callback(row)
           /\ Goto("main", "store_signal")
           /\ UNCHANGED <<signal, exit, addr, resv, ea, called, test, losses>>

StoreSignal == /\ pc["main"] = "store_signal"
               /\ signal' = 1
               /\ Goto("main", "spin")
               /\ UNCHANGED <<cb, exit, addr, resv, ea, called, test, losses>>

\* Mutant: wrap_callback does not wait.
SpinOver_NoWait == /\ pc["main"] = "spin"
                   /\ Goto("main", "store")
                   /\ UNCHANGED <<data, resv, ea, called, test, losses>>

SpinOver == /\ pc["main"] = "spin"
            /\ signal = 0
            /\ Goto("main", "store")
            /\ UNCHANGED <<data, resv, ea, called, test, losses>>

\* Mutant: one try too many.
StoreAndRepeat_OneMore ==
  /\ pc["main"] = "store"
  /\ StoreConditional("main")
  /\ success' = (success \/ resv["main"])
  /\ try' = try + 1
  /\ Goto("main", IF try' <= ToRepeat /\ ~success' THEN Body(row) ELSE "print")
  /\ UNCHANGED <<data, ea, called, row, printed, losses>>

\* The conditional store that ends the loop's body, and the loop's condition.
StoreAndRepeat ==
  /\ pc["main"] = "store"
  /\ StoreConditional("main")
  /\ success' = (success \/ resv["main"])
  /\ try' = try + 1
  /\ Goto("main", IF try' < ToRepeat /\ ~success' THEN Body(row) ELSE "print")
  /\ UNCHANGED <<data, ea, called, row, printed, losses>>

\* printf, and on to the next test.
PrintResult ==
  /\ pc["main"] = "print"
  /\ printed' = Append(printed, success)
  /\ row' = row + 1
  /\ try' = 0 /\ success' = FALSE /\ losses' = 0
  /\ Goto("main", IF row = 14 THEN "store_exit" ELSE Body(row'))
  /\ UNCHANGED <<data, resv, ea, called>>

\* Mutant: the helper is woken without being told to exit.
StoreExit_Dropped == /\ pc["main"] = "store_exit"
                     /\ Goto("main", "store_stop")
                     /\ UNCHANGED <<data, resv, ea, called, test, losses>>

StoreExit == /\ pc["main"] = "store_exit"
             /\ exit' = 1
             /\ Goto("main", "store_stop")
             /\ UNCHANGED <<signal, cb, addr, resv, ea, called, test, losses>>

StoreStop == /\ pc["main"] = "store_stop"
             /\ signal' = 1
             /\ Goto("main", "join")
             /\ UNCHANGED <<cb, exit, addr, resv, ea, called, test, losses>>

\* sys_ppu_thread_join, which returns (EFAULT: there is no place for the status)
\* only when the helper is gone.
JoinHelper == /\ pc["main"] = "join"
              /\ pc["helper"] = "exited"
              /\ Goto("main", "finished")
              /\ UNCHANGED <<data, resv, ea, called, test, losses>>

Main == \/ CreateHelper \/ SetAddr \/ Load \/ StoreCb \/ StoreSignal \/ SpinOver
        \/ StoreAndRepeat \/ PrintResult \/ StoreExit \/ StoreStop \/ JoinHelper
        \/ CallbackStep("main")
-----------------------------------------------------------------------------
(* helper_thread *)

SeeSignal == /\ pc["helper"] = "wait"
             /\ signal # 0
             /\ Goto("helper", "check_exit")
             /\ UNCHANGED <<data, resv, ea, called, test, losses>>

CheckExit == /\ pc["helper"] = "check_exit"
             /\ Goto("helper", IF exit # 0 THEN "exited" ELSE "fetch")
             /\ UNCHANGED <<data, resv, ea, called, test, losses>>

\* Mutant: the signal is cleared before the callback runs.
FetchCb_ClearsFirst == /\ pc["helper"] = "fetch"
                       /\ called' = cb
                       /\ signal' = 0
                       /\ Goto("helper", "callback")
                       /\ UNCHANGED <<cb, exit, addr, resv, ea, test, losses>>

FetchCb == /\ pc["helper"] = "fetch"
           /\ called' = cb
           /\ Goto("helper", "callback")
           /\ UNCHANGED <<data, resv, ea, test, losses>>

\* Mutant: the signal is not cleared.
ClearSignal_Kept == /\ pc["helper"] = "clear"
                    /\ Goto("helper", "wait")
                    /\ UNCHANGED <<data, resv, ea, called, test, losses>>

ClearSignal == /\ pc["helper"] = "clear"
               /\ signal' = 0
               /\ Goto("helper", "wait")
               /\ UNCHANGED <<cb, exit, addr, resv, ea, called, test, losses>>

Helper == SeeSignal \/ CheckExit \/ FetchCb \/ ClearSignal \/ CallbackStep("helper")

\* "we lost reservation due to context switch": what to_repeat is there for.
ContextSwitch(t) == /\ resv[t]
                    /\ losses < MaxLosses
                    /\ losses' = losses + 1
                    /\ resv' = [resv EXCEPT ![t] = FALSE]
                    /\ UNCHANGED <<data, pc, ea, called, test>>

Next == Main \/ Helper \/ \E t \in Threads : ContextSwitch(t)

SafeSpec == Init /\ [][Next]_vars
Spec == SafeSpec /\ WF_vars(Main) /\ WF_vars(Helper)
-----------------------------------------------------------------------------
Labels == {"create", "not_created", "set_addr", "load", "store_cb", "store_signal",
           "spin", "store", "print", "store_exit", "store_stop", "join", "finished",
           "callback", "act", "op_store", "wait", "check_exit", "fetch", "clear",
           "exited"}

TypeOK == /\ signal \in 0..1 /\ exit \in 0..1 /\ addr \in Offsets
          /\ cb \in Functions \cup {"none"} /\ called \in Functions \cup {"none"}
          /\ resv \in [Threads -> BOOLEAN]
          /\ pc \in [Threads -> Labels]
          /\ ea \in [Threads -> Offsets]
          /\ row \in 1..15 /\ try \in 0..ToRepeat /\ success \in BOOLEAN
          /\ printed \in Seq(BOOLEAN) /\ Len(printed) = row - 1
          /\ losses \in 0..MaxLosses

\* A test that loses fewer reservations to context switches than it has tries
\* prints what the console printed (expected.txt).
ResultsAsExpected ==
  [][printed' # printed => printed'[row] = Expected[row] \/ losses >= ToRepeat]_vars

\* However many reservations are lost, a test whose callback takes the
\* reservation away never reports a success.
NoFalseSuccess == \A r \in DOMAIN printed : printed[r] => Expected[r]

\* The helper touches the shared data only while the main thread waits in
\* wrap_callback, and carries no reservation from one callback to the next: an
\* asynchronous store_cond must find none.
HelperQuiet ==
  /\ pc["helper"] \in {"fetch", "callback", "act", "op_store", "clear"} => pc["main"] = "spin"
  /\ pc["helper"] # "op_store" => ~resv["helper"]

\* wrap_callback and helper_thread together are a remote call.
Remote == INSTANCE RemoteCall WITH
            Jobs  <- Functions,
            NoJob <- "none",
            owner <- IF signal = 0 THEN "caller" ELSE IF exit = 0 THEN "callee" ELSE "stopped",
            job   <- IF signal = 1 /\ exit = 0 THEN cb ELSE "none",
            ran   <- pc["helper"] = "clear"
RemoteCallSpec == Remote!Spec

\* The program reaches its end: no test loops for ever, the helper is told to
\* stop and the join returns.
Termination == <>(pc["main"] = "finished")
=============================================================================
