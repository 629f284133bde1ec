----------------------------- MODULE SpuChannels -----------------------------
(***************************************************************************)
(* The channels by which an SPU gets its events, as the tests use them and *)
(* as their results describe them: the decrementer raises Tm whenever it   *)
(* becomes negative, an update of the tag status raises Tg, and an event   *)
(* that is not masked sets the count of the event status to 1.             *)
(***************************************************************************)
EXTENDS FiniteSets, Naturals

VARIABLES dec,      \* the decrementer: "off", "positive" or "negative"
          pending,  \* SPU_RdEventStat: the events not acknowledged
          mask,     \* SPU_WrEventMask
          count,    \* the count of SPU_RdEventStat
          ie,       \* whether interrupts are enabled
          srr0,     \* where the last interrupt returns to
          tagmask,  \* MFC_WrTagMask
          update,   \* the request of MFC_WrTagUpdate that is not served yet
          outmbox   \* how many values are in SPU_WrOutMbox

Tm == "Tm"   \* 0x20
Tg == "Tg"   \* 0x1
Events == {Tm, Tg}
NoUpdate == "none"

Reset == /\ dec = "off" /\ pending = {} /\ mask = {} /\ count = 0
         /\ ie = FALSE /\ srr0 = 0 /\ tagmask = 0 /\ update = NoUpdate /\ outmbox = 0

\* "checks are made regardless of a change of event stat count"
Interrupted == ie /\ count = 1

Raise(event) == /\ pending' = pending \cup {event}
                /\ count' = IF event \in mask THEN 1 ELSE count

\* The decrementer goes round.
Expire == /\ dec = "positive" /\ dec' = "negative"
          /\ Raise(Tm)
          /\ UNCHANGED <<mask, ie, srr0, tagmask, update, outmbox>>

Wrap == /\ dec = "negative" /\ dec' = "positive"
        /\ UNCHANGED <<pending, mask, count, ie, srr0, tagmask, update, outmbox>>

\* No transfer is on its way: "type 0 didnt stall", type 1 stalls for a mask
\* of no tags, and type 2 does not.
UpdateTag == /\ update # NoUpdate
             /\ update = "any" => tagmask # 0
             /\ update' = NoUpdate
             /\ Raise(Tg)
             /\ UNCHANGED <<dec, mask, ie, srr0, tagmask, outmbox>>

\* Whether a negative value raises Tm is what a test asks.
WrDec(value) == /\ dec' = value
                /\ IF value = "positive"
                     THEN UNCHANGED <<pending, count>>
                     ELSE Raise(Tm) \/ UNCHANGED <<pending, count>>
                /\ UNCHANGED <<mask, ie, srr0, tagmask, update, outmbox>>

\* "didnt stall": an event that is pending counts again when it is unmasked.
\* Whether masking it takes its count back no result says.
WrEventMask(new) == /\ mask' = new
                    /\ count' \in IF pending \cap new # {} THEN {1} ELSE {count, 0}
                    /\ UNCHANGED <<dec, pending, ie, srr0, tagmask, update, outmbox>>

\* "an event ack doesnt decrement event stat count no matter what"; whether it
\* counts what it leaves pending is what a test asks.  With Tm masked it stops
\* the decrementer.
WrEventAck(acked) == /\ pending' = pending \ acked
                     /\ count' \in IF (pending \ acked) \cap mask = {} THEN {count} ELSE {count, 1}
                     /\ dec' = IF Tm \in acked \ mask THEN "off" ELSE dec
                     /\ UNCHANGED <<mask, ie, srr0, tagmask, update, outmbox>>

\* It stalls while the count is 0.
RdEventStat == /\ count = 1
               /\ count' = 0
               /\ UNCHANGED <<dec, pending, mask, ie, srr0, tagmask, update, outmbox>>

SetInterrupts(enable) == /\ ie' = enable
                         /\ UNCHANGED <<dec, pending, mask, count, srr0, tagmask, update, outmbox>>

\* The interrupt is disabled for its handler, and keeps the count.
Interrupt(return) == /\ Interrupted
                     /\ ie' = FALSE
                     /\ srr0' = return
                     /\ UNCHANGED <<dec, pending, mask, count, tagmask, update, outmbox>>

WrTagMask(new) == /\ tagmask' = new
                  /\ UNCHANGED <<dec, pending, mask, count, ie, srr0, update, outmbox>>

WrTagUpdate(type) == /\ update' = type
                     /\ UNCHANGED <<dec, pending, mask, count, ie, srr0, tagmask, outmbox>>

\* The mailbox holds one value, and the write of another stalls.
WrOutMbox == /\ outmbox = 0
             /\ outmbox' = 1
             /\ UNCHANGED <<dec, pending, mask, count, ie, srr0, tagmask, update>>
=============================================================================
