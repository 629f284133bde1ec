--------------------------- MODULE MfcTests_proofs ---------------------------
(***************************************************************************)
(* What of MfcTests holds for every set of its tests, every depth of the   *)
(* queue and every number of looks: its types, that an acknowledgement     *)
(* comes when every list has stalled, and that nothing gets past a barrier *)
(* behind a list that has not been acknowledged.                           *)
(***************************************************************************)
EXTENDS MfcTests, SequenceTheorems, TLAPS

(* The threads, each instruction with where it is. *)

\* A number up to 23 is one of these.
LEMMA UpTo23 ==
  ASSUME NEW i \in 1..23
  PROVE  i \in {1, 2, 3, 4, 5, 6, 7, 8, 9, 10, 11, 12, 13, 14, 15, 16, 17, 18, 19, 20, 21, 22, 23}
OBVIOUS

\* The fields of an instruction.
LEMMA Fields ==
  /\ \A c : Await(c).op = "await" /\ Await(c).condition = c
  /\ \A c : Cmd(c).op = "issue" /\ Cmd(c).command = c
  /\ \A c, v : Write(c, v).op = c /\ Write(c, v).value = v
  /\ \A v : Ack(v).op = "WrListStallAck" /\ Ack(v).value = v
  /\ \A c : Line(c).op = "print" /\ Line(c).text = c
  /\ \A c : Poll(c).op = "poll" /\ Poll(c).count = c
  /\ \A op : I(op).op = op
  /\ ReadStall.op = "RdListStallStat" /\ ReadSnr.op = "RdSigNotify1" /\ Exit.op = "exit"
BY DEF Await, Cmd, Write, Ack, Line, Poll, I, ReadStall, ReadSnr, Exit

\* What MFC_WrTagUpdate does at each instruction, and with which value.
LEMMA MFC_WrTagUpdateIs ==
  ASSUME NEW P, P = Threads["MFC_WrTagUpdate"], NEW k \in DOMAIN P
  PROVE  /\ DOMAIN P = 1..23
         /\ P[k].op = "await" => k \in {1, 4, 11, 20}
         /\ P[k].op = "WrTagMask" => k \in {2, 7, 16}
         /\ P[k].op = "WrTagUpdate" => k \in {3, 8, 17}
         /\ P[k].op = "issue" => k \in {5, 14}
         /\ P[k].op = "RdListStallStat" => k \in {6, 15}
         /\ P[k].op = "poll" => k \in {9, 18}
         /\ P[k].op = "WrListStallAck" => k \in {10, 19}
         /\ P[k].op = "RdTagStat" => k \in {12, 21}
         /\ P[k].op = "print_result" => k \in {13, 22}
         /\ P[k].op = "exit" <=> k = 23
         /\ P[k].op \notin {"RdSigNotify1", "print"}
         /\ k \in {1, 11, 20} => P[k].condition = "empty"
         /\ k = 4 => P[k].condition = "status"
         /\ k \in {2, 7, 16} => P[k].value = Tags
         /\ k \in {3, 8, 17} => P[k].value = UpdateAll
         /\ k \in {5, 14} => P[k].command = StallingList(0)
         /\ k \in {10, 19} => P[k].value = 0
         /\ k = 9 => P[k].count = "status"
         /\ k = 18 => P[k].count = "update"
<1> DEFINE e == Await("empty")
           m == Write("WrTagMask", Tags)
           u == Write("WrTagUpdate", UpdateAll)
           s == Await("status")
           c == Cmd(StallingList(0))
           r == ReadStall
           p == Poll("status")
           q == Poll("update")
           a == Ack(0)
           t == I("RdTagStat")
           o == I("print_result")
           x == Exit
<1>1. P = <<e>> \o <<m, u>> \o <<s>> \o (<<c, r>> \o <<m, u>> \o <<p, a, e, t, o>>)
          \o (<<c, r>> \o <<m, u>> \o <<q, a, e, t, o>>) \o <<x>>
  BY DEF Threads, MFC_WrTagUpdate, UpdateOf
<1>2. /\ e.op = "await" /\ s.op = "await" /\ m.op = "WrTagMask" /\ u.op = "WrTagUpdate" /\ c.op = "issue"
      /\ r.op = "RdListStallStat" /\ p.op = "poll" /\ q.op = "poll" /\ a.op = "WrListStallAck"
      /\ t.op = "RdTagStat" /\ o.op = "print_result" /\ x.op = "exit"
  BY DEF Await, Write, Cmd, ReadStall, Poll, Ack, I, Exit
<1>3. /\ e.condition = "empty" /\ s.condition = "status" /\ m.value = Tags /\ u.value = UpdateAll
      /\ a.value = 0 /\ c.command = StallingList(0)
      /\ p.count = "status" /\ q.count = "update"
  <2>1. e.condition = "empty" /\ s.condition = "status"
    BY Fields
  <2>2. m.value = Tags /\ u.value = UpdateAll
    BY DEF Write
  <2>3. a.value = 0
    BY Fields
  <2>4. c.command = StallingList(0)
    BY DEF Cmd
  <2>5. p.count = "status" /\ q.count = "update"
    BY Fields
  <2> QED
    BY <2>1, <2>2, <2>3, <2>4, <2>5
<1> HIDE DEF e, m, u, s, c, r, p, q, a, t, o, x
<1>4. /\ DOMAIN P = 1..23
      /\ P[1] = e /\ P[2] = m /\ P[3] = u /\ P[4] = s /\ P[5] = c /\ P[6] = r /\ P[7] = m /\ P[8] = u
      /\ P[9] = p /\ P[10] = a /\ P[11] = e /\ P[12] = t /\ P[13] = o
      /\ P[14] = c /\ P[15] = r /\ P[16] = m /\ P[17] = u
      /\ P[18] = q /\ P[19] = a /\ P[20] = e /\ P[21] = t /\ P[22] = o /\ P[23] = x
  BY <1>1
<1>5. /\ P[1].op = "await" /\ P[2].op = "WrTagMask" /\ P[3].op = "WrTagUpdate" /\ P[4].op = "await"
      /\ P[5].op = "issue" /\ P[6].op = "RdListStallStat" /\ P[7].op = "WrTagMask" /\ P[8].op = "WrTagUpdate"
      /\ P[9].op = "poll" /\ P[10].op = "WrListStallAck" /\ P[11].op = "await" /\ P[12].op = "RdTagStat"
      /\ P[13].op = "print_result" /\ P[14].op = "issue" /\ P[15].op = "RdListStallStat"
      /\ P[16].op = "WrTagMask" /\ P[17].op = "WrTagUpdate" /\ P[18].op = "poll" /\ P[19].op = "WrListStallAck"
      /\ P[20].op = "await" /\ P[21].op = "RdTagStat" /\ P[22].op = "print_result" /\ P[23].op = "exit"
  BY <1>4, <1>2
<1>6. DOMAIN P = 1..23
  BY <1>4
<1>7. k \in {1, 2, 3, 4, 5, 6, 7, 8, 9, 10, 11, 12, 13, 14, 15, 16, 17, 18, 19, 20, 21, 22, 23}
  BY <1>4, UpTo23
<1>8. /\ P[k].op = "await" => k \in {1, 4, 11, 20}
      /\ P[k].op = "WrTagMask" => k \in {2, 7, 16}
      /\ P[k].op = "WrTagUpdate" => k \in {3, 8, 17}
      /\ P[k].op = "issue" => k \in {5, 14}
      /\ P[k].op = "RdListStallStat" => k \in {6, 15}
      /\ P[k].op = "poll" => k \in {9, 18}
      /\ P[k].op = "WrListStallAck" => k \in {10, 19}
      /\ P[k].op = "RdTagStat" => k \in {12, 21}
      /\ P[k].op = "print_result" => k \in {13, 22}
      /\ P[k].op = "exit" <=> k = 23
      /\ P[k].op \notin {"RdSigNotify1", "print"}
  BY <1>5, <1>7
<1>9. /\ k \in {1, 11, 20} => P[k].condition = "empty"
      /\ k = 4 => P[k].condition = "status"
      /\ k \in {2, 7, 16} => P[k].value = Tags
      /\ k \in {3, 8, 17} => P[k].value = UpdateAll
      /\ k \in {5, 14} => P[k].command = StallingList(0)
      /\ k \in {10, 19} => P[k].value = 0
      /\ k = 9 => P[k].count = "status"
      /\ k = 18 => P[k].count = "update"
  <2>1. /\ k \in {1, 11, 20} => P[k] = e
        /\ k = 4 => P[k] = s
        /\ k \in {2, 7, 16} => P[k] = m
        /\ k \in {3, 8, 17} => P[k] = u
        /\ k \in {5, 14} => P[k] = c
        /\ k \in {10, 19} => P[k] = a
        /\ k = 9 => P[k] = p
        /\ k = 18 => P[k] = q
    BY <1>4
  <2> QED
    BY <2>1, <1>3
<1> QED
  BY <1>6, <1>8, <1>9

\* What lists_execution_order_after_stall does at each instruction.
LEMMA Lists_executionIs ==
  ASSUME NEW P, P = Threads["Lists_execution"], NEW k \in DOMAIN P
  PROVE  /\ DOMAIN P = 1..10
         /\ P[k].op = "await" => k \in {1, 7, 9}
         /\ P[k].op = "issue" => k \in {2, 4}
         /\ P[k].op = "RdListStallStat" => k \in {3, 5}
         /\ P[k].op = "WrListStallAck" => k = 6
         /\ P[k].op = "print" => k = 8
         /\ P[k].op = "exit" <=> k = 10
         /\ P[k].op \notin {"WrTagMask", "WrTagUpdate", "RdTagStat", "RdSigNotify1", "poll", "print_result"}
         /\ k \in {1, 7, 9} => P[k].condition = "empty"
         /\ k \in {2, 4} => P[k].command = StallingList(0)
         /\ k = 6 => P[k].value = 0
<1> DEFINE e == Await("empty")
           c == Cmd(StallingList(0))
           a == Ack(0)
           l == Line("sample finished")
<1>1. P = <<e, c, ReadStall, c, ReadStall, a, e, l, e, Exit>>
  BY DEF Threads, Lists_execution
<1>2. /\ e.op = "await" /\ e.condition = "empty"
      /\ c.op = "issue" /\ c.command = StallingList(0)
      /\ ReadStall.op = "RdListStallStat" /\ Exit.op = "exit"
      /\ a.op = "WrListStallAck" /\ a.value = 0
      /\ l.op = "print"
  BY DEF Await, Cmd, ReadStall, I, Exit, Ack, Write, Line
<1> HIDE DEF e, c, a, l
<1> QED
  BY <1>1, <1>2

\* What barrier_commands does at each instruction; what it prints before it waits.
LEMMA barrier_commandsIs ==
  ASSUME NEW P, P = Threads["barrier_commands"], NEW k \in DOMAIN P
  PROVE  /\ DOMAIN P = 1..8
         /\ P[k].op = "RdSigNotify1" => k = 1
         /\ P[k].op = "issue" => k \in {2, 4}
         /\ P[k].op = "RdListStallStat" => k = 3
         /\ P[k].op = "print" => k \in {5, 7}
         /\ P[k].op = "await" => k = 6
         /\ P[k].op = "exit" <=> k = 8
         /\ P[k].op \notin {"WrTagMask", "WrTagUpdate", "WrListStallAck", "RdTagStat", "poll", "print_result"}
         /\ k = 2 => P[k].command = StallingList(0)
         /\ k = 4 => P[k].command = Barrier(0)
         /\ k = 6 => P[k].condition = "one_complete"
         /\ k = 5 => <<P[k].text>> = Remain["barrier_commands"]
<1> DEFINE e == Await("one_complete")
           c == Cmd(StallingList(0))
           b == Cmd(Barrier(0))
           l == Line("Waiting for the command to complete")
           m == Line("Finished, didnt stall")
<1>1. P = <<ReadSnr, c, ReadStall, b, l, e, m, Exit>>
  BY DEF Threads, barrier_commands
<1>2. /\ e.op = "await" /\ e.condition = "one_complete"
      /\ c.op = "issue" /\ c.command = StallingList(0)
      /\ b.op = "issue" /\ b.command = Barrier(0)
      /\ ReadStall.op = "RdListStallStat" /\ ReadSnr.op = "RdSigNotify1" /\ Exit.op = "exit"
  BY DEF Await, Cmd, ReadStall, ReadSnr, I, Exit
<1>3. l.op = "print" /\ m.op = "print"
  BY Fields, Zenon
<1>4. <<l.text>> = Remain["barrier_commands"]
  <2>1. ASSUME NEW x, NEW y, NEW z
        PROVE  [barrier_commands |-> x, eieio_command |-> y, sync_command |-> z]["barrier_commands"] = x
    OBVIOUS
  <2>2. l.text = "Waiting for the command to complete"
    BY Fields, Zenon
  <2> QED
    BY <2>1, <2>2, Zenon DEF Remain
<1> HIDE DEF e, c, b, l, m
<1> QED
  BY <1>1, <1>2, <1>3, <1>4

\* Both of its transfers stall.
StallingTwice == List(31, <<TRUE, TRUE>>)

\* What eieio_command and sync_command do at each instruction: the same.
LEMMA FullBarrierIs ==
  ASSUME NEW t \in {"eieio_command", "sync_command"}, NEW P, P = Threads[t], NEW k \in DOMAIN P
  PROVE  /\ DOMAIN P = 1..17
         /\ P[k].op = "await" => k \in {1, 6, 8, 11}
         /\ P[k].op = "RdSigNotify1" => k = 2
         /\ P[k].op = "print" => k \in {3, 5, 7, 9, 12, 16}
         /\ P[k].op = "issue" => k \in {4, 10}
         /\ P[k].op = "WrTagMask" => k = 13
         /\ P[k].op = "WrTagUpdate" => k = 14
         /\ P[k].op = "RdTagStat" => k = 15
         /\ P[k].op = "exit" <=> k = 17
         /\ P[k].op \notin {"RdListStallStat", "WrListStallAck", "poll", "print_result"}
         /\ k = 4 => P[k].command = StallingTwice
         /\ k = 8 => P[k].condition = "stalled"
         /\ k = 10 => P[k].command = Sync(1)
         /\ k = 13 => P[k].value = {1}
         /\ k = 14 => P[k].value = UpdateAll
         /\ k \in {3, 5, 7, 9, 12} => P[k].text = "ok"
<1> DEFINE e == Await("address")
           f == Await("one_queued")
           g == Await("stalled")
           h == Await("two_queued")
           c == Cmd(StallingTwice)
           s == Cmd(Sync(1))
           m == Write("WrTagMask", {1})
           u == Write("WrTagUpdate", UpdateAll)
           r == I("RdTagStat")
           l == Line("ok")
           n == Line("the tag status is")
<1>1. P = <<e, ReadSnr, l, c, l, f, l, g, l, s, h, l>> \o <<m, u>> \o <<r, n, Exit>>
  <2>1. Threads[t] = FullBarrier
    BY DEF Threads, eieio_command, sync_command
  <2> QED
    BY <2>1 DEF FullBarrier, UpdateOf, StallingTwice
<1>2. /\ e.op = "await" /\ f.op = "await" /\ g.op = "await" /\ h.op = "await" /\ c.op = "issue" /\ s.op = "issue"
      /\ m.op = "WrTagMask" /\ u.op = "WrTagUpdate" /\ r.op = "RdTagStat" /\ l.op = "print"
      /\ ReadSnr.op = "RdSigNotify1" /\ Exit.op = "exit"
  BY DEF Await, Cmd, Write, I, Line, ReadSnr, Exit
<1>3. /\ g.condition = "stalled" /\ c.command = StallingTwice /\ s.command = Sync(1)
      /\ m.value = {1} /\ u.value = UpdateAll /\ l.text = "ok"
  BY DEF Await, Cmd, Write, Line
<1>4. n.op = "print"
  BY Fields, Zenon
<1> HIDE DEF e, f, g, h, c, s, m, u, r, l, n
<1>5. /\ DOMAIN P = 1..17
      /\ P[1] = e /\ P[2] = ReadSnr /\ P[3] = l /\ P[4] = c /\ P[5] = l /\ P[6] = f /\ P[7] = l /\ P[8] = g /\ P[9] = l
      /\ P[10] = s /\ P[11] = h /\ P[12] = l /\ P[13] = m /\ P[14] = u /\ P[15] = r /\ P[16] = n /\ P[17] = Exit
  BY <1>1
<1> QED
  BY <1>2, <1>3, <1>4, <1>5

\* What list_transfer_size does at each instruction.
LEMMA list_transfer_sizeIs ==
  ASSUME NEW P, P = Threads["list_transfer_size"], NEW k \in DOMAIN P
  PROVE  /\ DOMAIN P = 1..6
         /\ P[k].op = "RdSigNotify1" => k = 1
         /\ P[k].op = "issue" => k = 2
         /\ P[k].op = "WrTagMask" => k = 3
         /\ P[k].op = "WrTagUpdate" => k = 4
         /\ P[k].op = "print" => k = 5
         /\ P[k].op = "exit" <=> k = 6
         /\ P[k].op \notin {"RdListStallStat", "WrListStallAck", "await", "poll", "RdTagStat", "print_result"}
         /\ k = 2 => P[k].command = Transfer(0)
         /\ k = 3 => P[k].value = {0}
         /\ k = 4 => P[k].value = UpdateAll
<1> DEFINE c == Cmd(Transfer(0))
           m == Write("WrTagMask", {0})
           u == Write("WrTagUpdate", UpdateAll)
           l == Line("the mfc didnt stall!")
<1>1. P = <<ReadSnr, c>> \o <<m, u>> \o <<l, Exit>>
  BY DEF Threads, list_transfer_size, UpdateOf
<1>2. /\ c.op = "issue" /\ m.op = "WrTagMask" /\ u.op = "WrTagUpdate" /\ ReadSnr.op = "RdSigNotify1" /\ Exit.op = "exit"
      /\ c.command = Transfer(0) /\ m.value = {0} /\ u.value = UpdateAll
  BY DEF Cmd, Write, I, ReadSnr, Exit
<1>3. l.op = "print"
  BY Fields, Zenon
<1> HIDE DEF c, m, u, l
<1> QED
  BY <1>1, <1>2, <1>3

\* The commands that the threads issue.
LEMMA CommandsIssued ==
  /\ StallingList(0) \in Commands /\ Barrier(0) \in Commands /\ Transfer(0) \in Commands
  /\ StallingTwice \in Commands /\ Sync(1) \in Commands
<1>1. ASSUME NEW tag \in Tags, NEW left \in {<<FALSE>>, <<TRUE>>, <<TRUE, FALSE>>, <<TRUE, TRUE>>}
      PROVE  List(tag, left) \in Commands
  BY DEF List, Commands
<1>2. 0 \in Tags /\ 1 \in Tags /\ 31 \in Tags
  BY DEF Tags
<1>3. StallingList(0) \in Commands /\ Transfer(0) \in Commands
  BY <1>1, <1>2, Zenon DEF StallingList, Transfer
<1>4. StallingTwice \in Commands
  BY <1>1, <1>2, Zenon DEF StallingTwice
<1>5. ASSUME NEW tag \in Tags PROVE Transfer(tag) \in Commands
  BY <1>1, Zenon DEF Transfer
<1>6. ASSUME NEW c \in Commands, NEW kind \in {"list", "barrier", "sync"}
      PROVE  [c EXCEPT !.kind = kind] \in Commands
  BY DEF Commands
<1>7. Barrier(0) \in Commands /\ Sync(1) \in Commands
  <2>1. Barrier(0) = [Transfer(0) EXCEPT !.kind = "barrier"] /\ Sync(1) = [Transfer(1) EXCEPT !.kind = "sync"]
    BY Zenon DEF Barrier, Sync
  <2> QED
    BY <1>2, <1>5, <1>6, <2>1, Zenon
<1> QED
  BY <1>3, <1>4, <1>7, Zenon

\* A thread goes on to an instruction that there is, until it exits; what it asks
\* the MFC for is within its types.
LEMMA Instructions ==
  ASSUME NEW t \in DOMAIN Threads, NEW k \in DOMAIN Threads[t]
  PROVE  LET i == Threads[t][k] IN
         /\ k \in Nat
         /\ i.op # "exit" => k + 1 \in DOMAIN Threads[t]
         /\ i.op = "issue" => i.command \in Commands
         /\ i.op = "WrTagMask" => i.value \subseteq Tags
         /\ i.op = "WrTagUpdate" => i.value = UpdateAll
<1> DEFINE P == Threads[t]
<1>1. t \in {"Lists_execution", "MFC_WrTagUpdate", "barrier_commands", "eieio_command", "sync_command",
             "list_transfer_size"}
  BY DEF Threads
<1>2. {0} \subseteq Tags /\ {1} \subseteq Tags
  BY DEF Tags
<1>3. CASE t = "Lists_execution"
  BY <1>3, Lists_executionIs, CommandsIssued
<1>4. CASE t = "MFC_WrTagUpdate"
  BY <1>4, MFC_WrTagUpdateIs, CommandsIssued
<1>5. CASE t = "barrier_commands"
  BY <1>5, barrier_commandsIs, CommandsIssued
<1>6. CASE t \in {"eieio_command", "sync_command"}
  BY <1>6, <1>2, FullBarrierIs, CommandsIssued
<1>7. CASE t = "list_transfer_size"
  BY <1>7, <1>2, list_transfer_sizeIs, CommandsIssued
<1> QED
  BY <1>1, <1>3, <1>4, <1>5, <1>6, <1>7

(* What the MFC does to the queue. *)

Lefts == {<<FALSE>>, <<TRUE>>, <<TRUE, FALSE>>, <<TRUE, TRUE>>}

\* The last transfer of a command, or one that stalls.
LEMMA TransfersLeft ==
  ASSUME NEW l \in Lefts
  PROVE  /\ Len(l) \in {1, 2}
         /\ Len(l) = 2 => /\ Head(l) = TRUE /\ Tail(l) \in Lefts /\ Len(Tail(l)) = 1
                          /\ l = <<TRUE, FALSE>> => Tail(l) = <<FALSE>>
         /\ l = <<FALSE>> => Len(l) = 1
         /\ l \in {<<TRUE, FALSE>>, <<TRUE, TRUE>>} => Len(l) = 2
<1>1. ASSUME NEW a, NEW b PROVE Len(<<a, b>>) = 2 /\ Head(<<a, b>>) = a /\ Tail(<<a, b>>) = <<b>> /\ Len(<<b>>) = 1
  OBVIOUS
<1>2. 1 # 2
  OBVIOUS
<1>3. l = <<FALSE>> \/ l = <<TRUE>> => Len(l) = 1
  BY <1>1, Zenon
<1>4. l = <<TRUE, FALSE>> => Len(l) = 2 /\ Head(l) = TRUE /\ Tail(l) = <<FALSE>>
  BY <1>1, Zenon
<1>5. l = <<TRUE, TRUE>> => Len(l) = 2 /\ Head(l) = TRUE /\ Tail(l) = <<TRUE>>
  BY <1>1, Zenon
<1>6. Len(<<FALSE>>) = 1 /\ Len(<<TRUE>>) = 1
  BY <1>1, Zenon
<1>7. <<TRUE, TRUE>> # <<TRUE, FALSE>>
  <2>1. <<TRUE, TRUE>>[2] = TRUE /\ <<TRUE, FALSE>>[2] = FALSE
    OBVIOUS
  <2> QED
    BY <2>1, Zenon
<1>8. l = <<FALSE>> \/ l = <<TRUE>> \/ l = <<TRUE, FALSE>> \/ l = <<TRUE, TRUE>>
  BY Zenon DEF Lefts
<1>9. <<FALSE>> \in Lefts /\ <<TRUE>> \in Lefts
  BY Zenon DEF Lefts
<1>10. Len(l) \in {1, 2}
  BY <1>3, <1>4, <1>5, <1>8, Zenon
<1>11. Len(l) = 2 => /\ Head(l) = TRUE /\ Tail(l) \in Lefts /\ Len(Tail(l)) = 1
                     /\ l = <<TRUE, FALSE>> => Tail(l) = <<FALSE>>
  BY <1>2, <1>3, <1>4, <1>5, <1>6, <1>8, <1>9, Zenon
<1> QED
  BY <1>3, <1>4, <1>5, <1>10, <1>11, Zenon

\* A step of the MFC completes a command, or stalls a list.
LEMMA Proceeds ==
  ASSUME queue \in Seq(Commands), NEW i, Proceed(i)
  PROVE  /\ i \in DOMAIN queue /\ ~Waits(i) /\ ~queue[i].stalled
         /\ queue' \in Seq(Commands)
         /\ Len(queue[i].left) \in {1, 2}
         /\ Len(queue[i].left) = 1 =>
               /\ Len(queue') = Len(queue) - 1
               /\ \A j \in DOMAIN queue' : \E k \in DOMAIN queue : queue'[j] = queue[k]
               /\ stallstat' = stallstat
         /\ Len(queue[i].left) = 2 =>
               /\ DOMAIN queue' = DOMAIN queue /\ Len(queue') = Len(queue)
               /\ \A j \in DOMAIN queue : j # i => queue'[j] = queue[j]
               /\ queue'[i].kind = queue[i].kind /\ queue'[i].tag = queue[i].tag
               /\ queue'[i].left = Tail(queue[i].left) /\ queue'[i].stalled
               /\ stallstat' = stallstat \cup {queue[i].tag}
<1>1. i \in DOMAIN queue /\ ~Waits(i) /\ ~queue[i].stalled
  BY Zenon DEF Proceed
<1>2. /\ queue[i] \in Commands /\ Len(queue) \in Nat /\ DOMAIN queue = 1..Len(queue)
      /\ \A j \in 1..Len(queue) : queue[j] \in Commands
  BY <1>1
<1>3. queue[i].left \in Lefts /\ queue[i].tag \in Tags /\ queue[i].kind \in {"list", "barrier", "sync"}
  BY <1>2 DEF Commands, Lefts
<1>4. CASE Len(queue[i].left) = 1
  <2>1. queue' = [j \in 1..(Len(queue) - 1) |-> IF j < i THEN queue[j] ELSE queue[j + 1]]
    BY <1>4 DEF Proceed, Without
  <2>2. stallstat' = stallstat
    BY <1>4 DEF Proceed
  <2>3. Len(queue) - 1 \in Nat
    BY <1>1, <1>2
  <2>4. \A j \in 1..(Len(queue) - 1) : \E k \in DOMAIN queue : queue'[j] = queue[k] /\ queue'[j] \in Commands
    BY <1>2, <2>1, <2>3
  <2>5. queue' \in Seq(Commands) /\ Len(queue') = Len(queue) - 1
    BY <2>1, <2>3, <2>4
  <2> QED
    BY <1>1, <1>4, <2>2, <2>4, <2>5
<1>5. CASE Len(queue[i].left) # 1
  <2>1. /\ Len(queue[i].left) = 2 /\ Head(queue[i].left) = TRUE
        /\ Tail(queue[i].left) \in Lefts
    BY <1>3, <1>5, TransfersLeft
  <2>2. /\ queue' = [queue EXCEPT ![i].left = Tail(@), ![i].stalled = Head(queue[i].left)]
        /\ stallstat' = stallstat \cup (IF Head(queue[i].left) THEN {queue[i].tag} ELSE {})
    BY <1>5 DEF Proceed
  <2>3. stallstat' = stallstat \cup {queue[i].tag}
    BY <2>1, <2>2, Zenon
  <2>4. DOMAIN queue' = DOMAIN queue /\ \A j \in DOMAIN queue : j # i => queue'[j] = queue[j]
    BY <2>2
  <2>5. queue'[i] = [queue[i] EXCEPT !.left = Tail(queue[i].left), !.stalled = TRUE]
    BY <1>1, <2>1, <2>2, Zenon
  <2>6. queue'[i].kind = queue[i].kind /\ queue'[i].tag = queue[i].tag /\ queue'[i].left = Tail(queue[i].left)
    BY <1>2, <2>5 DEF Commands
  <2>7. queue'[i].stalled
    BY <1>2, <2>5 DEF Commands
  <2>8. queue'[i] \in Commands
    BY <1>2, <2>1, <2>5 DEF Commands, Lefts
  <2>9. queue' \in Seq(Commands) /\ Len(queue') = Len(queue)
    <3>1. queue' \in [1..Len(queue) -> Commands]
      BY <1>2, <2>2, <2>4, <2>8
    <3> QED
      BY <1>2, <3>1
  <2> QED
    BY <1>1, <1>5, <2>1, <2>3, <2>4, <2>6, <2>7, <2>9, Zenon
<1> QED
  BY <1>4, <1>5

-----------------------------------------------------------------------------
(* The invariant. *)

\* A list that has stalled, and one of which nothing is done.
Halted(c) == c.tag = 0 /\ c.left = <<FALSE>> /\ c.stalled
Fresh(c) == c.tag = 0 /\ c.left = <<TRUE, FALSE>> /\ ~c.stalled

\* k lists have stalled, and the thread has read so; one more goes on, or has
\* stalled, which the thread can read; all have been acknowledged.
Held(k) == /\ Len(queue) = k /\ stallstat = {}
           /\ \A i \in DOMAIN queue : Halted(queue[i])
Going(k) == /\ Len(queue) = k + 1
            /\ \A i \in DOMAIN queue : i # k + 1 => Halted(queue[i])
            /\ \/ Fresh(queue[k + 1]) /\ stallstat = {}
               \/ Halted(queue[k + 1]) /\ stallstat = {0}
Released == /\ stallstat = {}
            /\ \A i \in DOMAIN queue : queue[i].left = <<FALSE>> /\ ~queue[i].stalled

\* Each acknowledgement comes when as many lists have stalled as were issued.
TwoLists ==
  test = "Lists_execution" =>
    /\ pc \in {1, 2} \cup 8..10 => Held(0)
    /\ pc = 3 => Going(0)
    /\ pc = 4 => Held(1)
    /\ pc = 5 => Going(1)
    /\ pc = 6 => Held(2)
    /\ pc = 7 => Released
OneListEach ==
  test = "MFC_WrTagUpdate" =>
    /\ pc \in 1..5 \cup 12..14 \cup 21..23 => Held(0)
    /\ pc \in {6, 15} => Going(0)
    /\ pc \in 7..10 \cup 16..19 => Held(1)
    /\ pc \in {11, 20} => Released

\* A list that stalls for ever; a command that waits for it for ever.
Stalling == /\ Len(queue) = 1 /\ queue[1].kind = "list"
            /\ queue[1].stalled \/ (queue[1].left = <<TRUE, TRUE>> /\ stallstat = {})
Stalled == Len(queue) = 1 /\ queue[1].kind = "list" /\ queue[1].stalled
Barred == /\ Len(queue) = 2 /\ queue[1].kind = "list" /\ queue[1].stalled
          /\ \/ queue[2].kind = "sync"
             \/ queue[2].kind = "barrier" /\ queue[2].tag = queue[1].tag

\* How many lines a full barrier has printed by then.
Said == IF pc <= 3 THEN 0 ELSE IF pc <= 5 THEN 1 ELSE IF pc <= 7 THEN 2 ELSE IF pc <= 9 THEN 3
        ELSE IF pc <= 12 THEN 4 ELSE 5

\* The threads that acknowledge nothing do not get past their barrier.
AtBarrier ==
  test = "barrier_commands" =>
    /\ pc <= 6 /\ spu # "exited"
    /\ pc <= 2 => Held(0)
    /\ pc = 3 => Going(0) /\ queue[1].kind = "list"
    /\ pc = 4 => Held(1) /\ queue[1].kind = "list"
    /\ pc \in {5, 6} => Barred
    /\ console = IF pc <= 5 THEN <<>> ELSE Remain["barrier_commands"]
AtFullBarrier ==
  test \in {"eieio_command", "sync_command"} =>
    /\ pc <= 15 /\ spu # "exited"
    /\ pc <= 4 => queue = <<>> /\ stallstat = {}
    /\ pc \in 5..8 => Stalling
    /\ pc \in {9, 10} => Stalled
    /\ pc \in 11..15 => Barred /\ queue[2].tag = 1
    /\ pc \in {14, 15} => tagmask = {1}
    /\ pc <= 14 => update = NoUpdate
    /\ tagstat = 0
    /\ console \in Seq({"ok"}) /\ Len(console) = Said

\* The status of the first request is there until the second poll is over.
Polling ==
  /\ found = FALSE
  /\ test = "MFC_WrTagUpdate" => /\ pc \in 5..12 => tagstat = 1
                                 /\ console \in Seq({FALSE})

IInv == TypeOK /\ TwoLists /\ OneListEach /\ AtBarrier /\ AtFullBarrier /\ Polling

\* What of EndsAsOnTheConsole is safety: no thread gets past a barrier behind a
\* list that stalls, and no count is seen at 0.
NothingMore ==
  IF test \in DOMAIN Remain
    THEN /\ spu # "exited" /\ Len(console) <= Len(Remain[test])
         /\ \A i \in DOMAIN console : console[i] = Remain[test][i]
    ELSE test = "MFC_WrTagUpdate" => \A i \in DOMAIN console : console[i] = FALSE

-----------------------------------------------------------------------------
(* From one state of the queue to another. *)

\* A list is issued when those before it have stalled.
LEMMA IssueOne ==
  ASSUME queue \in Seq(Commands), NEW k \in Nat, Held(k), Issue(StallingList(0))
  PROVE  Going(k)' /\ queue'[k + 1].kind = "list"
<1>1. /\ StallingList(0).tag = 0 /\ StallingList(0).left = <<TRUE, FALSE>>
      /\ StallingList(0).stalled = FALSE /\ StallingList(0).kind = "list"
  BY DEF StallingList, List
<1>2. queue' = Append(queue, StallingList(0)) /\ stallstat' = stallstat
  BY DEF Issue
<1> DEFINE c == StallingList(0)
<1> HIDE DEF c
<1>3. /\ Len(queue') = k + 1 /\ queue'[k + 1] = c /\ DOMAIN queue' = 1..(k + 1)
      /\ \A i \in 1..k : queue'[i] = queue[i] /\ Halted(queue[i])
  <2>1. queue' = Append(queue, c)
    BY <1>2 DEF c
  <2> QED
    BY <2>1 DEF Held
<1>4. Fresh(queue'[k + 1]) /\ queue'[k + 1].kind = "list"
  BY <1>1, <1>3 DEF Fresh, c
<1>5. ASSUME NEW i \in DOMAIN queue', i # k + 1 PROVE Halted(queue'[i])
  <2>1. queue'[i] = queue[i] /\ Halted(queue[i])
    BY <1>3, <1>5
  <2> QED
    BY <2>1
<1>6. stallstat' = {} /\ Len(queue') = k + 1
  BY <1>2, <1>3 DEF Held
<1> QED
  BY <1>4, <1>5, <1>6 DEF Going, Halted, Fresh

\* The thread reads that the last one has stalled, too.
LEMMA ReadOne ==
  ASSUME queue \in Seq(Commands), NEW k \in Nat, Going(k), RdListStallStat
  PROVE  Held(k + 1)' /\ queue' = queue
<1>1. stallstat # {} /\ stallstat' = {} /\ queue' = queue
  BY DEF RdListStallStat
<1>2. Len(queue) = k + 1 /\ DOMAIN queue = 1..(k + 1) /\ \A i \in DOMAIN queue : Halted(queue[i])
  BY <1>1 DEF Going
<1> QED
  BY <1>1, <1>2 DEF Held, Halted

\* The acknowledgement lets them all go on.
LEMMA AckAll ==
  ASSUME queue \in Seq(Commands), NEW k \in Nat, Held(k), WrListStallAck(0)
  PROVE  Released'
<1>1. /\ queue' = [i \in DOMAIN queue |->
                     IF queue[i].tag = 0 THEN [queue[i] EXCEPT !.stalled = FALSE] ELSE queue[i]]
      /\ stallstat' = {}
  BY DEF WrListStallAck, Held
<1>2. ASSUME NEW i \in DOMAIN queue'
      PROVE  queue'[i].left = <<FALSE>> /\ ~queue'[i].stalled
  <2>1. i \in DOMAIN queue /\ queue[i] \in Commands /\ Halted(queue[i])
    BY <1>1 DEF Held
  <2>2. queue'[i] = [queue[i] EXCEPT !.stalled = FALSE]
    BY <1>1, <2>1 DEF Halted
  <2>3. queue'[i].left = queue[i].left
    BY <2>1, <2>2 DEF Commands
  <2>4. queue'[i].stalled = FALSE
    BY <2>1, <2>2 DEF Commands
  <2> QED
    BY <2>1, <2>3, <2>4 DEF Halted
<1> QED
  BY <1>1, <1>2 DEF Released

\* The MFC goes on with the last list, if any; with those that are released.
LEMMA ProceedHeld ==
  ASSUME queue \in Seq(Commands), NEW k \in Nat, Held(k), NEW i, Proceed(i)
  PROVE  FALSE
BY Proceeds DEF Held, Halted

\* The MFC goes on with the list that has not stalled.
LEMMA ProceedGoing ==
  ASSUME queue \in Seq(Commands), NEW k \in Nat, Going(k), NEW i, Proceed(i)
  PROVE  Going(k)' /\ queue'[k + 1].kind = queue[k + 1].kind
<1>1. i \in DOMAIN queue /\ DOMAIN queue = 1..(k + 1) /\ ~queue[i].stalled
  BY Proceeds DEF Going
<1>2. i = k + 1 /\ Fresh(queue[i]) /\ stallstat = {}
  BY <1>1 DEF Going, Halted
<1>3. queue[i].left \in Lefts /\ queue[i].left = <<TRUE, FALSE>> /\ queue[i].tag = 0
  <2>1. queue[i] \in Commands
    BY <1>1
  <2> QED
    BY <1>2, <2>1 DEF Fresh, Commands, Lefts
<1>4. Len(queue[i].left) = 2 /\ Tail(queue[i].left) = <<FALSE>>
  <2>1. <<TRUE, FALSE>> \in Lefts
    BY <1>3, Zenon
  <2>2. Len(<<TRUE, FALSE>>) = 2
    OBVIOUS
  <2> QED
    BY <1>3, <2>1, <2>2, TransfersLeft, Zenon
<1>5. /\ DOMAIN queue' = DOMAIN queue /\ Len(queue') = Len(queue)
      /\ \A j \in DOMAIN queue : j # i => queue'[j] = queue[j]
      /\ queue'[i].kind = queue[i].kind /\ queue'[i].tag = queue[i].tag
      /\ queue'[i].left = Tail(queue[i].left) /\ queue'[i].stalled
      /\ stallstat' = stallstat \cup {queue[i].tag}
  BY <1>4, Proceeds
<1>6. Halted(queue'[i]) /\ stallstat' = {0}
  BY <1>2, <1>3, <1>4, <1>5 DEF Halted
<1>7. ASSUME NEW j \in DOMAIN queue', j # k + 1 PROVE Halted(queue'[j])
  <2>1. Halted(queue[j]) /\ queue'[j] = queue[j]
    BY <1>1, <1>2, <1>5, <1>7 DEF Going
  <2> QED
    BY <2>1
<1> QED
  BY <1>1, <1>2, <1>5, <1>6, <1>7 DEF Going, Halted, Fresh

\* The MFC completes lists that have been acknowledged.
LEMMA ProceedReleased ==
  ASSUME queue \in Seq(Commands), Released, NEW i, Proceed(i)
  PROVE  Released'
<1>1. i \in DOMAIN queue /\ queue[i].left = <<FALSE>>
  BY Proceeds DEF Released
<1>2. Len(queue[i].left) = 1
  BY <1>1
<1>3. /\ \A j \in DOMAIN queue' : \E k \in DOMAIN queue : queue'[j] = queue[k]
      /\ stallstat' = stallstat
  BY <1>2, Proceeds
<1> QED
  BY <1>3 DEF Released

\* A list both of whose transfers stall does.
LEMMA ProceedStalling ==
  ASSUME queue \in Seq(Commands), Stalling, NEW i, Proceed(i)
  PROVE  Stalling'
<1>1. i = 1 /\ DOMAIN queue = {1} /\ ~queue[1].stalled
  BY Proceeds DEF Stalling
<1>2. Len(queue[1].left) = 2
  <2>1. queue[1].left = <<TRUE, TRUE>>
    BY <1>1 DEF Stalling
  <2> QED
    BY <2>1
<1> QED
  BY <1>1, <1>2, Proceeds DEF Stalling

\* Nothing that waits, or has stalled, goes on.
LEMMA ProceedStalled ==
  ASSUME queue \in Seq(Commands), Stalled \/ Barred, NEW i, Proceed(i)
  PROVE  FALSE
<1>1. i \in DOMAIN queue /\ ~Waits(i) /\ ~queue[i].stalled
  BY Proceeds
<1>2. Len(queue) = 2 /\ i = 2 /\ Barred
  BY <1>1 DEF Stalled, Barred
<1>3. 1 \in 1..(i - 1) /\ ~(\/ queue[i].kind = "sync" \/ queue[1].kind = "sync"
                            \/ /\ queue[i].tag = queue[1].tag
                               /\ "barrier" \in {queue[i].kind, queue[1].kind})
  BY <1>1, <1>2 DEF Waits
<1> QED
  BY <1>2, <1>3 DEF Barred

-----------------------------------------------------------------------------
(* Types. *)

MfcTypes == /\ queue \in Seq(Commands) /\ Len(queue) <= QueueDepth
            /\ stallstat \subseteq Tags /\ tagmask \subseteq Tags
            /\ update \in {NoUpdate, UpdateAll} /\ tagstat \in 0..1
RunTypes == /\ test \in Tests /\ main \in {"start", "write_snr", "join", "destroy", "returned"}
            /\ spu \in {"off", "running", "exited"} /\ pc \in DOMAIN Threads[test]
            /\ polls \in 0..Polls

\* TypeOK in three parts: the MFC's, the run's and the rest.
LEMMA TypesAre == TypeOK <=> /\ MfcTypes /\ RunTypes /\ found \in BOOLEAN
                             /\ group \in {"none", "idle", "running"} /\ snr \in 0..1
BY DEF TypeOK, MfcTypes, RunTypes

\* What the thread is about to do.
LEMMA Here ==
  ASSUME TypeOK
  PROVE  /\ Instruction = Threads[test][pc] /\ test \in DOMAIN Threads /\ pc \in DOMAIN Threads[test] /\ pc \in Nat
         /\ Instruction.op # "exit" => pc + 1 \in DOMAIN Threads[test]
         /\ Instruction.op = "issue" => Instruction.command \in Commands
         /\ Instruction.op = "WrTagMask" => Instruction.value \subseteq Tags
         /\ Instruction.op = "WrTagUpdate" => Instruction.value = UpdateAll
<1>1. Instruction = Threads[test][pc] /\ test \in DOMAIN Threads /\ pc \in DOMAIN Threads[test]
  BY MfcTestsAssumption DEF TypeOK, Instruction
<1> QED
  BY <1>1, Instructions

\* The types hold at the start.
LEMMA TypesStart == Init => TypeOK
<1> SUFFICES ASSUME Init PROVE TypeOK
  OBVIOUS
<1>1. MfcTypes
  BY MfcTestsAssumption DEF Init, Idle, MfcTypes, NoTags, NoUpdate
<1>2. RunTypes
  <2>1. test \in DOMAIN Threads /\ pc = 1
    BY MfcTestsAssumption DEF Init
  <2>2. test \in {"Lists_execution", "MFC_WrTagUpdate", "barrier_commands", "eieio_command", "sync_command",
                  "list_transfer_size"}
    BY <2>1 DEF Threads
  <2>3. 1 \in DOMAIN Threads[test]
    <3>1. CASE test = "Lists_execution"
      BY <3>1 DEF Threads, Lists_execution
    <3>2. CASE test = "MFC_WrTagUpdate"
      BY <3>2 DEF Threads, MFC_WrTagUpdate, UpdateOf
    <3>3. CASE test = "barrier_commands"
      BY <3>3 DEF Threads, barrier_commands
    <3>4. CASE test \in {"eieio_command", "sync_command"}
      <4>1. Threads[test] = FullBarrier
        BY <3>4 DEF Threads, eieio_command, sync_command
      <4> DEFINE l == Line("the tag status is")
      <4>2. FullBarrier = <<Await("address"), ReadSnr, Line("ok"), Cmd(List(31, <<TRUE, TRUE>>)), Line("ok"),
                            Await("one_queued"), Line("ok"), Await("stalled"), Line("ok"),
                            Cmd(Sync(1)), Await("two_queued"), Line("ok")>> \o UpdateOf({1})
                          \o <<I("RdTagStat"), l, Exit>>
        BY DEF FullBarrier
      <4> HIDE DEF l
      <4> QED
        BY <4>1, <4>2 DEF UpdateOf
    <3>5. CASE test = "list_transfer_size"
      BY <3>5 DEF Threads, list_transfer_size, UpdateOf
    <3> QED
      BY <2>2, <3>1, <3>2, <3>3, <3>4, <3>5
  <2> QED
    BY <2>1, <2>3, MfcTestsAssumption DEF Init, RunTypes
<1>3. group \in {"none", "idle", "running"} /\ snr \in 0..1
  BY DEF Init, Created
<1>4. found \in BOOLEAN
  BY Zenon DEF Init
<1> QED
  BY <1>1, <1>2, <1>3, <1>4, TypesAre

\* The MFC keeps to its types whatever it is asked for.
LEMMA MfcTypesKept ==
  ASSUME MfcTypes,
         \/ \E c \in Commands : Issue(c)
         \/ \E tag : WrListStallAck(tag)
         \/ \E new \in SUBSET Tags : WrTagMask(new)
         \/ WrTagUpdate(UpdateAll) \/ RdListStallStat \/ RdTagStat \/ UpdateTag
         \/ \E i : Proceed(i)
  PROVE  MfcTypes'
<1> USE DEF MfcTypes
<1>1. ASSUME NEW c \in Commands, Issue(c) PROVE MfcTypes'
  BY <1>1, MfcTestsAssumption DEF Issue, FreeSlots
<1>2. ASSUME NEW tag, WrListStallAck(tag) PROVE MfcTypes'
  <2>1. queue' = [i \in DOMAIN queue |->
                    IF queue[i].tag = tag THEN [queue[i] EXCEPT !.stalled = FALSE] ELSE queue[i]]
    BY <1>2 DEF WrListStallAck
  <2>2. \A i \in 1..Len(queue) : queue[i] \in Commands
    OBVIOUS
  <2>3. \A i \in 1..Len(queue) : [queue[i] EXCEPT !.stalled = FALSE] \in Commands
    BY <2>2 DEF Commands
  <2>4. queue' \in [1..Len(queue) -> Commands] /\ Len(queue) \in Nat
    BY <2>1, <2>2, <2>3
  <2>5. queue' \in Seq(Commands) /\ Len(queue') = Len(queue)
    BY <2>4
  <2> QED
    BY <1>2, <2>5 DEF WrListStallAck
<1>3. ASSUME NEW new \in SUBSET Tags, WrTagMask(new) PROVE MfcTypes'
  BY <1>3 DEF WrTagMask
<1>4. ASSUME WrTagUpdate(UpdateAll) PROVE MfcTypes'
  BY <1>4 DEF WrTagUpdate
<1>5. ASSUME RdListStallStat \/ RdTagStat \/ UpdateTag PROVE MfcTypes'
  BY <1>5 DEF RdListStallStat, RdTagStat, UpdateTag
<1>6. ASSUME NEW i, Proceed(i) PROVE MfcTypes'
  <2>1. /\ queue' \in Seq(Commands) /\ Len(queue') \in {Len(queue), Len(queue) - 1}
        /\ i \in DOMAIN queue
        /\ stallstat' = stallstat \/ stallstat' = stallstat \cup {queue[i].tag}
    BY <1>6, Proceeds
  <2>2. queue[i].tag \in Tags
    <3>1. queue[i] \in Commands
      BY <2>1
    <3> QED
      BY <3>1 DEF Commands
  <2> QED
    <3>1. Len(queue) \in Nat
      OBVIOUS
    <3>2. Len(queue') <= QueueDepth
      BY <2>1, <3>1, MfcTestsAssumption
    <3>3. stallstat' \subseteq Tags
      BY <2>1, <2>2
    <3>4. tagmask' = tagmask /\ update' = update /\ tagstat' = tagstat
      BY <1>6, Zenon DEF Proceed
    <3> QED
      BY <2>1, <3>2, <3>3, <3>4
<1> QED
  BY <1>1, <1>2, <1>3, <1>4, <1>5, <1>6

\* Every step keeps the types.
LEMMA TypesKept == ASSUME TypeOK, [Next]_vars PROVE TypeOK'
<1> USE DEF MfcTypes, RunTypes
<1>1. MfcTypes /\ RunTypes /\ found \in BOOLEAN /\ group \in {"none", "idle", "running"} /\ snr \in 0..1
  BY TypesAre
<1> SUFFICES MfcTypes' /\ RunTypes' /\ found' \in BOOLEAN /\ group' \in {"none", "idle", "running"} /\ snr' \in 0..1
  BY DEF TypeOK
<1>2. CASE Main
  BY <1>1, <1>2 DEF Main, Start, SendAddress, JoinGroup, DestroyGroup, sys_spu_thread_group_start,
     sys_spu_thread_write_snr, sys_spu_thread_group_join, sys_spu_thread_group_destroy, mfc, thread
<1>3. CASE WriteChannel
  <2>1. /\ UNCHANGED <<group, snr, found, test, main, spu, polls>> /\ pc' = pc + 1 /\ Instruction.op # "exit"
        /\ \/ \E c \in Commands : Issue(c)
           \/ \E tag : WrListStallAck(tag)
           \/ \E new \in SUBSET Tags : WrTagMask(new)
           \/ WrTagUpdate(UpdateAll)
    BY <1>3, Here DEF WriteChannel, Fetch, Advance, NoPoll, lv2
  <2> QED
    BY <1>1, <2>1, Here, MfcTypesKept
<1>4. CASE ReadChannel
  <2>1. /\ UNCHANGED <<group, snr, found, test, main, spu, polls>> /\ pc' = pc + 1 /\ Instruction.op # "exit"
        /\ RdListStallStat \/ RdTagStat
    BY <1>4 DEF ReadChannel, Fetch, Advance, NoPoll, lv2
  <2> QED
    BY <1>1, <2>1, Here, MfcTypesKept
<1>5. CASE ReadAddress \/ AwaitCount \/ PollEnds \/ PrintLine
  <2>1. /\ UNCHANGED <<group, found, test, main, spu, polls, mfc>> /\ pc' = pc + 1 /\ Instruction.op # "exit"
        /\ snr' \in {0, snr}
    BY <1>5 DEF ReadAddress, AwaitCount, PollEnds, PrintLine, Fetch, Advance, NoPoll, lv2
  <2> QED
    BY <1>1, <2>1, Here DEF mfc
<1>6. CASE PollCount
  <2>1. /\ UNCHANGED <<group, snr, test, main, spu, mfc, pc>> /\ polls < Polls /\ polls' = polls + 1
    BY <1>6 DEF PollCount, lv2
  <2>2. found' \in BOOLEAN
    BY <1>6, Zenon DEF PollCount
  <2> QED
    BY <1>1, <2>1, <2>2, MfcTestsAssumption DEF mfc
<1>7. CASE PrintResult
  <2>1. /\ UNCHANGED <<group, snr, test, main, spu, mfc>> /\ polls' = 0 /\ pc' = pc + 1 /\ Instruction.op # "exit"
    BY <1>7 DEF PrintResult, Fetch, Advance, lv2
  <2>2. found' \in BOOLEAN
    BY <1>7, Zenon DEF PrintResult
  <2> QED
    BY <1>1, <2>1, <2>2, Here, MfcTestsAssumption DEF mfc
<1>8. CASE ExitThread
  BY <1>1, <1>8 DEF ExitThread, sys_spu_thread_exit, Over, mfc
<1>9. CASE Device(Transfers) \/ Device(UpdateTag)
  <2>1. /\ UNCHANGED <<group, snr, found, test, main, spu, polls, pc>>
        /\ (\E i : Proceed(i)) \/ UpdateTag
    BY <1>9 DEF Device, Transfers, lv2, thread
  <2> QED
    BY <1>1, <2>1, MfcTypesKept
<1>10. CASE UNCHANGED vars
  BY <1>1, <1>10 DEF vars, lv2, mfc, thread
<1> QED
  BY <1>2, <1>3, <1>4, <1>5, <1>6, <1>7, <1>8, <1>9, <1>10 DEF Next, Thread

-----------------------------------------------------------------------------
(* The invariant is inductive. *)

\* A step is one of main's, the thread's exit, the MFC's, a look at a count, or
\* the next instruction.
Executes ==
  \/ Instruction.op = "issue" /\ Issue(Instruction.command) /\ UNCHANGED <<found, console>>
  \/ Instruction.op = "WrListStallAck" /\ WrListStallAck(Instruction.value) /\ UNCHANGED <<found, console>>
  \/ Instruction.op = "WrTagMask" /\ WrTagMask(Instruction.value) /\ UNCHANGED <<found, console>>
  \/ Instruction.op = "WrTagUpdate" /\ WrTagUpdate(Instruction.value) /\ UNCHANGED <<found, console>>
  \/ Instruction.op = "RdListStallStat" /\ RdListStallStat /\ UNCHANGED <<found, console>>
  \/ Instruction.op = "RdTagStat" /\ RdTagStat /\ UNCHANGED <<found, console>>
  \/ Instruction.op \in {"RdSigNotify1", "poll"} /\ UNCHANGED <<mfc, found, console>>
  \/ Instruction.op = "await" /\ Holds(Instruction.condition) /\ UNCHANGED <<mfc, found, console>>
  \/ Instruction.op = "print" /\ console' = Append(console, Instruction.text) /\ UNCHANGED <<mfc, found>>
  \/ Instruction.op = "print_result" /\ console' = Append(console, found) /\ found' = FALSE /\ UNCHANGED mfc

\* One step, by what it does to the thread and to the MFC.
LEMMA Moves ==
  ASSUME TypeOK, [Next]_vars
  PROVE  /\ test' = test
         /\ \/ UNCHANGED <<mfc, pc, found, console>> /\ (Instruction.op = "exit" \/ spu' \in {spu, "running"})
            \/ (\E i : Proceed(i)) /\ UNCHANGED <<pc, spu, found, console>>
            \/ UpdateTag /\ UNCHANGED <<pc, spu, found, console>>
            \/ /\ Instruction.op = "poll" /\ found' = (Instruction.count = "status" /\ tagstat = 0)
               /\ UNCHANGED <<mfc, pc, spu, console>>
            \/ Executes /\ pc' = pc + 1 /\ spu' = spu
<1>1. CASE Main \/ UNCHANGED vars
  BY <1>1 DEF Main, Start, SendAddress, JoinGroup, DestroyGroup, thread, vars
<1>2. CASE WriteChannel
  BY <1>2 DEF WriteChannel, Fetch, Advance, NoPoll, Executes
<1>3. CASE ReadChannel
  BY <1>3 DEF ReadChannel, Fetch, Advance, NoPoll, Executes
<1>4. CASE ReadAddress \/ AwaitCount \/ PollEnds \/ PrintLine
  BY <1>4 DEF ReadAddress, AwaitCount, PollEnds, PrintLine, Fetch, Advance, NoPoll, Executes
<1>5. CASE PollCount
  BY <1>5 DEF PollCount, Fetch
<1>6. CASE PrintResult
  BY <1>6 DEF PrintResult, Fetch, Advance, Executes
<1>7. CASE ExitThread
  BY <1>7 DEF ExitThread, Fetch
<1>8. CASE Device(Transfers) \/ Device(UpdateTag)
  BY <1>8 DEF Device, Transfers, thread
<1> QED
  BY <1>1, <1>2, <1>3, <1>4, <1>5, <1>6, <1>7, <1>8 DEF Next, Thread

\* What is known of the queue stays while the queue does.
LEMMA QueueKept ==
  ASSUME UNCHANGED <<queue, stallstat>>
  PROVE  /\ \A k \in Nat : (Held(k) => Held(k)') /\ (Going(k) => Going(k)')
         /\ (Released => Released') /\ (Stalling => Stalling') /\ (Stalled => Stalled') /\ (Barred => Barred')
BY DEF Held, Going, Released, Stalling, Stalled, Barred, Halted, Fresh

\* Commands that are released and gone leave an empty queue.
LEMMA AllGone ==
  ASSUME queue \in Seq(Commands), FreeSlots = QueueDepth, Released
  PROVE  Held(0)
<1>1. Len(queue) = 0
  BY MfcTestsAssumption DEF FreeSlots
<1> QED
  BY <1>1 DEF Held, Released

\* What has been executed, by operation.
LEMMA Executed ==
  ASSUME Executes
  PROVE  /\ Instruction.op = "issue" => Issue(Instruction.command) /\ UNCHANGED <<found, console>>
         /\ Instruction.op = "WrListStallAck" => WrListStallAck(Instruction.value) /\ UNCHANGED <<found, console>>
         /\ Instruction.op = "WrTagMask" => WrTagMask(Instruction.value) /\ UNCHANGED <<found, console>>
         /\ Instruction.op = "WrTagUpdate" => WrTagUpdate(Instruction.value) /\ UNCHANGED <<found, console>>
         /\ Instruction.op = "RdListStallStat" => RdListStallStat /\ UNCHANGED <<found, console>>
         /\ Instruction.op = "RdTagStat" => RdTagStat /\ UNCHANGED <<found, console>>
         /\ Instruction.op \in {"RdSigNotify1", "poll"} => UNCHANGED <<mfc, found, console>>
         /\ Instruction.op = "await" => Holds(Instruction.condition) /\ UNCHANGED <<mfc, found, console>>
         /\ Instruction.op = "print" => console' = Append(console, Instruction.text) /\ UNCHANGED <<mfc, found>>
         /\ Instruction.op = "print_result" => console' = Append(console, found) /\ found' = FALSE /\ UNCHANGED mfc
         /\ Instruction.op \in {"issue", "WrListStallAck", "WrTagMask", "WrTagUpdate", "RdListStallStat", "RdTagStat",
                                "RdSigNotify1", "poll", "await", "print", "print_result"}
BY DEF Executes

\* The thread that issues a second list while the first is stalled.
LEMMA TwoListsKept ==
  ASSUME IInv, [Next]_vars
  PROVE  TwoLists'
<1> SUFFICES ASSUME test = "Lists_execution" PROVE TwoLists'
  BY Moves DEF TwoLists, IInv
<1>1. /\ pc \in 1..10 /\ queue \in Seq(Commands) /\ Instruction = Threads["Lists_execution"][pc]
      /\ pc \in DOMAIN Threads["Lists_execution"]
  <2>1. Instruction = Threads["Lists_execution"][pc] /\ pc \in DOMAIN Threads["Lists_execution"]
    BY Here DEF IInv
  <2> QED
    BY <2>1, Lists_executionIs DEF IInv, TypeOK
<1>0. LET i == Instruction IN
      /\ i.op = "await" => pc \in {1, 7, 9} /\ i.condition = "empty"
      /\ i.op = "issue" => pc \in {2, 4} /\ i.command = StallingList(0)
      /\ i.op = "RdListStallStat" => pc \in {3, 5}
      /\ i.op = "WrListStallAck" => pc = 6 /\ i.value = 0
      /\ i.op = "print" => pc = 8
      /\ i.op \notin {"WrTagMask", "WrTagUpdate", "RdTagStat", "RdSigNotify1", "poll", "print_result"}
  BY <1>1, Lists_executionIs
<1>2. /\ pc \in {1, 2} \cup 8..10 => Held(0)
      /\ pc = 3 => Going(0)
      /\ pc = 4 => Held(1)
      /\ pc = 5 => Going(1)
      /\ pc = 6 => Held(2)
      /\ pc = 7 => Released
  BY DEF IInv, TwoLists
<1>3. CASE UNCHANGED <<queue, stallstat, pc>>
  BY <1>1, <1>2, <1>3, QueueKept DEF TwoLists
<1>4. ASSUME NEW i, Proceed(i), pc' = pc
      PROVE  TwoLists'
  BY <1>1, <1>2, <1>4, ProceedHeld, ProceedGoing, ProceedReleased DEF TwoLists
<1>5. CASE Executes /\ pc' = pc + 1
  <2>1. CASE Instruction.op = "issue"
    <3>1. pc \in {2, 4} /\ Issue(StallingList(0))
      BY <1>1, <1>5, <2>1, Executed, <1>0
    <3> QED
      BY <1>1, <1>2, <1>5, <3>1, IssueOne DEF TwoLists
  <2>2. CASE Instruction.op = "RdListStallStat"
    <3>1. pc \in {3, 5} /\ RdListStallStat
      BY <1>1, <1>5, <2>2, Executed, <1>0
    <3> QED
      BY <1>1, <1>2, <1>5, <3>1, ReadOne DEF TwoLists
  <2>3. CASE Instruction.op = "WrListStallAck"
    <3>1. pc = 6 /\ WrListStallAck(0)
      BY <1>1, <1>5, <2>3, Executed, <1>0
    <3> QED
      BY <1>1, <1>2, <1>5, <3>1, AckAll DEF TwoLists
  <2>4. CASE Instruction.op = "await"
    <3>1. pc \in {1, 7, 9} /\ FreeSlots = QueueDepth /\ UNCHANGED <<queue, stallstat>>
      BY <1>1, <1>5, <2>4, Executed, <1>0 DEF Holds, mfc
    <3> QED
      BY <1>1, <1>2, <1>5, <3>1, AllGone, QueueKept DEF TwoLists
  <2>5. CASE Instruction.op = "print"
    <3>1. pc = 8 /\ UNCHANGED <<queue, stallstat>>
      BY <1>1, <1>5, <2>5, Executed, <1>0 DEF mfc
    <3> QED
      BY <1>1, <1>2, <1>5, <3>1, QueueKept DEF TwoLists
  <2> QED
    BY <1>1, <1>5, <2>1, <2>2, <2>3, <2>4, <2>5, Executed, <1>0
<1>6. CASE UpdateTag /\ pc' = pc
  BY <1>3, <1>6 DEF UpdateTag
<1> QED
  BY <1>3, <1>4, <1>5, <1>6, Moves DEF IInv, mfc

\* A queue of one command gets a second.
LEMMA AppendSecond ==
  ASSUME NEW S, NEW q \in Seq(S), Len(q) = 1, NEW c \in S
  PROVE  /\ Len(Append(q, c)) = 2 /\ Append(q, c)[1] = q[1] /\ Append(q, c)[2] = c
BY AppendProperties

\* The thread that issues one list in each of its rounds.
LEMMA OneListEachKept ==
  ASSUME IInv, [Next]_vars
  PROVE  OneListEach'
<1> SUFFICES ASSUME test = "MFC_WrTagUpdate" PROVE OneListEach'
  BY Moves DEF OneListEach, IInv
<1>1. /\ pc \in 1..23 /\ queue \in Seq(Commands) /\ Instruction = Threads["MFC_WrTagUpdate"][pc]
      /\ pc \in DOMAIN Threads["MFC_WrTagUpdate"]
  <2>1. Instruction = Threads["MFC_WrTagUpdate"][pc] /\ pc \in DOMAIN Threads["MFC_WrTagUpdate"]
    BY Here DEF IInv
  <2> QED
    BY <2>1, MFC_WrTagUpdateIs DEF IInv, TypeOK
<1>2. /\ Instruction.op = "await" => pc \in {1, 4, 11, 20}
      /\ Instruction.op = "issue" => pc \in {5, 14} /\ Instruction.command = StallingList(0)
      /\ Instruction.op = "RdListStallStat" => pc \in {6, 15}
      /\ Instruction.op = "WrListStallAck" => pc \in {10, 19} /\ Instruction.value = 0
      /\ pc \in {1, 11, 20} => Instruction.condition = "empty"
      /\ Instruction.op \in {"WrTagMask", "WrTagUpdate", "poll", "RdTagStat", "print_result"} =>
            pc \in {2, 7, 16, 3, 8, 17, 9, 18, 12, 21, 13, 22}
      /\ Instruction.op \notin {"RdSigNotify1", "print"}
  <2> DEFINE P == Threads["MFC_WrTagUpdate"]
  <2> HIDE DEF P
  <2>1. Instruction = P[pc] /\ pc \in DOMAIN P /\ P = Threads["MFC_WrTagUpdate"]
    BY <1>1 DEF P
  <2>2. /\ Instruction.op = "await" => pc \in {1, 4, 11, 20}
        /\ Instruction.op = "issue" => pc \in {5, 14}
        /\ Instruction.op = "RdListStallStat" => pc \in {6, 15}
        /\ Instruction.op = "WrListStallAck" => pc \in {10, 19}
        /\ Instruction.op = "WrTagMask" => pc \in {2, 7, 16}
        /\ Instruction.op = "WrTagUpdate" => pc \in {3, 8, 17}
        /\ Instruction.op = "poll" => pc \in {9, 18}
        /\ Instruction.op = "RdTagStat" => pc \in {12, 21}
        /\ Instruction.op = "print_result" => pc \in {13, 22}
        /\ Instruction.op \notin {"RdSigNotify1", "print"}
    BY <2>1, MFC_WrTagUpdateIs
  <2>3. /\ pc \in {1, 11, 20} => Instruction.condition = "empty"
        /\ pc \in {5, 14} => Instruction.command = StallingList(0)
        /\ pc \in {10, 19} => Instruction.value = 0
    BY <2>1, MFC_WrTagUpdateIs
  <2> QED
    BY <2>2, <2>3
<1>3. /\ pc \in 1..5 \cup 12..14 \cup 21..23 => Held(0)
      /\ pc \in {6, 15} => Going(0)
      /\ pc \in 7..10 \cup 16..19 => Held(1)
      /\ pc \in {11, 20} => Released
  BY DEF IInv, OneListEach
<1>4. CASE UNCHANGED <<queue, stallstat, pc>>
  BY <1>1, <1>3, <1>4, QueueKept DEF OneListEach
<1>5. ASSUME NEW i, Proceed(i), pc' = pc
      PROVE  OneListEach'
  BY <1>1, <1>3, <1>5, ProceedHeld, ProceedGoing, ProceedReleased DEF OneListEach
<1>6. CASE Executes /\ pc' = pc + 1
  <2>1. CASE Instruction.op = "issue"
    <3>1. pc \in {5, 14} /\ Issue(StallingList(0))
      BY <1>2, <1>6, <2>1, Executed
    <3> QED
      BY <1>1, <1>3, <1>6, <3>1, IssueOne DEF OneListEach
  <2>2. CASE Instruction.op = "RdListStallStat"
    <3>1. pc \in {6, 15} /\ RdListStallStat
      BY <1>2, <1>6, <2>2, Executed
    <3> QED
      BY <1>1, <1>3, <1>6, <3>1, ReadOne DEF OneListEach
  <2>3. CASE Instruction.op = "WrListStallAck"
    <3>1. pc \in {10, 19} /\ WrListStallAck(0)
      BY <1>2, <1>6, <2>3, Executed
    <3> QED
      BY <1>1, <1>3, <1>6, <3>1, AckAll DEF OneListEach
  <2>4. CASE Instruction.op = "await" /\ pc # 4
    <3>1. pc \in {1, 11, 20} /\ FreeSlots = QueueDepth /\ UNCHANGED <<queue, stallstat>>
      BY <1>2, <1>6, <2>4, Executed DEF Holds, mfc
    <3> QED
      BY <1>1, <1>3, <1>6, <3>1, AllGone, QueueKept DEF OneListEach
  <2>5. CASE \/ Instruction.op \in {"WrTagMask", "WrTagUpdate", "poll", "RdTagStat", "print_result"}
             \/ Instruction.op = "await" /\ pc = 4
    <3>1. UNCHANGED <<queue, stallstat>>
      BY <1>6, <2>5, Executed DEF mfc, WrTagMask, WrTagUpdate, RdTagStat
    <3>2. pc \in {2, 3, 4, 7, 8, 9, 12, 13, 16, 17, 18, 21, 22}
      BY <1>2, <2>5
    <3> QED
      BY <1>1, <1>3, <1>6, <3>1, <3>2, QueueKept DEF OneListEach
  <2> QED
    BY <1>2, <1>6, <2>1, <2>2, <2>3, <2>4, <2>5, Executed
<1>7. CASE UpdateTag /\ pc' = pc
  BY <1>4, <1>7 DEF UpdateTag
<1> QED
  BY <1>4, <1>5, <1>6, <1>7, Moves DEF IInv, mfc

\* The one that has a barrier behind its list.
LEMMA AtBarrierKept ==
  ASSUME IInv, [Next]_vars
  PROVE  AtBarrier'
<1> SUFFICES ASSUME test = "barrier_commands" PROVE AtBarrier'
  BY Moves DEF AtBarrier, IInv
<1>1. /\ pc \in 1..8 /\ queue \in Seq(Commands) /\ Instruction = Threads["barrier_commands"][pc]
      /\ pc \in DOMAIN Threads["barrier_commands"]
  <2>1. Instruction = Threads["barrier_commands"][pc] /\ pc \in DOMAIN Threads["barrier_commands"]
    BY Here DEF IInv
  <2> QED
    BY <2>1, barrier_commandsIs DEF IInv, TypeOK
<1> DEFINE R == Remain["barrier_commands"]
<1>2. LET i == Instruction IN
      /\ i.op = "RdSigNotify1" => pc = 1
      /\ i.op = "issue" => \/ pc = 2 /\ i.command = StallingList(0)
                           \/ pc = 4 /\ i.command = Barrier(0)
      /\ i.op = "RdListStallStat" => pc = 3
      /\ i.op = "print" => pc \in {5, 7}
      /\ i.op = "await" => pc = 6 /\ i.condition = "one_complete"
      /\ i.op = "exit" => pc = 8
      /\ i.op \notin {"WrTagMask", "WrTagUpdate", "WrListStallAck", "RdTagStat", "poll", "print_result"}
  BY <1>1, barrier_commandsIs
<1>3. /\ pc <= 6 /\ spu # "exited"
      /\ pc <= 2 => Held(0)
      /\ pc = 3 => Going(0) /\ queue[1].kind = "list"
      /\ pc = 4 => Held(1) /\ queue[1].kind = "list"
      /\ pc \in {5, 6} => Barred
      /\ pc <= 5 => console = <<>>
      /\ pc > 5 => console = R
  BY <1>1 DEF IInv, AtBarrier
<1>4. pc = 5 => Append(<<>>, Instruction.text) = R
  <2>1. \A x : Append(<<>>, x) = <<x>>
    OBVIOUS
  <2> QED
    BY <1>1, <2>1, barrier_commandsIs
<1> HIDE DEF R
<1> SUFFICES /\ pc' <= 6 /\ spu' # "exited"
             /\ pc' <= 2 => Held(0)'
             /\ pc' = 3 => Going(0)' /\ queue'[1].kind = "list"
             /\ pc' = 4 => Held(1)' /\ queue'[1].kind = "list"
             /\ pc' \in {5, 6} => Barred'
             /\ console' = IF pc' <= 5 THEN <<>> ELSE R
  BY DEF AtBarrier, R
<1>5. CASE UNCHANGED <<queue, stallstat, pc, console>> /\ (Instruction.op = "exit" \/ spu' \in {spu, "running"})
  <2>1. spu' # "exited"
    BY <1>2, <1>3, <1>5
  <2> QED
    BY <1>1, <1>3, <1>5, <2>1, QueueKept
<1>6. ASSUME NEW i, Proceed(i), pc' = pc, spu' = spu, console' = console
      PROVE  /\ pc = 3 /\ Going(0)' /\ queue'[1].kind = "list"
  BY <1>1, <1>3, <1>6, ProceedHeld, ProceedGoing, ProceedStalled
<1>7. CASE Executes /\ pc' = pc + 1 /\ spu' = spu
  <2>1. CASE Instruction.op = "RdSigNotify1"
    BY <1>2, <1>3, <1>7, <2>1, Executed, QueueKept DEF mfc
  <2>2. CASE Instruction.op = "issue" /\ pc = 2
    <3>1. Issue(StallingList(0)) /\ console' = console
      BY <1>2, <1>7, <2>2, Executed
    <3> QED
      BY <1>1, <1>3, <1>7, <2>2, <3>1, IssueOne
  <2>3. CASE Instruction.op = "RdListStallStat"
    <3>1. RdListStallStat /\ console' = console /\ pc = 3
      BY <1>2, <1>7, <2>3, Executed
    <3> QED
      BY <1>1, <1>3, <1>7, <3>1, ReadOne
  <2>4. CASE Instruction.op = "issue" /\ pc = 4
    <3>1. Issue(Barrier(0)) /\ console' = console
      BY <1>2, <1>7, <2>4, Executed
    <3>2. Barrier(0).kind = "barrier" /\ Barrier(0).tag = 0
      BY DEF Barrier, Transfer, List
    <3>3. Len(queue) = 1 /\ queue[1].tag = 0 /\ queue[1].stalled /\ queue[1].kind = "list"
      <4>1. Held(1) /\ queue[1].kind = "list"
        BY <1>3, <2>4
      <4>2. Len(queue) = 1 /\ \A i \in DOMAIN queue : Halted(queue[i])
        BY <4>1 DEF Held
      <4>3. queue \in Seq(Commands)
        BY <1>1
      <4>4. Halted(queue[1])
        BY <4>2, <4>3
      <4> QED
        BY <4>1, <4>2, <4>4 DEF Halted
    <3> DEFINE b == Barrier(0)
    <3>4. queue' = Append(queue, b)
      BY <3>1 DEF Issue
    <3> HIDE DEF b
    <3>5. Len(queue') = 2 /\ queue'[1] = queue[1] /\ queue'[2] = b
      <4>1. queue \in Seq(Commands) /\ Len(queue) = 1
        BY <1>1, <3>3
      <4>2. b \in Commands
        BY CommandsIssued DEF b
      <4> QED
        BY <3>4, <4>1, <4>2, AppendSecond, Zenon
    <3>6. Barred'
      BY <3>2, <3>3, <3>5 DEF Barred, b
    <3> QED
      BY <1>3, <1>7, <2>4, <3>1, <3>6
  <2>5. CASE Instruction.op = "print"
    <3>1. pc = 5 /\ UNCHANGED <<queue, stallstat>> /\ console' = Append(console, Instruction.text)
      BY <1>2, <1>3, <1>7, <2>5, Executed DEF mfc
    <3> QED
      BY <1>3, <1>4, <1>7, <3>1, QueueKept
  <2>6. CASE Instruction.op = "await"
    <3>1. pc = 6 /\ FreeSlots >= QueueDepth - 1 /\ Len(queue) = 2
      BY <1>2, <1>3, <1>7, <2>6, Executed DEF Holds, Barred
    <3> QED
      BY <3>1, MfcTestsAssumption DEF FreeSlots
  <2> QED
    BY <1>2, <1>7, <2>1, <2>2, <2>3, <2>4, <2>5, <2>6, Executed
<1>8. CASE UpdateTag /\ UNCHANGED <<pc, spu, console>>
  BY <1>5, <1>8 DEF UpdateTag
<1> QED
  <2>1. CASE \E i : Proceed(i) /\ UNCHANGED <<pc, spu, console>>
    BY <1>3, <1>6, <2>1
  <2>2. Instruction.op # "poll"
    BY <1>2
  <2> QED
    BY <1>5, <1>7, <1>8, <2>1, <2>2, Moves DEF IInv, mfc

\* Those that have a full barrier behind theirs.
LEMMA AtFullBarrierKept ==
  ASSUME IInv, [Next]_vars
  PROVE  AtFullBarrier'
<1> SUFFICES ASSUME test \in {"eieio_command", "sync_command"} PROVE AtFullBarrier'
  BY Moves DEF AtFullBarrier, IInv
<1> DEFINE P == Threads[test]
<1>1. /\ pc \in 1..17 /\ pc \in Nat /\ queue \in Seq(Commands) /\ Instruction = P[pc]
      /\ pc \in DOMAIN P
  <2>1. Instruction = Threads[test][pc] /\ pc \in DOMAIN Threads[test]
    BY Here DEF IInv
  <2>2. DOMAIN P = 1..17
    BY <2>1, FullBarrierIs
  <2>3. queue \in Seq(Commands)
    BY DEF IInv, TypeOK
  <2> QED
    BY <2>1, <2>2, <2>3
<1> DEFINE l == StallingTwice
<1>2. /\ Instruction.op = "await" => pc \in {1, 6, 8, 11}
      /\ Instruction.op = "RdSigNotify1" => pc = 2
      /\ Instruction.op = "print" => pc \in {3, 5, 7, 9, 12, 16}
      /\ Instruction.op = "issue" => pc \in {4, 10}
      /\ Instruction.op = "WrTagMask" => pc = 13
      /\ Instruction.op = "WrTagUpdate" => pc = 14
      /\ Instruction.op = "RdTagStat" => pc = 15
      /\ Instruction.op = "exit" => pc = 17
      /\ Instruction.op \notin {"RdListStallStat", "WrListStallAck", "poll", "print_result"}
      /\ pc = 4 => Instruction.command = l
      /\ pc = 8 => Instruction.condition = "stalled"
      /\ pc = 10 => Instruction.command = Sync(1)
      /\ pc = 13 => Instruction.value = {1}
      /\ pc \in {3, 5, 7, 9, 12} => Instruction.text = "ok"
  <2>1. P = Threads[test]
    OBVIOUS
  <2> HIDE DEF P
  <2>2. /\ Instruction.op = "await" => pc \in {1, 6, 8, 11}
        /\ Instruction.op = "RdSigNotify1" => pc = 2
        /\ Instruction.op = "print" => pc \in {3, 5, 7, 9, 12, 16}
        /\ Instruction.op = "issue" => pc \in {4, 10}
        /\ Instruction.op = "WrTagMask" => pc = 13
        /\ Instruction.op = "WrTagUpdate" => pc = 14
        /\ Instruction.op = "RdTagStat" => pc = 15
        /\ Instruction.op = "exit" => pc = 17
        /\ Instruction.op \notin {"RdListStallStat", "WrListStallAck", "poll", "print_result"}
    BY <1>1, <2>1, FullBarrierIs
  <2>3. /\ pc = 8 => Instruction.condition = "stalled"
        /\ pc = 10 => Instruction.command = Sync(1)
        /\ pc = 13 => Instruction.value = {1}
        /\ pc \in {3, 5, 7, 9, 12} => Instruction.text = "ok"
    BY <1>1, <2>1, FullBarrierIs
  <2>4. pc = 4 => Instruction.command = l
    BY <1>1, <2>1, FullBarrierIs DEF l
  <2> QED
    BY <2>2, <2>3, <2>4, Zenon
<1>3. /\ pc <= 15 /\ spu # "exited"
      /\ pc <= 4 => queue = <<>> /\ stallstat = {}
      /\ pc \in 5..8 => Stalling
      /\ pc \in {9, 10} => Stalled
      /\ pc \in 11..15 => Barred /\ queue[2].tag = 1
      /\ pc \in {14, 15} => tagmask = {1}
      /\ pc <= 14 => update = NoUpdate
      /\ tagstat = 0
      /\ console \in Seq({"ok"}) /\ Len(console) = Said
  BY DEF IInv, AtFullBarrier
<1> HIDE DEF P, l
<1> SUFFICES /\ pc' <= 15 /\ spu' # "exited"
             /\ pc' <= 4 => queue' = <<>> /\ stallstat' = {}
             /\ pc' \in 5..8 => Stalling'
             /\ pc' \in {9, 10} => Stalled'
             /\ pc' \in 11..15 => Barred' /\ queue'[2].tag = 1
             /\ pc' \in {14, 15} => tagmask' = {1}
             /\ pc' <= 14 => update' = NoUpdate
             /\ tagstat' = 0
             /\ console' \in Seq({"ok"}) /\ Len(console') = Said'
  BY DEF AtFullBarrier
<1>4. CASE UNCHANGED <<mfc, pc, console>> /\ (Instruction.op = "exit" \/ spu' \in {spu, "running"})
  BY <1>1, <1>2, <1>3, <1>4, QueueKept DEF mfc, Said
<1>5. ASSUME NEW i, Proceed(i), UNCHANGED <<pc, spu, console>>
      PROVE  /\ pc \in 5..8 /\ Stalling'
             /\ UNCHANGED <<tagmask, update, tagstat>>
  <2>1. UNCHANGED <<tagmask, update, tagstat>>
    BY <1>5 DEF Proceed
  <2>2. pc \in 5..8
    <3>1. queue # <<>>
      BY <1>5, Proceeds, <1>1
    <3> QED
      BY <1>1, <1>3, <1>5, <3>1, ProceedStalled
  <2> QED
    BY <1>1, <1>3, <1>5, <2>1, <2>2, ProceedStalling
<1>6. ~UpdateTag
  <2>1. pc <= 14 => update = NoUpdate
    BY <1>3
  <2>2. pc = 15 => 2 \in DOMAIN queue /\ queue[2].tag \in tagmask
    BY <1>1, <1>3 DEF Barred
  <2> QED
    BY <1>1, <1>3, <2>1, <2>2 DEF UpdateTag, NoUpdate, UpdateAll
<1>7. CASE Executes /\ pc' = pc + 1 /\ spu' = spu
  <2>1. CASE Instruction.op \in {"await", "RdSigNotify1"} /\ pc # 8
    <3>1. UNCHANGED <<mfc, console>> /\ pc \in {1, 2, 6, 11}
      BY <1>2, <1>7, <2>1, Executed
    <3> QED
      BY <1>3, <1>7, <3>1, QueueKept DEF mfc, Said
  <2>2. CASE Instruction.op = "await" /\ pc = 8
    <3>1. UNCHANGED <<mfc, console>> /\ stallstat # {}
      BY <1>2, <1>7, <2>2, Executed DEF Holds
    <3>2. Stalled
      <4>1. Stalling
        BY <1>3, <2>2
      <4> QED
        BY <3>1, <4>1, Zenon DEF Stalling, Stalled
    <3>3. Stalled'
      BY <3>1, <3>2, QueueKept DEF mfc
    <3> QED
      BY <1>3, <1>7, <2>2, <3>1, <3>3 DEF mfc, Said
  <2>3. CASE Instruction.op = "print"
    <3>1. UNCHANGED mfc /\ pc \in {3, 5, 7, 9, 12} /\ console' = Append(console, "ok")
      BY <1>2, <1>3, <1>7, <2>3, Executed
    <3>2. console' \in Seq({"ok"}) /\ Len(console') = Len(console) + 1
      BY <1>3, <3>1
    <3>3. /\ pc' <= 4 => queue' = <<>> /\ stallstat' = {}
          /\ pc' \in 5..8 => Stalling'
          /\ pc' \in {9, 10} => Stalled'
          /\ pc' \in 11..15 => Barred' /\ queue'[2].tag = 1
      BY <1>3, <1>7, <3>1, QueueKept DEF mfc
    <3>4. Said' = Said + 1
      BY <1>7, <3>1 DEF Said
    <3> QED
      BY <1>3, <1>7, <3>1, <3>2, <3>3, <3>4 DEF mfc
  <2>4. CASE Instruction.op = "issue" /\ pc = 4
    <3>1. queue' = Append(<<>>, l) /\ UNCHANGED <<stallstat, tagmask, update, tagstat, console>>
      BY <1>2, <1>3, <1>7, <2>4, Executed DEF Issue
    <3>2. Len(queue') = 1 /\ queue'[1] = l
      BY <3>1
    <3>3. l.kind = "list" /\ l.left = <<TRUE, TRUE>>
      BY Zenon DEF l, List, StallingTwice
    <3>4. Stalling'
      <4>1. stallstat' = {} /\ queue'[1].kind = "list" /\ Len(queue') = 1
        BY <1>3, <2>4, <3>1, <3>2, <3>3
      <4>2. queue'[1].left = <<TRUE, TRUE>>
        BY <3>2, <3>3, Zenon
      <4> QED
        BY <4>1, <4>2, Zenon DEF Stalling
    <3> QED
      BY <1>3, <1>7, <2>4, <3>1, <3>4 DEF Said
  <2>5. CASE Instruction.op = "issue" /\ pc = 10
    <3> DEFINE s == Sync(1)
    <3>1. queue' = Append(queue, s) /\ UNCHANGED <<stallstat, tagmask, update, tagstat, console>>
      BY <1>2, <1>3, <1>7, <2>5, Executed DEF Issue
    <3>2. s.kind = "sync" /\ s.tag = 1 /\ s \in Commands
      BY CommandsIssued DEF Sync, Transfer, List
    <3> HIDE DEF s
    <3>3. Len(queue) = 1
      BY <1>3, <2>5 DEF Stalled
    <3>4. Len(queue') = 2 /\ queue'[1] = queue[1] /\ queue'[2] = s
      <4>1. queue \in Seq(Commands) /\ Len(queue) = 1 /\ s \in Commands
        BY <1>1, <3>2, <3>3
      <4> QED
        BY <3>1, <4>1, AppendSecond, Zenon
    <3>5. Barred' /\ queue'[2].tag = 1
      BY <1>3, <2>5, <3>2, <3>4 DEF Stalled, Barred
    <3> QED
      BY <1>3, <1>7, <2>5, <3>1, <3>5 DEF Said
  <2>6. CASE Instruction.op = "WrTagMask"
    <3>1. pc = 13 /\ tagmask' = {1} /\ UNCHANGED <<queue, stallstat, update, tagstat, console>>
      BY <1>2, <1>7, <2>6, Executed DEF WrTagMask
    <3> QED
      BY <1>3, <1>7, <3>1, QueueKept DEF Said
  <2>7. CASE Instruction.op = "WrTagUpdate"
    <3>1. pc = 14 /\ UNCHANGED <<queue, stallstat, tagmask, tagstat, console>>
      BY <1>2, <1>7, <2>7, Executed DEF WrTagUpdate
    <3> QED
      BY <1>3, <1>7, <3>1, QueueKept DEF Said
  <2>8. Instruction.op # "RdTagStat"
    BY <1>3, <1>7, Executed DEF RdTagStat
  <2> QED
    BY <1>2, <1>7, <2>1, <2>2, <2>3, <2>4, <2>5, <2>6, <2>7, <2>8, Executed
<1> QED
  <2>1. CASE \E i : Proceed(i) /\ UNCHANGED <<pc, spu, console>>
    BY <1>3, <1>5, <2>1 DEF Said
  <2>2. Instruction.op # "poll"
    BY <1>2
  <2> QED
    BY <1>4, <1>6, <1>7, <2>1, <2>2, Moves DEF IInv

\* The one that looks at the counts.
LEMMA PollingKept ==
  ASSUME IInv, [Next]_vars
  PROVE  Polling'
<1>1. /\ Instruction = Threads[test][pc] /\ test \in DOMAIN Threads /\ pc \in DOMAIN Threads[test] /\ pc \in Nat
      /\ found = FALSE
  BY Here DEF IInv, Polling
<1>2. CASE test # "MFC_WrTagUpdate"
  <2>1. test \in {"Lists_execution", "barrier_commands", "eieio_command", "sync_command", "list_transfer_size"}
    BY <1>1, <1>2 DEF Threads
  <2>2. Instruction.op \notin {"poll", "print_result"}
    <3>1. CASE test = "Lists_execution"
      BY <1>1, <3>1, Lists_executionIs
    <3>2. CASE test = "barrier_commands"
      BY <1>1, <3>2, barrier_commandsIs
    <3>3. CASE test \in {"eieio_command", "sync_command"}
      BY <1>1, <3>3, FullBarrierIs
    <3>4. CASE test = "list_transfer_size"
      BY <1>1, <3>4, list_transfer_sizeIs
    <3> QED
      BY <2>1, <3>1, <3>2, <3>3, <3>4
  <2>3. found' = found /\ test' = test
    BY <2>2, Moves, Executed DEF IInv
  <2> QED
    BY <1>1, <1>2, <2>3 DEF Polling
<1>3. CASE test = "MFC_WrTagUpdate"
  <2>1. pc \in 5..12 => tagstat = 1
    BY <1>3 DEF IInv, Polling
  <2>2. console \in Seq({FALSE}) /\ tagstat \in 0..1
    BY <1>3 DEF IInv, Polling, TypeOK
  <2> DEFINE P == Threads["MFC_WrTagUpdate"]
  <2>3. Instruction = P[pc] /\ pc \in DOMAIN P /\ P = Threads["MFC_WrTagUpdate"]
    BY <1>1, <1>3
  <2> HIDE DEF P
  <2>4. /\ Instruction.op = "await" => pc \in {1, 4, 11, 20}
        /\ Instruction.op = "issue" => pc \in {5, 14}
        /\ Instruction.op = "RdListStallStat" => pc \in {6, 15}
        /\ Instruction.op = "WrListStallAck" => pc \in {10, 19}
        /\ Instruction.op = "WrTagMask" => pc \in {2, 7, 16}
        /\ Instruction.op = "WrTagUpdate" => pc \in {3, 8, 17}
        /\ Instruction.op = "poll" => pc \in {9, 18}
        /\ Instruction.op = "RdTagStat" => pc \in {12, 21}
        /\ Instruction.op = "print_result" => pc \in {13, 22}
        /\ Instruction.op \notin {"RdSigNotify1", "print"}
    BY <2>3, MFC_WrTagUpdateIs
  <2>5. /\ pc = 4 => Instruction.condition = "status"
        /\ pc = 9 => Instruction.count = "status"
        /\ pc = 18 => Instruction.count = "update"
    BY <2>3, MFC_WrTagUpdateIs
  <2> SUFFICES found' = FALSE /\ (pc' \in 5..12 => tagstat' = 1) /\ console' \in Seq({FALSE})
    BY Zenon DEF Polling
  <2>6. CASE UNCHANGED <<mfc, pc, found, console>>
    BY <1>1, <2>1, <2>2, <2>6 DEF mfc
  <2>7. CASE (\E i : Proceed(i)) /\ UNCHANGED <<pc, spu, found, console>>
    BY <1>1, <2>1, <2>2, <2>7 DEF Proceed
  <2>8. CASE UpdateTag /\ UNCHANGED <<pc, spu, found, console>>
    BY <1>1, <2>2, <2>8 DEF UpdateTag
  <2>9. CASE /\ Instruction.op = "poll" /\ found' = (Instruction.count = "status" /\ tagstat = 0)
             /\ UNCHANGED <<mfc, pc, spu, console>>
    <3>1. ~(Instruction.count = "status" /\ tagstat = 0)
      BY <2>1, <2>4, <2>5, <2>9
    <3>2. found' = FALSE
      BY <2>9, <3>1, Zenon
    <3> QED
      BY <2>1, <2>2, <2>9, <3>2 DEF mfc
  <2>10. CASE Executes /\ pc' = pc + 1
    <3>1. CASE Instruction.op \in {"await", "poll"}
      <4>1. UNCHANGED <<found, console, tagstat>> /\ (pc = 4 => tagstat = 1)
        <5>1. UNCHANGED <<found, console, tagstat>>
          BY <2>10, <3>1, Executed DEF mfc
        <5>2. pc = 4 => tagstat = 1
          <6> SUFFICES ASSUME pc = 4 PROVE tagstat = 1
            OBVIOUS
          <6>1. Instruction.condition = "status" /\ Instruction.op = "await"
            BY <2>4, <2>5, <3>1
          <6>2. Holds(Instruction.condition)
            BY <2>10, <6>1, Executed
          <6>3. Holds("status")
            BY <6>1, <6>2
          <6> QED
            BY <6>3 DEF Holds
        <5> QED
          BY <5>1, <5>2
      <4> QED
        BY <1>1, <2>1, <2>2, <2>4, <2>10, <3>1, <4>1
    <3>2. CASE Instruction.op = "print_result"
      <4>1. console' = Append(console, FALSE) /\ found' = FALSE /\ tagstat' = tagstat
        BY <1>1, <2>10, <3>2, Executed, Zenon DEF mfc
      <4>2. console' \in Seq({FALSE})
        BY <2>2, <4>1
      <4> QED
        BY <2>1, <2>4, <2>10, <3>2, <4>1, <4>2
    <3>3. CASE Instruction.op = "RdTagStat"
      <4>1. UNCHANGED <<found, console>>
        BY <2>10, <3>3, Executed
      <4> QED
        BY <1>1, <2>2, <2>4, <2>10, <3>3, <4>1
    <3>4. CASE Instruction.op \in {"issue", "RdListStallStat", "WrListStallAck", "WrTagMask", "WrTagUpdate"}
      <4>1. UNCHANGED <<found, console, tagstat>>
        BY <2>10, <3>4, Executed DEF Issue, RdListStallStat, WrListStallAck, WrTagMask, WrTagUpdate
      <4> QED
        BY <1>1, <2>1, <2>2, <2>4, <2>10, <3>4, <4>1
    <3> QED
      BY <2>4, <2>10, <3>1, <3>2, <3>3, <3>4, Executed
  <2> QED
    BY <2>6, <2>7, <2>8, <2>9, <2>10, Moves DEF IInv
<1> QED
  BY <1>2, <1>3

-----------------------------------------------------------------------------
(* The theorems. *)

\* The invariant holds at the start.
LEMMA Starts == Init => IInv
<1> SUFFICES ASSUME Init PROVE IInv
  OBVIOUS
<1>1. /\ queue = <<>> /\ stallstat = {} /\ update = NoUpdate /\ tagstat = 0
      /\ pc = 1 /\ spu = "off" /\ console = <<>> /\ tagmask = {}
  BY DEF Init, Idle, NoTags
<1>2. found = FALSE
  BY Zenon DEF Init
<1>3. Held(0)
  BY <1>1 DEF Held
<1>4. console = <<>> /\ Said = 0
  BY <1>1 DEF Said
<1> QED
  BY <1>1, <1>2, <1>3, <1>4, TypesStart
     DEF IInv, TwoLists, OneListEach, AtBarrier, AtFullBarrier, Polling

\* Every step keeps the invariant.
LEMMA Inductive == IInv /\ [Next]_vars => IInv'
BY TypesKept, TwoListsKept, OneListEachKept, AtBarrierKept, AtFullBarrierKept, PollingKept DEF IInv

\* The invariant holds throughout.
LEMMA Invariance == Spec => []IInv
BY Starts, Inductive, PTL DEF Spec

\* The queue, the channels and the thread have their types throughout.
THEOREM TypeCorrectness == Spec => []TypeOK
BY Invariance, PTL DEF IInv

\* WrListStallAck lets go on what has stalled: at each one that
\* lists_execution_order_after_stall.c and MFC_WrTagUpdate.c write, every list of
\* the tag that is in the queue has stalled.
THEOREM EveryStallSeen == Spec => []AckAfterEveryStall
<1>1. IInv => AckAfterEveryStall
  <2> SUFFICES ASSUME IInv, Instruction.op = "WrListStallAck", NEW i \in DOMAIN queue PROVE queue[i].stalled
    BY DEF AckAfterEveryStall, Fetch
  <2>1. /\ Instruction = Threads[test][pc] /\ test \in DOMAIN Threads /\ pc \in DOMAIN Threads[test]
    BY Here DEF IInv
  <2>2. test \in {"Lists_execution", "MFC_WrTagUpdate", "barrier_commands", "eieio_command", "sync_command",
                  "list_transfer_size"}
    BY <2>1 DEF Threads
  <2>3. ASSUME NEW k \in Nat, Held(k) PROVE queue[i].stalled
    BY <2>3 DEF Held, Halted
  <2>4. CASE test = "Lists_execution"
    <3>1. pc = 6
      BY <2>1, <2>4, Lists_executionIs
    <3> QED
      BY <2>3, <2>4, <3>1 DEF IInv, TwoLists
  <2>5. CASE test = "MFC_WrTagUpdate"
    <3>1. pc \in {10, 19}
      BY <2>1, <2>5, MFC_WrTagUpdateIs
    <3> QED
      BY <2>3, <2>5, <3>1 DEF IInv, OneListEach
  <2>6. CASE test = "barrier_commands"
    BY <2>1, <2>6, barrier_commandsIs
  <2>7. CASE test \in {"eieio_command", "sync_command"}
    BY <2>1, <2>7, FullBarrierIs
  <2>8. CASE test = "list_transfer_size"
    BY <2>1, <2>8, list_transfer_sizeIs
  <2> QED
    BY <2>2, <2>4, <2>5, <2>6, <2>7, <2>8
<1> QED
  BY <1>1, Invariance, PTL

\* "Waiting for the command to complete" is the last that barrier_commands says,
\* and five times "ok" the most that eieio_command and sync_command say: their
\* barriers never complete, as the list before them is never acknowledged.
\* MFC_WrTagUpdate never sees a count at 0.
THEOREM BarriersHold == Spec => []NothingMore
<1>1. IInv => NothingMore
  <2> SUFFICES ASSUME IInv PROVE NothingMore
    OBVIOUS
  <2>1. DOMAIN Remain = {"barrier_commands", "eieio_command", "sync_command"}
    BY DEF Remain
  <2>2. CASE test = "barrier_commands"
    <3>1. spu # "exited" /\ (console = <<>> \/ console = Remain[test])
      BY <2>2, Zenon DEF IInv, AtBarrier
    <3>2. Remain[test] = <<"Waiting for the command to complete">>
      BY <2>2, Zenon DEF Remain
    <3> DEFINE w == "Waiting for the command to complete"
    <3> HIDE DEF w
    <3>3. Remain[test] = <<w>>
      BY <3>2, Zenon DEF w
    <3>4. Len(console) <= Len(Remain[test]) /\ \A i \in DOMAIN console : console[i] = Remain[test][i]
      <4>1. CASE console = <<>>
        BY <3>3, <4>1
      <4>2. CASE console = Remain[test]
        BY <3>3, <4>2
      <4> QED
        BY <3>1, <4>1, <4>2
    <3> QED
      BY <2>1, <2>2, <3>1, <3>4 DEF NothingMore
  <2>3. CASE test \in {"eieio_command", "sync_command"}
    <3> DEFINE o == "ok"
    <3>1. spu # "exited" /\ console \in Seq({o}) /\ Len(console) = Said /\ pc <= 15
      BY <2>3 DEF IInv, AtFullBarrier
    <3>2. Remain[test] = [i \in 1..5 |-> o]
      <4>1. ASSUME NEW x, NEW y, NEW t \in {"eieio_command", "sync_command"}
            PROVE  [barrier_commands |-> x, eieio_command |-> y, sync_command |-> y][t] = y
        OBVIOUS
      <4> QED
        BY <2>3, <4>1, Zenon DEF Remain, Oks
    <3>3. Len(Remain[test]) = 5 /\ Said <= 5
      BY <3>2 DEF Said
    <3>4. ASSUME NEW i \in DOMAIN console PROVE console[i] = Remain[test][i]
      <4>1. console[i] = o /\ i \in 1..5
        BY <3>1, <3>3
      <4> QED
        BY <3>2, <4>1
    <3> QED
      BY <2>1, <2>3, <3>1, <3>3, <3>4 DEF NothingMore
  <2>4. CASE test \notin DOMAIN Remain
    <3>1. ASSUME test = "MFC_WrTagUpdate", NEW i \in DOMAIN console PROVE console[i] = FALSE
      <4>1. console \in Seq({FALSE})
        BY <3>1 DEF IInv, Polling
      <4>2. ASSUME NEW S, NEW s \in Seq(S), NEW j \in DOMAIN s PROVE s[j] \in S
        OBVIOUS
      <4>3. i \in DOMAIN console
        BY <3>1
      <4>4. console[i] \in {FALSE}
        BY <4>1, <4>2, <4>3, Zenon
      <4> QED
        BY <4>4, Zenon
    <3> QED
      BY <2>4, <3>1, Zenon DEF NothingMore
  <2> QED
    BY <2>1, <2>2, <2>3, <2>4
<1> QED
  BY <1>1, Invariance, PTL
==============================================================================
