-------------------------------- MODULE RawSpu --------------------------------
(***************************************************************************)
(* A raw SPU as the PPU sees it: the problem state registers, the three    *)
(* mailboxes, the class 2 interrupt and the proxy command queue, as the    *)
(* tests use them and their results describe them.                         *)
(***************************************************************************)
EXTENDS Naturals

VARIABLES status,    \* SPU_Status: "reset", "running" or "stopped"
          npc,       \* SPU_NPC while the SPU does not run
          inmbox,    \* the words in the inbound mailbox
          outmbox,   \* those in the outbound mailbox
          intrmbox,  \* those in the outbound interrupt mailbox
          intstat,   \* SPU_INT2_STAT_MAILBOX_INT
          command,   \* what was written to MFC_Class_CMD
          args,      \* whether its arguments were written
          proxy,     \* the command in the proxy queue
          ls,        \* the byte of the local storage, and
          buf        \* the byte of main storage that commands transfer

mailboxes == <<inmbox, outmbox, intrmbox, intstat>>
proxies == <<command, args, proxy, ls, buf>>

InDepth == 4
NoCommand == "none"

Reset == /\ status = "reset" /\ npc = 0
         /\ inmbox = 0 /\ outmbox = 0 /\ intrmbox = 0 /\ intstat = FALSE
         /\ command = NoCommand /\ args = FALSE /\ proxy = NoCommand
         /\ ls = 0 /\ buf = 0

\* SPU_RunCntl.
RequestRun == /\ status' = "running"
              /\ UNCHANGED <<npc, mailboxes, proxies>>
StopSpu == /\ status' = "stopped"
           /\ UNCHANGED <<npc, mailboxes, proxies>>

LsSize == 16   \* 0x40000
Word(address) == address - (address % 4)

\* The two low bits and those above the local storage are not kept, and nothing
\* is while the SPU runs.
WriteNpc(value) == /\ npc' = IF status = "running" THEN npc ELSE Word(value % LsSize)
                   /\ UNCHANGED <<status, mailboxes, proxies>>
Npc == IF status = "running" THEN 0 ELSE npc

\* A word more than fit replaces the last one.
WriteInMbox == /\ inmbox' = IF inmbox < InDepth THEN inmbox + 1 ELSE InDepth
               /\ UNCHANGED <<status, npc, outmbox, intrmbox, intstat, proxies>>
ReadOutMbox == /\ outmbox' = 0
               /\ UNCHANGED <<status, npc, inmbox, intrmbox, intstat, proxies>>
\* Reading an empty interrupt mailbox is no error.
ReadIntrMbox == /\ intrmbox' = 0
                /\ UNCHANGED <<status, npc, inmbox, outmbox, intstat, proxies>>
\* The interrupt is level triggered, and the read does not take it back.
ClearInterrupt == /\ intstat' = FALSE
                  /\ UNCHANGED <<status, npc, inmbox, outmbox, intrmbox, proxies>>

\* The SPU's side: it stalls at a full or an empty mailbox.
RdInMbox == /\ inmbox > 0 /\ inmbox' = inmbox - 1
            /\ UNCHANGED <<status, npc, outmbox, intrmbox, intstat, proxies>>
WrOutMbox == /\ outmbox = 0 /\ outmbox' = 1
             /\ UNCHANGED <<status, npc, inmbox, intrmbox, intstat, proxies>>
WrOutIntrMbox == /\ intrmbox = 0 /\ intrmbox' = 1 /\ intstat' = TRUE
                 /\ UNCHANGED <<status, npc, inmbox, outmbox, proxies>>

StoreLs(byte) == /\ ls' = byte
                 /\ UNCHANGED <<status, npc, mailboxes, command, args, proxy, buf>>
FillBuf(byte) == /\ buf' = byte
                 /\ UNCHANGED <<status, npc, mailboxes, command, args, proxy, ls>>
WriteArgs == /\ args' = TRUE
             /\ UNCHANGED <<status, npc, mailboxes, command, proxy, ls, buf>>
WriteCommand(c) == /\ command' = c
                   /\ UNCHANGED <<status, npc, mailboxes, args, proxy, ls, buf>>

\* It is the read of MFC_CMDStatus that queues the command, if it has its
\* arguments.
ReadCmdStatus == /\ proxy' = IF args THEN command ELSE proxy
                 /\ command' = NoCommand /\ args' = FALSE
                 /\ UNCHANGED <<status, npc, mailboxes, ls, buf>>

Transfer == /\ proxy # NoCommand
            /\ proxy' = NoCommand
            /\ ls' = IF proxy = "get" THEN buf ELSE ls
            /\ buf' = IF proxy = "put" THEN ls ELSE buf
            /\ UNCHANGED <<status, npc, mailboxes, command, args>>
=============================================================================
