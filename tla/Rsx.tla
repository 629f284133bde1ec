-------------------------------- MODULE Rsx --------------------------------
(***************************************************************************)
(* The RSX as the tests see it: a front end that reads commands from io    *)
(* memory between get and put, and an engine that executes the methods it  *)
(* is handed, in order but later.  None of it is in the repository; it is  *)
(* what rsx_header.h and the tests rely on.  The log beside the test       *)
(* "cellGcmSetFlip internals" shows what SetFlip is made of: a release of  *)
(* label 1 by the front end, and a method that flips.  A graphics error    *)
(* stops the RSX: what the console wrote for the tests that cause one is a *)
(* dump of its state.  The dumps of "Fragment program address 0" and       *)
(* "TEXTURE_SIZE" show that a reference waits for the draws before it: Ref *)
(* is still ffffffff there, though the draw that failed came first.        *)
(***************************************************************************)
EXTENDS Naturals, Sequences

CONSTANTS Offsets,    \* the io offsets, one per command
          PipeDepth,  \* how many methods the engine can be behind
          FrameDepth, \* the draws a frame keeps; more make no difference
          NoLink,     \* the value of link outside a called subroutine
          Words,      \* the words of the labels the tests use
          Fenced      \* the value -2 the tests' fences write to label 64

VARIABLES io,         \* the command at each offset
          put, get,   \* CellGcmControl
          link,       \* where the subroutine returns to; there is one level
          halted,     \* a graphics error
          ref,        \* CellGcmControl, written by SET_REFERENCE
          label,      \* what each word of the labels holds
          pipe,       \* the methods handed to the engine and not executed yet
          frame,      \* the draws that made up the color buffer, in order
          flip        \* the flip: "done", "released", "queued" for the vblank

Cmd(op, arg) == [op |-> op, arg |-> arg]
Nop == Cmd("nop", 0)
Jmp(l) == Cmd("jmp", l)
CallTo(l) == Cmd("call", l)
Ret == Cmd("ret", 0)
Invalid == Cmd("invalid", 0)
Draw(x) == Cmd("draw", x)
BadDraw == Cmd("bad_draw", 0)
Acquire(at, v) == Cmd("wait_label", [at |-> at, value |-> v])
Release(at, v) == Cmd("release", [at |-> at, value |-> v])
TextureRelease(at, v) == Cmd("texture_label", [at |-> at, value |-> v])
BackEndRelease(at, v) == Cmd("label", [at |-> at, value |-> v])
WaitForIdle == Cmd("idle", 0)
Flip == Cmd("flip", 0)
WaitFlip == Cmd("wait_flip", 0)
Reference(v) == Cmd("ref", v)

Methods == {"draw", "bad_draw", "label", "texture_label", "flip"}

\* Of a word its bytes 2 and 0 are kept, as two digits; the back end exchanges
\* them.  The library does so before, for its callers.
SwapBytes(v) == 10 * (v % 10) + (v \div 10)
Word(index) == 16 * index
WriteLabel(v) == BackEndRelease(Word(64), SwapBytes(v))
WaitLabel(v) == Acquire(Word(64), v)
-----------------------------------------------------------------------------
(* The front end. *)

Reads(op) == ~halted /\ get # put /\ io[get].op = op
Arg == io[get].arg

ReadNop == /\ Reads("nop")
           /\ get' = get + 1
           /\ UNCHANGED <<io, put, link, halted, ref, label, pipe, frame, flip>>

ReadJmp == /\ Reads("jmp")
           /\ get' = Arg
           /\ UNCHANGED <<io, put, link, halted, ref, label, pipe, frame, flip>>

\* A call inside a subroutine, a return outside of one and a command that is
\* none are graphics errors.
ReadCall == /\ Reads("call") /\ link = NoLink
            /\ link' = get + 1
            /\ get' = Arg
            /\ UNCHANGED <<io, put, halted, ref, label, pipe, frame, flip>>

ReadReturn == /\ Reads("ret") /\ link # NoLink
              /\ get' = link
              /\ link' = NoLink
              /\ UNCHANGED <<io, put, halted, ref, label, pipe, frame, flip>>

GraphicsError == /\ \/ Reads("invalid")
                    \/ Reads("call") /\ link # NoLink
                    \/ Reads("ret") /\ link = NoLink
                 /\ halted' = TRUE
                 /\ UNCHANGED <<io, put, get, link, ref, label, pipe, frame, flip>>

ReadReference == /\ Reads("ref")
                 /\ pipe = <<>>
                 /\ ref' = Arg
                 /\ get' = get + 1
                 /\ UNCHANGED <<io, put, link, halted, label, pipe, frame, flip>>

\* NV406E_SEMAPHORE_ACQUIRE holds the front end until the label has the value.
ReadWaitLabel == /\ Reads("wait_label")
                 /\ label[Arg.at] = Arg.value
                 /\ get' = get + 1
                 /\ UNCHANGED <<io, put, link, halted, ref, label, pipe, frame, flip>>

\* A release at an odd address writes nothing.
Released(release, value) ==
  label' = IF release.at \in Words THEN [label EXCEPT ![release.at] = value] ELSE label

ReadRelease == /\ Reads("release")
               /\ Released(Arg, Arg.value)
               /\ get' = get + 1
               /\ UNCHANGED <<io, put, link, halted, ref, pipe, frame, flip>>

ReadWaitForIdle == /\ Reads("idle")
                   /\ pipe = <<>>
                   /\ get' = get + 1
                   /\ UNCHANGED <<io, put, link, halted, ref, label, pipe, frame, flip>>

ReadWaitFlip == /\ Reads("wait_flip")
                /\ flip = "done"
                /\ get' = get + 1
                /\ UNCHANGED <<io, put, link, halted, ref, label, pipe, frame, flip>>

ReadMethod == /\ \E op \in Methods : Reads(op)
              /\ Len(pipe) < PipeDepth
              /\ pipe' = Append(pipe, io[get])
              /\ flip' = IF io[get].op = "flip" THEN "released" ELSE flip
              /\ get' = get + 1
              /\ UNCHANGED <<io, put, link, halted, ref, label, frame>>

FrontEnd == \/ ReadNop \/ ReadJmp \/ ReadCall \/ ReadReturn \/ ReadReference
            \/ ReadWaitLabel \/ ReadRelease \/ ReadWaitForIdle \/ ReadWaitFlip \/ ReadMethod \/ GraphicsError
-----------------------------------------------------------------------------
(* The engine: one method after the other. *)

Executes(op) == ~halted /\ pipe # <<>> /\ Head(pipe).op = op /\ pipe' = Tail(pipe)

ExecuteDraw == /\ Executes("draw")
               /\ frame' = IF Len(frame) < FrameDepth THEN Append(frame, Head(pipe).arg)
                                               ELSE frame
               /\ UNCHANGED <<io, put, link, halted, get, ref, label, flip>>

ExecuteBadDraw == /\ Executes("bad_draw")
                  /\ halted' = TRUE
                  /\ UNCHANGED <<io, put, link, get, ref, label, frame, flip>>

ExecuteWriteLabel == /\ \/ /\ Executes("label")
                           /\ Released(Head(pipe).arg, SwapBytes(Head(pipe).arg.value))
                        \/ /\ Executes("texture_label")
                           /\ Released(Head(pipe).arg, Head(pipe).arg.value)
                     /\ UNCHANGED <<io, put, link, halted, get, ref, frame, flip>>

ExecuteFlip == /\ Executes("flip")
               /\ flip' = "queued"
               /\ UNCHANGED <<io, put, link, halted, get, ref, label, frame>>

Engine == ExecuteDraw \/ ExecuteBadDraw \/ ExecuteWriteLabel \/ ExecuteFlip

VBlank == /\ flip = "queued"
          /\ flip' = "done"
          /\ UNCHANGED <<io, put, link, halted, get, ref, label, pipe, frame>>
=============================================================================
