--------------------------- MODULE FileTests_proofs ---------------------------
(***************************************************************************)
(* What holds of the file tests for every number of slots, of entries and  *)
(* of descriptors and every size a file can have.  First cellFs IDs, whose *)
(* slots are counted; then the scripts, of which an invariant says which   *)
(* variables hold an open descriptor at each instruction, and for          *)
(* copy_file_ how far the copy is.                                         *)
(***************************************************************************)
EXTENDS FileTests, FiniteSetTheorems, TLAPS

Fds_OK == fds \in [Descriptors -> Descriptor]
Held_OK == held \in [Slots -> Int] /\ temp_fd \in Int

\* While the slots of C are closed: each of the others holds a descriptor of its
\* own, these and temp_fd are all that are open, and they are the lowest.
Holds_own(C) == \A k \in Slots \ C :
                  /\ IsOpen(held[k]) /\ held[k] # temp_fd
                  /\ \A l \in Slots \ C : k # l => held[k] # held[l]
Accounted(C) == \A fd \in Descriptors :
                  IsOpen(fd) => fd = temp_fd \/ \E k \in Slots \ C : held[k] = fd
AllLow == \A fd \in Descriptors : IsOpen(fd) => fd <= FirstFd + Count
Accounts(C) == Holds_own(C) /\ Accounted(C) /\ AllLow /\ IsOpen(temp_fd)

Turn == /\ phase \in {"temp", "first", "close", "open", "done"} /\ variant \in {1, 2}
        /\ i \in Slots /\ j \in Slots
        /\ phase = "temp" => i = 0
        /\ phase \in {"temp", "first"} => j = 0
        /\ phase \in {"close", "open"} => j <= i

\* The induction hypothesis.
IdsInv == test = "cellFs_IDs" =>
            /\ Fds_OK /\ Held_OK /\ Turn
            /\ phase = "temp" => \A fd \in Descriptors : ~IsOpen(fd)
            /\ phase # "temp" => Accounts(ClosedSlots)
-----------------------------------------------------------------------------
(* The order in which the slots are taken.                                 *)

\* Every slot of a round is one of the array.
LEMMA PosIsSlot == ASSUME NEW v \in {1, 2}, NEW x \in Slots PROVE Pos(v, x) \in Slots
  <1>1. x \in Nat /\ Count \in Nat /\ x <= Count - 1
    BY FileTestsAssumption DEF Slots, FileTestsAssumption
  <1>2. x \div 2 \in Nat /\ x \div 2 <= x
    BY <1>1
  <1> QED BY <1>1, <1>2, FileTestsAssumption DEF Pos, Slots, FileTestsAssumption

\* No slot is taken twice in a round: the two ends do not meet.
LEMMA PosInjective ==
  ASSUME NEW v \in {1, 2}, NEW x \in Slots, NEW y \in Slots, Pos(v, x) = Pos(v, y)
  PROVE  x = y
  <1>1. x \in Nat /\ y \in Nat /\ Count \in Nat /\ x <= Count - 1 /\ y <= Count - 1
    BY FileTestsAssumption DEF Slots, FileTestsAssumption
  <1>2. /\ x = 2 * (x \div 2) + (x % 2) /\ x % 2 \in {0, 1} /\ x \div 2 \in Nat
        /\ y = 2 * (y \div 2) + (y % 2) /\ y % 2 \in {0, 1} /\ y \div 2 \in Nat
    BY <1>1
  <1>3. CASE (x % 2 = 0) = (y % 2 = 0)
    BY <1>1, <1>2, <1>3 DEF Pos
  <1>4. CASE (x % 2 = 0) # (y % 2 = 0)
    BY <1>1, <1>2, <1>4 DEF Pos
  <1> QED BY <1>3, <1>4
-----------------------------------------------------------------------------
(* One open, one close.                                                    *)

\* A number nobody has is in fds, too.
LEMMA ClosedIsDescriptor == Closed \in Descriptor /\ Closed.kind = "closed"
  <1>1. Closed.path \in Paths
    BY DEF Closed, Paths
  <1> QED BY <1>1, FileTestsAssumption DEF Closed, Descriptor, Kinds, FileTestsAssumption

\* The lowest free number is at most Count above the first: of Count + 1 numbers
\* fewer than Count slots and temp_fd cannot hold all.
LEMMA LowestIsLow ==
  ASSUME Held_OK, NEW C \in SUBSET Slots, Accounted(C), NEW k \in C,
         NEW d \in Descriptors, \A lower \in FirstFd..(d - 1) : IsOpen(lower)
  PROVE  d <= FirstFd + Count
  <1> DEFINE N == FirstFd..(FirstFd + Count)
             H == (0..Count) \ {k}
             f == [fd \in N |-> IF fd = temp_fd THEN Count
                                ELSE CHOOSE l \in Slots \ C : held[l] = fd]
  <1>1. SUFFICES ASSUME d > FirstFd + Count PROVE FALSE
    BY FileTestsAssumption DEF Descriptors, FileTestsAssumption
  <1>2. \A fd \in N : fd \in Descriptors /\ IsOpen(fd)
    BY <1>1, FileTestsAssumption DEF Descriptors, FileTestsAssumption, IsOpen
  <1>3. \A fd \in N : fd # temp_fd => f[fd] \in Slots \ C /\ held[f[fd]] = fd
    BY <1>2 DEF Accounted
  <1>4. f \in [N -> H]
    <2>1. \A fd \in N : f[fd] \in H
      BY <1>3, FileTestsAssumption DEF Slots, FileTestsAssumption
    <2> QED BY <2>1
  <1>5. IsFiniteSet(N) /\ Cardinality(N) = Count + 1
    BY FS_Interval, FileTestsAssumption DEF FileTestsAssumption
  <1>6. IsFiniteSet(H) /\ Cardinality(H) = Count
    <2>1. IsFiniteSet(0..Count) /\ Cardinality(0..Count) = Count + 1
      BY FS_Interval, FileTestsAssumption DEF FileTestsAssumption
    <2>2. k \in 0..Count
      BY FileTestsAssumption DEF Slots, FileTestsAssumption
    <2>3. /\ IsFiniteSet((0..Count) \ {k})
          /\ Cardinality((0..Count) \ {k}) = Cardinality(0..Count) - 1
      BY <2>1, <2>2, FS_RemoveElement, Zenon
    <2> QED BY <2>1, <2>3, FileTestsAssumption DEF FileTestsAssumption
  <1> HIDE DEF f, N, H
  <1>7. PICK x, y \in N : x # y /\ f[x] = f[y]
    <2>1. Cardinality(H) < Cardinality(N)
      BY <1>5, <1>6, FileTestsAssumption DEF FileTestsAssumption
    <2> QED BY <1>4, <1>5, <1>6, <2>1, FS_PigeonHole
  <1>8. CASE x = temp_fd \/ y = temp_fd
    <2>1. f[temp_fd] = Count
      BY <1>7, <1>8 DEF f
    <2>2. Count \notin Slots
      BY FileTestsAssumption DEF Slots, FileTestsAssumption
    <2> QED BY <1>3, <1>7, <1>8, <2>1, <2>2
  <1> QED BY <1>3, <1>7, <1>8

\* A closed slot that is given the lowest free number.
LEMMA SlotOpens ==
  ASSUME Fds_OK, Held_OK, NEW C \in SUBSET Slots, Accounts(C), NEW k \in C,
         NEW d \in Descriptors, NEW new \in Descriptor, new.kind # "closed",
         Gives(d, new), held' = [held EXCEPT ![k] = d], temp_fd' = temp_fd
  PROVE  Fds_OK' /\ Held_OK' /\ Accounts(C \ {k})'
  <1>1. /\ fds' = [fds EXCEPT ![d] = new]
        /\ ~IsOpen(d) /\ \A lower \in FirstFd..(d - 1) : IsOpen(lower)
    BY DEF Gives
  <1>2. d <= FirstFd + Count
    BY <1>1, LowestIsLow DEF Accounts
  <1>3. Fds_OK' /\ Held_OK'
    BY <1>1, FileTestsAssumption DEF Fds_OK, Held_OK, Descriptors, FileTestsAssumption
  <1>4. \A fd \in Descriptors : IsOpen(fd)' <=> fd = d \/ IsOpen(fd)
    BY <1>1 DEF Fds_OK, IsOpen
  <1>5. /\ k \in Slots /\ held'[k] = d
        /\ \A l \in Slots \ C : l # k /\ held'[l] = held[l]
        /\ Slots \ (C \ {k}) = (Slots \ C) \cup {k}
    BY DEF Held_OK
  <1>6. \A l \in Slots \ C : held[l] \in Descriptors /\ held[l] # d
    BY <1>1 DEF Accounts, Holds_own, IsOpen
  <1>7. temp_fd \in Descriptors /\ temp_fd # d
    BY <1>1 DEF Accounts, IsOpen
  <1>8. Holds_own(C \ {k})'
    <2>1. SUFFICES ASSUME NEW l \in Slots \ (C \ {k})
                   PROVE  /\ IsOpen(held[l])' /\ held'[l] # temp_fd'
                          /\ \A m \in Slots \ (C \ {k}) : l # m => held'[l] # held'[m]
      BY DEF Holds_own, IsOpen
    <2>2. CASE l = k
      BY <1>4, <1>5, <1>6, <1>7, <2>2 DEF IsOpen
    <2>3. CASE l \in Slots \ C
      <3>1. IsOpen(held[l])'
        BY <1>4, <1>5, <1>6, <2>3 DEF Accounts, Holds_own, IsOpen
      <3> QED BY <3>1, <1>5, <1>6, <2>3 DEF Accounts, Holds_own
    <2> QED BY <1>5, <2>1, <2>2, <2>3
  <1>9. Accounted(C \ {k})'
    <2>1. SUFFICES ASSUME NEW fd \in Descriptors, IsOpen(fd)'
                   PROVE  fd = temp_fd' \/ \E l \in Slots \ (C \ {k}) : held'[l] = fd
      BY DEF Accounted, IsOpen
    <2> QED BY <1>4, <1>5, <2>1 DEF Accounts, Accounted
  <1>10. AllLow' /\ IsOpen(temp_fd)'
    <2>1. AllLow'
      BY <1>2, <1>4 DEF Accounts, AllLow, IsOpen
    <2>2. IsOpen(temp_fd)'
      BY <1>4, <1>7 DEF Accounts, IsOpen
    <2> QED BY <2>1, <2>2
  <1> QED BY <1>3, <1>8, <1>9, <1>10 DEF Accounts

\* An open slot that is closed.
LEMMA SlotCloses ==
  ASSUME Fds_OK, Held_OK, NEW C \in SUBSET Slots, Accounts(C), NEW k \in Slots \ C,
         fds' = [fds EXCEPT ![held[k]] = Closed], held' = held, temp_fd' = temp_fd
  PROVE  Fds_OK' /\ Held_OK' /\ Accounts(C \cup {k})'
  <1>1. Fds_OK' /\ Held_OK'
    BY ClosedIsDescriptor DEF Fds_OK, Held_OK
  <1>2. held[k] \in Descriptors /\ held[k] # temp_fd
    BY DEF Accounts, Holds_own, IsOpen
  <1>3. \A fd \in Descriptors : IsOpen(fd)' <=> fd # held[k] /\ IsOpen(fd)
    BY <1>2, ClosedIsDescriptor DEF Fds_OK, IsOpen
  <1>4. Holds_own(C \cup {k})'
    <2>1. SUFFICES ASSUME NEW l \in Slots \ (C \cup {k})
                   PROVE  /\ IsOpen(held[l])' /\ held'[l] # temp_fd'
                          /\ \A m \in Slots \ (C \cup {k}) : l # m => held'[l] # held'[m]
      BY DEF Holds_own, IsOpen
    <2>2. IsOpen(held[l]) /\ held[l] \in Descriptors /\ held[l] # held[k]
      BY <2>1 DEF Accounts, Holds_own, IsOpen
    <2>3. IsOpen(held[l])'
      BY <1>3, <2>2 DEF IsOpen
    <2> QED BY <2>1, <2>3 DEF Accounts, Holds_own
  <1>5. Accounted(C \cup {k})'
    <2>1. SUFFICES ASSUME NEW fd \in Descriptors, IsOpen(fd)'
                   PROVE  fd = temp_fd' \/ \E l \in Slots \ (C \cup {k}) : held'[l] = fd
      BY DEF Accounted, IsOpen
    <2> QED BY <1>3, <2>1 DEF Accounts, Accounted
  <1>6. AllLow' /\ IsOpen(temp_fd)'
    <2>1. AllLow'
      BY <1>3 DEF Accounts, AllLow, IsOpen
    <2>2. IsOpen(temp_fd)'
      BY <1>2, <1>3 DEF Accounts, IsOpen
    <2> QED BY <2>1, <2>2
  <1> QED BY <1>1, <1>4, <1>5, <1>6 DEF Accounts
-----------------------------------------------------------------------------
(* The test.                                                               *)

\* Before the test nothing is open.
LEMMA InitHolds == Init => IdsInv
  <1> SUFFICES ASSUME Init PROVE IdsInv
    OBVIOUS
  <1>1. Fds_OK /\ Held_OK
    BY ClosedIsDescriptor DEF Init, Fds_OK, Held_OK, Slots, None
  <1>2. Turn
    BY FileTestsAssumption DEF Init, Turn, Slots, FileTestsAssumption
  <1>3. phase = "temp" /\ \A fd \in Descriptors : ~IsOpen(fd)
    BY ClosedIsDescriptor DEF Init, IsOpen
  <1> QED BY <1>1, <1>2, <1>3 DEF IdsInv

\* What a call of cellFsOpen that succeeds does to the descriptors.
LEMMA OpenGives ==
  ASSUME NEW flags, NEW d \in Descriptors, OpenFile(flags, d)
  PROVE  \E new \in Descriptor : new.kind # "closed" /\ Gives(d, new)
  <1> DEFINE new == [path |-> "temp", kind |-> "plain", writable |-> "RDWR" \in flags, at |-> 0]
  <1>1. Gives(d, new)
    BY DEF OpenFile, cellFsOpen, Is
  <1>2. new \in Descriptor /\ new.kind # "closed"
    BY FileTestsAssumption DEF Descriptor, Kinds, Paths, FileTestsAssumption
  <1> QED BY <1>1, <1>2

\* The file is made.
LEMMA TempOpens == ASSUME IdsInv, OpenTemp PROVE IdsInv'
  <1>1. /\ Fds_OK /\ Held_OK /\ Turn /\ phase = "temp"
        /\ \A fd \in Descriptors : ~IsOpen(fd)
    BY DEF IdsInv, OpenTemp, InPhase
  <1>2. PICK d \in Descriptors, new \in Descriptor :
             new.kind # "closed" /\ Gives(d, new) /\ temp_fd' = d
    BY OpenGives DEF OpenTemp
  <1>3. /\ fds' = [fds EXCEPT ![d] = new] /\ held' = held /\ phase' = "first"
        /\ i' = 0 /\ j' = 0 /\ variant' = variant
    BY <1>1, <1>2 DEF Gives, OpenTemp, Turn
  <1>4. Fds_OK' /\ Held_OK' /\ Turn'
    BY <1>1, <1>2, <1>3, FileTestsAssumption
       DEF Fds_OK, Held_OK, Turn, Descriptors, Slots, FileTestsAssumption
  <1>5. \A fd \in Descriptors : IsOpen(fd)' <=> fd = d
    BY <1>1, <1>2, <1>3 DEF Fds_OK, IsOpen
  <1>6. d = FirstFd
    BY <1>1, <1>2, FileTestsAssumption DEF Gives, Descriptors, FileTestsAssumption
  <1>7. Slots \ ClosedSlots' = {}
    BY <1>3 DEF ClosedSlots, Slots
  <1>8. Accounts(ClosedSlots)'
    <2>1. Holds_own(ClosedSlots)'
      BY <1>7 DEF Holds_own, Slots
    <2>2. Accounted(ClosedSlots)'
      BY <1>2, <1>5 DEF Accounted, IsOpen
    <2>3. AllLow'
      BY <1>5, <1>6, FileTestsAssumption DEF AllLow, IsOpen, FileTestsAssumption
    <2>4. IsOpen(temp_fd)'
      BY <1>2, <1>5 DEF IsOpen
    <2> QED BY <2>1, <2>2, <2>3, <2>4 DEF Accounts
  <1> QED BY <1>3, <1>4, <1>8 DEF IdsInv

\* A step that opens slot k while C is closed, and moves to where C \ {k} is.
LEMMA OpenStep ==
  ASSUME Fds_OK, Held_OK, NEW k \in ClosedSlots, ClosedSlots \subseteq Slots,
         Accounts(ClosedSlots), ClosedSlots' = ClosedSlots \ {k},
         NEW flags, NEW d \in Descriptors, OpenFile(flags, d),
         held' = [held EXCEPT ![k] = d], temp_fd' = temp_fd
  PROVE  Fds_OK' /\ Held_OK' /\ Accounts(ClosedSlots)'
  <1>1. PICK C : C = ClosedSlots
    OBVIOUS
  <1>2. PICK s : s = k
    OBVIOUS
  <1>3. PICK new \in Descriptor : new.kind # "closed" /\ Gives(d, new)
    BY OpenGives
  <1>4. Fds_OK' /\ Held_OK' /\ Accounts(C \ {s})'
    <2>1. C \in SUBSET Slots /\ s \in C /\ Accounts(C) /\ held' = [held EXCEPT ![s] = d]
      BY <1>1, <1>2
    <2> QED BY <1>3, <2>1, SlotOpens
  <1>5. ClosedSlots' = C \ {s}
    BY <1>1, <1>2
  <1>6. Accounts(ClosedSlots)' <=> Accounts(C \ {s})'
    BY <1>5 DEF Accounts, Holds_own, Accounted
  <1> QED BY <1>4, <1>6

\* Every slot is filled for the first time.
LEMMA FirstOpens == ASSUME IdsInv, OpenFirst PROVE IdsInv'
  <1>1. /\ Fds_OK /\ Held_OK /\ Turn /\ phase = "first" /\ Accounts(ClosedSlots)
    BY DEF IdsInv, OpenFirst, InPhase
  <1>2. PICK d \in Descriptors : OpenFile({}, d) /\ held' = [held EXCEPT ![i] = d]
    BY DEF OpenFirst
  <1>3. temp_fd' = temp_fd /\ variant' = variant /\ j' = 0 /\ j = 0
    BY <1>1 DEF OpenFirst, Turn
  <1>4. i \in Nat /\ i <= Count - 1 /\ Count \in Nat
    BY <1>1, FileTestsAssumption DEF Turn, Slots, FileTestsAssumption
  <1>5. ClosedSlots = i..(Count - 1) /\ ClosedSlots \subseteq Slots /\ i \in ClosedSlots
    BY <1>1, <1>4 DEF ClosedSlots, Slots
  <1>6. Turn' /\ phase' # "temp"
    BY <1>1, <1>3, <1>4 DEF OpenFirst, Turn, Slots
  <1>7. ClosedSlots' = ClosedSlots \ {i}
    <2>1. CASE i + 1 < Count
      <3>1. i' = i + 1 /\ phase' = "first"
        BY <1>1, <2>1 DEF OpenFirst
      <3>2. ClosedSlots' = (i + 1)..(Count - 1)
        BY <3>1 DEF ClosedSlots
      <3> QED BY <1>4, <1>5, <3>2
    <2>2. CASE ~(i + 1 < Count)
      <3>1. i' = 0 /\ phase' = "close"
        BY <2>2 DEF OpenFirst
      <3>2. ClosedSlots' = {}
        BY <1>3, <3>1 DEF ClosedSlots
      <3> QED BY <1>4, <1>5, <2>2, <3>2
    <2> QED BY <2>1, <2>2
  <1>8. Fds_OK' /\ Held_OK' /\ Accounts(ClosedSlots)'
    BY <1>1, <1>2, <1>3, <1>5, <1>7, OpenStep
  <1> QED BY <1>6, <1>8 DEF IdsInv

\* A slot of the round is closed.
LEMMA RoundCloses == ASSUME IdsInv, CloseSlot PROVE IdsInv'
  <1> DEFINE k == Pos(variant, j)
  <1>1. /\ Fds_OK /\ Held_OK /\ Turn /\ phase = "close" /\ Accounts(ClosedSlots)
        /\ test = "cellFs_IDs"
    BY DEF IdsInv, CloseSlot, InPhase
  <1>2. i \in Nat /\ j \in Nat /\ j <= i /\ i <= Count - 1 /\ Count \in Nat /\ variant \in {1, 2}
    BY <1>1, FileTestsAssumption DEF Turn, Slots, FileTestsAssumption
  <1>3. \A x \in j..i : x \in Slots
    BY <1>2 DEF Slots
  <1>4. ClosedSlots = {Pos(variant, x) : x \in (j + 1)..i} /\ ClosedSlots \subseteq Slots
    <2>1. ClosedSlots = {Pos(variant, x) : x \in (j + 1)..i}
      BY <1>1 DEF ClosedSlots
    <2>2. \A x \in (j + 1)..i : Pos(variant, x) \in Slots
      BY <1>2, <1>3, PosIsSlot
    <2> QED BY <2>1, <2>2
  <1>5. k \in Slots \ ClosedSlots
    <2>1. j \in j..i /\ \A x \in (j + 1)..i : x \in j..i /\ x # j
      BY <1>2
    <2>2. k \in Slots
      BY <1>2, <1>3, <2>1, PosIsSlot
    <2>3. \A x \in (j + 1)..i : Pos(variant, x) # k
      BY <1>2, <1>3, <2>1, PosInjective
    <2> QED BY <1>4, <2>2, <2>3
  <1>6. IsOpen(held[k])
    BY <1>1, <1>5 DEF Accounts, Holds_own
  <1>7. /\ fds' = [fds EXCEPT ![held[k]] = Closed] /\ held' = held /\ temp_fd' = temp_fd
        /\ i' = i /\ variant' = variant /\ test' = test
    BY <1>6 DEF CloseSlot, cellFsClose
  <1>8. Turn' /\ phase' # "temp"
    BY <1>1, <1>2, <1>7 DEF CloseSlot, Turn, Slots
  <1>9. ClosedSlots' = ClosedSlots \cup {k}
    <2>1. ClosedSlots' = {Pos(variant, x) : x \in j..i}
      <3>1. CASE j > 0
        <4>1. j' = j - 1 /\ phase' = "close"
          BY <1>1, <3>1 DEF CloseSlot
        <4>2. ClosedSlots' = {Pos(variant, x) : x \in (j' + 1)..i}
          BY <1>7, <4>1 DEF ClosedSlots, Pos
        <4>3. (j' + 1)..i = j..i
          BY <1>2, <4>1
        <4> QED BY <4>2, <4>3
      <3>2. CASE ~(j > 0)
        <4>1. j' = i /\ phase' = "open" /\ j = 0
          BY <1>2, <3>2 DEF CloseSlot
        <4> QED BY <1>7, <4>1 DEF ClosedSlots, Pos
      <3> QED BY <3>1, <3>2
    <2>2. j..i = ((j + 1)..i) \cup {j}
      BY <1>2
    <2> QED BY <1>4, <2>1, <2>2
  <1>10. Fds_OK' /\ Held_OK' /\ Accounts(ClosedSlots)'
    <2>1. PICK C : C = ClosedSlots
      OBVIOUS
    <2>2. PICK s : s = k
      OBVIOUS
    <2>3. /\ C \in SUBSET Slots /\ s \in Slots \ C /\ Accounts(C)
          /\ fds' = [fds EXCEPT ![held[s]] = Closed]
      BY <1>1, <1>4, <1>5, <1>7, <2>1, <2>2
    <2>4. Fds_OK' /\ Held_OK' /\ Accounts(C \cup {s})'
      BY <1>1, <1>7, <2>3, SlotCloses
    <2>5. ClosedSlots' = C \cup {s}
      BY <1>9, <2>1, <2>2
    <2>6. Accounts(ClosedSlots)' <=> Accounts(C \cup {s})'
      BY <2>5 DEF Accounts, Holds_own, Accounted
    <2> QED BY <2>4, <2>6
  <1> QED BY <1>8, <1>10 DEF IdsInv

\* A slot of the round is opened again.
LEMMA RoundOpens == ASSUME IdsInv, OpenSlot PROVE IdsInv'
  <1> DEFINE k == Pos(variant, j)
  <1>1. Fds_OK /\ Held_OK /\ Turn /\ phase = "open" /\ Accounts(ClosedSlots)
    BY DEF IdsInv, OpenSlot, InPhase
  <1>2. i \in Nat /\ j \in Nat /\ j <= i /\ i <= Count - 1 /\ Count \in Nat /\ variant \in {1, 2}
    BY <1>1, FileTestsAssumption DEF Turn, Slots, FileTestsAssumption
  <1>3. PICK d \in Descriptors : OpenFile({}, d) /\ held' = [held EXCEPT ![k] = d]
    BY DEF OpenSlot
  <1>4. \A x \in 0..j : x \in Slots
    BY <1>2 DEF Slots
  <1>5. ClosedSlots = {Pos(variant, x) : x \in 0..j} /\ ClosedSlots \subseteq Slots
    <2>1. ClosedSlots = {Pos(variant, x) : x \in 0..j}
      BY <1>1 DEF ClosedSlots
    <2>2. \A x \in 0..j : Pos(variant, x) \in Slots
      BY <1>2, <1>4, PosIsSlot
    <2> QED BY <2>1, <2>2
  <1>6. j \in 0..j /\ k \in ClosedSlots
    BY <1>2, <1>5
  <1>7. temp_fd' = temp_fd
    BY DEF OpenSlot
  <1>8. ClosedSlots' = ClosedSlots \ {k} /\ Turn' /\ phase' # "temp"
    <2>1. CASE j > 0
      <3>1. j' = j - 1 /\ phase' = phase /\ variant' = variant /\ i' = i
        BY <2>1 DEF OpenSlot
      <3>2. ClosedSlots' = {Pos(variant, x) : x \in 0..(j - 1)}
        BY <1>1, <3>1 DEF ClosedSlots, Pos
      <3>3. \A x \in 0..j : x # j => Pos(variant, x) # k
        BY <1>2, <1>4, <1>6, PosInjective
      <3>4. \A x : x \in 0..(j - 1) <=> x \in 0..j /\ x # j
        BY <1>2
      <3>5. ClosedSlots' = ClosedSlots \ {k}
        BY <1>5, <3>2, <3>3, <3>4
      <3>6. Turn' /\ phase' # "temp"
        BY <1>1, <1>2, <2>1, <3>1 DEF Turn, Slots
      <3> QED BY <3>5, <3>6
    <2>2. CASE ~(j > 0)
      <3>1. NextRound /\ j = 0
        BY <1>2, <2>2 DEF OpenSlot
      <3>2. ClosedSlots = {k}
        BY <1>5, <3>1
      <3>3. \/ phase' = "close" /\ i' = j'
            \/ phase' = "done"
        BY <3>1 DEF NextRound
      <3>4. i' \in Nat /\ i' \in Slots /\ j' \in Slots /\ variant' \in {1, 2}
        BY <1>2, <3>1, FileTestsAssumption DEF NextRound, Slots, FileTestsAssumption
      <3>5. ClosedSlots' = {}
        <4>1. CASE phase' = "done"
          BY <4>1 DEF ClosedSlots
        <4>2. CASE phase' = "close" /\ i' = j'
          <5>1. \A n \in Nat : (n + 1)..n = {}
            OBVIOUS
          <5>2. ClosedSlots' = {Pos(variant', x) : x \in (i' + 1)..i'}
            BY <4>2 DEF ClosedSlots, Pos
          <5> QED BY <3>4, <5>1, <5>2
        <4> QED BY <3>3, <4>1, <4>2
      <3>6. Turn' /\ phase' # "temp"
        BY <3>3, <3>4 DEF Turn, Slots
      <3> QED BY <3>2, <3>5, <3>6
    <2> QED BY <2>1, <2>2
  <1>9. Fds_OK' /\ Held_OK' /\ Accounts(ClosedSlots)'
    <2> HIDE DEF k
    <2> QED BY <1>1, <1>3, <1>5, <1>6, <1>7, <1>8, OpenStep
  <1> QED BY <1>8, <1>9 DEF IdsInv

\* Every step keeps the induction hypothesis; the scripts are other tests.
LEMMA NextKeeps == ASSUME IdsInv, [Next]_vars PROVE IdsInv'
  <1>1. CASE Call \/ Branch \/ Leave
    BY <1>1 DEF Call, Branch, Leave, CanRun, IdsInv
  <1>2. CASE OpenTemp
    BY <1>2, TempOpens
  <1>3. CASE OpenFirst
    BY <1>3, FirstOpens
  <1>4. CASE CloseSlot
    BY <1>4, RoundCloses
  <1>5. CASE OpenSlot
    BY <1>5, RoundOpens
  <1>6. CASE UNCHANGED vars
    BY <1>6 DEF vars, loops, IdsInv, Fds_OK, Held_OK, Turn, Accounts, Holds_own, Accounted,
                AllLow, IsOpen, ClosedSlots, Pos
  <1> QED BY <1>1, <1>2, <1>3, <1>4, <1>5, <1>6 DEF Next

\* cellFs IDs, with any number of slots and however many descriptors there are:
\* no slot is closed that does not hold an open descriptor of its own, and none
\* of the numbers given is more than Count above the first.
THEOREM DescriptorsAreReused == Spec => []DescriptorsReused
  <1>1. IdsInv => DescriptorsReused
    <2> SUFFICES ASSUME IdsInv, test = "cellFs_IDs" PROVE DescriptorsReused
      BY DEF DescriptorsReused
    <2>1. CASE phase = "temp"
      <3>1. Slots \ ClosedSlots = {}
        BY <2>1 DEF IdsInv, Turn, ClosedSlots, Slots
      <3> QED BY <2>1, <3>1 DEF IdsInv, DescriptorsReused
    <2>2. CASE phase # "temp"
      BY <2>2 DEF IdsInv, Accounts, Holds_own, AllLow, DescriptorsReused
    <2> QED BY <2>1, <2>2
  <1> QED BY <1>1, InitHolds, NextKeeps, PTL DEF Spec
-----------------------------------------------------------------------------
(* The scripts.  In each of them a variable that holds an open descriptor  *)
(* holds the same one every time.                                          *)

Number(v) == FirstFd + IF v <= 1 THEN v ELSE v - 1

\* The variables of V hold all the descriptors that are open.
Has(V) == /\ \A fd : IsOpen(fd) <=> \E v \in V : fd = Number(v)
          /\ \A v \in V : local[v] = Number(v)

SameKinds == /\ fds' \in [Descriptors -> Descriptor]
             /\ \A fd \in Descriptors : fds'[fd].kind = fds[fd].kind

Files_OK == files \in [Paths -> {Absent} \cup 0..MaxSize]
Locals_OK == local \in [Locals -> {None} \cup Descriptors]

\* A variable takes the number that comes after those of V.
LEMMA HasMore ==
  ASSUME Fds_OK, Locals_OK, NEW V \in SUBSET Locals, Has(V), NEW v \in Locals,
         \A fd : fd \in FirstFd..(Number(v) - 1) <=> \E w \in V : fd = Number(w),
         NEW d \in Descriptors, NEW new \in Descriptor, new.kind # "closed", Gives(d, new),
         local' = [local EXCEPT ![v] = d], NEW W, W = V \cup {v}
  PROVE  Has(W)'
<1>1. FirstFd \in Nat /\ d \in Int /\ FirstFd <= d /\ Number(v) \in Int /\ FirstFd <= Number(v)
  BY FileTestsAssumption DEF FileTestsAssumption, Descriptors, Number, Locals
<1>2. ~IsOpen(d) /\ (\A lower \in FirstFd..(d - 1) : IsOpen(lower)) /\ fds' = [fds EXCEPT ![d] = new]
  BY DEF Gives
<1>3. ~(d < Number(v))
  <2>1. SUFFICES ASSUME d < Number(v) PROVE FALSE
    OBVIOUS
  <2>2. d \in FirstFd..(Number(v) - 1)
    BY <1>1, <2>1
  <2>3. IsOpen(d)
    BY <2>2 DEF Has
  <2> QED BY <1>2, <2>3
<1>4. ~(Number(v) < d)
  <2>1. SUFFICES ASSUME Number(v) < d PROVE FALSE
    OBVIOUS
  <2>2. IsOpen(Number(v))
    BY <1>1, <1>2, <2>1
  <2>3. Number(v) \in FirstFd..(Number(v) - 1)
    BY <2>2 DEF Has
  <2> QED BY <1>1, <2>3
<1>5. d = Number(v)
  BY <1>1, <1>3, <1>4
<1>6. \A fd : IsOpen(fd)' <=> IsOpen(fd) \/ fd = d
  BY <1>2 DEF IsOpen, Fds_OK
<1>7. \A fd : IsOpen(fd)' <=> \E w \in W : fd = Number(w)
  BY <1>5, <1>6 DEF Has
<1>8. \A w \in W : local'[w] = Number(w)
  BY <1>5 DEF Has, Locals_OK
<1> QED BY <1>7, <1>8 DEF Has

\* A variable's descriptor is closed.
LEMMA HasLess ==
  ASSUME Fds_OK, NEW V, Has(V), NEW v \in V, \A w \in V : Number(w) = Number(v) => w = v,
         fds' = [fds EXCEPT ![local[v]] = Closed], local' = local, NEW W, W = V \ {v}
  PROVE  Has(W)'
<1>1. local[v] = Number(v) /\ IsOpen(Number(v))
  BY DEF Has
<1>2. \A fd : IsOpen(fd)' <=> IsOpen(fd) /\ fd # Number(v)
  BY <1>1, ClosedIsDescriptor DEF IsOpen, Fds_OK
<1>3. \A fd : IsOpen(fd)' <=> \E w \in W : fd = Number(w)
  BY <1>2 DEF Has
<1>4. \A w \in W : local'[w] = Number(w)
  BY DEF Has
<1> QED BY <1>3, <1>4 DEF Has

\* Nothing is opened or closed.
LEMMA HasSame ==
  ASSUME NEW V, Has(V), SameKinds \/ fds' = fds, local' = local
  PROVE  Has(V)'
<1>1. \A fd : IsOpen(fd)' <=> IsOpen(fd)
  BY DEF IsOpen, SameKinds
<1> QED BY <1>1 DEF Has

\* What an instruction can have in its fields.
Legal(e) == /\ e.path \in Paths /\ e.fd \in {None} \cup Locals /\ e.mapped \in Nat
            /\ e.size \in Int /\ (e.op \in Conditions \/ e.size >= -1)

\* A new descriptor.
LEMMA NewDescriptor ==
  ASSUME NEW path \in Paths, NEW kind \in Kinds \ {"closed"}, NEW writable \in BOOLEAN
  PROVE  [path |-> path, kind |-> kind, writable |-> writable, at |-> 0]
           \in {new \in Descriptor : new.kind # "closed"}
BY FileTestsAssumption DEF FileTestsAssumption, Descriptor

\* A call that opens.
Opening(result) ==
  \/ /\ result.err = "OK" /\ result.val \in Descriptors
     /\ \E new \in {new \in Descriptor : new.kind # "closed"} : Gives(result.val, new)
  \/ result.err # "OK" /\ fds' = fds /\ files' = files

\* cellFsOpen gives a descriptor or an error.
LEMMA OpenOpens ==
  ASSUME NEW path \in Paths, NEW flags, NEW kind \in {"plain", "sdata"}, NEW result,
         cellFsOpen(path, flags, kind, result)
  PROVE  /\ Opening(result)
         /\ ("CREAT" \in flags \/ files[path] # Absent) => result.err = "OK"
<1>1. CASE result.err # "OK"
  BY <1>1 DEF cellFsOpen, Opening, Is, Nothing
<1>2. CASE result.err = "OK"
  <2> DEFINE new == [path |-> path, kind |-> kind, writable |-> "RDWR" \in flags, at |-> 0]
  <2>1. new \in {n \in Descriptor : n.kind # "closed"}
    <3>1. ("RDWR" \in flags) \in BOOLEAN /\ kind \in Kinds \ {"closed"}
      BY DEF Kinds
    <3> QED BY <3>1, NewDescriptor
  <2>2. Gives(result.val, new)
    BY <1>2 DEF cellFsOpen, Is
  <2>3. result.val \in Descriptors
    BY <2>2 DEF Gives
  <2> HIDE DEF new
  <2> QED BY <1>2, <2>1, <2>2, <2>3 DEF Opening
<1> QED BY <1>1, <1>2


\* The read and write position moves, and nothing is opened or closed.
LEMMA SeekKeeps ==
  ASSUME Fds_OK, NEW fd, IsOpen(fd), NEW at \in Nat, fds' = Seek(fd, at)
  PROVE  SameKinds
<1>1. Lesser(at, MaxSize) \in 0..MaxSize
  BY FileTestsAssumption DEF FileTestsAssumption, Lesser
<1>2. fd \in Descriptors /\ fds[fd] \in Descriptor
  BY DEF IsOpen, Fds_OK
<1>3. fds' = [fds EXCEPT ![fd] = [fds[fd] EXCEPT !.at = Lesser(at, MaxSize)]]
  BY <1>2 DEF Seek, Fds_OK
<1>4. [fds[fd] EXCEPT !.at = Lesser(at, MaxSize)] \in Descriptor
  BY <1>1, <1>2 DEF Descriptor
<1>5. [fds[fd] EXCEPT !.at = Lesser(at, MaxSize)].kind = fds[fd].kind
  BY <1>2 DEF Descriptor
<1> QED BY <1>2, <1>3, <1>4, <1>5 DEF Fds_OK, SameKinds

\* Nothing is done to the descriptors.
LEMMA NothingKeeps == ASSUME Fds_OK, fds' = fds PROVE SameKinds
BY DEF Fds_OK, SameKinds

\* A file grows as far as it can.
LEMMA Extends ==
  ASSUME Files_OK, Fds_OK, NEW fd, IsOpen(fd), NEW at \in Nat, NEW n \in Nat, Extend(fd, at, n)
  PROVE  Files_OK'
<1>1. fds[fd].path \in Paths
  BY DEF IsOpen, Fds_OK, Descriptor
<1>2. files[fds[fd].path] \in Int
  BY <1>1 DEF Files_OK, Absent
<1>3. Lesser(Greater(files[fds[fd].path], at + n), MaxSize) \in 0..MaxSize
  BY <1>2, FileTestsAssumption DEF FileTestsAssumption, Lesser, Greater
<1> QED BY <1>1, <1>3 DEF Extend, Files_OK

\* Where a descriptor is.
LEMMA PositionIs ==
  ASSUME Fds_OK, NEW fd, IsOpen(fd)
  PROVE  fds[fd].at \in 0..MaxSize /\ fds[fd].path \in Paths
BY DEF Fds_OK, IsOpen, Descriptor

\* How much a transfer asks for.
LEMMA AmountIs ==
  ASSUME NEW call, Legal(call), call.op \notin Conditions, amount \in 0..MaxSize
  PROVE  Amount(call) \in Nat
BY FileTestsAssumption DEF FileTestsAssumption, Amount, Legal, Saved

\* A write.
LEMMA WriteMoves ==
  ASSUME Fds_OK, Files_OK, NEW fd, NEW n \in Nat, NEW mapped \in Nat, NEW result,
         cellFsWrite(fd, n, mapped, result) \/ cellFsWriteWithOffset(fd, n, mapped, result)
  PROVE  SameKinds /\ Files_OK'
<1>1. CASE fds' = fds /\ files' = files
  BY <1>1, NothingKeeps DEF Files_OK
<1>2. CASE ~(fds' = fds /\ files' = files)
  <2>1. IsOpen(fd)
    BY <1>2 DEF cellFsWrite, cellFsWriteWithOffset, WriteError, Nothing
  <2>2. Lesser(n, mapped) \in Nat /\ fds[fd].at \in Nat
    BY <2>1, PositionIs, FileTestsAssumption DEF FileTestsAssumption, Lesser
  <2>3. \/ fds' = Seek(fd, fds[fd].at + Lesser(n, mapped)) /\ Extend(fd, fds[fd].at, Lesser(n, mapped))
        \/ fds' = fds /\ Extend(fd, 0, Lesser(n, mapped))
    BY <1>2 DEF cellFsWrite, cellFsWriteWithOffset, Nothing
  <2>4. fds[fd].at + Lesser(n, mapped) \in Nat
    BY <2>2
  <2>5. SameKinds
    BY <2>1, <2>3, <2>4, SeekKeeps, NothingKeeps
  <2>6. Files_OK'
    <3>1. 0 \in Nat
      OBVIOUS
    <3> QED BY <2>1, <2>2, <2>3, <3>1, Extends
  <2> QED BY <2>5, <2>6
<1> QED BY <1>1, <1>2

\* Another call that needs a descriptor.
LEMMA OthersMove ==
  ASSUME Fds_OK, Files_OK, NEW fd, NEW n \in Nat, NEW mapped \in Nat, NEW result \in Results,
         \/ cellFsRead(fd, n, mapped, result) \/ cellFsReadWithOffset(fd, n, mapped, result)
         \/ cellFsLseek(fd, result) \/ cellFsFstat(fd, result) \/ NextEntry(fd, result)
  PROVE  SameKinds /\ Files_OK'
<1>1. files' = files /\ Files_OK'
  BY DEF cellFsRead, cellFsReadWithOffset, cellFsLseek, cellFsFstat, NextEntry, OnlyFds, Nothing,
         Files_OK
<1>2. CASE fds' = fds
  BY <1>1, <1>2, NothingKeeps
<1>3. CASE fds' # fds
  <2>1. IsOpen(fd)
    BY <1>3 DEF cellFsRead, cellFsReadWithOffset, cellFsLseek, cellFsFstat, NextEntry, Nothing
  <2>2. fds[fd].at \in Nat
    BY <2>1, PositionIs, FileTestsAssumption DEF FileTestsAssumption
  <2>3. result.val \in Nat
    BY FileTestsAssumption DEF FileTestsAssumption, Results, Values, Greater
  <2>4. fds' = Seek(fd, fds[fd].at + result.val) \/ fds' = Seek(fd, 0) \/ fds' = Seek(fd, fds[fd].at + 1)
    BY <1>3 DEF cellFsRead, cellFsReadWithOffset, cellFsLseek, cellFsFstat, NextEntry, Nothing
  <2>5. fds[fd].at + result.val \in Nat /\ 0 \in Nat /\ fds[fd].at + 1 \in Nat
    BY <2>2, <2>3
  <2> QED BY <1>1, <2>1, <2>4, <2>5, SeekKeeps
<1> QED BY <1>2, <1>3

\* A call that makes or removes a file.
LEMMA PathsMove ==
  ASSUME Fds_OK, Files_OK, NEW path \in Paths, NEW result,
         cellFsMkdir(path, result) \/ cellFsUnlink(path, result) \/ cellFsRmdir(path, result)
  PROVE  SameKinds /\ Files_OK'
<1>1. fds' = fds
  BY DEF cellFsMkdir, cellFsUnlink, cellFsRmdir, Become, Nothing
<1>2. files' = files \/ files' = [files EXCEPT ![path] = 2] \/ files' = [files EXCEPT ![path] = Absent]
  BY DEF cellFsMkdir, cellFsUnlink, cellFsRmdir, Become, Nothing
<1>3. 2 \in 0..MaxSize
  BY FileTestsAssumption DEF FileTestsAssumption, DataSize
<1> QED BY <1>1, <1>2, <1>3, NothingKeeps DEF Files_OK

CallOps == Opens \cup {"close", "closedir", "write", "write_at", "read", "read_at", "lseek", "fstat",
                       "entry", "mkdir", "unlink", "rmdir"}

\* What a call does, by what it is.
LEMMA CallDoes ==
  ASSUME Fds_OK, Files_OK, Locals_OK, amount \in 0..MaxSize, NEW call, Legal(call),
         NEW result \in Results, Calls(call, result)
  PROVE  /\ call.op \in CallOps /\ Fds_OK' /\ Files_OK'
         /\ call.op \in Opens => Opening(result)
         /\ call.op \in {"close", "closedir"} => cellFsClose(Fd(call), result)
         /\ call.op \notin Opens \cup {"close", "closedir"} => SameKinds
<1>1. call.op \in CallOps
  BY DEF Calls, CallOps, Opens
<1>2. call.path \in Paths /\ call.mapped \in Nat /\ Amount(call) \in Nat
  <2>1. call.op \notin Conditions
    BY <1>1 DEF CallOps, Opens, Conditions
  <2> QED BY <2>1, AmountIs DEF Legal
<1>3. CASE call.op \in {"open", "open_sdata"}
  <2>1. Opening(result)
    <3>1. cellFsOpen(call.path, call.flags, "plain", result) \/ cellFsOpen(call.path, call.flags,
          "sdata", result)
      BY <1>3 DEF Calls
    <3> QED BY <1>2, <3>1, OpenOpens
  <2>2. Files_OK'
    <3>1. files' = files \/ files' = [files EXCEPT ![call.path] = 0]
      BY <1>3 DEF Calls, cellFsOpen, Nothing
    <3> QED BY <1>2, <3>1, FileTestsAssumption DEF FileTestsAssumption, Files_OK
  <2> QED BY <1>1, <1>3, <2>1, <2>2 DEF Opening, Opens, Gives, Fds_OK
<1>4. CASE call.op = "open_by_fd"
  <2>1. cellFsSdataOpenByFd(Fd(call), call.flags, result)
    BY <1>4 DEF Calls
  <2>2. CASE result.err # "OK"
    <3>1. fds' = fds /\ files' = files
      BY <2>1, <2>2 DEF cellFsSdataOpenByFd, Nothing
    <3> QED BY <1>1, <1>4, <2>2, <3>1 DEF Opening, Files_OK, Fds_OK, Opens
  <2>3. CASE result.err = "OK"
    <3> DEFINE new == [fds[Fd(call)] EXCEPT !.kind = "sdata", !.writable = FALSE, !.at = 0]
    <3>1. IsOpen(Fd(call)) /\ Gives(result.val, new) /\ files' = files
      BY <2>1, <2>3 DEF cellFsSdataOpenByFd, Is, OnlyFds
    <3>2. new \in {n \in Descriptor : n.kind # "closed"}
      <4>1. fds[Fd(call)] \in Descriptor
        BY <3>1 DEF Fds_OK, IsOpen
      <4>2. 0 \in 0..MaxSize
        BY FileTestsAssumption DEF FileTestsAssumption
      <4> QED BY <4>1, <4>2 DEF Descriptor, Kinds
    <3> HIDE DEF new
    <3>3. Opening(result)
      BY <2>3, <3>1, <3>2 DEF Opening, Gives
    <3> QED BY <1>1, <1>4, <3>1, <3>2, <3>3 DEF Gives, Files_OK, Fds_OK, Opens
  <2> QED BY <2>2, <2>3
<1>5. CASE call.op = "opendir"
  <2> DEFINE new == [path |-> call.path, kind |-> "directory", writable |-> FALSE, at |-> 0]
  <2>1. result.err = "OK" /\ Gives(result.val, new) /\ files' = files
    BY <1>5 DEF Calls, cellFsOpendir, OnlyFds
  <2>2. new \in {n \in Descriptor : n.kind # "closed"}
    BY <1>2, NewDescriptor DEF Kinds
  <2> HIDE DEF new
  <2>3. Opening(result)
    BY <2>1, <2>2 DEF Opening, Gives
  <2> QED BY <1>1, <1>5, <2>1, <2>2, <2>3 DEF Gives, Files_OK, Fds_OK, Opens
<1>6. CASE call.op \in {"close", "closedir"}
  <2>1. cellFsClose(Fd(call), result)
    BY <1>6 DEF Calls
  <2>2. Fds_OK' /\ Files_OK'
    BY <2>1, ClosedIsDescriptor DEF cellFsClose, OnlyFds, Files_OK, Fds_OK
  <2> QED BY <1>1, <1>6, <2>1, <2>2 DEF Opens
<1>7. CASE call.op \in {"write", "write_at"}
  <2>1. \/ cellFsWrite(Fd(call), Amount(call), call.mapped, result)
        \/ cellFsWriteWithOffset(Fd(call), Amount(call), call.mapped, result)
    BY <1>7 DEF Calls
  <2>2. SameKinds /\ Files_OK'
    BY <1>2, <2>1, WriteMoves
  <2> QED BY <1>1, <1>7, <2>2 DEF SameKinds, Fds_OK, Opens
<1>8. CASE call.op \in {"read", "read_at", "lseek", "fstat", "entry"}
  <2>1. \/ cellFsRead(Fd(call), Amount(call), call.mapped, result)
        \/ cellFsReadWithOffset(Fd(call), Amount(call), call.mapped, result)
        \/ cellFsLseek(Fd(call), result) \/ cellFsFstat(Fd(call), result) \/ NextEntry(Fd(call), result)
    BY <1>8 DEF Calls
  <2>2. SameKinds /\ Files_OK'
    BY <1>2, <2>1, OthersMove
  <2> QED BY <1>1, <1>8, <2>2 DEF SameKinds, Fds_OK, Opens
<1>9. CASE call.op \in {"mkdir", "unlink", "rmdir"}
  <2>1. cellFsMkdir(call.path, result) \/ cellFsUnlink(call.path, result) \/ cellFsRmdir(call.path, result)
    BY <1>9 DEF Calls
  <2>2. SameKinds /\ Files_OK'
    BY <1>2, <2>1, PathsMove
  <2> QED BY <1>1, <1>9, <2>2 DEF SameKinds, Fds_OK, Opens
<1> QED BY <1>1, <1>3, <1>4, <1>5, <1>6, <1>7, <1>8, <1>9 DEF CallOps, Opens


\* The state of a script is of its types, as far as its descriptors need it.
Typed == Fds_OK /\ Files_OK /\ Locals_OK /\ amount \in 0..MaxSize

\* A step that makes the call, with its result.
Performs(call, result) ==
  /\ Calls(call, result) \/ (MayFail(call) /\ Fails(result))
  /\ ret' = result /\ pc' = pc + 1 /\ test' = test
  /\ local' = IF call.op \in Opens /\ result.err = "OK"
              THEN [local EXCEPT ![Target(call)] = result.val] ELSE local
  /\ amount' = IF call.op \in Keeps THEN AsSize(result) ELSE amount
  /\ failed' = ~Meets(result, call)
  /\ error' = (error \/ (test = "copy_file_" /\ result.err # "OK"))

\* A step of a script makes the call of its instruction.
LEMMA CallPerforms == ASSUME Call PROVE \E result \in Results : Performs(Instruction, result)
BY DEF Call, Performs

\* The number of v is the first that those of V leave.
NextIs(v, V) == \A fd : fd \in FirstFd..(Number(v) - 1) <=> \E w \in V : fd = Number(w)

\* What a call does to the descriptors that the variables of V hold.
LEMMA Holders ==
  ASSUME Typed, NEW V \in SUBSET Locals, Has(V), NEW call, Legal(call),
         NEW result \in Results, Performs(call, result)
  PROVE  /\ call.op \in CallOps /\ Fds_OK' /\ Files_OK'
         /\ call.op \in Opens =>
              /\ result.err = "OK" => \A v \in Locals : v = Target(call) /\ NextIs(v, V) => Has(V \cup {v})'
              /\ result.err # "OK" => Has(V)'
         /\ call.op \in {"close", "closedir"} =>
              /\ \A v \in V : v = call.fd /\ (\A w \in V : Number(w) = Number(v) => w = v) => Has(V \ {v})'
              /\ V = {} => Has(V)'
         /\ call.op \notin Opens \cup {"close", "closedir"} => Has(V)'
<1>1. CASE Fails(result)
  <2>1. fds' = fds /\ files' = files /\ result.err = "EIO"
    BY <1>1 DEF Fails, Nothing, Is
  <2>2. CASE call.op \in {"close", "closedir"}
    <3>1. Calls(call, result)
      BY <2>2 DEF Performs, MayFail
    <3>2. result.err # "EIO"
      BY <2>2, <3>1 DEF Calls, cellFsClose, Is
    <3> QED BY <2>1, <3>2
  <2>3. CASE call.op \notin {"close", "closedir"}
    <3>1. local' = local
      BY <2>1 DEF Performs
    <3>2. Has(V)'
      BY <2>1, <3>1, HasSame
    <3>3. call.op \in CallOps
      BY DEF Performs, MayFail, Calls, CallOps, Opens
    <3>4. Fds_OK' /\ Files_OK'
      BY <2>1 DEF Typed, Fds_OK, Files_OK
    <3> QED BY <2>1, <2>3, <3>2, <3>3, <3>4 DEF Opens
  <2> QED BY <2>2, <2>3
<1>2. CASE Calls(call, result)
  <2>1. /\ call.op \in CallOps /\ Fds_OK' /\ Files_OK'
        /\ call.op \in Opens => Opening(result)
        /\ call.op \in {"close", "closedir"} => cellFsClose(Fd(call), result)
        /\ call.op \notin Opens \cup {"close", "closedir"} => SameKinds
    BY <1>2, CallDoes DEF Typed
  <2>2. CASE call.op \in Opens /\ result.err = "OK"
    <3>1. SUFFICES ASSUME NEW v \in Locals, v = Target(call), NextIs(v, V) PROVE Has(V \cup {v})'
      BY <2>1, <2>2 DEF Opens
    <3>2. PICK new \in {n \in Descriptor : n.kind # "closed"} : Gives(result.val, new)
      BY <2>1, <2>2 DEF Opening
    <3>3. result.val \in Descriptors /\ local' = [local EXCEPT ![v] = result.val]
      BY <2>1, <2>2, <3>1 DEF Opening, Performs
    <3>4. PICK W : W = V \cup {v}
      OBVIOUS
    <3>5. Has(W)'
      BY <3>1, <3>2, <3>3, <3>4, HasMore DEF Typed, NextIs
    <3> QED BY <3>4, <3>5
  <2>3. CASE call.op \in Opens /\ result.err # "OK"
    <3>1. fds' = fds /\ local' = local
      BY <2>1, <2>3 DEF Opening, Performs
    <3>2. Has(V)'
      BY <3>1, HasSame
    <3> QED BY <2>1, <2>3, <3>2 DEF Opens
  <2>4. CASE call.op \in {"close", "closedir"}
    <3>1. local' = local /\ call.op \notin Opens
      BY <2>4 DEF Performs, Opens
    <3>2. ASSUME NEW v \in V, v = call.fd, \A w \in V : Number(w) = Number(v) => w = v
          PROVE  Has(V \ {v})'
      <4>1. Fd(call) = local[v] /\ IsOpen(local[v])
        <5>1. v # None
          BY DEF None, Locals
        <5> QED BY <3>2, <5>1 DEF Fd, Has
      <4>2. fds' = [fds EXCEPT ![local[v]] = Closed]
        BY <2>1, <2>4, <4>1 DEF cellFsClose
      <4>3. PICK W : W = V \ {v}
        OBVIOUS
      <4>4. Has(W)'
        BY <3>1, <3>2, <4>2, <4>3, HasLess DEF Typed
      <4> QED BY <4>3, <4>4
    <3>3. ASSUME V = {} PROVE Has(V)'
      <4>1. ~IsOpen(Fd(call))
        BY <3>3 DEF Has
      <4>2. fds' = fds
        BY <2>1, <2>4, <4>1 DEF cellFsClose
      <4> QED BY <3>1, <4>2, HasSame
    <3> QED BY <2>1, <2>4, <3>1, <3>2, <3>3
  <2>5. CASE call.op \notin Opens \cup {"close", "closedir"}
    <3>1. local' = local
      BY <2>5 DEF Performs
    <3>2. Has(V)'
      BY <2>1, <2>5, <3>1, HasSame
    <3> QED BY <2>1, <2>5, <3>2
  <2> QED BY <2>1, <2>2, <2>3, <2>4, <2>5
<1> QED BY <1>1, <1>2 DEF Performs

\* A branch or an end changes no descriptor.
LEMMA BranchHolds ==
  ASSUME NEW V, Has(V), Branch \/ Leave
  PROVE  Has(V)'
BY DEF Branch, Leave, Has, IsOpen
-----------------------------------------------------------------------------
(* SDATA.                                                                  *)

\* The numbers up to 28, one by one.
LEMMA UpTo28 ==
  ASSUME NEW k \in 1..28
  PROVE  k \in {1, 2, 3, 4, 5, 6, 7, 8, 9, 10, 11, 12, 13, 14, 15, 16, 17, 18, 19, 20, 21, 22, 23,
                24, 25, 26, 27, 28}
OBVIOUS

\* The fields that a call to the file system has, by what makes it.
LEMMA CallFields ==
  /\ \A path, flags, fd :
       /\ open_file_(path, flags, fd).op = "open" /\ Open(path, flags, fd).op = "open"
       /\ open_file_(path, flags, fd).path = path /\ open_file_(path, flags, fd).flags = flags
       /\ open_file_(path, flags, fd).fd = fd
       /\ open_sdata(path, flags, fd).op = "open_sdata" /\ open_sdata(path, flags, fd).path = path
       /\ open_sdata(path, flags, fd).flags = flags /\ open_sdata(path, flags, fd).fd = fd
       /\ path \in Paths /\ fd \in {None} \cup Locals =>
            Legal(open_file_(path, flags, fd)) /\ Legal(open_sdata(path, flags, fd))
  /\ \A fd, flags, to :
       /\ OpenByFd(fd, flags, to).op = "open_by_fd" /\ OpenByFd(fd, flags, to).flags = flags
       /\ OpenByFd(fd, flags, to).fd = fd /\ OpenByFd(fd, flags, to).size = to
       /\ fd \in Locals /\ to \in Locals => Legal(OpenByFd(fd, flags, to))
  /\ \A fd, size :
       /\ write_file_(fd, size).op = "write" /\ write_off_file_(fd, size).op = "write_at"
       /\ read_file_(fd, size).op = "read" /\ read_off_file_(fd, size).op = "read_at"
       /\ write_file_(fd, size).fd = fd /\ read_file_(fd, size).fd = fd
       /\ write_file_(fd, size).size = size /\ read_file_(fd, size).size = size
       /\ write_file_(fd, size).mapped = All /\ read_file_(fd, size).mapped = All
       /\ fd \in {None} \cup Locals /\ size \in Nat \cup {Saved} =>
            /\ Legal(write_file_(fd, size)) /\ Legal(write_off_file_(fd, size))
            /\ Legal(read_file_(fd, size)) /\ Legal(read_off_file_(fd, size))
  /\ \A fd : /\ Close(fd).op = "close" /\ Close(fd).fd = fd
             /\ ENSURE_OK(Close(fd)).op = "close" /\ ENSURE_OK(Close(fd)).fd = fd
             /\ stat_file_(fd).op = "fstat"
             /\ fd \in Locals => Legal(Close(fd)) /\ Legal(ENSURE_OK(Close(fd))) /\ Legal(stat_file_(fd))
<1>1. "temp" \in Paths /\ All \in Nat /\ Saved = -1 /\ None = -1 /\ Locals = 0..4
  BY FileTestsAssumption DEF FileTestsAssumption, Paths, All, Saved, None, Locals
<1>2. ASSUME NEW path, NEW flags, NEW fd
      PROVE  /\ open_file_(path, flags, fd).op = "open" /\ Open(path, flags, fd).op = "open"
             /\ open_file_(path, flags, fd).path = path /\ open_file_(path, flags, fd).flags = flags
             /\ open_file_(path, flags, fd).fd = fd
             /\ open_sdata(path, flags, fd).op = "open_sdata" /\ open_sdata(path, flags, fd).path = path
             /\ open_sdata(path, flags, fd).flags = flags /\ open_sdata(path, flags, fd).fd = fd
             /\ path \in Paths /\ fd \in {None} \cup Locals =>
                  Legal(open_file_(path, flags, fd)) /\ Legal(open_sdata(path, flags, fd))
  BY <1>1 DEF open_file_, open_sdata, Open, OnPath, Op, cellFunc, Legal
<1>3. ASSUME NEW fd, NEW flags, NEW to
      PROVE  /\ OpenByFd(fd, flags, to).op = "open_by_fd" /\ OpenByFd(fd, flags, to).flags = flags
             /\ OpenByFd(fd, flags, to).fd = fd /\ OpenByFd(fd, flags, to).size = to
             /\ fd \in Locals /\ to \in Locals => Legal(OpenByFd(fd, flags, to))
  BY <1>1 DEF OpenByFd, Op, cellFunc, Legal
<1>4. ASSUME NEW fd, NEW size
      PROVE  /\ write_file_(fd, size).op = "write" /\ write_off_file_(fd, size).op = "write_at"
             /\ read_file_(fd, size).op = "read" /\ read_off_file_(fd, size).op = "read_at"
             /\ write_file_(fd, size).fd = fd /\ read_file_(fd, size).fd = fd
             /\ write_file_(fd, size).size = size /\ read_file_(fd, size).size = size
             /\ write_file_(fd, size).mapped = All /\ read_file_(fd, size).mapped = All
             /\ fd \in {None} \cup Locals /\ size \in Nat \cup {Saved} =>
                  /\ Legal(write_file_(fd, size)) /\ Legal(write_off_file_(fd, size))
                  /\ Legal(read_file_(fd, size)) /\ Legal(read_off_file_(fd, size))
  BY <1>1 DEF write_file_, write_off_file_, read_file_, read_off_file_, Transfer, Op, cellFunc, Legal
<1>5. ASSUME NEW fd
      PROVE  /\ Close(fd).op = "close" /\ Close(fd).fd = fd
             /\ ENSURE_OK(Close(fd)).op = "close" /\ ENSURE_OK(Close(fd)).fd = fd
             /\ stat_file_(fd).op = "fstat"
             /\ fd \in Locals => Legal(Close(fd)) /\ Legal(ENSURE_OK(Close(fd))) /\ Legal(stat_file_(fd))
  BY <1>1 DEF Close, stat_file_, Op, cellFunc, ENSURE_OK, Legal
<1> QED BY <1>2, <1>3, <1>4, <1>5

\* What SDATA does at each instruction.
LEMMA SDATAIs ==
  ASSUME NEW P, P = Scripts["SDATA"], NEW k \in 1..28
  PROVE  /\ Len(P) = 28 /\ Legal(P[k])
         /\ P[k].op \in {"open", "open_sdata"} <=> k \in {1, 2, 8, 9, 10}
         /\ P[k].op = "open_by_fd" <=> k \in {13, 14}
         /\ P[k].op \in {"open", "open_sdata", "open_by_fd", "close", "write", "write_at", "read", "fstat"}
         /\ P[k].op = "close" <=> k \in {5, 7}
         /\ k \in {1, 8} => P[k].fd = 0
         /\ k = 2 => P[k].fd = 1
         /\ k = 9 => P[k].fd = 2
         /\ k = 10 => P[k].fd = 3
         /\ k = 14 => P[k].size = 4
         /\ k \in {1, 2} => "CREAT" \in P[k].flags
         /\ k \in {2, 8, 9, 10} => P[k].path = "temp"
         /\ k = 13 => P[k].flags = {"RDWR"}
         /\ k = 14 => P[k].flags = {}
         /\ k = 5 => P[k].fd = 0
         /\ k = 7 => P[k].fd = 1
<1> DEFINE o1 == open_file_("sdata", {"CREAT"}, 0)
           o2 == open_file_("temp", {"CREAT", "RDWR"}, 1)
           o3 == open_file_("temp", {}, 0)
           o4 == open_file_("temp", {"RDWR"}, 2)
           o5 == open_sdata("temp", {"RDWR"}, 3)
           b1 == OpenByFd(2, {"RDWR"}, 4)
           b2 == OpenByFd(2, {}, 4)
           fs == ENSURE_OK(Op("fstat", 0))
           rd == ENSURE_VAL(Transfer("read", 0, Saved))
           c0 == ENSURE_OK(Close(0))
           wr == ENSURE_VAL(Transfer("write", 1, Saved))
           c1 == ENSURE_OK(Close(1))
           s(v) == stat_file_(v)
           w(v, n) == write_file_(v, n)
           x(v, n) == write_off_file_(v, n)
<1>1. P = <<o1, o2, fs, rd, c0, wr, c1, o3, o4, o5, s(0), s(3), b1, b2, s(4), w(None, 0), w(0, 0), w(0,
      1), w(3, 0),
            w(3, 1), w(4, 0), w(4, 1), x(0, 0), x(0, 1), x(3, 0), x(3, 1), x(4, 0), x(4, 1)>>
  BY DEF Scripts, SDATA
<1>2. /\ o1.op = "open" /\ o2.op = "open" /\ o3.op = "open" /\ o4.op = "open" /\ o5.op = "open_sdata"
      /\ b1.op = "open_by_fd" /\ b2.op = "open_by_fd" /\ c0.op = "close" /\ c1.op = "close"
      /\ \A v : s(v).op = "fstat"
      /\ \A v, n : w(v, n).op = "write" /\ x(v, n).op = "write_at"
  BY CallFields
<1>3. fs.op = "fstat" /\ rd.op = "read" /\ wr.op = "write" /\ Legal(fs) /\ Legal(rd) /\ Legal(wr)
  BY FileTestsAssumption
     DEF FileTestsAssumption, ENSURE_OK, ENSURE_VAL, cellFunc, Transfer, Op, Legal, Paths, All, Saved,
         None, Locals
<1>4. /\ o1.fd = 0 /\ o2.fd = 1 /\ o3.fd = 0 /\ o4.fd = 2 /\ o5.fd = 3 /\ b2.size = 4 /\ c0.fd = 0
      /\ c1.fd = 1
      /\ "CREAT" \in o1.flags /\ "CREAT" \in o2.flags /\ b1.flags = {"RDWR"} /\ b2.flags = {}
      /\ o2.path = "temp" /\ o3.path = "temp" /\ o4.path = "temp" /\ o5.path = "temp"
  BY CallFields
<1>5. /\ Legal(o1) /\ Legal(o2) /\ Legal(o3) /\ Legal(o4) /\ Legal(o5) /\ Legal(b1) /\ Legal(b2)
      /\ Legal(c0)
      /\ Legal(c1) /\ Legal(s(0)) /\ Legal(s(3)) /\ Legal(s(4))
  <2>1. {"sdata", "temp"} \subseteq Paths /\ {0, 1, 2, 3, 4} \subseteq Locals
    BY DEF Paths, Locals
  <2> QED BY <2>1, CallFields
<1>6. /\ Legal(w(None, 0)) /\ Legal(w(0, 0)) /\ Legal(w(0, 1)) /\ Legal(w(3, 0)) /\ Legal(w(3, 1))
      /\ Legal(w(4, 0)) /\ Legal(w(4, 1)) /\ Legal(x(0, 0)) /\ Legal(x(0, 1)) /\ Legal(x(3, 0))
      /\ Legal(x(3, 1)) /\ Legal(x(4, 0)) /\ Legal(x(4, 1))
  <2>1. {0, 3, 4, None} \subseteq {None} \cup Locals /\ {0, 1} \subseteq Nat \cup {Saved}
    BY DEF Locals
  <2> QED BY <2>1, CallFields
<1> HIDE DEF o1, o2, o3, o4, o5, b1, b2, fs, rd, c0, wr, c1, s, w, x
<1>7. /\ Len(P) = 28
      /\ P[1] = o1 /\ P[2] = o2 /\ P[3] = fs /\ P[4] = rd /\ P[5] = c0 /\ P[6] = wr /\ P[7] = c1
      /\ P[8] = o3 /\ P[9] = o4 /\ P[10] = o5 /\ P[11] = s(0) /\ P[12] = s(3) /\ P[13] = b1 /\ P[14] = b2
      /\ P[15] = s(4) /\ P[16] = w(None, 0) /\ P[17] = w(0, 0) /\ P[18] = w(0, 1) /\ P[19] = w(3, 0)
      /\ P[20] = w(3, 1) /\ P[21] = w(4, 0) /\ P[22] = w(4, 1) /\ P[23] = x(0, 0) /\ P[24] = x(0, 1)
      /\ P[25] = x(3, 0) /\ P[26] = x(3, 1) /\ P[27] = x(4, 0) /\ P[28] = x(4, 1)
  BY <1>1
<1>8. k \in {1, 2, 3, 4, 5, 6, 7, 8, 9, 10, 11, 12, 13, 14, 15, 16, 17, 18, 19, 20, 21, 22, 23, 24, 25,
      26, 27, 28}
  BY UpTo28
<1>9. Legal(P[k])
  BY <1>3, <1>5, <1>6, <1>7, <1>8
<1>10. /\ P[1].op = "open" /\ P[2].op = "open" /\ P[3].op = "fstat" /\ P[4].op = "read" /\ P[5].op = "close"
       /\ P[6].op = "write" /\ P[7].op = "close" /\ P[8].op = "open" /\ P[9].op = "open"
            /\ P[10].op = "open_sdata"
       /\ P[11].op = "fstat" /\ P[12].op = "fstat" /\ P[13].op = "open_by_fd" /\ P[14].op = "open_by_fd"
       /\ P[15].op = "fstat"
       /\ \A n \in 16..22 : P[n].op = "write"
       /\ \A n \in 23..28 : P[n].op = "write_at"
  <2>1. \A n \in 16..22 : n \in {16, 17, 18, 19, 20, 21, 22}
    OBVIOUS
  <2>2. \A n \in 23..28 : n \in {23, 24, 25, 26, 27, 28}
    OBVIOUS
  <2> QED BY <1>2, <1>3, <1>7, <2>1, <2>2
<1>11. /\ P[k].op \in {"open", "open_sdata"} <=> k \in {1, 2, 8, 9, 10}
       /\ P[k].op = "open_by_fd" <=> k \in {13, 14}
       /\ P[k].op \in {"open", "open_sdata", "open_by_fd", "close", "write", "write_at", "read", "fstat"}
       /\ P[k].op = "close" <=> k \in {5, 7}
  BY <1>8, <1>10
<1> QED BY <1>4, <1>7, <1>9, <1>11


\* The variables of SDATA that hold a descriptor at instruction n.
SdataHolds(n) == IF n \in {1, 8} THEN {}
                 ELSE IF n \in {2, 9} THEN {0}
                 ELSE IF n \in {3, 4, 5} THEN {0, 1}
                 ELSE IF n \in {6, 7} THEN {1}
                 ELSE IF n = 10 THEN {0, 2}
                 ELSE IF n \in 11..14 THEN {0, 2, 3}
                 ELSE {0, 2, 3, 4}
SdataInv == pc \in 1..29 /\ Has(SdataHolds(pc)) /\ (pc > 2 => files["temp"] # Absent)

\* Which number comes next.
LEMMA NextNumber == /\ NextIs(0, {}) /\ NextIs(1, {0}) /\ NextIs(2, {0})
                    /\ NextIs(3, {0, 2}) /\ NextIs(4, {0, 2, 3})
<1>1. FirstFd \in Nat
  BY FileTestsAssumption DEF FileTestsAssumption
<1>2. /\ Number(0) = FirstFd /\ Number(1) = FirstFd + 1 /\ Number(2) = FirstFd + 1
      /\ Number(3) = FirstFd + 2 /\ Number(4) = FirstFd + 3
  BY <1>1 DEF Number
<1>3. NextIs(0, {})
  BY <1>1, <1>2 DEF NextIs
<1>4. NextIs(1, {0}) /\ NextIs(2, {0})
  BY <1>1, <1>2 DEF NextIs
<1>5. NextIs(3, {0, 2})
  <2>1. \A fd : fd \in FirstFd..(FirstFd + 1) <=> fd \in {FirstFd, FirstFd + 1}
    BY <1>1
  <2> QED BY <1>1, <1>2, <2>1 DEF NextIs
<1>6. NextIs(4, {0, 2, 3})
  <2>1. \A fd : fd \in FirstFd..(FirstFd + 2) <=> fd \in {FirstFd, FirstFd + 1, FirstFd + 2}
    BY <1>1
  <2> QED BY <1>1, <1>2, <2>1 DEF NextIs
<1> QED BY <1>3, <1>4, <1>5, <1>6

\* A file that is there stays, where none is removed.
LEMMA FileStays ==
  ASSUME Typed, NEW call, Legal(call), call.op \in CallOps \ {"unlink", "rmdir"},
         NEW result \in Results, Performs(call, result), NEW path \in Paths, files[path] # Absent
  PROVE  files'[path] # Absent
<1>1. CASE files' = files
  BY <1>1
<1>2. CASE files' # files
  <2>1. Calls(call, result) /\ call.path \in Paths
    BY <1>2 DEF Performs, Fails, Nothing, Legal
  <2>2. CASE call.op \in {"open", "open_sdata"}
    BY <1>2, <2>1, <2>2 DEF Calls, cellFsOpen, Nothing, Typed, Files_OK, Absent
  <2>3. CASE call.op = "mkdir"
    BY <1>2, <2>1, <2>3 DEF Calls, cellFsMkdir, Become, Nothing, Typed, Files_OK, Absent
  <2>4. CASE call.op \in {"write", "write_at"}
    <3> DEFINE fd == Fd(call)
               q == fds[fd].path
    <3>1. call.op \notin Conditions
      BY <2>4 DEF Conditions
    <3>2. Amount(call) \in Nat /\ call.mapped \in Nat
      BY <3>1, AmountIs DEF Typed, Legal
    <3>3. Lesser(Amount(call), call.mapped) \in Nat
      BY <3>2 DEF Lesser
    <3>4. IsOpen(fd)
      BY <1>2, <2>1, <2>4 DEF Calls, cellFsWrite, cellFsWriteWithOffset, WriteError, Nothing
    <3>5. fds[fd].at \in Nat /\ q \in Paths
      BY <3>4, PositionIs, FileTestsAssumption DEF FileTestsAssumption, Typed
    <3>6. \E at \in Nat, n \in Nat : Extend(fd, at, n)
      <4>1. 0 \in Nat
        OBVIOUS
      <4> QED BY <1>2, <2>1, <2>4, <3>3, <3>5, <4>1 DEF Calls, cellFsWrite, cellFsWriteWithOffset, Nothing
    <3>7. files[q] \in Int
      BY <3>5 DEF Typed, Files_OK, Absent
    <3>8. \A at \in Nat, n \in Nat : Lesser(Greater(files[q], at + n), MaxSize) \in Nat
      BY <3>7, FileTestsAssumption DEF FileTestsAssumption, Lesser, Greater
    <3>9. \E m \in Nat : files' = [files EXCEPT ![q] = m]
      BY <3>6, <3>8 DEF Extend
    <3> QED BY <3>5, <3>9 DEF Typed, Files_OK, Absent
  <2>5. CASE call.op \in {"open_by_fd", "opendir", "close", "closedir", "read", "read_at", "lseek",
        "fstat", "entry"}
    BY <1>2, <2>1, <2>5
       DEF Calls, cellFsSdataOpenByFd, cellFsOpendir, cellFsClose, cellFsRead, cellFsReadWithOffset,
           cellFsLseek, cellFsFstat, NextEntry, Nothing, OnlyFds
  <2> QED BY <2>2, <2>3, <2>4, <2>5 DEF CallOps, Opens
<1> QED BY <1>1, <1>2

\* Every call of SDATA.
LEMMA SdataCalls ==
  ASSUME Typed, test = "SDATA", SdataInv, pc \in 1..28,
         NEW result \in Results, Performs(Instruction, result)
  PROVE  SdataInv'
<1>0. PICK k \in 1..28 : k = pc
  OBVIOUS
<1>1. PICK call : call = Scripts["SDATA"][k]
  OBVIOUS
<1>2. k = pc /\ Instruction = call
  BY <1>0, <1>1 DEF Instruction
<1>3. /\ Legal(call)
      /\ call.op \in {"open", "open_sdata"} <=> k \in {1, 2, 8, 9, 10}
      /\ call.op = "open_by_fd" <=> k \in {13, 14}
      /\ call.op \in {"open", "open_sdata", "open_by_fd", "close", "write", "write_at", "read", "fstat"}
      /\ call.op = "close" <=> k \in {5, 7}
  BY <1>1, SDATAIs
<1>4. /\ k \in {1, 8} => call.fd = 0
      /\ k = 2 => call.fd = 1
      /\ k = 9 => call.fd = 2
      /\ k = 10 => call.fd = 3
      /\ k = 14 => call.size = 4
      /\ k \in {1, 2} => "CREAT" \in call.flags
      /\ k \in {2, 8, 9, 10} => call.path = "temp"
      /\ k = 13 => call.flags = {"RDWR"}
      /\ k = 14 => call.flags = {}
      /\ k = 5 => call.fd = 0
      /\ k = 7 => call.fd = 1
  BY <1>1, SDATAIs
<1>5. Performs(call, result)
  BY <1>2
<1>6. PICK V : V = SdataHolds(k)
  OBVIOUS
<1>7. PICK W : W = SdataHolds(k + 1)
  OBVIOUS
<1>8. V \in SUBSET Locals /\ Has(V)
  BY <1>2, <1>6 DEF SdataInv, SdataHolds, Locals
<1>9. /\ call.op \in Opens =>
           /\ result.err = "OK" => \A v \in Locals : v = Target(call) /\ NextIs(v, V) => Has(V \cup {v})'
           /\ result.err # "OK" => Has(V)'
      /\ call.op = "close" =>
           \A v \in V : v = call.fd /\ (\A w \in V : Number(w) = Number(v) => w = v) => Has(V \ {v})'
      /\ call.op \notin Opens \cup {"close", "closedir"} => Has(V)'
  BY <1>3, <1>5, <1>8, Holders
<1>10. call.op \in {"open", "open_sdata"} => result.err = "OK"
  <2>1. ASSUME call.op \in {"open", "open_sdata"} PROVE result.err = "OK"
    <3>1. cellFsOpen(call.path, call.flags, "plain", result) \/ cellFsOpen(call.path, call.flags,
          "sdata", result)
      BY <1>5, <2>1 DEF Performs, Calls, MayFail
    <3>2. "CREAT" \in call.flags \/ files[call.path] # Absent
      BY <1>2, <1>3, <1>4, <2>1 DEF SdataInv
    <3> QED BY <1>3, <3>1, <3>2, OpenOpens DEF Legal
  <2> QED BY <2>1
<1>11. call.op = "open_by_fd" => (result.err = "OK" <=> k = 14)
  <2>1. ASSUME call.op = "open_by_fd" PROVE cellFsSdataOpenByFd(Fd(call), call.flags, result)
    BY <1>5, <2>1 DEF Performs, Calls, MayFail
  <2> QED BY <1>3, <1>4, <2>1 DEF cellFsSdataOpenByFd, Is
<1>12. Has(W)'
  <2>1. CASE k \in {1, 8, 2, 9, 10, 14} /\ call.op \in Opens
    <3>1. result.err = "OK"
      BY <1>3, <1>10, <1>11, <2>1 DEF Opens
    <3>2. Target(call) = (IF k \in {1, 8} THEN 0 ELSE IF k = 2 THEN 1 ELSE IF k = 9 THEN 2 ELSE IF k = 10 THEN 3 ELSE 4)
      BY <1>3, <1>4, <2>1 DEF Target, Opens
    <3>3. \A v \in Locals : v = Target(call) /\ NextIs(v, V) => Has(V \cup {v})'
      BY <1>9, <2>1, <3>1
    <3>4. CASE k \in {1, 8}
      <4>1. V = {} /\ W = V \cup {0} /\ 0 \in Locals
        BY <1>6, <1>7, <3>4 DEF SdataHolds, Locals
      <4> QED BY <3>2, <3>3, <3>4, <4>1, NextNumber, Zenon
    <3>5. CASE k = 2
      <4>1. V = {0} /\ W = V \cup {1} /\ 1 \in Locals /\ Target(call) = 1
        BY <1>6, <1>7, <3>2, <3>5 DEF SdataHolds, Locals
      <4> QED BY <3>3, <4>1, NextNumber, Zenon
    <3>6. CASE k = 9
      <4>1. V = {0} /\ W = V \cup {2} /\ 2 \in Locals /\ Target(call) = 2
        BY <1>6, <1>7, <3>2, <3>6 DEF SdataHolds, Locals
      <4> QED BY <3>3, <4>1, NextNumber, Zenon
    <3>7. CASE k = 10
      <4>1. V = {0, 2} /\ W = V \cup {3} /\ 3 \in Locals /\ Target(call) = 3
        BY <1>6, <1>7, <3>2, <3>7 DEF SdataHolds, Locals
      <4> QED BY <3>3, <4>1, NextNumber, Zenon
    <3>8. CASE k = 14
      <4>1. V = {0, 2, 3} /\ W = V \cup {4} /\ 4 \in Locals /\ Target(call) = 4
        BY <1>6, <1>7, <3>2, <3>8 DEF SdataHolds, Locals
      <4> QED BY <3>3, <4>1, NextNumber, Zenon
    <3> QED BY <2>1, <3>4, <3>5, <3>6, <3>7, <3>8
  <2>2. CASE call.op = "close"
    <3>1. k \in {5, 7}
      BY <1>3, <2>2
    <3>2. PICK v : v = call.fd
      OBVIOUS
    <3>3. v \in V /\ W = V \ {v} /\ \A w \in V : Number(w) = Number(v) => w = v
      BY <1>4, <1>6, <1>7, <3>1, <3>2, FileTestsAssumption
         DEF SdataHolds, Number, FileTestsAssumption
    <3> QED BY <1>9, <2>2, <3>2, <3>3
  <2>3. CASE call.op \notin Opens \cup {"close"} \/ k = 13
    <3>1. k \notin {1, 2, 8, 9, 10, 14, 5, 7}
      BY <1>3, <2>3 DEF Opens
    <3>2. V = W
      BY <1>6, <1>7, <3>1 DEF SdataHolds
    <3>3. Has(V)'
      BY <1>3, <1>9, <1>11, <2>3 DEF Opens
    <3> QED BY <3>2, <3>3
  <2> QED BY <1>3, <2>1, <2>2, <2>3 DEF Opens
<1>13. pc' = k + 1 /\ pc' \in 1..29
  BY <1>2, <1>5 DEF Performs
<1>14. pc' > 2 => files'["temp"] # Absent
  <2>1. CASE k = 2
    <3>1. cellFsOpen(call.path, call.flags, "plain", result) \/ cellFsOpen(call.path, call.flags,
          "sdata", result)
      BY <1>5, <1>3, <2>1 DEF Performs, Calls, MayFail
    <3> QED BY <1>3, <1>4, <2>1, <3>1 DEF cellFsOpen, Typed, Files_OK, Absent, Paths
  <2>2. CASE k > 2
    <3>1. "temp" \in Paths /\ files["temp"] # Absent /\ call.op \in CallOps \ {"unlink", "rmdir"}
      BY <1>2, <1>3, <2>2 DEF SdataInv, Paths, CallOps, Opens
    <3> QED BY <1>3, <1>5, <3>1, FileStays
  <2> QED BY <1>2, <1>13, <2>1, <2>2
<1> QED BY <1>7, <1>12, <1>13, <1>14 DEF SdataInv
-----------------------------------------------------------------------------
(* The tests that have one descriptor.                                     *)

\* A call of a test whose only descriptor is in the first variable.
LEMMA OneHolder ==
  ASSUME Typed, NEW V \in {{}, {0}}, Has(V), NEW call, Legal(call), call.op # "open_by_fd",
         call.op \in Opens \cup {"close", "closedir"} => call.fd = 0, call.op \in Opens => V = {},
         NEW result \in Results, Performs(call, result)
  PROVE  Has(IF call.op \in Opens THEN (IF result.err = "OK" THEN {0} ELSE {})
             ELSE IF call.op \in {"close", "closedir"} THEN {} ELSE V)'
<1>1. V \in SUBSET Locals /\ 0 \in Locals
  BY DEF Locals
<1>2. /\ call.op \in Opens =>
           /\ result.err = "OK" => \A v \in Locals : v = Target(call) /\ NextIs(v, V) => Has(V \cup {v})'
           /\ result.err # "OK" => Has(V)'
      /\ call.op \in {"close", "closedir"} =>
           /\ \A v \in V : v = call.fd /\ (\A w \in V : Number(w) = Number(v) => w = v) => Has(V \ {v})'
           /\ V = {} => Has(V)'
      /\ call.op \notin Opens \cup {"close", "closedir"} => Has(V)'
  BY <1>1, Holders
<1>3. CASE call.op \in Opens /\ result.err = "OK"
  <2>1. V = {} /\ Target(call) = 0 /\ V \cup {0} = {0}
    BY <1>3 DEF Target
  <2>2. Has(V \cup {0})'
    BY <1>1, <1>2, <1>3, <2>1, NextNumber, Zenon
  <2> QED BY <1>3, <2>1, <2>2
<1>4. CASE call.op \in Opens /\ result.err # "OK"
  BY <1>2, <1>4
<1>5. CASE call.op \in {"close", "closedir"}
  <2>1. call.op \notin Opens
    BY <1>5 DEF Opens
  <2>2. CASE V = {}
    BY <1>2, <1>5, <2>1, <2>2
  <2>3. CASE V = {0}
    <3>1. PICK v : v = 0
      OBVIOUS
    <3>2. v \in V /\ v = call.fd /\ V \ {v} = {}
      BY <1>5, <2>3, <3>1
    <3>3. Has(V \ {v})'
      BY <1>2, <1>5, <2>3, <3>1, <3>2
    <3> QED BY <1>5, <2>1, <3>2, <3>3
  <2> QED BY <2>2, <2>3
<1>6. CASE call.op \notin Opens \cup {"close", "closedir"}
  BY <1>2, <1>6
<1> QED BY <1>3, <1>4, <1>5, <1>6

\* The fields of the instructions of these tests.
LEMMA OtherFields ==
  /\ \A op, path : /\ OnPath(op, path, 0).op = op /\ OnPath(op, path, 0).path = path
                   /\ OnPath(op, path, 0).fd = 0
                   /\ path \in Paths => Legal(OnPath(op, path, 0))
                   /\ ENSURE_OK(OnPath(op, path, 0)).op = op /\ ENSURE_OK(OnPath(op, path, 0)).path = path
                   /\ ENSURE_OK(OnPath(op, path, 0)).fd = 0
                   /\ ENSURE_OK(OnPath(op, path, 0)).needs = "OK"
                   /\ path \in Paths => Legal(ENSURE_OK(OnPath(op, path, 0)))
  /\ \A op : /\ cellFunc(Op(op, 0)).op = op /\ Legal(cellFunc(Op(op, 0)))
             /\ ENSURE_OK(Op(op, 0)).op = op /\ Legal(ENSURE_OK(Op(op, 0)))
             /\ ENSURE_OK(Op(op, 0)).fd = 0
             /\ cellFunc(ENSURE_OK(Op(op, 0))).op = op /\ Legal(cellFunc(ENSURE_OK(Op(op, 0))))
  /\ \A path, flags :
       /\ ENSURE_OK(Open(path, flags, 0)).op = "open" /\ ENSURE_OK(Open(path, flags, 0)).path = path
       /\ ENSURE_OK(Open(path, flags, 0)).fd = 0 /\ ENSURE_OK(Open(path, flags, 0)).needs = "OK"
       /\ path \in Paths => Legal(ENSURE_OK(Open(path, flags, 0)))
       /\ cellFunc(Open(path, flags, 0)).op = "open" /\ cellFunc(Open(path, flags, 0)).path = path
       /\ cellFunc(Open(path, flags, 0)).fd = 0
       /\ path \in Paths => Legal(cellFunc(Open(path, flags, 0)))
  /\ \A condition \in Conditions, by \in Int :
       /\ Jump(condition, by).op = condition /\ Jump(condition, by).size = by /\ Legal(Jump(condition, by))
  /\ \A by \in Int : Skip(by).op = "always" /\ Skip(by).size = by /\ Legal(Skip(by))
  /\ Exit.op = "exit" /\ Legal(Exit) /\ ReturnError.op = "return_error" /\ Legal(ReturnError)
<1>1. "temp" \in Paths /\ All \in Nat /\ None = -1 /\ 0 \in Locals
  BY FileTestsAssumption DEF FileTestsAssumption, Paths, All, None, Locals
<1>2. ASSUME NEW op, NEW path
      PROVE  /\ OnPath(op, path, 0).op = op /\ OnPath(op, path, 0).path = path
             /\ OnPath(op, path, 0).fd = 0
             /\ path \in Paths => Legal(OnPath(op, path, 0))
             /\ ENSURE_OK(OnPath(op, path, 0)).op = op /\ ENSURE_OK(OnPath(op, path, 0)).path = path
             /\ ENSURE_OK(OnPath(op, path, 0)).fd = 0
             /\ ENSURE_OK(OnPath(op, path, 0)).needs = "OK"
             /\ path \in Paths => Legal(ENSURE_OK(OnPath(op, path, 0)))
  BY <1>1 DEF OnPath, Op, ENSURE_OK, Legal
<1>3. ASSUME NEW op
      PROVE  /\ cellFunc(Op(op, 0)).op = op /\ Legal(cellFunc(Op(op, 0)))
             /\ ENSURE_OK(Op(op, 0)).op = op /\ Legal(ENSURE_OK(Op(op, 0)))
             /\ ENSURE_OK(Op(op, 0)).fd = 0
             /\ cellFunc(ENSURE_OK(Op(op, 0))).op = op /\ Legal(cellFunc(ENSURE_OK(Op(op, 0))))
  BY <1>1 DEF Op, ENSURE_OK, cellFunc, Legal
<1>4. ASSUME NEW path, NEW flags
      PROVE  /\ ENSURE_OK(Open(path, flags, 0)).op = "open" /\ ENSURE_OK(Open(path, flags, 0)).path = path
             /\ ENSURE_OK(Open(path, flags, 0)).fd = 0 /\ ENSURE_OK(Open(path, flags, 0)).needs = "OK"
             /\ path \in Paths => Legal(ENSURE_OK(Open(path, flags, 0)))
             /\ cellFunc(Open(path, flags, 0)).op = "open" /\ cellFunc(Open(path, flags, 0)).path = path
             /\ cellFunc(Open(path, flags, 0)).fd = 0
             /\ path \in Paths => Legal(cellFunc(Open(path, flags, 0)))
  BY <1>1 DEF Open, OnPath, Op, ENSURE_OK, cellFunc, Legal
<1>5. ASSUME NEW condition \in Conditions, NEW by \in Int
      PROVE  /\ Jump(condition, by).op = condition /\ Jump(condition, by).size = by
             /\ Legal(Jump(condition, by))
  BY <1>1 DEF Jump, Op, Legal
<1>6. ASSUME NEW by \in Int
      PROVE  Skip(by).op = "always" /\ Skip(by).size = by /\ Legal(Skip(by))
  BY <1>1 DEF Skip, Jump, Op, Legal, Conditions
<1>7. Exit.op = "exit" /\ Legal(Exit) /\ ReturnError.op = "return_error" /\ Legal(ReturnError)
  BY <1>1 DEF Exit, ReturnError, Op, Legal
<1> QED BY <1>2, <1>3, <1>4, <1>5, <1>6, <1>7

\* A part of a sequence.
LEMMA PartOf ==
  ASSUME NEW S, NEW a \in Seq(S), NEW b \in Seq(S), NEW c \in Seq(S)
  PROVE  /\ Len(a \o b \o c) = Len(a) + Len(b) + Len(c)
         /\ \A k \in 1..Len(a) : (a \o b \o c)[k] = a[k]
         /\ \A k \in 1..Len(b) : (a \o b \o c)[Len(a) + k] = b[k]
         /\ \A k \in 1..Len(c) : (a \o b \o c)[Len(a) + Len(b) + k] = c[k]
OBVIOUS
-----------------------------------------------------------------------------
(* cellFsOpen flags.                                                       *)

\* The numbers up to 32, one by one.
LEMMA UpTo32 ==
  ASSUME NEW k \in 1..32
  PROVE  k \in {1, 2, 3, 4, 5, 6, 7, 8, 9, 10, 11, 12, 13, 14, 15, 16, 17, 18, 19, 20, 21, 22, 23,
                24, 25, 26, 27, 28, 29, 30, 31, 32}
OBVIOUS

\* What cellFsOpen flags does at each instruction.
LEMMA FlagsIs ==
  ASSUME NEW P, P = Scripts["cellFsOpen_flags"], NEW k \in 1..32
  PROVE  /\ Len(P) = 32 /\ Legal(P[k])
         /\ P[k].op = "mkdir" <=> k = 1
         /\ P[k].op = "made" <=> k = 2
         /\ P[k].op = "exit" <=> k = 3
         /\ P[k].op = "unlink" <=> k \in {4, 13, 22, 31}
         /\ P[k].op = "open" <=> k \in {5, 7, 9, 14, 16, 18, 23, 25, 27}
         /\ P[k].op = "ok" <=> k \in {6, 15, 24}
         /\ P[k].op = "close" <=> k \in {8, 10, 12, 17, 19, 21, 26, 28, 30}
         /\ P[k].op = "always" <=> k \in {11, 20, 29}
         /\ P[k].op = "rmdir" <=> k = 32
         /\ P[k].op \in {"mkdir", "made", "exit", "unlink", "open", "ok", "close", "always", "rmdir"}
         /\ P[k].op \in {"open", "close"} => P[k].fd = 0
         /\ P[k].op \in {"open", "unlink"} => P[k].path = "file.h"
         /\ P[k].op \in {"mkdir", "rmdir"} => P[k].path = "testdir"
         /\ k \in {7, 16, 25} => P[k].needs = "OK"
         /\ k \in {6, 15, 24} => P[k].size = 6
         /\ k \in {2, 11, 20, 29} => P[k].size = 2
<1> DEFINE m == OnPath("mkdir", "testdir", 0)
           d == Jump("made", 2)
           x == Exit
           u == OnPath("unlink", "file.h", 0)
           o(f) == cellFunc(Open("file.h", f, 0))
           g == Jump("ok", 6)
           p == ENSURE_OK(Open("file.h", {"RDWR", "CREAT"}, 0))
           c == Close(0)
           s == Skip(2)
           r == OnPath("rmdir", "testdir", 0)
           f1 == {"EXCL", "RDWR"}
           f2 == {"EXCL", "TRUNC", "RDWR"}
           f3 == {"EXCL", "APPEND"}
<1>1. P = <<m, d, x>> \o <<u, o(f1), g, p, c, o(f1), c, s, c>> \o <<u, o(f2), g, p, c, o(f2), c, s, c>>
          \o <<u, o(f3), g, p, c, o(f3), c, s, c>> \o <<u, r>>
  BY DEF Scripts, cellFsOpen_flags, OpenFlags
<1>2. /\ m.op = "mkdir" /\ x.op = "exit" /\ u.op = "unlink" /\ p.op = "open" /\ r.op = "rmdir"
      /\ c.op = "close"
      /\ \A f : o(f).op = "open" /\ o(f).fd = 0 /\ o(f).path = "file.h"
      /\ p.fd = 0 /\ c.fd = 0 /\ p.path = "file.h" /\ u.path = "file.h" /\ m.path = "testdir"
           /\ r.path = "testdir"
      /\ p.needs = "OK"
  BY OtherFields, CallFields
<1>3. /\ d.op = "made" /\ d.size = 2 /\ g.op = "ok" /\ g.size = 6 /\ s.op = "always" /\ s.size = 2
      /\ Legal(d) /\ Legal(g) /\ Legal(s) /\ Legal(x)
  <2>1. {"made", "ok"} \subseteq Conditions /\ {2, 6} \subseteq Int
    BY DEF Conditions
  <2> QED BY <2>1, OtherFields
<1>4. Legal(m) /\ Legal(u) /\ (\A f : Legal(o(f))) /\ Legal(p) /\ Legal(c) /\ Legal(r)
  <2>1. "testdir" \in Paths /\ "file.h" \in Paths /\ 0 \in Locals
    BY DEF Paths, Locals
  <2> QED BY <2>1, OtherFields, CallFields
<1> HIDE DEF m, d, x, u, o, g, p, c, s, r, f1, f2, f3
<1>5. /\ Len(P) = 32
      /\ P[1] = m /\ P[2] = d /\ P[3] = x
      /\ P[4] = u /\ P[5] = o(f1) /\ P[6] = g /\ P[7] = p /\ P[8] = c /\ P[9] = o(f1) /\ P[10] = c
           /\ P[11] = s /\ P[12] = c
      /\ P[13] = u /\ P[14] = o(f2) /\ P[15] = g /\ P[16] = p /\ P[17] = c /\ P[18] = o(f2)
           /\ P[19] = c /\ P[20] = s
      /\ P[21] = c
      /\ P[22] = u /\ P[23] = o(f3) /\ P[24] = g /\ P[25] = p /\ P[26] = c /\ P[27] = o(f3)
           /\ P[28] = c /\ P[29] = s
      /\ P[30] = c /\ P[31] = u /\ P[32] = r
  BY <1>1
<1>6. k \in {1, 2, 3, 4, 5, 6, 7, 8, 9, 10, 11, 12, 13, 14, 15, 16, 17, 18, 19, 20, 21, 22, 23, 24, 25,
      26, 27,
             28, 29, 30, 31, 32}
  BY UpTo32
<1>7. Legal(P[k])
  BY <1>3, <1>4, <1>5, <1>6
<1>8. /\ P[1].op = "mkdir" /\ P[2].op = "made" /\ P[3].op = "exit" /\ P[4].op = "unlink" /\ P[5].op = "open"
      /\ P[6].op = "ok" /\ P[7].op = "open" /\ P[8].op = "close" /\ P[9].op = "open" /\ P[10].op = "close"
      /\ P[11].op = "always" /\ P[12].op = "close" /\ P[13].op = "unlink" /\ P[14].op = "open"
           /\ P[15].op = "ok"
      /\ P[16].op = "open" /\ P[17].op = "close" /\ P[18].op = "open" /\ P[19].op = "close"
           /\ P[20].op = "always"
      /\ P[21].op = "close" /\ P[22].op = "unlink" /\ P[23].op = "open" /\ P[24].op = "ok"
           /\ P[25].op = "open"
      /\ P[26].op = "close" /\ P[27].op = "open" /\ P[28].op = "close" /\ P[29].op = "always"
           /\ P[30].op = "close"
      /\ P[31].op = "unlink" /\ P[32].op = "rmdir"
  BY <1>2, <1>3, <1>5
<1>9. /\ P[k].op = "mkdir" <=> k = 1
      /\ P[k].op = "made" <=> k = 2
      /\ P[k].op = "exit" <=> k = 3
      /\ P[k].op = "unlink" <=> k \in {4, 13, 22, 31}
      /\ P[k].op = "open" <=> k \in {5, 7, 9, 14, 16, 18, 23, 25, 27}
      /\ P[k].op = "ok" <=> k \in {6, 15, 24}
      /\ P[k].op = "close" <=> k \in {8, 10, 12, 17, 19, 21, 26, 28, 30}
      /\ P[k].op = "always" <=> k \in {11, 20, 29}
      /\ P[k].op = "rmdir" <=> k = 32
      /\ P[k].op \in {"mkdir", "made", "exit", "unlink", "open", "ok", "close", "always", "rmdir"}
  BY <1>6, <1>8
<1>10. /\ k \in {5, 7, 9, 14, 16, 18, 23, 25, 27} => P[k].fd = 0 /\ P[k].path = "file.h"
       /\ k \in {8, 10, 12, 17, 19, 21, 26, 28, 30} => P[k].fd = 0
       /\ k \in {4, 13, 22, 31} => P[k].path = "file.h"
       /\ k \in {1, 32} => P[k].path = "testdir"
       /\ k \in {7, 16, 25} => P[k].needs = "OK"
       /\ k \in {6, 15, 24} => P[k].size = 6
       /\ k \in {2, 11, 20, 29} => P[k].size = 2
  BY <1>2, <1>3, <1>5
<1>11. /\ P[k].op \in {"open", "close"} => P[k].fd = 0
       /\ P[k].op \in {"open", "unlink"} => P[k].path = "file.h"
       /\ P[k].op \in {"mkdir", "rmdir"} => P[k].path = "testdir"
  BY <1>9, <1>10
<1> QED BY <1>5, <1>7, <1>9, <1>10, <1>11

\* The variables of cellFsOpen flags that hold a descriptor at instruction n: after
\* an open, if it has succeeded.
FlagsHolds(n, err) == IF n \in {8, 12, 17, 21, 26, 30} \/ (err = "OK" /\ n \in {6, 10, 15, 19, 24, 28})
                      THEN {0} ELSE {}
FlagsInv == /\ pc \in 1..33 /\ Has(FlagsHolds(pc, ret.err))
            /\ files["testdir"] \in {Absent, 2}
            /\ pc >= 32 => files["file.h"] = Absent
            /\ pc = 33 => files["testdir"] = Absent

\* Every call of cellFsOpen flags.
LEMMA FlagsCalls ==
  ASSUME Typed, test = "cellFsOpen_flags", FlagsInv, pc \in 1..32,
         NEW result \in Results, Performs(Instruction, result), ~failed'
  PROVE  FlagsInv'
<1>0. PICK k \in 1..32 : k = pc
  OBVIOUS
<1>1. PICK call : call = Scripts["cellFsOpen_flags"][k]
  OBVIOUS
<1>2. k = pc /\ Instruction = call
  BY <1>0, <1>1 DEF Instruction
<1>3. /\ Legal(call)
      /\ call.op = "mkdir" <=> k = 1
      /\ call.op = "made" <=> k = 2
      /\ call.op = "exit" <=> k = 3
      /\ call.op = "unlink" <=> k \in {4, 13, 22, 31}
      /\ call.op = "open" <=> k \in {5, 7, 9, 14, 16, 18, 23, 25, 27}
      /\ call.op = "ok" <=> k \in {6, 15, 24}
      /\ call.op = "close" <=> k \in {8, 10, 12, 17, 19, 21, 26, 28, 30}
      /\ call.op = "always" <=> k \in {11, 20, 29}
      /\ call.op = "rmdir" <=> k = 32
      /\ call.op \in {"mkdir", "made", "exit", "unlink", "open", "ok", "close", "always", "rmdir"}
  BY <1>1, FlagsIs
<1>4. /\ call.op \in {"open", "close"} => call.fd = 0
      /\ call.op \in {"open", "unlink"} => call.path = "file.h"
      /\ call.op \in {"mkdir", "rmdir"} => call.path = "testdir"
      /\ k \in {7, 16, 25} => call.needs = "OK"
  BY <1>1, FlagsIs
<1>5. Performs(call, result) /\ Calls(call, result) /\ result = ret' /\ pc' = k + 1
  BY <1>2 DEF Performs, MayFail
<1>6. call.op \in {"mkdir", "unlink", "open", "close", "rmdir"}
  BY <1>3, <1>5 DEF Calls
<1>7. Has(FlagsHolds(pc, ret.err))'
  <2>1. PICK V : V = FlagsHolds(k, ret.err)
    OBVIOUS
  <2>2. V \in {{}, {0}} /\ Has(V) /\ (call.op = "open" => V = {})
    BY <1>2, <1>3, <2>1 DEF FlagsInv, FlagsHolds
  <2>3. Has(IF call.op \in Opens THEN (IF result.err = "OK" THEN {0} ELSE {})
            ELSE IF call.op \in {"close", "closedir"} THEN {} ELSE V)'
    <3>1. call.op # "open_by_fd" /\ (call.op \in Opens <=> call.op = "open")
          /\ (call.op \in {"close", "closedir"} <=> call.op = "close")
      BY <1>6 DEF Opens
    <3>2. /\ call.op \in Opens \cup {"close", "closedir"} => call.fd = 0
          /\ call.op \in Opens => V = {}
      BY <1>4, <2>2, <3>1
    <3> QED BY <1>3, <1>5, <2>2, <3>1, <3>2, OneHolder
  <2>4. k \in {7, 16, 25} => result.err = "OK"
    BY <1>4, <1>5 DEF Performs, Meets
  <2>5. FlagsHolds(k + 1, result.err) = IF call.op \in Opens THEN (IF result.err = "OK" THEN {0} ELSE {})
                                        ELSE IF call.op \in {"close", "closedir"} THEN {} ELSE V
    <3>1. CASE call.op = "open"
      <4>1. k + 1 \in {6, 8, 10, 15, 17, 19, 24, 26, 28} /\ (k + 1 \in {8, 17, 26} => result.err = "OK")
        BY <1>3, <2>4, <3>1
      <4> QED BY <3>1, <4>1 DEF FlagsHolds, Opens
    <3>2. CASE call.op = "close"
      <4>1. k + 1 \in {9, 11, 13, 18, 20, 22, 27, 29, 31}
        BY <1>3, <3>2
      <4> QED BY <3>2, <4>1 DEF FlagsHolds, Opens
    <3>3. CASE call.op \in {"mkdir", "unlink", "rmdir"}
      <4>1. k \in {1, 4, 13, 22, 31, 32}
        BY <1>3, <3>3
      <4> QED BY <2>1, <3>3, <4>1 DEF FlagsHolds, Opens
    <3> QED BY <1>6, <3>1, <3>2, <3>3
  <2>6. PICK W : W = FlagsHolds(k + 1, result.err)
    OBVIOUS
  <2>7. Has(W)' /\ W = FlagsHolds(pc', ret'.err)
    BY <1>5, <2>3, <2>5, <2>6
  <2> QED BY <2>7
<1>8. {"testdir", "file.h"} \subseteq Paths
  BY DEF Paths
<1>9. files'["testdir"] \in {Absent, 2} /\ (pc' = 33 => files'["testdir"] = Absent)
  <2>1. CASE call.op = "mkdir"
    BY <1>2, <1>3, <1>4, <1>5, <1>8, <2>1 DEF Calls, cellFsMkdir, Become, Nothing, FlagsInv, Typed,
                                              Files_OK
  <2>2. CASE call.op \in {"unlink", "open", "close"}
    <3>1. files' = files \/ files' = [files EXCEPT !["file.h"] = 0] \/ files' = [files EXCEPT !["file.h"] = Absent]
      BY <1>4, <1>5, <2>2 DEF Calls, cellFsUnlink, Become, Nothing, cellFsOpen, cellFsClose, OnlyFds
    <3>2. files'["testdir"] = files["testdir"]
      BY <1>8, <3>1 DEF Typed, Files_OK
    <3> QED BY <1>2, <1>3, <1>5, <2>2, <3>2 DEF FlagsInv
  <2>3. CASE call.op = "rmdir"
    <3>1. files["file.h"] = Absent
      BY <1>2, <1>3, <2>3 DEF FlagsInv
    <3>2. {path \in Paths : In[path] = "testdir" /\ files[path] # Absent} = {}
      <4>1. \A path \in Paths : In[path] = "testdir" => path = "file.h"
        BY DEF In, Paths
      <4> QED BY <3>1, <4>1
    <3>3. Entries("testdir") = files["testdir"]
      <4>1. files["testdir"] \in Int
        BY <1>8 DEF Typed, Files_OK, Absent
      <4>2. Entries("testdir") = files["testdir"] + Cardinality({})
        BY <3>2, Zenon DEF Entries
      <4>3. Cardinality({}) = 0
        BY FS_EmptySet
      <4> QED BY <4>1, <4>2, <4>3
    <3>4. ~(Entries("testdir") > 2)
      BY <3>3 DEF FlagsInv, Absent
    <3>5. files' = [files EXCEPT !["testdir"] = Absent] \/ (files["testdir"] = Absent /\ files' = files)
      BY <1>4, <1>5, <2>3, <3>4 DEF Calls, cellFsRmdir, cellFsUnlink, Become, Nothing
    <3> QED BY <1>8, <3>5 DEF Typed, Files_OK
  <2> QED BY <1>6, <2>1, <2>2, <2>3
<1>10. pc' >= 32 => files'["file.h"] = Absent
  <2>1. SUFFICES ASSUME k \in {31, 32} PROVE files'["file.h"] = Absent
    BY <1>2, <1>5
  <2>2. CASE k = 31
    <3>1. call.op = "unlink" /\ call.path = "file.h"
      BY <1>3, <1>4, <2>2
    <3> QED BY <1>5, <1>8, <3>1 DEF Calls, cellFsUnlink, Become, Nothing, Typed, Files_OK
  <2>3. CASE k = 32
    <3>1. call.op = "rmdir" /\ call.path = "testdir" /\ files["file.h"] = Absent
      BY <1>2, <1>3, <1>4, <2>3 DEF FlagsInv
    <3> QED BY <1>5, <1>8, <3>1 DEF Calls, cellFsRmdir, cellFsUnlink, Become, Nothing, Typed, Files_OK
  <2> QED BY <2>1, <2>2, <2>3
<1>11. pc' \in 1..33
  BY <1>5
<1> QED BY <1>7, <1>9, <1>10, <1>11 DEF FlagsInv

\* Every branch of cellFsOpen flags.
LEMMA FlagsBranches ==
  ASSUME Typed, test = "cellFsOpen_flags", FlagsInv, pc \in 1..32, Branch
  PROVE  FlagsInv'
<1>0. PICK k \in 1..32 : k = pc
  OBVIOUS
<1>1. PICK call : call = Scripts["cellFsOpen_flags"][k]
  OBVIOUS
<1>2. k = pc /\ Instruction = call
  BY <1>0, <1>1 DEF Instruction
<1>3. /\ call.op = "made" <=> k = 2
      /\ call.op = "ok" <=> k \in {6, 15, 24}
      /\ call.op = "always" <=> k \in {11, 20, 29}
      /\ call.op \in {"mkdir", "made", "exit", "unlink", "open", "ok", "close", "always", "rmdir"}
      /\ k \in {6, 15, 24} => call.size = 6
      /\ k \in {2, 11, 20, 29} => call.size = 2
  BY <1>1, FlagsIs
<1>4. call.op \in {"made", "ok", "always"}
  BY <1>2, <1>3 DEF Branch, Conditions
<1>5. /\ ret' = ret /\ files' = files /\ fds' = fds /\ local' = local
      /\ pc' = IF Holds(call.op) THEN k + call.size ELSE k + 1
  BY <1>2 DEF Branch
<1>6. FlagsHolds(k, ret.err) = FlagsHolds(pc', ret'.err) /\ pc' \in 1..31
  <2>1. CASE call.op = "ok"
    <3>1. k \in {6, 15, 24} /\ pc' = IF ret.err = "OK" THEN k + 6 ELSE k + 1
      BY <1>3, <1>5, <2>1 DEF Holds
    <3> QED BY <1>5, <3>1 DEF FlagsHolds
  <2>2. CASE call.op = "always"
    <3>1. k \in {11, 20, 29} /\ pc' = k + 2
      BY <1>3, <1>5, <2>2 DEF Holds
    <3> QED BY <1>5, <3>1 DEF FlagsHolds
  <2>3. CASE call.op = "made"
    <3>1. k = 2 /\ pc' \in {3, 4}
      BY <1>3, <1>5, <2>3
    <3> QED BY <1>5, <3>1 DEF FlagsHolds
  <2> QED BY <1>4, <2>1, <2>2, <2>3
<1>7. PICK V : V = FlagsHolds(k, ret.err)
  OBVIOUS
<1>8. Has(V)'
  BY <1>2, <1>7, BranchHolds DEF FlagsInv
<1>9. Has(FlagsHolds(pc, ret.err))'
  BY <1>6, <1>7, <1>8
<1> QED BY <1>5, <1>6, <1>9 DEF FlagsInv
-----------------------------------------------------------------------------
(* cellFsGetDirectoryEntries.                                              *)

\* The numbers up to 37, one by one.
LEMMA UpTo37 ==
  ASSUME NEW k \in 1..37
  PROVE  k \in {1, 2, 3, 4, 5, 6, 7, 8, 9, 10, 11, 12, 13, 14, 15, 16, 17, 18, 19, 20, 21, 22, 23,
                24, 25, 26, 27, 28, 29, 30, 31, 32, 33, 34, 35, 36, 37}
OBVIOUS

\* What cellFsGetDirectoryEntries does at each instruction.
LEMMA EntriesIs ==
  ASSUME NEW P, P = Scripts["GetDirectoryEntries"], NEW k \in 1..37
  PROVE  /\ Len(P) = 37 /\ Legal(P[k])
         /\ P[k].op \in {"open", "opendir"} <=> k \in {2, 4, 8, 13, 18, 23, 28, 33}
         /\ P[k].op \in {"close", "closedir"} <=> k \in {3, 7, 12, 17, 22, 27, 32, 37}
         /\ P[k].op = "more" <=> k \in {6, 10, 15, 20, 25, 30, 35}
         /\ P[k].op \in {"mkdir", "open", "opendir", "close", "closedir", "entry", "more"}
         /\ P[k].op \in {"open", "opendir", "close", "closedir"} => P[k].fd = 0
         /\ P[k].op \in {"open", "opendir"} => P[k].needs = "OK"
         /\ P[k].op = "more" => P[k].size = -1
<1> DEFINE m == ENSURE_OK(OnPath("mkdir", "MyDir", 0))
           o == ENSURE_OK(Open("txt.txt", {"CREAT"}, 0))
           c == ENSURE_OK(Close(0))
           d == ENSURE_OK(OnPath("opendir", "MyDir", 0))
           g == ENSURE_OK(OnPath("opendir", "game", 0))
           e == cellFunc(Op("entry", 0))
           h == Jump("more", -1)
           x == ENSURE_OK(Op("closedir", 0))
<1>1. P = <<m, o, c, d, e, h, x>> \o <<d, e, h, e, x>> \o <<d, e, h, e, x>> \o <<d, e, h, e, x>>
          \o <<g, e, h, e, x>> \o <<g, e, h, e, x>> \o <<g, e, h, e, x>>
  BY DEF Scripts, GetDirectoryEntries, Readdir
<1>2. /\ m.op = "mkdir" /\ o.op = "open" /\ c.op = "close" /\ d.op = "opendir" /\ g.op = "opendir"
      /\ e.op = "entry" /\ x.op = "closedir"
      /\ o.fd = 0 /\ c.fd = 0 /\ d.fd = 0 /\ g.fd = 0 /\ x.fd = 0
      /\ o.needs = "OK" /\ d.needs = "OK" /\ g.needs = "OK"
  BY OtherFields, CallFields
<1>3. h.op = "more" /\ h.size = -1 /\ Legal(h)
  <2>1. "more" \in Conditions /\ -1 \in Int
    BY DEF Conditions
  <2> QED BY <2>1, OtherFields
<1>4. Legal(m) /\ Legal(o) /\ Legal(c) /\ Legal(d) /\ Legal(g) /\ Legal(e) /\ Legal(x)
  <2>1. {"MyDir", "txt.txt", "game"} \subseteq Paths /\ 0 \in Locals
    BY DEF Paths, Locals
  <2> QED BY <2>1, OtherFields, CallFields
<1> HIDE DEF m, o, c, d, g, e, h, x
<1>5. /\ Len(P) = 37
      /\ P[1] = m /\ P[2] = o /\ P[3] = c /\ P[4] = d /\ P[5] = e /\ P[6] = h /\ P[7] = x
      /\ P[8] = d /\ P[9] = e /\ P[10] = h /\ P[11] = e /\ P[12] = x
      /\ P[13] = d /\ P[14] = e /\ P[15] = h /\ P[16] = e /\ P[17] = x
      /\ P[18] = d /\ P[19] = e /\ P[20] = h /\ P[21] = e /\ P[22] = x
      /\ P[23] = g /\ P[24] = e /\ P[25] = h /\ P[26] = e /\ P[27] = x
      /\ P[28] = g /\ P[29] = e /\ P[30] = h /\ P[31] = e /\ P[32] = x
      /\ P[33] = g /\ P[34] = e /\ P[35] = h /\ P[36] = e /\ P[37] = x
  BY <1>1
<1>6. k \in {1, 2, 3, 4, 5, 6, 7, 8, 9, 10, 11, 12, 13, 14, 15, 16, 17, 18, 19, 20, 21, 22, 23, 24, 25,
      26, 27,
             28, 29, 30, 31, 32, 33, 34, 35, 36, 37}
  BY UpTo37
<1>7. /\ k = 1 => P[k] = m
      /\ k = 2 => P[k] = o
      /\ k = 3 => P[k] = c
      /\ k \in {4, 8, 13, 18} => P[k] = d
      /\ k \in {23, 28, 33} => P[k] = g
      /\ k \in {5, 9, 11, 14, 16, 19, 21, 24, 26, 29, 31, 34, 36} => P[k] = e
      /\ k \in {6, 10, 15, 20, 25, 30, 35} => P[k] = h
      /\ k \in {7, 12, 17, 22, 27, 32, 37} => P[k] = x
  BY <1>5
<1>8. Legal(P[k])
  BY <1>3, <1>4, <1>6, <1>7
<1>9. /\ P[k].op \in {"open", "opendir"} <=> k \in {2, 4, 8, 13, 18, 23, 28, 33}
      /\ P[k].op \in {"close", "closedir"} <=> k \in {3, 7, 12, 17, 22, 27, 32, 37}
      /\ P[k].op = "more" <=> k \in {6, 10, 15, 20, 25, 30, 35}
      /\ P[k].op \in {"mkdir", "open", "opendir", "close", "closedir", "entry", "more"}
  BY <1>2, <1>3, <1>6, <1>7
<1>10. /\ P[k].op \in {"open", "opendir", "close", "closedir"} => P[k].fd = 0
       /\ P[k].op \in {"open", "opendir"} => P[k].needs = "OK"
       /\ P[k].op = "more" => P[k].size = -1
  BY <1>2, <1>3, <1>7, <1>9
<1> QED BY <1>5, <1>8, <1>9, <1>10

EntriesHolds(n) == IF n \in {1, 2, 4, 8, 13, 18, 23, 28, 33, 38} THEN {} ELSE {0}
EntriesInv == pc \in 1..38 /\ Has(EntriesHolds(pc))

\* Every call of cellFsGetDirectoryEntries.
LEMMA EntriesCalls ==
  ASSUME Typed, test = "GetDirectoryEntries", EntriesInv, pc \in 1..37,
         NEW result \in Results, Performs(Instruction, result), ~failed'
  PROVE  EntriesInv'
<1>0. PICK k \in 1..37 : k = pc
  OBVIOUS
<1>1. PICK call : call = Scripts["GetDirectoryEntries"][k]
  OBVIOUS
<1>2. k = pc /\ Instruction = call
  BY <1>0, <1>1 DEF Instruction
<1>3. /\ Legal(call)
      /\ call.op \in {"open", "opendir"} <=> k \in {2, 4, 8, 13, 18, 23, 28, 33}
      /\ call.op \in {"close", "closedir"} <=> k \in {3, 7, 12, 17, 22, 27, 32, 37}
      /\ call.op = "more" <=> k \in {6, 10, 15, 20, 25, 30, 35}
      /\ call.op \in {"mkdir", "open", "opendir", "close", "closedir", "entry", "more"}
      /\ call.op \in {"open", "opendir", "close", "closedir"} => call.fd = 0
      /\ call.op \in {"open", "opendir"} => call.needs = "OK"
  BY <1>1, EntriesIs
<1>4. Performs(call, result) /\ Calls(call, result) /\ pc' = k + 1
  BY <1>2 DEF Performs, MayFail
<1>5. PICK V : V = EntriesHolds(k)
  OBVIOUS
<1>6. V \in {{}, {0}} /\ Has(V) /\ (call.op \in {"open", "opendir"} => V = {})
  BY <1>2, <1>3, <1>5 DEF EntriesInv, EntriesHolds
<1>7. Has(IF call.op \in Opens THEN (IF result.err = "OK" THEN {0} ELSE {})
          ELSE IF call.op \in {"close", "closedir"} THEN {} ELSE V)'
  <2>1. /\ call.op # "open_by_fd"
        /\ call.op \in Opens <=> call.op \in {"open", "opendir"}
        /\ call.op \in Opens \cup {"close", "closedir"} => call.fd = 0
        /\ call.op \in Opens => V = {}
    BY <1>3, <1>6 DEF Opens
  <2> QED BY <1>3, <1>4, <1>6, <2>1, OneHolder
<1>8. call.op \in {"open", "opendir"} => result.err = "OK"
  BY <1>3, <1>4 DEF Performs, Meets
<1>9. PICK W : W = EntriesHolds(k + 1)
  OBVIOUS
<1>10. W = IF call.op \in Opens THEN (IF result.err = "OK" THEN {0} ELSE {})
           ELSE IF call.op \in {"close", "closedir"} THEN {} ELSE V
  <2>1. CASE call.op \in {"open", "opendir"}
    <3>1. k + 1 \in {3, 5, 9, 14, 19, 24, 29, 34}
      BY <1>3, <2>1
    <3> QED BY <1>8, <1>9, <2>1, <3>1 DEF EntriesHolds, Opens
  <2>2. CASE call.op \in {"close", "closedir"}
    <3>1. k + 1 \in {4, 8, 13, 18, 23, 28, 33, 38}
      BY <1>3, <2>2
    <3> QED BY <1>9, <2>2, <3>1 DEF EntriesHolds, Opens
  <2>3. CASE call.op \in {"mkdir", "entry"}
    <3>1. k \notin {2, 4, 8, 13, 18, 23, 28, 33, 3, 7, 12, 17, 22, 27, 32, 37, 6, 10, 15, 20, 25, 30, 35}
      BY <1>3, <2>3
    <3>2. V = W
      BY <1>5, <1>9, <3>1 DEF EntriesHolds
    <3> QED BY <2>3, <3>2 DEF Opens
  <2>4. call.op # "more"
    BY <1>4 DEF Calls
  <2> QED BY <1>3, <2>1, <2>2, <2>3, <2>4
<1>11. Has(W)'
  BY <1>7, <1>10
<1> QED BY <1>4, <1>9, <1>11 DEF EntriesInv

\* Every branch of cellFsGetDirectoryEntries.
LEMMA EntriesBranches ==
  ASSUME Typed, test = "GetDirectoryEntries", EntriesInv, pc \in 1..37, Branch
  PROVE  EntriesInv'
<1>0. PICK k \in 1..37 : k = pc
  OBVIOUS
<1>1. PICK call : call = Scripts["GetDirectoryEntries"][k]
  OBVIOUS
<1>2. k = pc /\ Instruction = call
  BY <1>0, <1>1 DEF Instruction
<1>3. /\ call.op = "more" <=> k \in {6, 10, 15, 20, 25, 30, 35}
      /\ call.op \in {"mkdir", "open", "opendir", "close", "closedir", "entry", "more"}
      /\ call.op = "more" => call.size = -1
  BY <1>1, EntriesIs
<1>4. k \in {6, 10, 15, 20, 25, 30, 35} /\ pc' \in {k - 1, k + 1}
  BY <1>2, <1>3 DEF Branch, Conditions
<1>5. PICK V : V = EntriesHolds(k)
  OBVIOUS
<1>6. Has(V)'
  BY <1>2, <1>5, BranchHolds DEF EntriesInv
<1>7. V = EntriesHolds(pc') /\ pc' \in 1..38
  BY <1>4, <1>5 DEF EntriesHolds
<1> QED BY <1>6, <1>7 DEF EntriesInv
-----------------------------------------------------------------------------
(* cellFsWrite-Read unallocated memory bound.                              *)

\* The numbers up to 12, one by one.
LEMMA UpTo12 ==
  ASSUME NEW m \in 1..12
  PROVE  m \in {1, 2, 3, 4, 5, 6, 7, 8, 9, 10, 11, 12}
OBVIOUS

\* What is mapped behind an address is not negative.
LEMMA MappedIs == ASSUME NEW address \in 0..4 PROVE Mapped(address) \in Nat
BY DEF Mapped, Page

\* What is done at one address.
LEMMA UsingAddressIs ==
  ASSUME NEW address \in 0..4, NEW B, B = UsingAddress(address), NEW m \in 1..12
  PROVE  /\ Len(B) = 12 /\ Legal(B[m])
         /\ B[m].op = "open" <=> m = 2
         /\ B[m].op = "close" <=> m = 12
         /\ B[m].op \in {"unlink", "open", "write", "write_at", "fstat", "lseek", "read", "read_at",
              "close"}
         /\ m = 2 => B[m].fd = 0 /\ B[m].needs = "OK"
         /\ m = 12 => B[m].fd = 0
<1> DEFINE At(call) == [call EXCEPT !.mapped = Mapped(address)]
           u == OnPath("unlink", "temp", 0)
           o == ENSURE_OK(Open("temp", {"CREAT", "RDWR"}, 0))
           w == At(write_file_(0, 2 * Page))
           v == At(write_file_(0, All))
           x == At(write_off_file_(0, All))
           s == cellFunc(ENSURE_OK(Op("fstat", 0)))
           l == ENSURE_OK(Op("lseek", 0))
           r == At(read_file_(0, Saved))
           q == At(read_file_(0, All))
           y == At(read_off_file_(0, All))
           c == ENSURE_OK(Close(0))
<1>1. B = <<u, o, w, v, x, s, l, r, l, q, y, c>>
  BY DEF UsingAddress
<1>2. /\ u.op = "unlink" /\ o.op = "open" /\ s.op = "fstat" /\ l.op = "lseek" /\ c.op = "close"
      /\ o.fd = 0 /\ o.needs = "OK" /\ c.fd = 0
  BY OtherFields, CallFields
<1>3. /\ w.op = "write" /\ v.op = "write" /\ x.op = "write_at" /\ r.op = "read" /\ q.op = "read"
      /\ y.op = "read_at"
      /\ Legal(w) /\ Legal(v) /\ Legal(x) /\ Legal(r) /\ Legal(q) /\ Legal(y)
  <2>1. Mapped(address) \in Nat /\ All \in Nat /\ 2 * Page \in Nat /\ Saved = -1
    BY MappedIs, FileTestsAssumption DEF FileTestsAssumption, All, Page, Saved
  <2>2. /\ w.op = "write" /\ v.op = "write" /\ x.op = "write_at"
        /\ Legal(w) /\ Legal(v) /\ Legal(x)
    BY <2>1 DEF write_file_, write_off_file_, Transfer, Op, cellFunc, Legal, Paths, None, Locals
  <2>3. /\ r.op = "read" /\ q.op = "read" /\ y.op = "read_at"
        /\ Legal(r) /\ Legal(q) /\ Legal(y)
    BY <2>1 DEF read_file_, read_off_file_, Transfer, Op, cellFunc, Legal, Paths, None, Locals
  <2> QED BY <2>2, <2>3
<1>4. Legal(u) /\ Legal(o) /\ Legal(s) /\ Legal(l) /\ Legal(c)
  <2>1. "temp" \in Paths /\ 0 \in Locals
    BY DEF Paths, Locals
  <2> QED BY <2>1, OtherFields, CallFields
<1> HIDE DEF u, o, w, v, x, s, l, r, q, y, c
<1>5. /\ Len(B) = 12
      /\ B[1] = u /\ B[2] = o /\ B[3] = w /\ B[4] = v /\ B[5] = x /\ B[6] = s /\ B[7] = l /\ B[8] = r
      /\ B[9] = l /\ B[10] = q /\ B[11] = y /\ B[12] = c
  BY <1>1
<1>6. m \in {1, 2, 3, 4, 5, 6, 7, 8, 9, 10, 11, 12}
  BY UpTo12
<1>7. Legal(B[m])
  BY <1>3, <1>4, <1>5, <1>6
<1> QED BY <1>2, <1>3, <1>5, <1>6, <1>7

\* What the test does at each instruction.
LEMMA BoundIs ==
  ASSUME NEW P, P = Scripts["memory_bound"], NEW b \in 0..4, NEW m \in 1..12
  PROVE  /\ Len(P) = 60 /\ Legal(P[12 * b + m])
         /\ P[12 * b + m].op = "open" <=> m = 2
         /\ P[12 * b + m].op = "close" <=> m = 12
         /\ P[12 * b + m].op \in {"unlink", "open", "write", "write_at", "fstat", "lseek", "read",
              "read_at", "close"}
         /\ m = 2 => P[12 * b + m].fd = 0 /\ P[12 * b + m].needs = "OK"
         /\ m = 12 => P[12 * b + m].fd = 0
<1> DEFINE At(call, address) == [call EXCEPT !.mapped = Mapped(address)]
           u == OnPath("unlink", "temp", 0)
           o == ENSURE_OK(Open("temp", {"CREAT", "RDWR"}, 0))
           w(address) == At(write_file_(0, 2 * Page), address)
           v(address) == At(write_file_(0, All), address)
           x(address) == At(write_off_file_(0, All), address)
           s == cellFunc(ENSURE_OK(Op("fstat", 0)))
           l == ENSURE_OK(Op("lseek", 0))
           r(address) == At(read_file_(0, Saved), address)
           q(address) == At(read_file_(0, All), address)
           y(address) == At(read_off_file_(0, All), address)
           c == ENSURE_OK(Close(0))
<1>1. \A address : UsingAddress(address) = <<u, o, w(address), v(address), x(address), s, l,
      r(address), l, q(address), y(address), c>>
  BY DEF UsingAddress
<1>2. P = UsingAddress(0) \o UsingAddress(Page) \o UsingAddress(1) \o UsingAddress(Page + 1)
      \o UsingAddress(2 * Page)
  BY DEF Scripts, memory_bound
<1> HIDE DEF u, o, w, v, x, s, l, r, q, y, c
<1>3. P = <<u, o, w(0), v(0), x(0), s, l, r(0), l, q(0), y(0), c>>
      \o <<u, o, w(Page), v(Page), x(Page), s, l, r(Page), l, q(Page), y(Page), c>>
      \o <<u, o, w(1), v(1), x(1), s, l, r(1), l, q(1), y(1), c>>
      \o <<u, o, w(Page + 1), v(Page + 1), x(Page + 1), s, l, r(Page + 1), l, q(Page + 1), y(Page + 1),
      c>> \o <<u, o, w(2 * Page), v(2 * Page), x(2 * Page), s, l, r(2 * Page), l, q(2 * Page),
      y(2 * Page), c>>
  BY <1>1, <1>2, Zenon
<1>4. /\ Len(P) = 60
      /\ P[1] = u /\ P[2] = o /\ P[3] = w(0) /\ P[4] = v(0) /\ P[5] = x(0) /\ P[6] = s /\ P[7] = l
           /\ P[8] = r(0) /\ P[9] = l /\ P[10] = q(0) /\ P[11] = y(0) /\ P[12] = c
      /\ P[13] = u /\ P[14] = o /\ P[15] = w(Page) /\ P[16] = v(Page) /\ P[17] = x(Page)
           /\ P[18] = s /\ P[19] = l /\ P[20] = r(Page) /\ P[21] = l /\ P[22] = q(Page)
           /\ P[23] = y(Page) /\ P[24] = c
      /\ P[25] = u /\ P[26] = o /\ P[27] = w(1) /\ P[28] = v(1) /\ P[29] = x(1) /\ P[30] = s
           /\ P[31] = l /\ P[32] = r(1) /\ P[33] = l /\ P[34] = q(1) /\ P[35] = y(1) /\ P[36] = c
      /\ P[37] = u /\ P[38] = o /\ P[39] = w(Page + 1) /\ P[40] = v(Page + 1) /\ P[41] = x(Page + 1)
           /\ P[42] = s /\ P[43] = l /\ P[44] = r(Page + 1) /\ P[45] = l /\ P[46] = q(Page + 1)
           /\ P[47] = y(Page + 1) /\ P[48] = c
      /\ P[49] = u /\ P[50] = o /\ P[51] = w(2 * Page) /\ P[52] = v(2 * Page) /\ P[53] = x(2 * Page)
           /\ P[54] = s /\ P[55] = l /\ P[56] = r(2 * Page) /\ P[57] = l /\ P[58] = q(2 * Page)
           /\ P[59] = y(2 * Page) /\ P[60] = c
  BY <1>3
<1>5. Page \in 0..4 /\ Page + 1 \in 0..4 /\ 2 * Page \in 0..4
  BY DEF Page
<1>6. PICK address \in 0..4 : P[12 * b + m] = UsingAddress(address)[m]
  <2>1. b \in {0, 1, 2, 3, 4} /\ m \in {1, 2, 3, 4, 5, 6, 7, 8, 9, 10, 11, 12}
    BY UpTo12
  <2>2. CASE b = 0
    BY <1>1, <1>4, <2>1, <2>2
  <2>3. CASE b = 1
    BY <1>1, <1>4, <1>5, <2>1, <2>3
  <2>4. CASE b = 2
    BY <1>1, <1>4, <1>5, <2>1, <2>4
  <2>5. CASE b = 3
    BY <1>1, <1>4, <1>5, <2>1, <2>5
  <2>6. CASE b = 4
    BY <1>1, <1>4, <1>5, <2>1, <2>6
  <2> QED BY <2>1, <2>2, <2>3, <2>4, <2>5, <2>6
<1> QED BY <1>4, <1>6, UsingAddressIs

BoundHolds(m) == IF m \in {1, 2} THEN {} ELSE {0}
BoundInv == \/ \E b \in 0..4, m \in 1..12 : pc = 12 * b + m /\ Has(BoundHolds(m))
            \/ pc = 61 /\ Has({})

\* Every call of the test.
LEMMA BoundCalls ==
  ASSUME Typed, test = "memory_bound", BoundInv, pc \in 1..60,
         NEW result \in Results, Performs(Instruction, result), ~failed'
  PROVE  BoundInv'
<1>0. PICK b \in 0..4, m \in 1..12 : pc = 12 * b + m /\ Has(BoundHolds(m))
  BY DEF BoundInv
<1>1. PICK call : call = Scripts["memory_bound"][12 * b + m]
  OBVIOUS
<1>2. Instruction = call
  BY <1>0, <1>1 DEF Instruction
<1>3. /\ Legal(call)
      /\ call.op = "open" <=> m = 2
      /\ call.op = "close" <=> m = 12
      /\ call.op \in {"unlink", "open", "write", "write_at", "fstat", "lseek", "read", "read_at", "close"}
      /\ m = 2 => call.fd = 0 /\ call.needs = "OK"
      /\ m = 12 => call.fd = 0
  BY <1>1, BoundIs
<1>4. Performs(call, result) /\ pc' = pc + 1
  BY <1>2 DEF Performs
<1>5. PICK V : V = BoundHolds(m)
  OBVIOUS
<1>6. V \in {{}, {0}} /\ Has(V) /\ (call.op = "open" => V = {})
  BY <1>0, <1>3, <1>5 DEF BoundHolds
<1>7. Has(IF call.op \in Opens THEN (IF result.err = "OK" THEN {0} ELSE {})
          ELSE IF call.op \in {"close", "closedir"} THEN {} ELSE V)'
  <2>1. /\ call.op # "open_by_fd"
        /\ call.op \in Opens <=> call.op = "open"
        /\ call.op \in Opens \cup {"close", "closedir"} => call.fd = 0
        /\ call.op \in Opens => V = {}
    BY <1>3, <1>6 DEF Opens
  <2> QED BY <1>3, <1>4, <1>6, <2>1, OneHolder
<1>8. call.op = "open" => result.err = "OK"
  BY <1>3, <1>4 DEF Performs, Meets
<1>9. PICK W : W = IF m = 12 THEN {} ELSE BoundHolds(m + 1)
  OBVIOUS
<1>10. W = IF call.op \in Opens THEN (IF result.err = "OK" THEN {0} ELSE {})
           ELSE IF call.op \in {"close", "closedir"} THEN {} ELSE V
  <2>1. CASE call.op = "open"
    BY <1>3, <1>8, <1>9, <2>1 DEF BoundHolds, Opens
  <2>2. CASE call.op = "close"
    BY <1>3, <1>9, <2>2 DEF Opens
  <2>3. CASE call.op \notin {"open", "close"}
    <3>1. (m \notin {2, 12} /\ m + 1 # 2) \/ m = 1
      BY <1>3, <2>3
    <3>2. call.op \notin Opens \cup {"close", "closedir"}
      BY <1>3, <2>3 DEF Opens
    <3>3. V = W
      BY <1>3, <1>5, <1>9, <2>3, <3>1 DEF BoundHolds
    <3> QED BY <3>2, <3>3
  <2> QED BY <2>1, <2>2, <2>3
<1>11. Has(W)'
  BY <1>7, <1>10
<1>12. CASE m < 12
  <2>1. PICK n : n = m + 1
    OBVIOUS
  <2>2. n \in 1..12 /\ pc' = 12 * b + n /\ Has(BoundHolds(n))'
    BY <1>0, <1>4, <1>9, <1>11, <1>12, <2>1
  <2> QED BY <2>2 DEF BoundInv
<1>13. CASE m = 12 /\ b < 4
  <2>1. PICK a, n : a = b + 1 /\ n = 1
    OBVIOUS
  <2>2. a \in 0..4 /\ n \in 1..12 /\ pc' = 12 * a + n
    BY <1>0, <1>4, <1>13, <2>1
  <2>3. BoundHolds(n) = W
    BY <1>9, <1>13, <2>1 DEF BoundHolds
  <2>4. Has(BoundHolds(n))'
    BY <1>11, <2>3
  <2> QED BY <2>2, <2>4 DEF BoundInv
<1>14. CASE m = 12 /\ b = 4
  BY <1>0, <1>4, <1>9, <1>11, <1>14 DEF BoundInv
<1> QED BY <1>12, <1>13, <1>14
-----------------------------------------------------------------------------
(* copy_file_.                                                             *)

\* The numbers up to 13, one by one.
LEMMA UpTo13 ==
  ASSUME NEW k \in 1..13
  PROVE  k \in {1, 2, 3, 4, 5, 6, 7, 8, 9, 10, 11, 12, 13}
OBVIOUS

\* What copy_file_ does at each instruction.
LEMMA CopyIs ==
  ASSUME NEW P, P = Scripts["copy_file_"], NEW k \in 1..13
  PROVE  /\ Len(P) = 13 /\ Legal(P[k])
         /\ P[k].op = "open" <=> k \in {1, 4}
         /\ P[k].op = "ok" <=> k \in {2, 5}
         /\ P[k].op = "return_error" <=> k \in {3, 7}
         /\ P[k].op = "close" <=> k \in {6, 12, 13}
         /\ P[k].op = "read" <=> k = 8
         /\ P[k].op = "none" <=> k = 9
         /\ P[k].op = "write" <=> k = 10
         /\ P[k].op = "always" <=> k = 11
         /\ P[k].op \in {"open", "ok", "return_error", "close", "read", "none", "write", "always"}
         /\ k \in {1, 6, 8, 13} => P[k].fd = 0
         /\ k \in {4, 10, 12} => P[k].fd = 1
         /\ k = 1 => P[k].path = "sdata" /\ P[k].flags = {}
         /\ k = 4 => P[k].path = "dst" /\ P[k].flags = {"CREAT", "RDWR", "TRUNC"}
         /\ k = 8 => P[k].size = Chunk /\ P[k].mapped = All
         /\ k = 10 => P[k].size = Saved /\ P[k].mapped = All
         /\ k = 2 => P[k].size = 2
         /\ k \in {5, 9} => P[k].size = 3
         /\ k = 11 => P[k].size = -3
<1> DEFINE o == open_file_("sdata", {}, 0)
           g == Jump("ok", 2)
           e == ReturnError
           d == open_file_("dst", {"CREAT", "RDWR", "TRUNC"}, 1)
           h == Jump("ok", 3)
           c == Close(0)
           r == read_file_(0, Chunk)
           n == Jump("none", 3)
           w == write_file_(1, Saved)
           s == Skip(-3)
           x == Close(1)
<1>1. P = <<o, g, e, d, h, c, e, r, n, w, s, x, c>>
  BY DEF Scripts, copy_file_
<1>2. /\ o.op = "open" /\ d.op = "open" /\ c.op = "close" /\ x.op = "close" /\ r.op = "read"
      /\ w.op = "write"
      /\ o.fd = 0 /\ c.fd = 0 /\ r.fd = 0 /\ d.fd = 1 /\ x.fd = 1 /\ w.fd = 1
      /\ o.path = "sdata" /\ o.flags = {} /\ d.path = "dst" /\ d.flags = {"CREAT", "RDWR", "TRUNC"}
      /\ r.size = Chunk /\ r.mapped = All /\ w.size = Saved /\ w.mapped = All
  BY CallFields
<1>3. /\ g.op = "ok" /\ g.size = 2 /\ h.op = "ok" /\ h.size = 3 /\ n.op = "none" /\ n.size = 3
      /\ s.op = "always" /\ s.size = -3 /\ e.op = "return_error"
      /\ Legal(g) /\ Legal(h) /\ Legal(n) /\ Legal(s) /\ Legal(e)
  <2>1. "ok" \in Conditions /\ "none" \in Conditions /\ 2 \in Int /\ 3 \in Int /\ -3 \in Int
    BY DEF Conditions
  <2>2. g.op = "ok" /\ g.size = 2 /\ Legal(g) /\ h.op = "ok" /\ h.size = 3 /\ Legal(h)
    BY <2>1, OtherFields
  <2>3. n.op = "none" /\ n.size = 3 /\ Legal(n)
    BY <2>1, OtherFields
  <2>4. s.op = "always" /\ s.size = -3 /\ Legal(s) /\ e.op = "return_error" /\ Legal(e)
    BY <2>1, OtherFields
  <2> QED BY <2>2, <2>3, <2>4
<1>4. Legal(o) /\ Legal(d) /\ Legal(c) /\ Legal(x) /\ Legal(r) /\ Legal(w)
  <2>1. {"sdata", "dst"} \subseteq Paths /\ {0, 1} \subseteq Locals
        /\ {Chunk, Saved} \subseteq Nat \cup {Saved}
    BY DEF Paths, Locals, Chunk
  <2> QED BY <2>1, CallFields
<1> HIDE DEF o, g, e, d, h, c, r, n, w, s, x
<1>5. /\ Len(P) = 13
      /\ P[1] = o /\ P[2] = g /\ P[3] = e /\ P[4] = d /\ P[5] = h /\ P[6] = c /\ P[7] = e /\ P[8] = r
      /\ P[9] = n /\ P[10] = w /\ P[11] = s /\ P[12] = x /\ P[13] = c
  BY <1>1
<1>6. k \in {1, 2, 3, 4, 5, 6, 7, 8, 9, 10, 11, 12, 13}
  BY UpTo13
<1>7. Legal(P[k])
  BY <1>3, <1>4, <1>5, <1>6
<1>8. /\ P[k].op = "open" <=> k \in {1, 4}
      /\ P[k].op = "ok" <=> k \in {2, 5}
      /\ P[k].op = "return_error" <=> k \in {3, 7}
      /\ P[k].op = "close" <=> k \in {6, 12, 13}
      /\ P[k].op = "read" <=> k = 8
      /\ P[k].op = "none" <=> k = 9
      /\ P[k].op = "write" <=> k = 10
      /\ P[k].op = "always" <=> k = 11
      /\ P[k].op \in {"open", "ok", "return_error", "close", "read", "none", "write", "always"}
  BY <1>2, <1>3, <1>5, <1>6
<1>9. /\ k \in {1, 6, 8, 13} => P[k].fd = 0
      /\ k \in {4, 10, 12} => P[k].fd = 1
  BY <1>2, <1>5
<1>10. /\ k = 1 => P[k].path = "sdata" /\ P[k].flags = {}
       /\ k = 4 => P[k].path = "dst" /\ P[k].flags = {"CREAT", "RDWR", "TRUNC"}
  BY <1>2, <1>5
<1>11. /\ k = 8 => P[k].size = Chunk /\ P[k].mapped = All
       /\ k = 10 => P[k].size = Saved /\ P[k].mapped = All
       /\ k = 2 => P[k].size = 2
       /\ k \in {5, 9} => P[k].size = 3
       /\ k = 11 => P[k].size = -3
  BY <1>2, <1>3, <1>5
<1> QED BY <1>5, <1>7, <1>8, <1>9, <1>10, <1>11

CopyHolds(n, err) == IF n \in {8, 9, 10, 11, 12} \/ (n = 5 /\ err = "OK") THEN {0, 1}
                     ELSE IF n \in {4, 5, 6, 13} \/ (n = 2 /\ err = "OK") THEN {0}
                     ELSE {}

\* While nothing has failed: the second file is as long as what has been read of the
\* first, but for the part that is in the buffer.
src == fds[FirstFd]
dst == fds[FirstFd + 1]
Copied == files["dst"]
Copying == /\ pc \notin {3, 6, 7} /\ (pc \in {2, 5} => ret.err = "OK")
           /\ files["sdata"] = DataSize
           /\ pc \in 2..13 => src.path = "sdata"
           /\ pc \in {2, 4, 5} => src.at = 0
           /\ pc \in 5..12 => dst.path = "dst" /\ dst.writable /\ dst.at = Copied
           /\ pc \in 5..14 => Copied \in 0..DataSize
           /\ pc = 5 => Copied = 0
           /\ pc \in {8, 11} => src.at = Copied
           /\ pc \in {9, 10} => src.at = Copied + amount /\ amount = Lesser(Chunk, DataSize - Copied)
           /\ pc \in 12..14 => Copied = DataSize
CopyInv == pc \in 1..14 /\ Has(CopyHolds(pc, ret.err)) /\ (~error => Copying)

\* Every call of copy_file_, as far as its descriptors go.
LEMMA CopyCallHolds ==
  ASSUME Typed, NEW k \in 1..13, NEW V, V = CopyHolds(k, ret.err), Has(V),
         NEW call, call = Scripts["copy_file_"][k], NEW result \in Results, Performs(call, result),
         NEW W, W = CopyHolds(k + 1, result.err)
  PROVE  Has(W)' /\ k \in {1, 4, 6, 8, 10, 12, 13}
<1>1. /\ Legal(call)
      /\ call.op = "open" <=> k \in {1, 4}
      /\ call.op = "close" <=> k \in {6, 12, 13}
      /\ call.op = "read" <=> k = 8
      /\ call.op = "write" <=> k = 10
      /\ call.op \in {"open", "ok", "return_error", "close", "read", "none", "write", "always"}
      /\ k \in {1, 6, 8, 13} => call.fd = 0
      /\ k \in {4, 10, 12} => call.fd = 1
  BY CopyIs
<1>2. V \in SUBSET Locals
  BY DEF CopyHolds, Locals
<1>3. /\ call.op \in CallOps
      /\ call.op \in Opens =>
           /\ result.err = "OK" => \A v \in Locals : v = Target(call) /\ NextIs(v, V) => Has(V \cup {v})'
           /\ result.err # "OK" => Has(V)'
      /\ call.op = "close" =>
           \A v \in V : v = call.fd /\ (\A w \in V : Number(w) = Number(v) => w = v) => Has(V \ {v})'
      /\ call.op \notin Opens \cup {"close", "closedir"} => Has(V)'
  BY <1>1, <1>2, Holders
<1>4. call.op \in {"open", "close", "read", "write"}
  BY <1>1, <1>3 DEF CallOps, Opens
<1>5. CASE call.op = "open"
  <2>1. k \in {1, 4} /\ call.op \in Opens /\ Target(call) = call.fd
    BY <1>1, <1>5 DEF Opens, Target
  <2>2. CASE result.err # "OK"
    <3>1. V = W
      BY <2>1, <2>2 DEF CopyHolds
    <3> QED BY <1>3, <2>1, <2>2, <3>1
  <2>3. CASE result.err = "OK" /\ k = 1
    <3>1. V = {} /\ W = V \cup {0} /\ 0 \in Locals /\ Target(call) = 0
      BY <1>1, <2>1, <2>3 DEF CopyHolds, Locals
    <3>2. Has(V \cup {0})'
      BY <1>3, <2>1, <2>3, <3>1, NextNumber, Zenon
    <3> QED BY <2>3, <3>1, <3>2
  <2>4. CASE result.err = "OK" /\ k = 4
    <3>1. V = {0} /\ W = V \cup {1} /\ 1 \in Locals /\ Target(call) = 1
      BY <1>1, <2>1, <2>4 DEF CopyHolds, Locals
    <3>2. Has(V \cup {1})'
      BY <1>3, <2>1, <2>4, <3>1, NextNumber, Zenon
    <3> QED BY <2>4, <3>1, <3>2
  <2> QED BY <2>1, <2>2, <2>3, <2>4
<1>6. CASE call.op = "close"
  <2>1. k \in {6, 12, 13}
    BY <1>1, <1>6
  <2>2. PICK v : v = call.fd
    OBVIOUS
  <2>3. v \in V /\ W = V \ {v} /\ \A w \in V : Number(w) = Number(v) => w = v
    BY <1>1, <2>1, <2>2, FileTestsAssumption DEF CopyHolds, Number, FileTestsAssumption
  <2> QED BY <1>3, <1>6, <2>1, <2>2, <2>3
<1>7. CASE call.op \in {"read", "write"}
  <2>1. k \in {8, 10} /\ V = W
    BY <1>1, <1>7 DEF CopyHolds
  <2>2. Has(V)'
    BY <1>3, <1>7 DEF Opens
  <2> QED BY <2>1, <2>2
<1> QED BY <1>4, <1>5, <1>6, <1>7


\* Every call of copy_file_ that has not failed, as far as its data goes.
LEMMA CopyCallCopies ==
  ASSUME Typed, test = "copy_file_", NEW k \in 1..13, k = pc, NEW err, err = ret.err,
         Has(CopyHolds(k, err)), Copying,
         NEW call, call = Scripts["copy_file_"][k], NEW result \in Results, Performs(call, result),
         result.err = "OK", Has(CopyHolds(k + 1, "OK"))', k \in {1, 4, 6, 8, 10, 12, 13}
  PROVE  Copying'
<1>1. /\ Legal(call)
      /\ call.op = "open" <=> k \in {1, 4}
      /\ call.op = "close" <=> k \in {6, 12, 13}
      /\ call.op = "read" <=> k = 8
      /\ call.op = "write" <=> k = 10
      /\ k \in {1, 6, 8, 13} => call.fd = 0
      /\ k \in {4, 10, 12} => call.fd = 1
  BY CopyIs
<1>2. /\ k = 1 => call.path = "sdata" /\ call.flags = {}
      /\ k = 4 => call.path = "dst" /\ call.flags = {"CREAT", "RDWR", "TRUNC"}
      /\ k = 8 => call.size = Chunk /\ call.mapped = All
      /\ k = 10 => call.size = Saved /\ call.mapped = All
  BY CopyIs
<1>3. Calls(call, result) /\ pc' = k + 1 /\ ret' = result
  BY DEF Performs, Fails, Is
<1>4. FirstFd \in Nat /\ Number(0) = FirstFd /\ Number(1) = FirstFd + 1 /\ MaxSize \in Nat /\ MaxSize >= 3
  BY FileTestsAssumption DEF FileTestsAssumption, Number, DataSize
<1>5. /\ "sdata" \in Paths /\ "dst" \in Paths /\ DataSize = 3 /\ Chunk = 2 /\ All = MaxSize
      /\ Saved = -1 /\ Absent = -1 /\ None = -1
  BY DEF Paths, DataSize, Chunk, All, Saved, Absent, None
<1>6. files["sdata"] = 3 /\ k # 6
  BY <1>5 DEF Copying
<1>7. CASE k = 1
  <2>1. cellFsOpen("sdata", {}, "plain", result)
    BY <1>1, <1>2, <1>3, <1>7 DEF Calls
  <2>2. files' = files /\ Gives(result.val, [path |-> "sdata", kind |-> "plain",
        writable |-> "RDWR" \in {}, at |-> 0])
    BY <1>5, <1>6, <2>1 DEF cellFsOpen, Is
  <2>3. result.val = FirstFd
    <3>1. local' = [local EXCEPT ![0] = result.val]
      BY <1>1, <1>7 DEF Performs, Opens, Target
    <3>2. Has({0})'
      <4>1. CopyHolds(k + 1, "OK") = {0}
        BY <1>7 DEF CopyHolds
      <4>2. PICK W : W = CopyHolds(k + 1, "OK")
        OBVIOUS
      <4> QED BY <4>1
    <3>3. 0 \in Locals
      BY DEF Locals
    <3> QED BY <1>4, <3>1, <3>2, <3>3 DEF Has, Typed, Locals_OK
  <2>4. FirstFd \in Descriptors /\ fds'[FirstFd].path = "sdata" /\ fds'[FirstFd].at = 0
    BY <2>2, <2>3 DEF Gives, Typed, Fds_OK
  <2>5. pc' = 2
    BY <1>3, <1>7
  <2> QED BY <1>3, <1>5, <1>6, <2>2, <2>4, <2>5 DEF Copying, src
<1>8. CASE k = 4
  <2>1. cellFsOpen("dst", {"CREAT", "RDWR", "TRUNC"}, "plain", result)
    BY <1>1, <1>2, <1>3, <1>8 DEF Calls
  <2>2. /\ files' = [files EXCEPT !["dst"] = 0]
        /\ Gives(result.val, [path |-> "dst", kind |-> "plain", writable |-> "RDWR" \in {"CREAT",
             "RDWR", "TRUNC"}, at |-> 0])
    BY <1>5, <2>1 DEF cellFsOpen, Is
  <2>3. result.val = FirstFd + 1
    <3>1. local' = [local EXCEPT ![1] = result.val]
      BY <1>1, <1>8 DEF Performs, Opens, Target
    <3>2. Has({0, 1})'
      <4>1. CopyHolds(k + 1, "OK") = {0, 1}
        BY <1>8 DEF CopyHolds
      <4> QED BY <4>1
    <3>3. 1 \in Locals
      BY DEF Locals
    <3> QED BY <1>4, <3>1, <3>2, <3>3 DEF Has, Typed, Locals_OK
  <2>4. /\ FirstFd + 1 \in Descriptors /\ fds'[FirstFd + 1].path = "dst" /\ fds'[FirstFd + 1].at = 0
        /\ fds'[FirstFd + 1].writable
    <3>1. fds' = [fds EXCEPT ![FirstFd + 1] = [path |-> "dst", kind |-> "plain",
                                               writable |-> "RDWR" \in {"CREAT", "RDWR", "TRUNC"},
                                                     at |-> 0]]
          /\ FirstFd + 1 \in Descriptors
      BY <2>2, <2>3 DEF Gives
    <3>2. FirstFd + 1 \in DOMAIN fds
      BY <3>1 DEF Typed, Fds_OK
    <3>3. fds'[FirstFd + 1] = [path |-> "dst", kind |-> "plain",
                               writable |-> "RDWR" \in {"CREAT", "RDWR", "TRUNC"}, at |-> 0]
      BY <3>1, <3>2, Zenon
    <3>4. ("RDWR" \in {"CREAT", "RDWR", "TRUNC"}) = TRUE
      BY Zenon
    <3>5. fds'[FirstFd + 1] = [path |-> "dst", kind |-> "plain", writable |-> TRUE, at |-> 0]
      BY <3>3, <3>4, Zenon
    <3> QED BY <3>1, <3>5
  <2>5. fds'[FirstFd] = fds[FirstFd]
    BY <1>4, <2>2, <2>3 DEF Gives, Typed, Fds_OK
  <2>6. files'["dst"] = 0 /\ files'["sdata"] = 3
    BY <1>5, <1>6, <2>2 DEF Typed, Files_OK
  <2>7. pc' = 5 /\ src.path = "sdata" /\ src.at = 0
    BY <1>3, <1>8 DEF Copying
  <2> QED BY <1>3, <1>5, <2>4, <2>5, <2>6, <2>7 DEF Copying, src, dst, Copied
<1>9. CASE k = 8
  <2>1. IsOpen(FirstFd) /\ FirstFd \in Descriptors /\ local[0] = FirstFd
    BY <1>4, <1>9 DEF Has, CopyHolds, IsOpen
  <2>2. cellFsRead(FirstFd, 2, MaxSize, result)
    <3>1. Fd(call) = FirstFd /\ Amount(call) = 2 /\ call.mapped = MaxSize
      BY <1>1, <1>2, <1>5, <1>9, <2>1 DEF Fd, Amount
    <3> QED BY <1>1, <1>3, <1>9, <3>1 DEF Calls
  <2>3. /\ src.path = "sdata" /\ src.at = Copied /\ Copied \in 0..3
        /\ dst.path = "dst" /\ dst.writable /\ dst.at = Copied
    BY <1>5, <1>9 DEF Copying
  <2>4. result.val = Lesser(2, 3 - Copied) /\ files' = files
    <3>1. result.val = Readable(FirstFd, src.at, 2, MaxSize) /\ files' = files
      BY <2>2 DEF cellFsRead, Is, OnlyFds, src
    <3>2. Size(FirstFd) = 3
      BY <1>6, <2>3 DEF Size, src
    <3> QED BY <1>4, <2>3, <3>1, <3>2 DEF Readable, Lesser, Greater
  <2>5. fds' = Seek(FirstFd, src.at + result.val)
    BY <2>2 DEF cellFsRead, src
  <2>6. fds'[FirstFd].path = "sdata" /\ fds'[FirstFd].at = Copied + result.val
    <3>1. fds'[FirstFd].path = src.path /\ fds'[FirstFd].at = Lesser(src.at + result.val, MaxSize)
      BY <2>1, <2>5 DEF Seek, src, Typed, Fds_OK, Descriptor
    <3>2. Lesser(Copied + result.val, MaxSize) = Copied + result.val
      BY <1>4, <2>3, <2>4 DEF Lesser
    <3> QED BY <2>3, <3>1, <3>2
  <2>7. fds'[FirstFd + 1] = fds[FirstFd + 1]
    BY <1>4, <2>1, <2>5 DEF Seek, Typed, Fds_OK
  <2>8. amount' = result.val
    BY <1>1, <1>9 DEF Performs, Keeps, AsSize
  <2>9. pc' = 9
    BY <1>3, <1>9
  <2>10. /\ fds'[FirstFd + 1].path = "dst" /\ fds'[FirstFd + 1].writable /\ fds'[FirstFd + 1].at = Copied
         /\ files'["sdata"] = 3 /\ files'["dst"] = Copied
    BY <1>6, <2>3, <2>4, <2>7 DEF dst, Copied
  <2> QED BY <1>5, <2>3, <2>4, <2>6, <2>8, <2>9, <2>10 DEF Copying, src, dst, Copied
<1>10. CASE k = 10
  <2>1. /\ IsOpen(FirstFd + 1) /\ FirstFd + 1 \in Descriptors /\ local[1] = FirstFd + 1
        /\ IsOpen(FirstFd) /\ FirstFd \in Descriptors
    BY <1>4, <1>10 DEF Has, CopyHolds, IsOpen
  <2>2. /\ src.path = "sdata" /\ src.at = Copied + amount /\ amount = Lesser(2, 3 - Copied)
        /\ Copied \in 0..3
        /\ dst.path = "dst" /\ dst.writable /\ dst.at = Copied
    BY <1>5, <1>10 DEF Copying
  <2>3. amount \in 0..3 /\ Copied + amount \in 0..3
    BY <2>2 DEF Lesser
  <2>4. cellFsWrite(FirstFd + 1, amount, MaxSize, result)
    <3>1. Fd(call) = FirstFd + 1 /\ Amount(call) = amount /\ call.mapped = MaxSize
      BY <1>1, <1>2, <1>5, <1>10, <2>1 DEF Fd, Amount
    <3> QED BY <1>1, <1>3, <1>10, <3>1 DEF Calls
  <2>5. WriteError(FirstFd + 1, amount, MaxSize, FALSE) = "OK"
    <3>1. MaxSize # 0 /\ fds[FirstFd + 1].writable
      BY <1>4, <2>2 DEF dst
    <3> QED BY <2>1, <3>1 DEF WriteError
  <2>6. Lesser(amount, MaxSize) = amount
    BY <1>4, <2>3 DEF Lesser
  <2>7. Extend(FirstFd + 1, Copied, amount) /\ fds' = Seek(FirstFd + 1, Copied + amount)
    BY <2>2, <2>4, <2>5, <2>6 DEF cellFsWrite, dst
  <2>8. files' = [files EXCEPT !["dst"] = Copied + amount]
    <3>1. Lesser(Greater(Copied, Copied + amount), MaxSize) = Copied + amount
      BY <1>4, <2>2, <2>3 DEF Lesser, Greater
    <3> QED BY <2>2, <2>7, <3>1 DEF Extend, Copied, dst
  <2>9. /\ fds'[FirstFd + 1].path = "dst" /\ fds'[FirstFd + 1].at = Copied + amount
        /\ fds'[FirstFd + 1].writable
    <3>1. Lesser(Copied + amount, MaxSize) = Copied + amount
      BY <1>4, <2>3 DEF Lesser
    <3>2. fds' = [fds EXCEPT ![FirstFd + 1] = [fds[FirstFd + 1] EXCEPT !.at = Copied + amount]]
      BY <2>1, <2>7, <3>1 DEF Seek, Typed, Fds_OK
    <3>3. fds'[FirstFd + 1] = [fds[FirstFd + 1] EXCEPT !.at = Copied + amount]
      BY <2>1, <3>2 DEF Typed, Fds_OK
    <3>4. fds[FirstFd + 1] \in Descriptor
      BY <2>1 DEF Typed, Fds_OK
    <3>5. fds'[FirstFd + 1].writable = fds[FirstFd + 1].writable
      BY <3>3, <3>4, Zenon DEF Descriptor
    <3>6. fds'[FirstFd + 1].path = "dst" /\ fds'[FirstFd + 1].at = Copied + amount
      BY <2>2, <3>3, <3>4 DEF Descriptor, dst
    <3> QED BY <2>2, <3>5, <3>6, Zenon DEF dst
  <2>10. fds'[FirstFd] = fds[FirstFd]
    BY <1>4, <2>1, <2>7 DEF Seek, Typed, Fds_OK
  <2>11. files'["dst"] = Copied + amount /\ files'["sdata"] = 3
    BY <1>5, <1>6, <2>8 DEF Typed, Files_OK
  <2>12. pc' = 11
    BY <1>3, <1>10
  <2> QED BY <1>5, <2>2, <2>3, <2>9, <2>10, <2>11, <2>12 DEF Copying, src, dst, Copied
<1>11. CASE k \in {12, 13}
  <2>1. cellFsClose(Fd(call), result)
    BY <1>1, <1>3, <1>11 DEF Calls
  <2>2. files' = files
    BY <2>1 DEF cellFsClose, OnlyFds
  <2>3. files["dst"] = 3 /\ src.path = "sdata"
    BY <1>5, <1>11 DEF Copying, Copied
  <2>4. CASE k = 12
    <3>1. local[1] = FirstFd + 1
      BY <1>4, <2>4 DEF Has, CopyHolds
    <3>2. Fd(call) = FirstFd + 1
      BY <1>1, <1>5, <2>4, <3>1 DEF Fd
    <3>3. fds'[FirstFd] = fds[FirstFd]
      BY <1>4, <2>1, <3>2 DEF cellFsClose, Typed, Fds_OK
    <3>4. pc' = 13
      BY <1>3, <2>4
    <3> QED BY <1>5, <1>6, <2>2, <2>3, <3>3, <3>4 DEF Copying, src, dst, Copied
  <2>5. CASE k = 13
    <3>1. pc' = 14
      BY <1>3, <2>5
    <3> QED BY <1>5, <1>6, <2>2, <2>3, <3>1 DEF Copying, src, dst, Copied
  <2> QED BY <1>11, <2>4, <2>5
<1> QED BY <1>6, <1>7, <1>8, <1>9, <1>10, <1>11

\* Every call of copy_file_.
LEMMA CopyCalls ==
  ASSUME Typed, test = "copy_file_", CopyInv, pc \in 1..13,
         NEW result \in Results, Performs(Instruction, result), error \in BOOLEAN
  PROVE  CopyInv'
<1>0. PICK k \in 1..13 : k = pc
  OBVIOUS
<1>1. PICK call : call = Scripts["copy_file_"][k]
  OBVIOUS
<1>2. k = pc /\ Instruction = call
  BY <1>0, <1>1 DEF Instruction
<1>3. PICK err, V, W : err = ret.err /\ V = CopyHolds(k, err) /\ W = CopyHolds(k + 1, result.err)
  OBVIOUS
<1>4. Has(V) /\ Performs(call, result)
  BY <1>2, <1>3 DEF CopyInv
<1>5. Has(W)' /\ k \in {1, 4, 6, 8, 10, 12, 13}
  BY <1>1, <1>3, <1>4, CopyCallHolds
<1>6. pc' = k + 1 /\ ret' = result /\ pc' \in 1..14
  BY <1>2, <1>4 DEF Performs
<1>7. Has(CopyHolds(pc, ret.err))'
  BY <1>3, <1>5, <1>6
<1>8. ~error' => Copying'
  <2>1. SUFFICES ASSUME ~error' PROVE Copying'
    OBVIOUS
  <2>2. ~error /\ result.err = "OK"
    BY <1>4, <2>1 DEF Performs
  <2>3. Copying
    BY <2>2 DEF CopyInv
  <2>4. Has(CopyHolds(k + 1, "OK"))'
    BY <1>3, <1>5, <2>2
  <2>5. Has(CopyHolds(k, err))
    BY <1>3, <1>4
  <2> QED BY <1>1, <1>2, <1>3, <1>4, <1>5, <2>2, <2>3, <2>4, <2>5, CopyCallCopies
<1> QED BY <1>6, <1>7, <1>8 DEF CopyInv

\* Every branch and end of copy_file_.
LEMMA CopyBranches ==
  ASSUME Typed, test = "copy_file_", CopyInv, pc \in 1..13, Branch \/ Leave
  PROVE  CopyInv'
<1>0. PICK k \in 1..13 : k = pc
  OBVIOUS
<1>1. PICK call : call = Scripts["copy_file_"][k]
  OBVIOUS
<1>2. k = pc /\ Instruction = call
  BY <1>0, <1>1 DEF Instruction
<1>10. Len(Scripts["copy_file_"]) = 13
  BY CopyIs
<1>3. /\ call.op = "ok" <=> k \in {2, 5}
      /\ call.op = "return_error" <=> k \in {3, 7}
      /\ call.op = "none" <=> k = 9
      /\ call.op = "always" <=> k = 11
      /\ call.op \in {"open", "ok", "return_error", "close", "read", "none", "write", "always"}
      /\ k = 2 => call.size = 2
      /\ k \in {5, 9} => call.size = 3
      /\ k = 11 => call.size = -3
  BY <1>1, CopyIs
<1>4. PICK V : V = CopyHolds(k, ret.err)
  OBVIOUS
<1>5. Has(V)'
  BY <1>2, <1>4, BranchHolds DEF CopyInv
<1>6. /\ fds' = fds /\ files' = files /\ ret' = ret /\ amount' = amount /\ error' = error
      /\ pc' \in 1..14
      /\ k = 2 => pc' = IF ret.err = "OK" THEN 4 ELSE 3
      /\ k = 5 => pc' = IF ret.err = "OK" THEN 8 ELSE 6
      /\ k \in {3, 7} => pc' = 14
      /\ k = 9 => pc' = IF amount = 0 THEN 12 ELSE 10
      /\ k = 11 => pc' = 8
      /\ k \in {2, 3, 5, 7, 9, 11}
  <2>1. CASE Leave
    <3>1. call.op = "return_error"
      BY <1>2, <1>3, <2>1 DEF Leave
    <3>2. pc' = Len(Scripts[test]) + 1
      BY <2>1, Zenon DEF Leave
    <3>5. Len(Scripts[test]) = 13
      BY <1>10, Zenon
    <3>3. pc' = 14
      BY <3>2, <3>5
    <3>4. /\ fds' = fds /\ files' = files /\ ret' = ret /\ amount' = amount /\ error' = error
          /\ k \in {3, 7}
      BY <1>3, <2>1, <3>1 DEF Leave
    <3> QED BY <3>3, <3>4
  <2>2. CASE Branch
    <3>1. call.op \in {"ok", "none", "always"} /\ pc' = IF Holds(call.op) THEN k + call.size ELSE k + 1
      BY <1>2, <1>3, <2>2 DEF Branch, Conditions
    <3>2. k \in {2, 5, 9, 11}
      BY <1>3, <3>1
    <3>3. /\ k \in {2, 5} => (Holds(call.op) <=> ret.err = "OK")
          /\ k = 9 => (Holds(call.op) <=> amount = 0)
          /\ k = 11 => Holds(call.op)
      BY <1>3 DEF Holds
    <3> QED BY <1>3, <2>2, <3>1, <3>2, <3>3 DEF Branch
  <2> QED BY <2>1, <2>2
<1>7. V = CopyHolds(pc', ret'.err)
  BY <1>4, <1>6 DEF CopyHolds
<1>8. Has(CopyHolds(pc, ret.err))'
  BY <1>5, <1>7
<1>9. ~error' => Copying'
  <2>1. SUFFICES ASSUME ~error' PROVE Copying'
    OBVIOUS
  <2>2. Copying
    BY <1>6, <2>1 DEF CopyInv
  <2>3. k \in {2, 5, 9, 11} /\ (k \in {2, 5} => ret.err = "OK")
    BY <1>2, <1>6, <2>2 DEF Copying
  <2>4. CASE k = 2
    BY <1>2, <1>6, <2>2, <2>3, <2>4 DEF Copying, src, dst, Copied
  <2>5. CASE k = 5
    <3>1. pc' = 8 /\ src.at = Copied
      BY <1>2, <1>6, <2>2, <2>3, <2>5 DEF Copying
    <3> QED BY <1>2, <1>6, <2>2, <2>5, <3>1 DEF Copying, src, dst, Copied
  <2>6. CASE k = 9
    <3>1. CASE amount = 0
      <4>1. Copied = DataSize
        BY <1>2, <2>2, <2>6, <3>1 DEF Copying, Lesser, Chunk, DataSize
      <4> QED BY <1>2, <1>6, <2>2, <2>6, <3>1, <4>1 DEF Copying, src, dst, Copied
    <3>2. CASE amount # 0
      BY <1>2, <1>6, <2>2, <2>6, <3>2 DEF Copying, src, dst, Copied
    <3> QED BY <3>1, <3>2
  <2>7. CASE k = 11
    BY <1>2, <1>6, <2>2, <2>7 DEF Copying, src, dst, Copied
  <2> QED BY <2>3, <2>4, <2>5, <2>6, <2>7
<1> QED BY <1>6, <1>8, <1>9 DEF CopyInv
-----------------------------------------------------------------------------
(* The tests together.                                                     *)

ScriptInv == (test # "cellFs_IDs" /\ ~failed) =>
               /\ test = "SDATA" => SdataInv
               /\ test = "cellFsOpen_flags" => FlagsInv
               /\ test = "GetDirectoryEntries" => EntriesInv
               /\ test = "memory_bound" => BoundInv
               /\ test = "copy_file_" => CopyInv

\* The whole induction hypothesis.
IInv == TypeOK /\ IdsInv /\ ScriptInv

\* What the lemmas above take of the types.
LEMMA TypesGive == ASSUME TypeOK PROVE Typed
BY DEF TypeOK, Typed, Fds_OK, Files_OK, Locals_OK

\* The tests.
LEMMA TestIs ==
  ASSUME test \in Tests, test # "cellFs_IDs"
  PROVE  test \in {"SDATA", "cellFsOpen_flags", "GetDirectoryEntries", "memory_bound", "copy_file_"}
<1>1. DOMAIN Scripts = {"SDATA", "cellFsOpen_flags", "GetDirectoryEntries", "memory_bound", "copy_file_"}
  BY DEF Scripts
<1> QED BY <1>1, FileTestsAssumption DEF FileTestsAssumption

\* How long a script is.
LEMMA Lengths == /\ Len(Scripts["SDATA"]) = 28 /\ Len(Scripts["cellFsOpen_flags"]) = 32
                 /\ Len(Scripts["GetDirectoryEntries"]) = 37 /\ Len(Scripts["memory_bound"]) = 60
                 /\ Len(Scripts["copy_file_"]) = 13
<1>1. Len(Scripts["SDATA"]) = 28
  <2>1. 1 \in 1..28
    OBVIOUS
  <2> QED BY <2>1, SDATAIs
<1>2. Len(Scripts["cellFsOpen_flags"]) = 32
  <2>1. 1 \in 1..32
    OBVIOUS
  <2> QED BY <2>1, FlagsIs
<1>3. Len(Scripts["GetDirectoryEntries"]) = 37
  <2>1. 1 \in 1..37
    OBVIOUS
  <2> QED BY <2>1, EntriesIs
<1>4. Len(Scripts["memory_bound"]) = 60
  <2>1. 0 \in 0..4 /\ 1 \in 1..12
    OBVIOUS
  <2> QED BY <2>1, BoundIs
<1>5. Len(Scripts["copy_file_"]) = 13
  <2>1. 1 \in 1..13
    OBVIOUS
  <2> QED BY <2>1, CopyIs
<1> QED BY <1>1, <1>2, <1>3, <1>4, <1>5

\* Where a script that runs is.
LEMMA WhereIs ==
  ASSUME IInv, CanRun
  PROVE  /\ test = "SDATA" => SdataInv /\ pc \in 1..28
         /\ test = "cellFsOpen_flags" => FlagsInv /\ pc \in 1..32
         /\ test = "GetDirectoryEntries" => EntriesInv /\ pc \in 1..37
         /\ test = "memory_bound" => BoundInv /\ pc \in 1..60
         /\ test = "copy_file_" => CopyInv /\ pc \in 1..13
<1>1. test # "cellFs_IDs" /\ ~failed /\ ~(pc > Len(Scripts[test])) /\ ScriptInv
  BY DEF CanRun, Returned, IInv
<1>2. /\ test = "SDATA" => SdataInv
      /\ test = "cellFsOpen_flags" => FlagsInv
      /\ test = "GetDirectoryEntries" => EntriesInv
      /\ test = "memory_bound" => BoundInv
      /\ test = "copy_file_" => CopyInv
  BY <1>1 DEF ScriptInv
<1>3. /\ test = "SDATA" => ~(pc > 28)
      /\ test = "cellFsOpen_flags" => ~(pc > 32)
      /\ test = "GetDirectoryEntries" => ~(pc > 37)
      /\ test = "memory_bound" => ~(pc > 60)
      /\ test = "copy_file_" => ~(pc > 13)
  BY <1>1, Lengths, Zenon
<1>4. test = "SDATA" => SdataInv /\ pc \in 1..28
  BY <1>2, <1>3 DEF SdataInv
<1>5. test = "cellFsOpen_flags" => FlagsInv /\ pc \in 1..32
  BY <1>2, <1>3 DEF FlagsInv
<1>6. test = "GetDirectoryEntries" => EntriesInv /\ pc \in 1..37
  BY <1>2, <1>3 DEF EntriesInv
<1>7. test = "memory_bound" => BoundInv /\ pc \in 1..60
  BY <1>2, <1>3 DEF BoundInv
<1>8. test = "copy_file_" => CopyInv /\ pc \in 1..13
  BY <1>2, <1>3 DEF CopyInv
<1> QED BY <1>4, <1>5, <1>6, <1>7, <1>8

\* An instruction that runs has what it can have.
LEMMA InstructionIs == ASSUME IInv, CanRun PROVE Legal(Instruction)
<1>1. test \in {"SDATA", "cellFsOpen_flags", "GetDirectoryEntries", "memory_bound", "copy_file_"}
  BY TestIs DEF IInv, TypeOK, CanRun
<1>2. CASE test = "SDATA"
  BY <1>2, WhereIs, SDATAIs DEF Instruction
<1>3. CASE test = "cellFsOpen_flags"
  BY <1>3, WhereIs, FlagsIs DEF Instruction
<1>4. CASE test = "GetDirectoryEntries"
  BY <1>4, WhereIs, EntriesIs DEF Instruction
<1>5. CASE test = "memory_bound"
  <2>1. PICK b \in 0..4, m \in 1..12 : pc = 12 * b + m
    BY <1>5, WhereIs DEF BoundInv
  <2>2. Legal(Scripts["memory_bound"][12 * b + m])
    BY BoundIs
  <2> QED BY <1>5, <2>1, <2>2 DEF Instruction
<1>6. CASE test = "copy_file_"
  BY <1>6, WhereIs, CopyIs DEF Instruction
<1> QED BY <1>1, <1>2, <1>3, <1>4, <1>5, <1>6

\* The scripts' part of the induction hypothesis, in every step of a script.
LEMMA CallKeeps == ASSUME IInv, Call PROVE ScriptInv'
<1>1. PICK result \in Results : Performs(Instruction, result)
  BY CallPerforms
<1>2. SUFFICES ASSUME test # "cellFs_IDs", ~failed' PROVE ScriptInv'
  BY <1>1 DEF Performs, ScriptInv
<1>3. Typed /\ CanRun /\ test' = test /\ error \in BOOLEAN
  <2>1. error \in BOOLEAN
    BY DEF IInv, TypeOK
  <2> QED BY <1>1, <2>1, TypesGive DEF IInv, Performs, Call
<1>4. test = "SDATA" => SdataInv'
  BY <1>1, <1>3, WhereIs, SdataCalls
<1>5. test = "cellFsOpen_flags" => FlagsInv'
  BY <1>1, <1>2, <1>3, WhereIs, FlagsCalls
<1>6. test = "GetDirectoryEntries" => EntriesInv'
  BY <1>1, <1>2, <1>3, WhereIs, EntriesCalls
<1>7. test = "memory_bound" => BoundInv'
  BY <1>1, <1>2, <1>3, WhereIs, BoundCalls
<1>8. test = "copy_file_" => CopyInv'
  BY <1>1, <1>3, WhereIs, CopyCalls
<1> QED BY <1>3, <1>4, <1>5, <1>6, <1>7, <1>8 DEF ScriptInv

\* The two scripts without a branch.
LEMMA NoBranch == ASSUME IInv, Branch \/ Leave PROVE test \notin {"SDATA", "memory_bound"}
<1>1. CanRun /\ Instruction.op \in Conditions \cup {"return_error", "exit"}
  BY DEF Branch, Leave
<1>2. CASE test = "SDATA"
  <2>1. Instruction.op \in {"open", "open_sdata", "open_by_fd", "close", "write", "write_at", "read",
        "fstat"}
    BY <1>1, <1>2, WhereIs, SDATAIs DEF Instruction
  <2> QED BY <1>1, <2>1 DEF Conditions
<1>3. CASE test = "memory_bound"
  <2>1. PICK b \in 0..4, m \in 1..12 : pc = 12 * b + m
    BY <1>1, <1>3, WhereIs DEF BoundInv
  <2>2. Scripts["memory_bound"][12 * b + m].op
          \in {"unlink", "open", "write", "write_at", "fstat", "lseek", "read", "read_at", "close"}
    BY BoundIs
  <2>3. Instruction.op \in {"unlink", "open", "write", "write_at", "fstat", "lseek", "read", "read_at",
        "close"}
    BY <1>3, <2>1, <2>2 DEF Instruction
  <2> QED BY <1>1, <2>3 DEF Conditions
<1> QED BY <1>2, <1>3

\* So does a branch or an end.
LEMMA BranchKeeps == ASSUME IInv, Branch \/ Leave PROVE ScriptInv'
<1>1. SUFFICES ASSUME ~failed' PROVE ScriptInv'
  BY DEF ScriptInv
<1>2. Typed /\ CanRun /\ test' = test /\ test # "cellFs_IDs"
  BY TypesGive DEF IInv, Branch, Leave, CanRun
<1>3. test \notin {"SDATA", "memory_bound"}
  BY NoBranch
<1>4. test = "copy_file_" => CopyInv'
  BY <1>2, WhereIs, CopyBranches
<1>5. ASSUME test = "cellFsOpen_flags" PROVE FlagsInv'
  <2>1. Instruction.op # "return_error"
    <3>1. pc \in 1..32
      BY <1>2, <1>5, WhereIs
    <3> QED BY <1>5, <3>1, FlagsIs DEF Instruction
  <2>2. Branch
    BY <1>1, <2>1 DEF Leave
  <2> QED BY <1>2, <1>5, <2>2, WhereIs, FlagsBranches
<1>6. ASSUME test = "GetDirectoryEntries" PROVE EntriesInv'
  <2>1. Instruction.op \notin {"return_error", "exit"}
    <3>1. pc \in 1..37
      BY <1>2, <1>6, WhereIs
    <3> QED BY <1>6, <3>1, EntriesIs DEF Instruction
  <2>2. Branch
    BY <2>1 DEF Leave
  <2> QED BY <1>2, <1>6, <2>2, WhereIs, EntriesBranches
<1> QED BY <1>2, <1>3, <1>4, <1>5, <1>6 DEF ScriptInv
-----------------------------------------------------------------------------
(* The types.                                                              *)

\* What fits a file fits a result, and so does every descriptor.
LEMMA ValuesAre ==
  /\ Values \subseteq Nat /\ 0..MaxSize \subseteq Values /\ Descriptors \subseteq Values
  /\ \A fd \in Descriptors : [err |-> "OK", val |-> fd] \in Results
<1>1. Values \subseteq Nat /\ 0..MaxSize \subseteq Values /\ Descriptors \subseteq Values
  BY FileTestsAssumption DEF FileTestsAssumption, Values, Greater, Descriptors
<1> QED BY <1>1 DEF Results, Errors

\* A size, or an error code that is taken for one.
LEMMA SizeIs ==
  ASSUME Typed, NEW call, Legal(call), call.op \in Keeps, NEW result \in Results,
         Calls(call, result) \/ Fails(result)
  PROVE  AsSize(result) \in 0..MaxSize
<1>1. All \in 0..MaxSize
  BY FileTestsAssumption DEF FileTestsAssumption, All
<1>2. CASE result.err # "OK"
  BY <1>1, <1>2 DEF AsSize
<1>3. CASE result.err = "OK"
  <2> DEFINE fd == Fd(call)
  <2>1. Calls(call, result)
    BY <1>3 DEF Fails, Is
  <2>2. cellFsFstat(fd, result) \/ cellFsRead(fd, Amount(call), call.mapped, result)
    BY <2>1 DEF Calls, Keeps
  <2>3. IsOpen(fd)
    BY <2>2 DEF cellFsFstat, cellFsRead
  <2>4. Size(fd) \in {Absent} \cup 0..MaxSize /\ fds[fd].at \in 0..MaxSize
    BY <2>3, PositionIs DEF Typed, Files_OK, Size
  <2>5. result.val \in Nat
    BY ValuesAre DEF Results
  <2>6. call.op \notin Conditions /\ call.mapped \in Nat
    BY DEF Keeps, Conditions, Legal
  <2>7. Amount(call) \in Nat
    BY <2>6, AmountIs DEF Typed
  <2> HIDE DEF fd
  <2>8. CASE cellFsFstat(fd, result)
    <3>1. result.val \in {Size(fd), Size(fd) - 1}
      BY <2>8 DEF cellFsFstat, Is, Overhead
    <3> QED BY <1>3, <2>4, <2>5, <3>1, FileTestsAssumption DEF FileTestsAssumption, AsSize, Absent
  <2>9. CASE cellFsRead(fd, Amount(call), call.mapped, result)
    <3>1. result.val = Readable(fd, fds[fd].at, Amount(call), call.mapped)
      BY <2>9 DEF cellFsRead, Is
    <3>2. Greater(Size(fd) - fds[fd].at, 0) \in 0..MaxSize
      BY <2>4, FileTestsAssumption DEF FileTestsAssumption, Greater, Absent
    <3>3. Lesser(Amount(call), call.mapped) \in Nat
      BY <2>6, <2>7 DEF Lesser
    <3>4. result.val \in 0..MaxSize
      BY <3>1, <3>2, <3>3, FileTestsAssumption DEF FileTestsAssumption, Readable, Lesser
    <3> QED BY <1>3, <3>4 DEF AsSize
  <2> QED BY <2>2, <2>8, <2>9
<1> QED BY <1>2, <1>3

\* A script's call keeps the types.
LEMMA CallTypes == ASSUME IInv, Call PROVE TypeOK'
<1>1. TypeOK /\ Typed /\ CanRun /\ Legal(Instruction)
  BY TypesGive, InstructionIs DEF IInv, Call
<1>2. PICK result \in Results :
        /\ Calls(Instruction, result) \/ (MayFail(Instruction) /\ Fails(result))
        /\ ret' = result
        /\ local' = IF Instruction.op \in Opens /\ result.err = "OK"
                    THEN [local EXCEPT ![Target(Instruction)] = result.val] ELSE local
        /\ amount' = IF Instruction.op \in Keeps THEN AsSize(result) ELSE amount
        /\ console' = IF Instruction.prints /\ test # "copy_file_" THEN Append(console, result) ELSE console
        /\ failed' = ~Meets(result, Instruction)
        /\ error' = (error \/ (test = "copy_file_" /\ result.err # "OK"))
  BY Zenon DEF Call
<1>3. pc' = pc + 1 /\ UNCHANGED <<test, loops>>
  BY DEF Call
<1>4. PICK call : call = Instruction
  OBVIOUS
<1>5. Fds_OK' /\ Files_OK' /\ (call.op \in Opens /\ result.err = "OK" => result.val \in Descriptors)
  <2>1. CASE Calls(call, result)
    <3>1. Fds_OK' /\ Files_OK' /\ (call.op \in Opens => Opening(result))
      BY <1>1, <1>4, <2>1, CallDoes DEF Typed
    <3> QED BY <3>1 DEF Opening
  <2>2. CASE Fails(result)
    <3>1. fds' = fds /\ files' = files /\ result.err = "EIO"
      BY <2>2 DEF Fails, Nothing, Is
    <3> QED BY <1>1, <3>1 DEF Typed, Fds_OK, Files_OK
  <2> QED BY <1>2, <1>4, <2>1, <2>2
<1>6. amount' \in 0..MaxSize
  <2>1. CASE call.op \in Keeps
    BY <1>1, <1>2, <1>4, <2>1, SizeIs
  <2>2. CASE call.op \notin Keeps
    BY <1>1, <1>2, <1>4, <2>2 DEF Typed
  <2> QED BY <2>1, <2>2
<1>7. local' \in [Locals -> {None} \cup Descriptors]
  <2>1. CASE call.op \in Opens /\ result.err = "OK"
    BY <1>1, <1>2, <1>4, <1>5, <2>1 DEF Typed, Locals_OK
  <2>2. CASE ~(call.op \in Opens /\ result.err = "OK")
    BY <1>1, <1>2, <1>4, <2>2 DEF Typed, Locals_OK
  <2> QED BY <2>1, <2>2
<1>8. failed' \in BOOLEAN
  BY <1>2, Zenon DEF Meets
<1>9. error' \in BOOLEAN
  BY <1>1, <1>2, Zenon DEF TypeOK
<1>10. console' \in Seq(Results) /\ ret' \in Results
  BY <1>1, <1>2 DEF TypeOK
<1>11. pc' \in Nat \ {0}
  BY <1>1, <1>3 DEF TypeOK
<1>12. /\ test' \in Tests /\ held' \in [Slots -> {None} \cup Descriptors]
      /\ temp_fd' \in {None} \cup Descriptors
       /\ phase' \in {"temp", "first", "close", "open", "done"}
       /\ variant' \in {1, 2} /\ i' \in Slots /\ j' \in Slots
  BY <1>1, <1>3 DEF TypeOK, loops
<1>13. fds' \in [Descriptors -> Descriptor] /\ files' \in [Paths -> {Absent} \cup 0..MaxSize]
  BY <1>5 DEF Fds_OK, Files_OK
<1>14. {failed', error'} \subseteq BOOLEAN
  BY <1>8, <1>9, Zenon
<1> QED BY <1>6, <1>7, <1>10, <1>11, <1>12, <1>13, <1>14, Zenon DEF TypeOK

\* So does a branch or an end: no jump leads before the first instruction.
LEMMA BranchTypes == ASSUME IInv, Branch \/ Leave, ScriptInv' PROVE TypeOK'
<1>1. TypeOK /\ test # "cellFs_IDs" /\ ~failed
  BY DEF IInv, Branch, Leave, CanRun
<1>2. pc' \in Nat \ {0}
  <2>1. test \in {"SDATA", "cellFsOpen_flags", "GetDirectoryEntries", "memory_bound", "copy_file_"}
    BY <1>1, TestIs DEF TypeOK
  <2>2. CASE Branch
    <3>1. test' = test /\ ~failed'
      BY <1>1, <2>2 DEF Branch
    <3>2. /\ test = "cellFsOpen_flags" => FlagsInv'
          /\ test = "GetDirectoryEntries" => EntriesInv'
          /\ test = "copy_file_" => CopyInv'
      BY <1>1, <3>1 DEF ScriptInv
    <3>3. test \notin {"SDATA", "memory_bound"}
      BY NoBranch
    <3>4. pc' \in 1..33 \/ pc' \in 1..38 \/ pc' \in 1..14
      BY <2>1, <3>2, <3>3 DEF FlagsInv, EntriesInv, CopyInv
    <3> QED BY <3>4
  <2>3. CASE Leave
    <3>1. pc' = Len(Scripts[test]) + 1
      BY <2>3, Zenon DEF Leave
    <3>2. Len(Scripts[test]) \in {28, 32, 37, 60, 13}
      <4>1. \A n \in {28, 32, 37, 60, 13} : n \in {28, 32, 37, 60, 13}
        OBVIOUS
      <4>2. \/ Len(Scripts[test]) = 28 \/ Len(Scripts[test]) = 32 \/ Len(Scripts[test]) = 37
            \/ Len(Scripts[test]) = 60 \/ Len(Scripts[test]) = 13
        BY <2>1, Lengths, Zenon
      <4> QED BY <4>2
    <3> QED BY <3>1, <3>2
  <2> QED BY <2>2, <2>3
<1>3. /\ fds' = fds /\ files' = files /\ test' = test /\ local' = local /\ ret' = ret /\ amount' = amount
      /\ UNCHANGED loops /\ error' = error /\ console' = console
  BY DEF Branch, Leave
<1>4. failed' \in BOOLEAN
  BY <1>1, Zenon DEF Branch, Leave, TypeOK
<1>5. {failed', error'} \subseteq BOOLEAN
  BY <1>1, <1>3, <1>4, Zenon DEF TypeOK
<1>6. /\ held' \in [Slots -> {None} \cup Descriptors] /\ temp_fd' \in {None} \cup Descriptors
      /\ phase' \in {"temp", "first", "close", "open", "done"}
      /\ variant' \in {1, 2} /\ i' \in Slots /\ j' \in Slots
  BY <1>1, <1>3 DEF TypeOK, loops
<1>7. /\ fds' \in [Descriptors -> Descriptor] /\ files' \in [Paths -> {Absent} \cup 0..MaxSize]
      /\ test' \in Tests /\ local' \in [Locals -> {None} \cup Descriptors] /\ amount' \in 0..MaxSize
      /\ ret' \in Results /\ console' \in Seq(Results)
  BY <1>1, <1>3 DEF TypeOK
<1> QED BY <1>2, <1>5, <1>6, <1>7, Zenon DEF TypeOK

\* So does an open of cellFs IDs.
LEMMA OpenFileTypes ==
  ASSUME TypeOK, NEW flags, NEW fd \in Descriptors, OpenFile(flags, fd)
  PROVE  /\ ret' \in Results /\ fds' \in [Descriptors -> Descriptor]
         /\ files' \in [Paths -> {Absent} \cup 0..MaxSize]
<1>1. ret' \in Results
  BY ValuesAre DEF OpenFile
<1>2. fds' \in [Descriptors -> Descriptor]
  BY OpenGives DEF Gives, TypeOK
<1>3. files' = files \/ files' = [files EXCEPT !["temp"] = 0]
  BY DEF OpenFile, cellFsOpen, Nothing
<1>4. files' \in [Paths -> {Absent} \cup 0..MaxSize]
  BY <1>3, FileTestsAssumption DEF FileTestsAssumption, TypeOK
<1> QED BY <1>1, <1>2, <1>4

\* So does every step of cellFs IDs.
LEMMA IdsTypes ==
  ASSUME TypeOK, IdsInv', OpenTemp \/ OpenFirst \/ CloseSlot \/ OpenSlot
  PROVE  TypeOK'
<1>1. test = "cellFs_IDs" /\ test' = test
  BY DEF OpenTemp, OpenFirst, CloseSlot, OpenSlot, InPhase
<1>2. Turn'
  BY <1>1 DEF IdsInv
<1>3. UNCHANGED <<pc, local, amount, error>>
  BY DEF OpenTemp, OpenFirst, CloseSlot, OpenSlot, script
<1>4. /\ ret' \in Results /\ fds' \in [Descriptors -> Descriptor]
      /\ files' \in [Paths -> {Absent} \cup 0..MaxSize]
      /\ held' \in [Slots -> {None} \cup Descriptors] /\ temp_fd' \in {None} \cup Descriptors
  <2>1. CASE OpenTemp
    <3>1. PICK fd \in Descriptors : OpenFile({"CREAT", "RDWR", "TRUNC"}, fd) /\ temp_fd' = fd
      BY <2>1 DEF OpenTemp
    <3>2. held' = held
      BY <2>1 DEF OpenTemp
    <3> QED BY <3>1, <3>2, OpenFileTypes DEF TypeOK
  <2>2. CASE OpenFirst \/ OpenSlot
    <3>1. PICK fd \in Descriptors, k \in {i, Pos(variant, j)} : OpenFile({}, fd) /\ held' = [held EXCEPT ![k] = fd]
      BY <2>2 DEF OpenFirst, OpenSlot
    <3>2. temp_fd' = temp_fd
      BY <2>2 DEF OpenFirst, OpenSlot
    <3> QED BY <3>1, <3>2, OpenFileTypes DEF TypeOK
  <2>3. CASE CloseSlot
    <3>1. ret' \in Results /\ held' = held /\ temp_fd' = temp_fd
      BY <2>3 DEF CloseSlot
    <3>2. fds' \in [Descriptors -> Descriptor] /\ files' = files
      BY <2>3, ClosedIsDescriptor DEF CloseSlot, cellFsClose, OnlyFds, TypeOK
    <3> QED BY <3>1, <3>2 DEF TypeOK
  <2> QED BY <2>1, <2>2, <2>3
<1>5. failed' \in BOOLEAN
  <2>1. CASE CloseSlot
    BY <2>1, Zenon DEF CloseSlot
  <2>2. CASE OpenTemp \/ OpenFirst \/ OpenSlot
    BY <2>2, Zenon DEF OpenTemp, OpenFirst, OpenSlot, TypeOK
  <2> QED BY <2>1, <2>2
<1>6. {failed', error'} \subseteq BOOLEAN
  BY <1>3, <1>5, Zenon DEF TypeOK
<1>7. console' \in Seq(Results)
  <2>1. console' = console \/ console' = Append(console, ret')
    BY DEF OpenTemp, OpenFirst, CloseSlot, OpenSlot
  <2>2. PICK r : r = ret'
    OBVIOUS
  <2>3. r \in Results /\ console \in Seq(Results)
    BY <1>4, <2>2 DEF TypeOK
  <2>4. Append(console, r) \in Seq(Results)
    BY <2>3
  <2>5. console' = console \/ console' = Append(console, r)
    BY <2>1, <2>2
  <2> QED BY <2>3, <2>4, <2>5
<1>8. test' \in Tests /\ pc' \in Nat \ {0} /\ local' \in [Locals -> {None} \cup Descriptors]
      /\ amount' \in 0..MaxSize
  BY <1>1, <1>3 DEF TypeOK
<1>9. /\ phase' \in {"temp", "first", "close", "open", "done"} /\ variant' \in {1, 2}
      /\ i' \in Slots /\ j' \in Slots
  BY <1>2 DEF Turn
<1> QED BY <1>4, <1>6, <1>7, <1>8, <1>9, Zenon DEF TypeOK
-----------------------------------------------------------------------------
(* The induction.                                                          *)

\* At the start nothing is open.
LEMMA InitTypes == Init => IInv
<1> SUFFICES ASSUME Init PROVE IInv
  OBVIOUS
<1>1. IdsInv
  BY InitHolds
<1>2. \A fd : ~IsOpen(fd)
  BY ClosedIsDescriptor DEF Init, IsOpen
<1>3. pc = 1 /\ Has({}) /\ files["testdir"] = Absent /\ files["sdata"] = DataSize
  BY <1>2 DEF Init, Has, Paths
<1>4. SdataInv
  <2>1. SdataHolds(pc) = {}
    BY <1>3 DEF SdataHolds
  <2> QED BY <1>3, <2>1 DEF SdataInv
<1>5. FlagsInv
  <2>1. FlagsHolds(pc, ret.err) = {}
    BY <1>3 DEF FlagsHolds
  <2> QED BY <1>3, <2>1 DEF FlagsInv
<1>6. EntriesInv
  <2>1. EntriesHolds(pc) = {}
    BY <1>3 DEF EntriesHolds
  <2> QED BY <1>3, <2>1 DEF EntriesInv
<1>7. BoundInv
  <2>1. 0 \in 0..4 /\ 1 \in 1..12 /\ pc = 12 * 0 + 1 /\ BoundHolds(1) = {}
    BY <1>3 DEF BoundHolds
  <2>2. Has(BoundHolds(1))
    BY <1>3, <2>1
  <2> QED BY <2>1, <2>2 DEF BoundInv
<1>8. CopyInv
  <2>1. CopyHolds(pc, ret.err) = {}
    BY <1>3 DEF CopyHolds
  <2>2. Copying
    BY <1>3 DEF Copying
  <2> QED BY <1>3, <2>1, <2>2 DEF CopyInv
<1>9. ScriptInv
  BY <1>4, <1>5, <1>6, <1>7, <1>8 DEF ScriptInv
<1>10. TypeOK
  <2>1. fds \in [Descriptors -> Descriptor]
    BY ClosedIsDescriptor DEF Init
  <2>2. files \in [Paths -> {Absent} \cup 0..MaxSize]
    BY FileTestsAssumption DEF FileTestsAssumption, Init, DataSize
  <2>3. /\ test \in Tests /\ pc \in Nat \ {0} /\ local \in [Locals -> {None} \cup Descriptors]
        /\ amount \in 0..MaxSize /\ held \in [Slots -> {None} \cup Descriptors]
        /\ temp_fd \in {None} \cup Descriptors /\ phase \in {"temp", "first", "close", "open", "done"}
        /\ variant \in {1, 2} /\ i \in Slots /\ j \in Slots
    BY FileTestsAssumption DEF FileTestsAssumption, Init, Slots
  <2>4. ret \in Results
    BY ValuesAre, FileTestsAssumption DEF FileTestsAssumption, Init, Results, Errors
  <2>5. {failed, error} \subseteq BOOLEAN
    BY Zenon DEF Init
  <2>6. console \in Seq(Results)
    BY DEF Init
  <2> QED BY <2>1, <2>2, <2>3, <2>4, <2>5, <2>6, Zenon DEF TypeOK
<1> QED BY <1>1, <1>9, <1>10 DEF IInv

\* Nothing changes.
LEMMA StutterKeeps == ASSUME IInv, UNCHANGED vars PROVE TypeOK' /\ ScriptInv'
<1>1. /\ fds' = fds /\ files' = files /\ test' = test /\ pc' = pc /\ local' = local /\ amount' = amount
      /\ ret' = ret /\ failed' = failed /\ error' = error /\ console' = console
      /\ held' = held /\ temp_fd' = temp_fd /\ phase' = phase /\ variant' = variant /\ i' = i /\ j' = j
  BY DEF vars, script, loops
<1>2. TypeOK'
  <2>1. {failed', error'} \subseteq BOOLEAN
    BY <1>1, Zenon DEF IInv, TypeOK
  <2>2. /\ fds' \in [Descriptors -> Descriptor] /\ files' \in [Paths -> {Absent} \cup 0..MaxSize]
        /\ test' \in Tests /\ pc' \in Nat \ {0} /\ local' \in [Locals -> {None} \cup Descriptors]
        /\ amount' \in 0..MaxSize /\ held' \in [Slots -> {None} \cup Descriptors]
        /\ temp_fd' \in {None} \cup Descriptors /\ phase' \in {"temp", "first", "close", "open", "done"}
        /\ variant' \in {1, 2} /\ i' \in Slots /\ j' \in Slots
        /\ ret' \in Results /\ console' \in Seq(Results)
    BY <1>1 DEF IInv, TypeOK
  <2> QED BY <2>1, <2>2, Zenon DEF TypeOK
<1>3. \A V : Has(V)' <=> Has(V)
  BY <1>1 DEF Has, IsOpen
<1>4. SdataInv' <=> SdataInv
  BY <1>1, <1>3 DEF SdataInv
<1>5. FlagsInv' <=> FlagsInv
  BY <1>1, <1>3 DEF FlagsInv
<1>6. EntriesInv' <=> EntriesInv
  BY <1>1, <1>3 DEF EntriesInv
<1>7. BoundInv' <=> BoundInv
  BY <1>1, <1>3 DEF BoundInv
<1>8. CopyInv' <=> CopyInv
  <2>1. Copying' <=> Copying
    BY <1>1 DEF Copying, src, dst, Copied
  <2> QED BY <1>1, <1>3, <2>1 DEF CopyInv
<1>9. ScriptInv
  BY DEF IInv
<1> QED BY <1>1, <1>2, <1>4, <1>5, <1>6, <1>7, <1>8, <1>9 DEF ScriptInv

\* Every step keeps the whole induction hypothesis.
LEMMA StepKeeps == ASSUME IInv, [Next]_vars PROVE IInv'
<1>1. IdsInv'
  BY NextKeeps DEF IInv
<1>2. CASE Call
  BY <1>1, <1>2, CallKeeps, CallTypes DEF IInv
<1>3. CASE Branch \/ Leave
  BY <1>1, <1>3, BranchKeeps, BranchTypes DEF IInv
<1>4. CASE OpenTemp \/ OpenFirst \/ CloseSlot \/ OpenSlot
  <2>1. TypeOK'
    BY <1>1, <1>4, IdsTypes DEF IInv
  <2>2. test' = "cellFs_IDs"
    BY <1>4 DEF OpenTemp, OpenFirst, CloseSlot, OpenSlot, InPhase
  <2> QED BY <1>1, <2>1, <2>2 DEF IInv, ScriptInv
<1>5. CASE UNCHANGED vars
  BY <1>1, <1>5, StutterKeeps DEF IInv
<1> QED BY <1>2, <1>3, <1>4, <1>5 DEF Next

\* Every variable keeps its type, however many slots, entries and descriptors there
\* are and however large a file can be.
THEOREM TypeCorrectness == Spec => []TypeOK
<1>1. IInv => TypeOK
  BY DEF IInv
<1> QED BY <1>1, InitTypes, StepKeeps, PTL DEF Spec
-----------------------------------------------------------------------------
(* What is left open.                                                      *)

\* cellFs IDs has closed nothing that it has not opened again: its Count slots and
\* temp_fd hold the Count + 1 lowest numbers.
LEMMA AllAreHeld ==
  ASSUME Held_OK, Accounts({})
  PROVE  Open_fds = FirstFd..(FirstFd + Count)
<1> DEFINE N == FirstFd..(FirstFd + Count)
           K == 0..Count
           f == [k \in K |-> IF k = Count THEN temp_fd ELSE held[k]]
<1>1. \A k \in K : k = Count \/ k \in Slots
  BY FileTestsAssumption DEF Slots, FileTestsAssumption
<1>2. \A k \in Slots : IsOpen(held[k]) /\ held[k] # temp_fd /\ \A l \in Slots : k # l => held[k] # held[l]
  BY DEF Accounts, Holds_own
<1>3. \A k \in K : IsOpen(f[k])
  BY <1>1, <1>2 DEF Accounts
<1>4. \A k \in K, l \in K : k # l => f[k] # f[l]
  BY <1>1, <1>2
<1>5. \A fd : IsOpen(fd) => fd \in N
  <2>1. SUFFICES ASSUME NEW fd, IsOpen(fd) PROVE fd \in N
    OBVIOUS
  <2>2. fd \in Descriptors /\ fd <= FirstFd + Count
    BY <2>1 DEF IsOpen, Accounts, AllLow
  <2> QED BY <2>2, FileTestsAssumption DEF Descriptors, FileTestsAssumption
<1>6. \A fd \in N : IsOpen(fd)
  <2>1. SUFFICES ASSUME NEW fd \in N, ~IsOpen(fd) PROVE FALSE
    OBVIOUS
  <2> DEFINE M == N \ {fd}
  <2>2. f \in [K -> M]
    <3>1. \A k \in K : f[k] \in M
      BY <1>3, <1>5, <2>1
    <3> QED BY <3>1
  <2>3. IsFiniteSet(K) /\ Cardinality(K) = Count + 1
    BY FS_Interval, FileTestsAssumption DEF FileTestsAssumption
  <2>4. IsFiniteSet(M) /\ Cardinality(M) = Count
    <3>1. IsFiniteSet(N) /\ Cardinality(N) = Count + 1
      BY FS_Interval, FileTestsAssumption DEF FileTestsAssumption
    <3>2. IsFiniteSet(N \ {fd}) /\ Cardinality(N \ {fd}) = Cardinality(N) - 1
      BY <3>1, FS_RemoveElement, Zenon
    <3> QED BY <3>1, <3>2, FileTestsAssumption DEF FileTestsAssumption
  <2>5. Cardinality(M) < Cardinality(K)
    BY <2>3, <2>4, FileTestsAssumption DEF FileTestsAssumption
  <2> HIDE DEF f, M, K
  <2>6. PICK x, y \in K : x # y /\ f[x] = f[y]
    BY <2>2, <2>3, <2>4, <2>5, FS_PigeonHole
  <2> QED BY <1>4, <2>6
<1>7. N \subseteq Descriptors
  BY <1>6 DEF IsOpen
<1> QED BY <1>5, <1>6, <1>7 DEF Open_fds, IsOpen

\* The descriptors that the variables of V hold.
LEMMA HasIsOpen == ASSUME NEW V, Has(V) PROVE Open_fds = {Number(v) : v \in V}
BY DEF Has, Open_fds, IsOpen

\* A script that has returned is past its last instruction.
LEMMA EndIs ==
  ASSUME IInv, Returned, ~failed, test # "cellFs_IDs"
  PROVE  /\ test = "SDATA" => SdataInv /\ pc = 29
         /\ test = "cellFsOpen_flags" => FlagsInv /\ pc = 33
         /\ test = "GetDirectoryEntries" => EntriesInv /\ pc = 38
         /\ test = "memory_bound" => BoundInv /\ pc = 61
         /\ test = "copy_file_" => CopyInv /\ pc = 14
<1>1. pc > Len(Scripts[test]) /\ ScriptInv
  BY DEF Returned, IInv
<1>2. /\ test = "SDATA" => SdataInv
      /\ test = "cellFsOpen_flags" => FlagsInv
      /\ test = "GetDirectoryEntries" => EntriesInv
      /\ test = "memory_bound" => BoundInv
      /\ test = "copy_file_" => CopyInv
  BY <1>1 DEF ScriptInv
<1>3. /\ test = "SDATA" => pc > 28
      /\ test = "cellFsOpen_flags" => pc > 32
      /\ test = "GetDirectoryEntries" => pc > 37
      /\ test = "memory_bound" => pc > 60
      /\ test = "copy_file_" => pc > 13
  BY <1>1, Lengths, Zenon
<1>4. test = "SDATA" => SdataInv /\ pc = 29
  BY <1>2, <1>3 DEF SdataInv
<1>5. test = "cellFsOpen_flags" => FlagsInv /\ pc = 33
  BY <1>2, <1>3 DEF FlagsInv
<1>6. test = "GetDirectoryEntries" => EntriesInv /\ pc = 38
  BY <1>2, <1>3 DEF EntriesInv
<1>7. test = "memory_bound" => BoundInv /\ pc = 61
  BY <1>2, <1>3 DEF BoundInv
<1>8. test = "copy_file_" => CopyInv /\ pc = 14
  BY <1>2, <1>3 DEF CopyInv
<1> QED BY <1>4, <1>5, <1>6, <1>7, <1>8

\* At its end a test leaves open what the property says.
LEMMA EndLeaves == IInv => LeavesAsDescribed
<1> SUFFICES ASSUME IInv, Returned, ~failed PROVE LeavesAsDescribed
  BY DEF LeavesAsDescribed
<1>1. DOMAIN Kept = {"SDATA", "cellFs_IDs"}
  BY DEF Kept
<1>2. CASE test = "cellFs_IDs"
  <2>1. phase = "done"
    BY <1>2 DEF Returned
  <2>2. Held_OK /\ Accounts(ClosedSlots) /\ ClosedSlots = {}
    BY <1>2, <2>1 DEF IInv, IdsInv, ClosedSlots
  <2>3. Open_fds = FirstFd..(FirstFd + Count)
    BY <2>2, AllAreHeld
  <2>4. Kept["cellFs_IDs"] = FirstFd..(FirstFd + Count)
    BY DEF Kept
  <2> QED BY <1>1, <1>2, <2>3, <2>4 DEF LeavesAsDescribed
<1>3. CASE test = "SDATA"
  <2>1. Has({0, 2, 3, 4})
    <3>1. SdataInv /\ pc = 29
      BY <1>3, EndIs
    <3> QED BY <3>1 DEF SdataInv, SdataHolds
  <2>2. Open_fds = {Number(v) : v \in {0, 2, 3, 4}}
    BY <2>1, HasIsOpen
  <2>3. {Number(v) : v \in {0, 2, 3, 4}} = FirstFd..(FirstFd + 3)
    BY FileTestsAssumption DEF FileTestsAssumption, Number
  <2>4. Kept["SDATA"] = FirstFd..(FirstFd + 3)
    BY DEF Kept
  <2> QED BY <1>1, <1>3, <2>2, <2>3, <2>4 DEF LeavesAsDescribed
<1>4. CASE test \notin {"SDATA", "cellFs_IDs"}
  <2>1. test \in {"cellFsOpen_flags", "GetDirectoryEntries", "memory_bound", "copy_file_"}
    BY <1>4, TestIs DEF IInv, TypeOK
  <2>2. Has({})
    <3>1. CASE test = "cellFsOpen_flags"
      <4>1. FlagsInv /\ pc = 33
        BY <3>1, EndIs
      <4> QED BY <4>1 DEF FlagsInv, FlagsHolds
    <3>2. CASE test = "GetDirectoryEntries"
      <4>1. EntriesInv /\ pc = 38
        BY <3>2, EndIs
      <4> QED BY <4>1 DEF EntriesInv, EntriesHolds
    <3>3. CASE test = "memory_bound"
      <4>1. BoundInv /\ pc = 61
        BY <3>3, EndIs
      <4> QED BY <4>1 DEF BoundInv
    <3>4. CASE test = "copy_file_"
      <4>1. CopyInv /\ pc = 14
        BY <3>4, EndIs
      <4> QED BY <4>1 DEF CopyInv, CopyHolds
    <3> QED BY <2>1, <3>1, <3>2, <3>3, <3>4
  <2>3. Open_fds = {}
    BY <2>2 DEF Has, Open_fds
  <2>4. test = "cellFsOpen_flags" => files["file.h"] = Absent /\ files["testdir"] = Absent
    <3>1. test = "cellFsOpen_flags" => FlagsInv /\ pc = 33
      BY EndIs
    <3> QED BY <3>1 DEF FlagsInv
  <2>5. (test = "copy_file_" /\ ~error) => files["dst"] = files["sdata"]
    <3>1. test = "copy_file_" => CopyInv /\ pc = 14
      BY EndIs
    <3> QED BY <3>1 DEF CopyInv, Copying, Copied
  <2>6. test \notin DOMAIN Kept
    BY <1>1, <1>4
  <2> QED BY <2>3, <2>4, <2>5, <2>6 DEF LeavesAsDescribed
<1> QED BY <1>2, <1>3, <1>4

\* Whatever the sizes, and whichever calls of copy_file_ fail: a test that returns
\* has open exactly the descriptors it means to keep, has removed what it promised
\* to, and a copy in which nothing failed is whole.
THEOREM NothingLeftOpen == Spec => []LeavesAsDescribed
BY EndLeaves, InitTypes, StepKeeps, PTL DEF Spec
=============================================================================
