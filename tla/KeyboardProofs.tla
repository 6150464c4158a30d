--------------------------- MODULE KeyboardProofs ---------------------------
(***************************************************************************)
(* Proofs about Keyboard, for any number of keys and readers, a ring of    *)
(* any length, and any number of bytes held back by the device.            *)
(***************************************************************************)
EXTENDS Keyboard, FiniteSetTheorems, SequenceTheorems, TLAPS

Byte == [key : Keys \cup {NoKey}, up : BOOLEAN, meant : BOOLEAN]
Char == [key : CharKeys \cup {NoKey}, caps : BOOLEAN]
Entry == [char : Char, meant : BOOLEAN]
Position == 0..(MAX_BUFFER_LEN - 1)
Process == Readers \cup {Driver}

\* The driver holds a character that is not settled in is_key_pressed yet.
HoldsChar == pc \in {"key", "store", "sync", "release"}

DriverTypes ==
    /\ pc \in {"start", "wait", "read", "key", "store", "sync", "release",
               "leds", "ack", "lights"}
    /\ scancode \in Byte
    /\ IF HoldsChar THEN IsChar(scancode) ELSE scancode = Ack
    /\ is_key_pressed \in [Keys -> BOOLEAN]
    /\ is_caps_lock_active \in BOOLEAN /\ swallowed \in BOOLEAN

DeviceTypes ==
    /\ port \in Seq(Byte) /\ replies \in Nat /\ irq \in BOOLEAN
    /\ down \subseteq Keys /\ lock \in BOOLEAN

RingTypes ==
    /\ buffer \in [Position -> Char]
    /\ next_reading_pos \in Position /\ next_writing_pos \in Position
    /\ unread \in Seq(Entry)

ReaderTypes == at \in [Readers -> {"caller", "sync", "take", "move"}]

\* Where the variables are, but for the semaphores.
Types == DriverTypes /\ DeviceTypes /\ RingTypes /\ ReaderTypes

-----------------------------------------------------------------------------
(* Types.                                                                  *)

LEMMA AckIsByte == Ack \in Byte /\ ~IsChar(Ack)
BY DEF Ack, Byte, IsChar

\* A position of the ring and what follows it: the code's % takes off the
\* length of the ring at most once.
LEMMA ModOnce ==
    \A n \in 0..(2 * MAX_BUFFER_LEN - 1) :
        n % MAX_BUFFER_LEN = IF n < MAX_BUFFER_LEN THEN n ELSE n - MAX_BUFFER_LEN
BY KeyboardAssumption

LEMMA FollowingType == \A n \in Position : Following(n) \in Position
BY KeyboardAssumption DEF Following, Position

LEMMA InitTypes == Init => Types
<1> SUFFICES ASSUME Init PROVE Types
  OBVIOUS
<1>1. DriverTypes
  BY AckIsByte DEF Init, DriverTypes, HoldsChar
<1>2. DeviceTypes
  BY EmptySeq DEF Init, DeviceTypes
<1>3. RingTypes
  BY EmptySeq, KeyboardAssumption DEF Init, RingTypes, Position, NoChar, Char
<1>4. ReaderTypes
  BY DEF Init, ReaderTypes
<1> QED BY <1>1, <1>2, <1>3, <1>4 DEF Types

\* Typing makes a byte of a key, the device answers a command.
LEMMA PortGrows ==
    ASSUME Types
    PROVE  /\ \A k \in Keys, up \in BOOLEAN : Type(k, up) => DeviceTypes'
           /\ Reply => DeviceTypes'
<1>1. ASSUME NEW k \in Keys, NEW up \in BOOLEAN, Type(k, up)
      PROVE  DeviceTypes'
  <2>1. [key |-> k, up |-> up, meant |-> lock \/ down \cap ShiftKeys # {}] \in Byte
    BY DEF Types, DeviceTypes, Byte
  <2>2. port' \in Seq(Byte)
    BY <1>1, <2>1, AppendProperties DEF Type, Types, DeviceTypes
  <2>3. irq' \in BOOLEAN /\ down' \subseteq Keys /\ lock' \in BOOLEAN
    BY <1>1 DEF Type, Types, DeviceTypes
  <2> QED BY <1>1, <2>2, <2>3 DEF Type, Types, DeviceTypes
<1>2. ASSUME Reply
      PROVE  DeviceTypes'
  <2>1. Append(port, Ack) \in Seq(Byte) /\ <<Ack>> \in Seq(Byte)
    BY AckIsByte, AppendProperties DEF Types, DeviceTypes
  <2>2. port # <<>> => <<Head(port), Ack>> \o Tail(port) \in Seq(Byte)
    <3>1. port # <<>> => Head(port) \in Byte /\ Tail(port) \in Seq(Byte)
      BY HeadTailProperties DEF Types, DeviceTypes
    <3>2. port # <<>> => <<Head(port), Ack>> \in Seq(Byte)
      BY <3>1, AckIsByte
    <3> QED BY <3>1, <3>2, ConcatProperties
  <2>3. port' \in Seq(Byte)
    BY <1>2, <2>1, <2>2 DEF Reply
  <2>4. irq' \in BOOLEAN /\ replies' \in Nat
    BY <1>2 DEF Reply, Types, DeviceTypes
  <2> QED BY <1>2, <2>3, <2>4 DEF Reply, Types, DeviceTypes, userVars
<1> QED BY <1>1, <1>2

LEMMA InPortTypes ==
    ASSUME Types, InPort
    PROVE  /\ Head(port) \in Byte
           /\ port' \in Seq(Byte) /\ irq' \in BOOLEAN
BY HeadTailProperties DEF InPort, Types, DeviceTypes

LEMMA StoreTypes ==
    ASSUME Types, Store
    PROVE  RingTypes'
<1> DEFINE char == [key |-> scancode.key, caps |-> shift_is_pressed]
           entry == [char |-> char, meant |-> scancode.meant]
<1>1. CASE ~HasSpace
  BY <1>1 DEF Store, Types, RingTypes
<1>2. CASE HasSpace
  <2>1. char \in Char
    <3>1. scancode.key \in CharKeys
      BY DEF Store, Types, DriverTypes, HoldsChar, IsChar
    <3>2. shift_is_pressed \in BOOLEAN
      BY DEF shift_is_pressed, Types, DriverTypes
    <3> QED BY <3>1, <3>2 DEF Char
  <2>2. entry \in Entry
    BY <2>1 DEF Entry, Types, DriverTypes, Byte
  <2>3. /\ buffer' = [buffer EXCEPT ![next_writing_pos] = char]
        /\ next_writing_pos' = Following(next_writing_pos)
        /\ unread' = Append(unread, entry)
        /\ next_reading_pos' = next_reading_pos
    BY <1>2 DEF Store
  <2> HIDE DEF char, entry
  <2>4. unread' \in Seq(Entry)
    BY <2>2, <2>3, AppendProperties DEF Types, RingTypes
  <2> QED BY <2>1, <2>3, <2>4, FollowingType DEF Types, RingTypes
<1> QED BY <1>1, <1>2

LEMMA ReaderStepTypes ==
    ASSUME Types, NEW r \in Readers, GetChar(r) \/ ReaderStep(r)
    PROVE  RingTypes' /\ ReaderTypes'
<1>1. ReaderTypes'
  BY DEF GetChar, ReaderStep, LockBuffer, TakeChar, Return, Types, ReaderTypes
<1>2. CASE GetChar(r) \/ LockBuffer(r)
  BY <1>1, <1>2 DEF GetChar, LockBuffer, ringVars, Types, RingTypes
<1>3. CASE TakeChar(r)
  <2>1. unread' \in Seq(Entry)
    BY <1>3, HeadTailProperties DEF TakeChar, Types, RingTypes
  <2> QED BY <1>1, <1>3, <2>1 DEF TakeChar, Types, RingTypes
<1>4. CASE Return(r)
  BY <1>1, <1>4, FollowingType DEF Return, Types, RingTypes
<1> QED BY <1>1, <1>2, <1>3, <1>4 DEF ReaderStep

LEMMA NextTypes == Types /\ [Next]_vars => Types'
<1> SUFFICES ASSUME Types, [Next]_vars PROVE Types'
  OBVIOUS
<1> USE DEF deviceVars, userVars, keyVars, ringVars
<1>1. CASE Register \/ SendCommand \/ Interrupt
  <2>1. DriverTypes'
    BY <1>1 DEF Register, SendCommand, Interrupt, Ends, Types, DriverTypes, HoldsChar, IsChar
  <2>2. DeviceTypes'
    <3>1. port' = port /\ UNCHANGED userVars
      BY <1>1 DEF Register, SendCommand, Interrupt
    <3>2. replies' \in Nat
      BY <1>1 DEF Register, SendCommand, Interrupt, Types, DeviceTypes
    <3>3. irq' \in BOOLEAN
      <4>1. irq' = irq \/ irq' = FALSE
        BY <1>1 DEF Register, SendCommand, Interrupt
      <4> QED BY <4>1 DEF Types, DeviceTypes
    <3> QED BY <3>1, <3>2, <3>3 DEF Types, DeviceTypes
  <2>3. RingTypes' /\ ReaderTypes'
    BY <1>1 DEF Register, SendCommand, Interrupt, Types, RingTypes, ReaderTypes
  <2> QED BY <2>1, <2>2, <2>3 DEF Types
<1>2. CASE ReadPort
  <2>1. Head(port) \in Byte /\ port' \in Seq(Byte) /\ irq' \in BOOLEAN
    BY <1>2, InPortTypes DEF ReadPort
  <2>2. DriverTypes'
    <3> DEFINE byte == Head(port)
    <3>1. is_key_pressed' \in [Keys -> BOOLEAN]
      BY <1>2, <2>1 DEF ReadPort, Types, DriverTypes, Byte
    <3>2. is_caps_lock_active' \in BOOLEAN /\ swallowed' \in BOOLEAN
      BY <1>2 DEF ReadPort, Types, DriverTypes
    <3>3. CASE IsChar(byte)
      BY <1>2, <2>1, <3>1, <3>2, <3>3 DEF ReadPort, DriverTypes, HoldsChar, IsChar
    <3>4. CASE ~IsChar(byte)
      BY <1>2, <3>1, <3>2, <3>4, AckIsByte DEF ReadPort, DriverTypes, HoldsChar, IsChar
    <3> QED BY <3>3, <3>4
  <2> QED BY <1>2, <2>1, <2>2 DEF ReadPort, Types, DeviceTypes, RingTypes, ReaderTypes
<1>3. CASE AcquireBuffer \/ ReleaseSync
  BY <1>3 DEF AcquireBuffer, ReleaseSync, Types, DriverTypes, DeviceTypes, RingTypes,
              ReaderTypes, HoldsChar, IsChar
<1>4. CASE Store
  <2>1. RingTypes'
    BY <1>4, StoreTypes
  <2> QED BY <1>4, <2>1 DEF Store, Types, DriverTypes, DeviceTypes, ReaderTypes, HoldsChar, IsChar
<1>5. CASE ReleaseBuffer
  BY <1>5, AckIsByte DEF ReleaseBuffer, Types, DriverTypes, DeviceTypes, RingTypes,
              ReaderTypes, HoldsChar, IsChar
<1>6. CASE kbd_ack
  <2>1. port' \in Seq(Byte) /\ irq' \in BOOLEAN
    BY <1>6, InPortTypes DEF kbd_ack
  <2>2. DriverTypes'
    BY <1>6 DEF kbd_ack, Types, DriverTypes, HoldsChar, IsChar
  <2> QED BY <1>6, <2>1, <2>2 DEF kbd_ack, Types, DeviceTypes, RingTypes, ReaderTypes
<1>7. CASE Reply
  BY <1>7, PortGrows DEF Reply, Types, DriverTypes, RingTypes, ReaderTypes, HoldsChar, IsChar
<1>8. ASSUME NEW r \in Readers, GetChar(r) \/ ReaderStep(r)
      PROVE  Types'
  <2>1. UNCHANGED <<deviceVars, userVars, pc, keyVars>>
    BY <1>8 DEF GetChar, ReaderStep, LockBuffer, TakeChar, Return
  <2>2. RingTypes' /\ ReaderTypes'
    BY <1>8, ReaderStepTypes
  <2> QED BY <2>1, <2>2 DEF Types, DriverTypes, DeviceTypes, HoldsChar, IsChar
<1>9. ASSUME NEW k \in Keys, NEW up \in BOOLEAN, Type(k, up)
      PROVE  Types'
  <2>1. DeviceTypes'
    BY <1>9, PortGrows
  <2> QED BY <1>9, <2>1 DEF Type, Types, DriverTypes, RingTypes, ReaderTypes, HoldsChar, IsChar
<1>10. CASE UNCHANGED vars
  BY <1>10 DEF vars, Types, DriverTypes, DeviceTypes, RingTypes, ReaderTypes, HoldsChar, IsChar
<1> QED
  BY <1>1, <1>2, <1>3, <1>4, <1>5, <1>6, <1>7, <1>8, <1>9, <1>10 DEF Next, DriverStep

-----------------------------------------------------------------------------
(* Interrupts.                                                             *)

\* The byte in the controller's output buffer has its interrupt raised, or the
\* driver has been woken by it and not read the port yet.
IrqInv ==
    /\ pc = "start" => port = <<>> /\ replies = 0
    /\ irq => port # <<>>
    /\ pc = "read" => port # <<>>
    /\ pc # "read" /\ port # <<>> => irq

LEMMA InPortIrq ==
    ASSUME Types, InPort
    PROVE  irq' <=> port' # <<>>
<1>1. port \in Seq(Byte) /\ port # <<>>
  BY DEF InPort, Types, DeviceTypes
<1>2. port' \in Seq(Byte) /\ Len(port') = Len(port) - 1
  BY <1>1, HeadTailProperties DEF InPort
<1>3. Len(port) \in Nat /\ (port' # <<>> <=> Len(port') # 0)
  BY <1>1, <1>2, EmptySeq, LenProperties
<1>4. irq' <=> Len(port) > 1
  BY DEF InPort
<1>5. Len(port') # 0 <=> Len(port) > 1
  BY <1>2, <1>3, LenProperties
<1> QED BY <1>3, <1>4, <1>5

LEMMA NextIrqInv ==
    ASSUME EarlyKeys = FALSE, Types, IrqInv, [Next]_vars
    PROVE  IrqInv'
<1> USE DEF IrqInv, deviceVars, userVars, keyVars, ringVars
<1>1. CASE Register \/ SendCommand \/ Interrupt
  <2>1. CASE Register
    BY <2>1 DEF Register
  <2>2. CASE SendCommand
    BY <2>2 DEF SendCommand
  <2>3. CASE Interrupt
    BY <2>3 DEF Interrupt, Ends
  <2> QED BY <1>1, <2>1, <2>2, <2>3
<1>2. CASE ReadPort
  BY <1>2, InPortIrq DEF ReadPort
<1>3. CASE AcquireBuffer \/ ReleaseSync \/ Store \/ ReleaseBuffer
  BY <1>3 DEF AcquireBuffer, ReleaseSync, Store, ReleaseBuffer
<1>4. CASE kbd_ack
  BY <1>4, InPortIrq DEF kbd_ack
<1>5. CASE Reply
  <2>1. port' # <<>>
    <3>1. Append(port, Ack) # <<>>
      BY AckIsByte, AppendProperties DEF Types, DeviceTypes
    <3>2. port # <<>> => <<Head(port), Ack>> \o Tail(port) # <<>>
      <4>1. port # <<>> => Head(port) \in Byte /\ Tail(port) \in Seq(Byte)
        BY HeadTailProperties DEF Types, DeviceTypes
      <4>2. port # <<>> => Len(<<Head(port), Ack>> \o Tail(port)) # 0
        BY <4>1
      <4> QED BY <4>2
    <3> QED BY <1>5, <3>1, <3>2 DEF Reply
  <2>2. pc' = pc /\ pc # "start"
    BY <1>5 DEF Reply
  <2>3. irq' <=> irq \/ port = <<>>
    BY <1>5 DEF Reply
  <2> QED BY <2>1, <2>2, <2>3
<1>6. ASSUME NEW r \in Readers, GetChar(r) \/ ReaderStep(r)
      PROVE  IrqInv'
  BY <1>6 DEF GetChar, ReaderStep, LockBuffer, TakeChar, Return
<1>7. ASSUME NEW k \in Keys, NEW up \in BOOLEAN, Type(k, up)
      PROVE  IrqInv'
  <2> DEFINE byte == [key |-> k, up |-> up, meant |-> lock \/ down \cap ShiftKeys # {}]
  <2>1. Append(port, byte) # <<>>
    BY AppendProperties DEF Types, DeviceTypes, Byte
  <2> QED BY <1>7, <2>1 DEF Type
<1>8. CASE UNCHANGED vars
  BY <1>8 DEF vars
<1> QED
  BY <1>1, <1>2, <1>3, <1>4, <1>5, <1>6, <1>7, <1>8 DEF Next, DriverStep

\* When no key is pressed before the driver first waits, the driver never
\* waits with a byte in the port that will not interrupt it.
THEOREM ByteInterrupts ==
    ASSUME EarlyKeys = FALSE
    PROVE  Spec => []ByteWillInterrupt
<1>1. Init => IrqInv
  BY DEF Init, IrqInv
<1>2. Types /\ IrqInv /\ [Next]_vars => IrqInv'
  BY NextIrqInv
<1>3. IrqInv => ByteWillInterrupt
  BY DEF IrqInv, ByteWillInterrupt
<1> QED BY <1>1, <1>2, <1>3, InitTypes, NextTypes, PTL DEF Spec

-----------------------------------------------------------------------------
(* Semaphores.                                                             *)

\* A negative count is the number of processes that wait, each of them once.
Sound(semaphore) ==
    /\ semaphore \in [count : Int, waiting : Seq(Process)]
    /\ IsInjective(semaphore.waiting)
    /\ Len(semaphore.waiting) = IF semaphore.count < 0 THEN -semaphore.count ELSE 0

LEMMA SoundFacts ==
    ASSUME NEW semaphore, Sound(semaphore)
    PROVE  /\ semaphore.count \in Int
           /\ semaphore.waiting \in Seq(Process)
           /\ Len(semaphore.waiting) \in Nat
           /\ DOMAIN semaphore.waiting = 1..Len(semaphore.waiting)
           /\ semaphore.waiting = <<>> <=> semaphore.count >= 0
           /\ semaphore.count >= 0 => Range(semaphore.waiting) = {}
<1>1. semaphore.count \in Int /\ semaphore.waiting \in Seq(Process)
  BY DEF Sound
<1>2. /\ Len(semaphore.waiting) \in Nat
      /\ DOMAIN semaphore.waiting = 1..Len(semaphore.waiting)
  BY <1>1, LenProperties
<1>3. semaphore.waiting = <<>> <=> Len(semaphore.waiting) = 0
  BY <1>1, EmptySeq
<1>4. semaphore.waiting = <<>> <=> semaphore.count >= 0
  BY <1>1, <1>3 DEF Sound
<1>5. semaphore.count >= 0 => Range(semaphore.waiting) = {}
  BY <1>2, <1>3, <1>4 DEF Range
<1> QED BY <1>1, <1>2, <1>4, <1>5

LEMMA AcquiredSound ==
    ASSUME NEW semaphore, Sound(semaphore),
           NEW p \in Process, p \notin Range(semaphore.waiting)
    PROVE  /\ Sound(Acquired(semaphore, p))
           /\ Acquired(semaphore, p).count = semaphore.count - 1
           /\ Range(Acquired(semaphore, p).waiting) =
                IF semaphore.count <= 0 THEN Range(semaphore.waiting) \cup {p} ELSE {}
<1> DEFINE list == semaphore.waiting
           n == Len(list)
           after == Acquired(semaphore, p)
<1>1. /\ semaphore.count \in Int /\ list \in Seq(Process) /\ n \in Nat
      /\ DOMAIN list = 1..n
      /\ n = IF semaphore.count < 0 THEN -semaphore.count ELSE 0
      /\ semaphore.count >= 0 => Range(list) = {}
  BY SoundFacts DEF Sound
<1>2. after.count = semaphore.count - 1
  BY DEF Acquired
<1>3. CASE semaphore.count <= 0
  <2>1. after.waiting = Append(list, p)
    BY <1>3 DEF Acquired
  <2>2. /\ after.waiting \in Seq(Process) /\ Len(after.waiting) = n + 1
        /\ \A i \in 1..n : after.waiting[i] = list[i]
        /\ after.waiting[n + 1] = p
    BY <1>1, <2>1, AppendProperties
  <2>3. DOMAIN after.waiting = 1..(n + 1)
    BY <2>2, LenProperties
  <2>4. \A i \in 1..n : list[i] \in Range(list)
    BY <1>1 DEF Range
  <2> HIDE DEF list, n, after
  <2>5. IsInjective(after.waiting)
    <3> SUFFICES ASSUME NEW i \in 1..(n + 1), NEW j \in 1..(n + 1),
                        after.waiting[i] = after.waiting[j]
                 PROVE  i = j
      BY <2>3 DEF IsInjective
    <3>1. CASE i \in 1..n /\ j \in 1..n
      <4>1. list[i] = list[j]
        BY <2>2, <3>1
      <4> QED BY <1>1, <3>1, <4>1 DEF IsInjective, Sound, list
    <3>2. i = n + 1 /\ j \in 1..n => FALSE
      BY <2>2, <2>4 DEF list
    <3>3. j = n + 1 /\ i \in 1..n => FALSE
      BY <2>2, <2>4 DEF list
    <3> QED BY <1>1, <3>1, <3>2, <3>3
  <2>6. Range(after.waiting) = Range(list) \cup {p}
    <3>1. Range(after.waiting) = {after.waiting[i] : i \in 1..(n + 1)}
      BY <2>3 DEF Range
    <3>2. Range(list) = {list[i] : i \in 1..n}
      BY <1>1 DEF Range
    <3>3. 1..(n + 1) = (1..n) \cup {n + 1}
      BY <1>1
    <3> QED BY <2>2, <3>1, <3>2, <3>3
  <2>7. Len(after.waiting) = IF after.count < 0 THEN -after.count ELSE 0
    BY <1>1, <1>2, <1>3, <2>2
  <2>8. after \in [count : Int, waiting : Seq(Process)]
    BY <1>1, <2>2 DEF after, Acquired
  <2> QED BY <1>2, <1>3, <2>5, <2>6, <2>7, <2>8 DEF Sound, list, after
<1>4. CASE ~(semaphore.count <= 0)
  <2>1. after.waiting = list /\ n = 0 /\ after.count >= 0
    BY <1>1, <1>2, <1>4 DEF Acquired
  <2>2. after \in [count : Int, waiting : Seq(Process)]
    BY <1>1, <2>1 DEF Acquired
  <2> HIDE DEF list, n, after
  <2>3. Sound(after)
    BY <1>1, <2>1, <2>2 DEF Sound, list, n
  <2> QED BY <1>1, <1>2, <1>4, <2>1, <2>3 DEF after
<1> QED BY <1>3, <1>4

LEMMA ReleasedSound ==
    ASSUME NEW semaphore, Sound(semaphore)
    PROVE  /\ Sound(Released(semaphore))
           /\ Released(semaphore).count = semaphore.count + 1
           /\ semaphore.count >= 0 => Range(Released(semaphore).waiting) = {}
           /\ semaphore.count < 0 =>
                \E p \in Range(semaphore.waiting) :
                    Range(Released(semaphore).waiting) = Range(semaphore.waiting) \ {p}
<1> DEFINE list == semaphore.waiting
           n == Len(list)
           after == Released(semaphore)
<1>1. /\ semaphore.count \in Int /\ list \in Seq(Process) /\ n \in Nat
      /\ DOMAIN list = 1..n
      /\ n = IF semaphore.count < 0 THEN -semaphore.count ELSE 0
      /\ list = <<>> <=> semaphore.count >= 0
      /\ IsInjective(list)
  BY SoundFacts DEF Sound
<1>2. after.count = semaphore.count + 1
  BY DEF Released
<1>3. CASE semaphore.count >= 0
  <2>1. after.waiting = <<>>
    BY <1>1, <1>3 DEF Released
  <2>2. Len(after.waiting) = 0 /\ DOMAIN after.waiting = {}
    BY <2>1
  <2>3. IsInjective(after.waiting) /\ Range(after.waiting) = {}
    BY <2>2 DEF IsInjective, Range
  <2>4. Sound(after)
    <3>1. <<>> \in Seq(Process)
      BY EmptySeq
    <3>2. after = [count |-> semaphore.count + 1, waiting |-> <<>>]
      BY <1>1, <1>3 DEF Released
    <3>3. after \in [count : Int, waiting : Seq(Process)]
      BY <1>1, <3>1, <3>2
    <3> HIDE DEF after
    <3> QED BY <1>1, <1>2, <1>3, <2>2, <2>3, <3>3 DEF Sound
  <2> QED BY <1>1, <1>2, <1>3, <2>3, <2>4 DEF after
<1>4. CASE semaphore.count < 0
  <2>1. list # <<>> /\ after.waiting = Tail(list)
    BY <1>1, <1>4 DEF Released
  <2>2. /\ after.waiting \in Seq(Process) /\ Len(after.waiting) = n - 1
        /\ \A i \in 1..(n - 1) : after.waiting[i] = list[i + 1]
    BY <1>1, <2>1, HeadTailProperties
  <2>3. DOMAIN after.waiting = 1..(n - 1)
    BY <2>2, LenProperties
  <2>4. n \in Nat \ {0}
    BY <1>1, <1>4
  <2>5. after \in [count : Int, waiting : Seq(Process)]
    BY <1>1, <2>1, <2>2 DEF Released
  <2> HIDE DEF list, n, after
  <2>6. IsInjective(after.waiting)
    <3> SUFFICES ASSUME NEW i \in 1..(n - 1), NEW j \in 1..(n - 1),
                        after.waiting[i] = after.waiting[j]
                 PROVE  i = j
      BY <2>3 DEF IsInjective
    <3>1. i + 1 \in 1..n /\ j + 1 \in 1..n /\ list[i + 1] = list[j + 1]
      BY <2>2, <2>4
    <3>2. i + 1 = j + 1
      BY <1>1, <3>1 DEF IsInjective
    <3> QED BY <3>2
  <2>7. Range(after.waiting) = Range(list) \ {list[1]}
    <3>1. Range(after.waiting) = {list[i + 1] : i \in 1..(n - 1)}
      BY <2>2, <2>3 DEF Range
    <3>2. Range(list) = {list[i] : i \in 1..n}
      BY <1>1 DEF Range
    <3>3. \A i \in 1..n : i = 1 \/ (i - 1 \in 1..(n - 1) /\ (i - 1) + 1 = i)
      BY <2>4
    <3>4. \A i \in 1..(n - 1) : i + 1 \in 1..n /\ i + 1 # 1
      BY <2>4
    <3>5. \A i \in 1..n : list[i] = list[1] => i = 1
      BY <1>1, <2>4 DEF IsInjective
    <3>6. \A x \in Range(list) : x # list[1] => x \in Range(after.waiting)
      BY <3>1, <3>2, <3>3
    <3>7. \A x \in Range(after.waiting) : x \in Range(list) /\ x # list[1]
      BY <3>1, <3>2, <3>4, <3>5
    <3> QED BY <3>6, <3>7
  <2>8. list[1] \in Range(list)
    BY <1>1, <2>4 DEF Range
  <2>9. Len(after.waiting) = IF after.count < 0 THEN -after.count ELSE 0
    BY <1>1, <1>2, <1>4, <2>2, <2>4
  <2>10. Sound(after)
    BY <2>5, <2>6, <2>9 DEF Sound
  <2> QED BY <1>1, <1>2, <1>4, <2>7, <2>8, <2>10 DEF list, after
<1> QED BY <1>1, <1>3, <1>4

-----------------------------------------------------------------------------
(* The mutex.                                                              *)

\* The processes between acquire_semaphore() and release_semaphore().
Asking ==
    {p \in Process : IF p = Driver THEN pc \in {"store", "sync", "release"}
                     ELSE at[p] \in {"take", "move"}}

\* Of those that ask for the semaphore, all wait but one.
Exclusive(semaphore, asking) ==
    /\ semaphore.count <= 1
    /\ Range(semaphore.waiting) \subseteq asking
    /\ IF semaphore.count = 1 THEN asking = {}
       ELSE \E p : asking \ Range(semaphore.waiting) = {p}

\* Where a process waits for the mutex.
WaitsAtItsCall ==
    \A p \in Range(keyboard_buffer_mutex.waiting) :
        IF p = Driver THEN pc = "store" ELSE at[p] = "take"

MutexInv ==
    /\ Sound(keyboard_buffer_mutex)
    /\ Exclusive(keyboard_buffer_mutex, Asking)
    /\ WaitsAtItsCall

LEMMA AcquiredExclusive ==
    ASSUME NEW semaphore, Sound(semaphore), NEW asking, Exclusive(semaphore, asking),
           NEW p \in Process, p \notin asking
    PROVE  /\ Sound(Acquired(semaphore, p))
           /\ Exclusive(Acquired(semaphore, p), asking \cup {p})
           /\ Range(Acquired(semaphore, p).waiting) \subseteq Range(semaphore.waiting) \cup {p}
<1> DEFINE after == Acquired(semaphore, p)
<1>1. /\ semaphore.count \in Int /\ semaphore.count <= 1
      /\ Range(semaphore.waiting) \subseteq asking
      /\ semaphore.count >= 0 => Range(semaphore.waiting) = {}
  BY SoundFacts DEF Exclusive
<1>2. /\ Sound(after) /\ after.count = semaphore.count - 1
      /\ Range(after.waiting) =
           IF semaphore.count <= 0 THEN Range(semaphore.waiting) \cup {p} ELSE {}
  BY <1>1, AcquiredSound
<1> HIDE DEF after
<1>3. after.count <= 1 /\ after.count # 1 /\ Range(after.waiting) \subseteq asking \cup {p}
  BY <1>1, <1>2
<1>4. \E h : (asking \cup {p}) \ Range(after.waiting) = {h}
  <2>1. CASE semaphore.count = 1
    <3>1. asking = {} /\ Range(after.waiting) = {}
      BY <1>2, <2>1 DEF Exclusive
    <3>2. (asking \cup {p}) \ Range(after.waiting) = {p}
      BY <3>1
    <3> QED BY <3>2
  <2>2. CASE semaphore.count # 1
    <3>1. PICK h : asking \ Range(semaphore.waiting) = {h}
      BY <2>2 DEF Exclusive
    <3>2. Range(after.waiting) = Range(semaphore.waiting) \cup {p}
      BY <1>1, <1>2, <2>2
    <3>3. (asking \cup {p}) \ Range(after.waiting) = {h}
      BY <3>1, <3>2
    <3> QED BY <3>3
  <2> QED BY <2>1, <2>2
<1> QED BY <1>1, <1>2, <1>3, <1>4 DEF Exclusive, after

LEMMA ReleasedExclusive ==
    ASSUME NEW semaphore, Sound(semaphore), NEW asking, Exclusive(semaphore, asking),
           NEW p \in asking, p \notin Range(semaphore.waiting)
    PROVE  /\ Sound(Released(semaphore))
           /\ Exclusive(Released(semaphore), asking \ {p})
           /\ Range(Released(semaphore).waiting) \subseteq Range(semaphore.waiting)
<1> DEFINE after == Released(semaphore)
<1>1. /\ semaphore.count \in Int /\ semaphore.count <= 1
      /\ Range(semaphore.waiting) \subseteq asking
      /\ semaphore.count >= 0 => Range(semaphore.waiting) = {}
      /\ semaphore.count # 1
  BY SoundFacts DEF Exclusive
<1>2. asking \ Range(semaphore.waiting) = {p}
  BY <1>1 DEF Exclusive
<1>3. /\ Sound(after) /\ after.count = semaphore.count + 1
      /\ semaphore.count >= 0 => Range(after.waiting) = {}
      /\ semaphore.count < 0 =>
           \E q \in Range(semaphore.waiting) :
               Range(after.waiting) = Range(semaphore.waiting) \ {q}
  BY ReleasedSound
<1> HIDE DEF after
<1>4. CASE semaphore.count >= 0
  <2>1. semaphore.count = 0 /\ Range(after.waiting) = {} /\ after.count = 1
    BY <1>1, <1>3, <1>4
  <2>2. asking \ {p} = {}
    BY <1>1, <1>2, <1>4
  <2> QED BY <1>1, <1>3, <2>1, <2>2 DEF Exclusive, after
<1>5. CASE semaphore.count < 0
  <2>1. PICK q \in Range(semaphore.waiting) :
          Range(after.waiting) = Range(semaphore.waiting) \ {q}
    BY <1>3, <1>5
  <2>2. after.count # 1 /\ after.count <= 1
    BY <1>1, <1>3, <1>5
  <2>3. /\ Range(after.waiting) \subseteq asking \ {p}
        /\ (asking \ {p}) \ Range(after.waiting) = {q}
        /\ Range(after.waiting) \subseteq Range(semaphore.waiting)
    BY <1>1, <1>2, <2>1
  <2>4. \E h : (asking \ {p}) \ Range(after.waiting) = {h}
    BY <2>3
  <2> QED BY <1>3, <2>2, <2>3, <2>4 DEF Exclusive, after
<1> QED BY <1>1, <1>4, <1>5

LEMMA InitMutexInv == Init => MutexInv
<1> SUFFICES ASSUME Init PROVE MutexInv
  OBVIOUS
<1>1. keyboard_buffer_mutex = [count |-> 1, waiting |-> <<>>]
  BY DEF Init, Mutex, Semaphore
<1>2. <<>> \in Seq(Process) /\ Len(<<>>) = 0 /\ IsInjective(<<>>) /\ Range(<<>>) = {}
  BY EmptySeq DEF IsInjective, Range
<1>3. keyboard_buffer_mutex \in [count : Int, waiting : Seq(Process)]
  BY <1>1, <1>2
<1>4. Sound(keyboard_buffer_mutex)
  BY <1>1, <1>2, <1>3 DEF Sound
<1>5. Asking = {}
  BY ReadersAssumption DEF Init, Asking, Process
<1> QED BY <1>1, <1>2, <1>4, <1>5 DEF MutexInv, Exclusive, WaitsAtItsCall

LEMMA NextMutexInv == Types /\ MutexInv /\ [Next]_vars => MutexInv'
<1> SUFFICES ASSUME Types, MutexInv, [Next]_vars PROVE MutexInv'
  OBVIOUS
<1> DEFINE sem == keyboard_buffer_mutex
<1>0. /\ Sound(sem) /\ Exclusive(sem, Asking) /\ Range(sem.waiting) \subseteq Asking
      /\ Driver \in Process /\ Readers \subseteq Process /\ Driver \notin Readers
  BY ReadersAssumption DEF MutexInv, Exclusive, Process
<1>1. ASSUME UNCHANGED <<sem, Asking>>, WaitsAtItsCall'
      PROVE  MutexInv'
  BY <1>1 DEF MutexInv
<1>2. CASE AcquireBuffer
  <2>1. sem' = Acquired(sem, Driver) /\ pc = "key" /\ pc' = "store" /\ at' = at
    BY <1>2 DEF AcquireBuffer
  <2>2. Driver \notin Asking /\ Asking' = Asking \cup {Driver}
    BY <2>1 DEF Asking, Process
  <2>3. /\ Sound(sem') /\ Exclusive(sem', Asking')
        /\ Range(sem'.waiting) \subseteq Range(sem.waiting) \cup {Driver}
    <3> HIDE DEF sem
    <3> QED BY <1>0, <2>1, <2>2, AcquiredExclusive
  <2>4. WaitsAtItsCall'
    BY <2>1, <2>3 DEF WaitsAtItsCall, MutexInv
  <2> QED BY <2>3, <2>4 DEF MutexInv
<1>3. CASE Store
  <2>1. /\ sem' = sem /\ at' = at /\ pc = "store" /\ pc' \in {"sync", "release"}
        /\ Driver \notin Range(sem.waiting)
    BY <1>3 DEF Store, semaphoreVars, Blocked
  <2>2. Asking' = Asking
    BY <2>1 DEF Asking
  <2>3. WaitsAtItsCall'
    BY <2>1 DEF WaitsAtItsCall, MutexInv
  <2> QED BY <1>1, <2>1, <2>2, <2>3
<1>4. CASE ReleaseSync
  <2>1. sem' = sem /\ at' = at /\ pc = "sync" /\ pc' = "release"
    BY <1>4 DEF ReleaseSync
  <2>2. Asking' = Asking /\ WaitsAtItsCall'
    BY <2>1 DEF Asking, WaitsAtItsCall, MutexInv
  <2> QED BY <1>1, <2>1, <2>2
<1>5. CASE ReleaseBuffer
  <2>1. sem' = Released(sem) /\ at' = at /\ pc = "release" /\ pc' = "wait"
    BY <1>5 DEF ReleaseBuffer
  <2>2. Driver \in Asking /\ Asking' = Asking \ {Driver} /\ Driver \notin Range(sem.waiting)
    BY <1>0, <2>1 DEF Asking, WaitsAtItsCall, MutexInv
  <2>3. /\ Sound(sem') /\ Exclusive(sem', Asking')
        /\ Range(sem'.waiting) \subseteq Range(sem.waiting)
    <3> HIDE DEF sem
    <3> QED BY <1>0, <2>1, <2>2, ReleasedExclusive
  <2>4. WaitsAtItsCall'
    BY <2>1, <2>2, <2>3 DEF WaitsAtItsCall, MutexInv
  <2> QED BY <2>3, <2>4 DEF MutexInv
<1>6. ASSUME NEW r \in Readers, LockBuffer(r)
      PROVE  MutexInv'
  <2>1. sem' = Acquired(sem, r) /\ at[r] = "sync" /\ at' = [at EXCEPT ![r] = "take"] /\ pc' = pc
    BY <1>6 DEF LockBuffer
  <2>2. r \notin Asking /\ Asking' = Asking \cup {r}
    BY <1>0, <2>1 DEF Asking, Process, Types, ReaderTypes
  <2>3. /\ Sound(sem') /\ Exclusive(sem', Asking')
        /\ Range(sem'.waiting) \subseteq Range(sem.waiting) \cup {r}
    <3> HIDE DEF sem
    <3> QED BY <1>0, <2>1, <2>2, AcquiredExclusive
  <2>4. WaitsAtItsCall'
    BY <1>0, <2>1, <2>3 DEF WaitsAtItsCall, MutexInv, Types, ReaderTypes, Asking, Process
  <2> QED BY <2>3, <2>4 DEF MutexInv
<1>7. ASSUME NEW r \in Readers, TakeChar(r)
      PROVE  MutexInv'
  <2>1. /\ sem' = sem /\ at[r] = "take" /\ at' = [at EXCEPT ![r] = "move"] /\ pc' = pc
        /\ r \notin Range(sem.waiting)
    BY <1>7 DEF TakeChar, semaphoreVars, Blocked
  <2>2. Asking' = Asking
    BY <1>0, <2>1 DEF Asking, Process, Types, ReaderTypes
  <2>3. WaitsAtItsCall'
    BY <1>0, <2>1 DEF WaitsAtItsCall, MutexInv, Types, ReaderTypes, Asking, Process
  <2> QED BY <1>1, <2>1, <2>2, <2>3
<1>8. ASSUME NEW r \in Readers, Return(r)
      PROVE  MutexInv'
  <2>1. sem' = Released(sem) /\ at[r] = "move" /\ at' = [at EXCEPT ![r] = "caller"] /\ pc' = pc
    BY <1>8 DEF Return
  <2>2. r \in Asking /\ Asking' = Asking \ {r} /\ r \notin Range(sem.waiting)
    BY <1>0, <2>1 DEF Asking, Process, WaitsAtItsCall, MutexInv, Types, ReaderTypes
  <2>3. /\ Sound(sem') /\ Exclusive(sem', Asking')
        /\ Range(sem'.waiting) \subseteq Range(sem.waiting)
    <3> HIDE DEF sem
    <3> QED BY <1>0, <2>1, <2>2, ReleasedExclusive
  <2>4. WaitsAtItsCall'
    BY <1>0, <2>1, <2>2, <2>3 DEF WaitsAtItsCall, MutexInv, Types, ReaderTypes, Asking, Process
  <2> QED BY <2>3, <2>4 DEF MutexInv
<1>9. ASSUME NEW r \in Readers, GetChar(r)
      PROVE  MutexInv'
  <2>1. sem' = sem /\ at[r] = "caller" /\ at' = [at EXCEPT ![r] = "sync"] /\ pc' = pc
    BY <1>9 DEF GetChar
  <2>2. Asking' = Asking
    BY <1>0, <2>1 DEF Asking, Process, Types, ReaderTypes
  <2>3. WaitsAtItsCall'
    BY <1>0, <2>1 DEF WaitsAtItsCall, MutexInv, Types, ReaderTypes, Asking, Process
  <2> QED BY <1>1, <2>1, <2>2, <2>3
<1>10. ASSUME UNCHANGED <<sem, at>>, {pc, pc'} \cap {"store", "sync", "release"} = {} \/ pc' = pc
      PROVE  MutexInv'
  <2>1. Asking' = Asking /\ WaitsAtItsCall'
    BY <1>10 DEF Asking, WaitsAtItsCall, MutexInv, Exclusive
  <2> QED BY <1>1, <1>10, <2>1
<1>11. CASE Register \/ ReadPort \/ SendCommand \/ kbd_ack \/ Interrupt \/ Reply \/ UNCHANGED vars
  <2>1. UNCHANGED <<sem, at>> /\ ({pc, pc'} \cap {"store", "sync", "release"} = {} \/ pc' = pc)
    BY <1>11 DEF Register, ReadPort, SendCommand, kbd_ack, Interrupt, Ends, Reply, vars,
                 semaphoreVars
  <2> QED BY <1>10, <2>1
<1>12. ASSUME NEW k \in Keys, NEW up \in BOOLEAN, Type(k, up)
      PROVE  MutexInv'
  BY <1>10, <1>12 DEF Type, semaphoreVars
<1> QED
  BY <1>2, <1>3, <1>4, <1>5, <1>6, <1>7, <1>8, <1>9, <1>11, <1>12
     DEF Next, DriverStep, ReaderStep

-----------------------------------------------------------------------------
(* The semaphore that counts the characters.                               *)

\* The readers that were let in and have not taken their character.
Admitted ==
    {r \in Readers : at[r] \in {"sync", "take"}
                     /\ r \notin Range(keyboard_buffer_sync.waiting)}

Free == IF keyboard_buffer_sync.count > 0 THEN keyboard_buffer_sync.count ELSE 0

\* Stored and not announced yet.
Unannounced == IF pc = "sync" THEN 1 ELSE 0

SyncInv ==
    /\ Sound(keyboard_buffer_sync)
    /\ \A p \in Range(keyboard_buffer_sync.waiting) : p \in Readers /\ at[p] = "sync"
    /\ Len(unread) = Free + Cardinality(Admitted) + Unannounced

LEMMA AdmittedFinite ==
    IsFiniteSet(Admitted) /\ Cardinality(Admitted) \in Nat
<1>1. Admitted \subseteq Readers
  BY DEF Admitted
<1> QED BY <1>1, ReadersAssumption, FS_Subset, FS_CardinalityType

LEMMA InitSyncInv == Init => SyncInv
<1> SUFFICES ASSUME Init PROVE SyncInv
  OBVIOUS
<1>1. keyboard_buffer_sync = [count |-> 0, waiting |-> <<>>]
  BY DEF Init, Semaphore
<1>2. <<>> \in Seq(Process) /\ Len(<<>>) = 0 /\ IsInjective(<<>>) /\ Range(<<>>) = {}
  BY EmptySeq DEF IsInjective, Range
<1>3. keyboard_buffer_sync \in [count : Int, waiting : Seq(Process)]
  BY <1>1, <1>2
<1>4. Sound(keyboard_buffer_sync)
  BY <1>1, <1>2, <1>3 DEF Sound
<1>5. Admitted = {} /\ Free = 0 /\ Unannounced = 0 /\ Len(unread) = 0
  BY <1>1 DEF Init, Admitted, Free, Unannounced
<1> QED BY <1>1, <1>2, <1>4, <1>5, FS_EmptySet DEF SyncInv

\* A character is taken, or stored, or announced, or a reader is let in for it:
\* each moves one from one term of the sum to another.
LEMMA NextSyncInv == Types /\ MutexInv /\ SyncInv /\ [Next]_vars => SyncInv'
<1> SUFFICES ASSUME Types, MutexInv, SyncInv, [Next]_vars PROVE SyncInv'
  OBVIOUS
<1> DEFINE sem == keyboard_buffer_sync
<1>0. /\ Sound(sem) /\ Readers \subseteq Process /\ unread \in Seq(Entry)
      /\ Len(unread) \in Nat /\ at \in [Readers -> {"caller", "sync", "take", "move"}]
  BY LenProperties DEF SyncInv, Process, Types, RingTypes, ReaderTypes
<1>1. ASSUME UNCHANGED <<sem, at, unread, Unannounced>>
      PROVE  SyncInv'
  BY <1>1 DEF SyncInv, Admitted, Free
<1>2. CASE Store
  <2>1. pc = "store" /\ UNCHANGED <<sem, at>>
    BY <1>2 DEF Store, semaphoreVars
  <2>2. CASE HasSpace
    <3>1. pc' = "sync" /\ \E entry : unread' = Append(unread, entry)
      BY <1>2, <2>2 DEF Store
    <3>2. Len(unread') = Len(unread) + 1
      BY <1>0, <3>1
    <3>3. Free' = Free /\ Admitted' = Admitted /\ Unannounced = 0 /\ Unannounced' = 1
      BY <2>1, <3>1 DEF Free, Admitted, Unannounced
    <3>4. Len(unread)' = Free' + Cardinality(Admitted') + Unannounced'
      BY <3>2, <3>3, AdmittedFinite, SoundFacts DEF SyncInv, Free
    <3> QED BY <2>1, <3>4 DEF SyncInv
  <2>3. CASE ~HasSpace
    BY <1>1, <1>2, <2>1, <2>3 DEF Store, Unannounced
  <2> QED BY <2>2, <2>3
<1>3. CASE ReleaseSync
  <2>1. /\ pc = "sync" /\ pc' = "release" /\ UNCHANGED <<at, unread>>
        /\ sem' = Released(sem)
    BY <1>3 DEF ReleaseSync, ringVars
  <2>2. /\ Sound(sem') /\ sem'.count = sem.count + 1 /\ sem.count \in Int
        /\ sem.count >= 0 => Range(sem'.waiting) = {} /\ Range(sem.waiting) = {}
        /\ sem.count < 0 => \E p \in Range(sem.waiting) : Range(sem'.waiting) = Range(sem.waiting) \ {p}
    <3> HIDE DEF sem
    <3> QED BY <1>0, <2>1, ReleasedSound, SoundFacts
  <2>3. \A p \in Range(sem'.waiting) : p \in Readers /\ at'[p] = "sync"
    BY <2>1, <2>2 DEF SyncInv
  <2>4. Unannounced = 1 /\ Unannounced' = 0
    BY <2>1 DEF Unannounced
  <2>5. Free' + Cardinality(Admitted') = Free + Cardinality(Admitted) + 1
    <3>1. CASE sem.count >= 0
      <4>1. Free' = Free + 1
        BY <2>2, <3>1 DEF Free
      <4>2. Admitted' = Admitted
        BY <2>1, <2>2, <3>1 DEF Admitted
      <4> QED BY <2>2, <3>1, <4>1, <4>2, AdmittedFinite DEF Free
    <3>2. CASE sem.count < 0
      <4>1. Free = 0 /\ Free' = 0
        BY <2>2, <3>2 DEF Free
      <4>2. PICK p \in Range(sem.waiting) : Range(sem'.waiting) = Range(sem.waiting) \ {p}
        BY <2>2, <3>2
      <4>3. p \notin Admitted /\ Admitted' = Admitted \cup {p}
        BY <2>1, <4>2 DEF SyncInv, Admitted
      <4>4. Cardinality(Admitted') = Cardinality(Admitted) + 1
        BY <4>3, AdmittedFinite, FS_AddElement
      <4> QED BY <4>1, <4>4, AdmittedFinite
    <3> QED BY <2>2, <3>1, <3>2
  <2>6. Free \in Nat /\ Cardinality(Admitted) \in Nat
    BY <2>2, AdmittedFinite DEF Free
  <2>7. Len(unread)' = Free' + Cardinality(Admitted') + Unannounced'
    BY <2>1, <2>4, <2>5, <2>6 DEF SyncInv
  <2> QED BY <2>2, <2>3, <2>7 DEF SyncInv
<1>4. ASSUME NEW r \in Readers, GetChar(r)
      PROVE  SyncInv'
  <2>1. /\ at[r] = "caller" /\ at' = [at EXCEPT ![r] = "sync"] /\ UNCHANGED <<pc, unread>>
        /\ sem' = Acquired(sem, r)
    BY <1>4 DEF GetChar, ringVars
  <2>2. r \notin Range(sem.waiting) /\ r \notin Admitted
    BY <2>1 DEF SyncInv, Admitted
  <2>3. /\ Sound(sem') /\ sem'.count = sem.count - 1 /\ sem.count \in Int
        /\ Range(sem'.waiting) = IF sem.count <= 0 THEN Range(sem.waiting) \cup {r} ELSE {}
        /\ sem.count >= 0 => Range(sem.waiting) = {}
    <3> HIDE DEF sem
    <3> QED BY <1>0, <2>1, <2>2, AcquiredSound, SoundFacts
  <2>4. \A p \in Range(sem'.waiting) : p \in Readers /\ at'[p] = "sync"
    BY <1>0, <2>1, <2>3 DEF SyncInv
  <2>5. Free' + Cardinality(Admitted') = Free + Cardinality(Admitted)
    <3>1. CASE sem.count <= 0
      <4>1. Free' = 0 /\ Free = 0
        BY <2>3, <3>1 DEF Free
      <4>2. Admitted' = Admitted
        BY <1>0, <2>1, <2>2, <2>3, <3>1 DEF Admitted
      <4> QED BY <4>1, <4>2
    <3>2. CASE ~(sem.count <= 0)
      <4>1. Free = Free' + 1 /\ Free' \in Nat
        BY <2>3, <3>2 DEF Free
      <4>2. Admitted' = Admitted \cup {r}
        BY <1>0, <2>1, <2>3, <3>2 DEF Admitted
      <4>3. Cardinality(Admitted') = Cardinality(Admitted) + 1
        BY <2>2, <4>2, AdmittedFinite, FS_AddElement
      <4> QED BY <4>1, <4>3, AdmittedFinite
    <3> QED BY <3>1, <3>2
  <2>6. Unannounced' = Unannounced
    BY <2>1 DEF Unannounced
  <2>7. Len(unread)' = Free' + Cardinality(Admitted') + Unannounced'
    BY <2>1, <2>5, <2>6 DEF SyncInv
  <2> QED BY <2>3, <2>4, <2>7 DEF SyncInv
<1>5. ASSUME NEW r \in Readers, LockBuffer(r)
      PROVE  SyncInv'
  <2>1. /\ at[r] = "sync" /\ at' = [at EXCEPT ![r] = "take"] /\ UNCHANGED <<pc, unread, sem>>
        /\ r \notin Range(sem.waiting)
    BY <1>5 DEF LockBuffer, ringVars, Blocked
  <2>2. Admitted' = Admitted /\ Free' = Free /\ Unannounced' = Unannounced
    BY <1>0, <2>1 DEF Admitted, Free, Unannounced
  <2>3. \A p \in Range(sem'.waiting) : p \in Readers /\ at'[p] = "sync"
    BY <1>0, <2>1 DEF SyncInv
  <2> QED BY <2>1, <2>2, <2>3 DEF SyncInv
<1>6. ASSUME NEW r \in Readers, TakeChar(r)
      PROVE  SyncInv'
  <2>1. /\ at[r] = "take" /\ at' = [at EXCEPT ![r] = "move"] /\ UNCHANGED <<pc, sem>>
        /\ r \notin Range(sem.waiting)
        /\ unread' = IF unread = <<>> THEN <<>> ELSE Tail(unread)
    BY <1>6 DEF TakeChar, semaphoreVars, Blocked
  <2>2. r \in Admitted /\ Admitted' = Admitted \ {r} /\ Free' = Free /\ Unannounced' = Unannounced
    BY <1>0, <2>1 DEF Admitted, Free, Unannounced
  <2>3. Cardinality(Admitted) = Cardinality(Admitted') + 1 /\ Cardinality(Admitted') \in Nat
    <3>1. Cardinality(Admitted') = Cardinality(Admitted) - 1
      BY <2>2, AdmittedFinite, FS_RemoveElement
    <3>2. Cardinality(Admitted) # 0
      BY <2>2, AdmittedFinite, FS_EmptySet
    <3> QED BY <3>1, <3>2, AdmittedFinite
  <2>4. Free \in Nat /\ Unannounced \in Nat
    BY <1>0, SoundFacts DEF Free, Unannounced
  <2>5. Len(unread) > 0
    BY <2>3, <2>4 DEF SyncInv
  <2>6. Len(unread') = Len(unread) - 1
    <3>1. unread # <<>>
      BY <1>0, <2>5, EmptySeq
    <3> QED BY <1>0, <2>1, <3>1, HeadTailProperties
  <2>7. Len(unread)' = Free' + Cardinality(Admitted') + Unannounced'
    BY <2>2, <2>3, <2>4, <2>6 DEF SyncInv
  <2>8. \A p \in Range(sem'.waiting) : p \in Readers /\ at'[p] = "sync"
    BY <1>0, <2>1 DEF SyncInv
  <2> QED BY <2>1, <2>7, <2>8 DEF SyncInv
<1>7. ASSUME NEW r \in Readers, Return(r)
      PROVE  SyncInv'
  <2>1. at[r] = "move" /\ at' = [at EXCEPT ![r] = "caller"] /\ UNCHANGED <<pc, unread, sem>>
    BY <1>7 DEF Return
  <2>2. Admitted' = Admitted /\ Free' = Free /\ Unannounced' = Unannounced
    BY <1>0, <2>1 DEF Admitted, Free, Unannounced
  <2>3. \A p \in Range(sem'.waiting) : p \in Readers /\ at'[p] = "sync"
    BY <1>0, <2>1 DEF SyncInv
  <2> QED BY <2>1, <2>2, <2>3 DEF SyncInv
<1>8. CASE \/ Register \/ ReadPort \/ AcquireBuffer \/ ReleaseBuffer \/ SendCommand \/ kbd_ack
           \/ Interrupt \/ Reply \/ UNCHANGED vars
  <2>1. UNCHANGED <<sem, at, unread>> /\ ({pc, pc'} \cap {"sync"} = {} \/ pc' = pc)
    BY <1>8 DEF Register, ReadPort, AcquireBuffer, ReleaseBuffer, SendCommand, kbd_ack,
                Interrupt, Ends, Reply, vars, semaphoreVars, ringVars
  <2> QED BY <1>1, <2>1 DEF Unannounced
<1>9. ASSUME NEW k \in Keys, NEW up \in BOOLEAN, Type(k, up)
      PROVE  SyncInv'
  BY <1>1, <1>9 DEF Type, semaphoreVars, ringVars, Unannounced
<1> QED
  BY <1>2, <1>3, <1>4, <1>5, <1>6, <1>7, <1>8, <1>9 DEF Next, DriverStep, ReaderStep

\* keyboard_buffer_sync lets in one reader for each character in the buffer, in
\* every interleaving of the driver with any number of readers.
THEOREM SemaphoreCountsCharacters == Spec => []SyncCounts
<1>1. SyncInv => SyncCounts
  BY DEF SyncInv, SyncCounts, Admitted, Free, Unannounced
<1> QED BY <1>1, InitTypes, NextTypes, InitMutexInv, NextMutexInv, InitSyncInv, NextSyncInv,
           PTL DEF Spec

-----------------------------------------------------------------------------
(***************************************************************************)
(* The ring buffer: what it holds is what was stored and not read, and     *)
(* what was stored is what was meant.                                      *)
(***************************************************************************)

-----------------------------------------------------------------------------
(* The characters on their way.                                            *)

CharsIn(bytes) == {i \in DOMAIN bytes : IsChar(bytes[i])}

One(byte) == IF IsChar(byte) THEN 1 ELSE 0

InDriver == IF pc \in {"key", "store"} THEN 1 ELSE 0

LEMMA CharsInFinite ==
    ASSUME NEW bytes \in Seq(Byte)
    PROVE  IsFiniteSet(CharsIn(bytes)) /\ Cardinality(CharsIn(bytes)) \in Nat
<1>1. CharsIn(bytes) \subseteq 1..Len(bytes) /\ Len(bytes) \in Nat
  BY LenProperties DEF CharsIn
<1>2. IsFiniteSet(1..Len(bytes))
  BY <1>1, FS_Interval
<1> QED BY <1>1, <1>2, FS_Subset, FS_CardinalityType

LEMMA CharsInAppend ==
    ASSUME NEW bytes \in Seq(Byte), NEW byte \in Byte
    PROVE  Cardinality(CharsIn(Append(bytes, byte))) = Cardinality(CharsIn(bytes)) + One(byte)
<1> DEFINE n == Len(bytes)
           after == Append(bytes, byte)
<1>1. /\ n \in Nat /\ DOMAIN bytes = 1..n
      /\ after \in Seq(Byte) /\ Len(after) = n + 1 /\ after[n + 1] = byte
      /\ \A i \in 1..n : after[i] = bytes[i]
  BY AppendProperties, LenProperties
<1>2. DOMAIN after = 1..(n + 1)
  BY <1>1, LenProperties
<1> HIDE DEF n, after
<1>3. n + 1 \notin CharsIn(bytes)
  BY <1>1 DEF CharsIn
<1>4. CharsIn(after) = IF IsChar(byte) THEN CharsIn(bytes) \cup {n + 1} ELSE CharsIn(bytes)
  <2>1. 1..(n + 1) = (1..n) \cup {n + 1}
    BY <1>1
  <2>2. \A i \in 1..n : i \in CharsIn(after) <=> i \in CharsIn(bytes)
    BY <1>1, <1>2, <2>1 DEF CharsIn
  <2>3. n + 1 \in CharsIn(after) <=> IsChar(byte)
    BY <1>1, <1>2, <2>1 DEF CharsIn
  <2>4. CharsIn(after) \subseteq (1..n) \cup {n + 1} /\ CharsIn(bytes) \subseteq 1..n
    BY <1>1, <1>2, <2>1 DEF CharsIn
  <2>5. CASE IsChar(byte)
    <3>1. CharsIn(after) = CharsIn(bytes) \cup {n + 1}
      BY <2>2, <2>3, <2>4, <2>5
    <3> QED BY <2>5, <3>1
  <2>6. CASE ~IsChar(byte)
    <3>1. CharsIn(after) = CharsIn(bytes)
      BY <2>2, <2>3, <2>4, <2>6
    <3> QED BY <2>6, <3>1
  <2> QED BY <2>5, <2>6
<1>5. CASE IsChar(byte)
  <2>1. Cardinality(CharsIn(bytes) \cup {n + 1}) = Cardinality(CharsIn(bytes)) + 1
    BY <1>3, CharsInFinite, FS_AddElement
  <2> QED BY <1>4, <1>5, <2>1 DEF One, after
<1>6. CASE ~IsChar(byte)
  BY <1>4, <1>6, CharsInFinite DEF One, after
<1> QED BY <1>5, <1>6

LEMMA CharsInTail ==
    ASSUME NEW bytes \in Seq(Byte), bytes # <<>>
    PROVE  Cardinality(CharsIn(bytes)) = Cardinality(CharsIn(Tail(bytes))) + One(Head(bytes))
<1> DEFINE n == Len(bytes)
           after == Tail(bytes)
           rest == CharsIn(bytes) \ {1}
<1>1. /\ n \in Nat \ {0} /\ DOMAIN bytes = 1..n /\ Head(bytes) = bytes[1]
      /\ after \in Seq(Byte) /\ Len(after) = n - 1
      /\ \A i \in 1..(n - 1) : after[i] = bytes[i + 1]
  BY HeadTailProperties, LenProperties, EmptySeq
<1>2. DOMAIN after = 1..(n - 1)
  BY <1>1, LenProperties
<1> HIDE DEF n, after
<1>3. Cardinality(rest) = Cardinality(CharsIn(after))
  <2> DEFINE f == [i \in CharsIn(after) |-> i + 1]
  <2>1. \A i \in CharsIn(after) : i \in 1..(n - 1) /\ i + 1 \in rest
    BY <1>1, <1>2 DEF CharsIn
  <2>2. \A i \in rest : i - 1 \in CharsIn(after) /\ (i - 1) + 1 = i
    BY <1>1, <1>2 DEF CharsIn
  <2>3. f \in Bijection(CharsIn(after), rest)
    <3>1. f \in [CharsIn(after) -> rest]
      BY <2>1
    <3>2. \A i, j \in CharsIn(after) : f[i] = f[j] => i = j
      BY <2>1
    <3>3. \A i \in rest : \E j \in CharsIn(after) : f[j] = i
      BY <2>2
    <3> HIDE DEF f, rest
    <3> QED BY <3>1, <3>2, <3>3 DEF Bijection, Injection, Surjection, IsInjective
  <2>4. ExistsBijection(CharsIn(after), rest)
    BY <2>3 DEF ExistsBijection
  <2> HIDE DEF rest
  <2> QED BY <1>1, <2>4, CharsInFinite, FS_Bijection
<1>4. 1 \in CharsIn(bytes) <=> IsChar(Head(bytes))
  BY <1>1 DEF CharsIn
<1>5. Cardinality(rest) = Cardinality(CharsIn(bytes)) - One(Head(bytes))
  <2>1. Cardinality(rest) = IF 1 \in CharsIn(bytes) THEN Cardinality(CharsIn(bytes)) - 1
                            ELSE Cardinality(CharsIn(bytes))
    BY CharsInFinite, FS_RemoveElement
  <2> HIDE DEF rest
  <2>2. CASE IsChar(Head(bytes))
    BY <1>4, <2>1, <2>2 DEF One
  <2>3. CASE ~IsChar(Head(bytes))
    BY <1>4, <2>1, <2>3, CharsInFinite DEF One
  <2> QED BY <2>2, <2>3
<1> QED BY <1>1, <1>3, <1>5, CharsInFinite DEF after, One

\* The acknowledgement that goes in behind the first byte brings no character.
LEMMA CharsInBehind ==
    ASSUME NEW bytes \in Seq(Byte), bytes # <<>>
    PROVE  Cardinality(CharsIn(<<Head(bytes), Ack>> \o Tail(bytes))) = Cardinality(CharsIn(bytes))
<1> DEFINE first == Head(bytes)
           rest == Tail(bytes)
           after == <<first, Ack>> \o rest
           middle == <<Ack>> \o rest
<1>1. first \in Byte /\ rest \in Seq(Byte) /\ Ack \in Byte /\ ~IsChar(Ack)
  BY HeadTailProperties, AckIsByte
<1>2. Cardinality(CharsIn(bytes)) = Cardinality(CharsIn(rest)) + One(first)
  BY CharsInTail
<1> HIDE DEF first, rest
<1>3. middle \in Seq(Byte) /\ middle # <<>> /\ Head(middle) = Ack /\ Tail(middle) = rest
  BY <1>1
<1>4. after \in Seq(Byte) /\ after # <<>> /\ Head(after) = first /\ Tail(after) = middle
  BY <1>1
<1> HIDE DEF middle, after
<1>5. Cardinality(CharsIn(middle)) = Cardinality(CharsIn(rest)) + One(Ack)
  BY <1>3, CharsInTail
<1>6. Cardinality(CharsIn(after)) = Cardinality(CharsIn(middle)) + One(first)
  BY <1>4, CharsInTail
<1>7. One(Ack) = 0 /\ Cardinality(CharsIn(rest)) \in Nat
  BY <1>1, CharsInFinite DEF One
<1> QED BY <1>2, <1>5, <1>6, <1>7 DEF after, first, rest

-----------------------------------------------------------------------------
(* The user types no more characters than the ring has room for.           *)

CountInv == Len(unread) + Coming <= TypeAhead

LEMMA ComingSum ==
    ASSUME Types
    PROVE  /\ Coming = Cardinality(CharsIn(port)) + InDriver
           /\ Coming \in Nat /\ Len(unread) \in Nat /\ InDriver \in Nat
           /\ Cardinality(CharsIn(port)) \in Nat
<1>1. Coming = Cardinality(CharsIn(port)) + InDriver
  BY DEF Coming, CharsIn, InDriver
<1>2. port \in Seq(Byte) /\ unread \in Seq(Entry)
  BY DEF Types, DeviceTypes, RingTypes
<1>3. Cardinality(CharsIn(port)) \in Nat
  BY <1>2, CharsInFinite
<1>4. InDriver \in Nat
  BY DEF InDriver
<1> QED BY <1>1, <1>2, <1>3, <1>4, LenProperties

LEMMA InitCountInv == Init => CountInv
<1> SUFFICES ASSUME Init PROVE CountInv
  OBVIOUS
<1>1. CharsIn(port) = {} /\ InDriver = 0 /\ Len(unread) = 0
  BY DEF Init, CharsIn, InDriver
<1>2. Coming = 0
  BY <1>1, FS_EmptySet DEF Coming, CharsIn, InDriver
<1> QED BY <1>1, <1>2, KeyboardAssumption DEF CountInv

LEMMA NextCountInv == Types /\ CountInv /\ [Next]_vars => CountInv'
<1> SUFFICES ASSUME Types, CountInv, [Next]_vars PROVE CountInv'
  OBVIOUS
<1> DEFINE count == Cardinality(CharsIn(port))
<1>0. /\ Types' /\ port \in Seq(Byte) /\ unread \in Seq(Entry) /\ TypeAhead \in Nat
      /\ Coming = count + InDriver /\ Coming' = count' + InDriver'
      /\ count \in Nat /\ InDriver \in Nat /\ count' \in Nat /\ InDriver' \in Nat
      /\ Len(unread) \in Nat /\ Len(unread') \in Nat
      /\ Len(unread) + Coming <= TypeAhead
  <2>1. Types' /\ port \in Seq(Byte) /\ unread \in Seq(Entry) /\ TypeAhead \in Nat
    BY NextTypes, KeyboardAssumption DEF Types, DeviceTypes, RingTypes
  <2>2. port' \in Seq(Byte) /\ unread' \in Seq(Entry)
    BY <2>1 DEF Types, DeviceTypes, RingTypes
  <2>3. count' = Cardinality(CharsIn(port')) /\ count' \in Nat
    BY <2>2, CharsInFinite DEF CharsIn, IsChar
  <2>4. Coming' = count' + InDriver' /\ InDriver' \in Nat
    BY DEF Coming, CharsIn, InDriver, IsChar
  <2>5. Len(unread') \in Nat
    BY <2>2, LenProperties
  <2> QED BY <2>1, <2>3, <2>4, <2>5, ComingSum DEF CountInv
<1> HIDE DEF count
<1>1. ASSUME count' <= count, InDriver' <= InDriver, Len(unread') <= Len(unread)
      PROVE  CountInv'
  <2>1. Len(unread') + Coming' <= TypeAhead
    <3> DEFINE left == Len(unread)
               left1 == Len(unread')
    <3> HIDE DEF left, left1
    <3> QED BY <1>0, <1>1 DEF left, left1
  <2> QED BY <2>1 DEF CountInv
<1>2. ASSUME port' = port, pc' = pc \/ pc' \notin {"key", "store"}, Len(unread') <= Len(unread)
      PROVE  CountInv'
  <2>1. count' = count
    BY <1>2 DEF count, CharsIn, IsChar
  <2>2. InDriver' <= InDriver
    BY <1>2 DEF InDriver
  <2> QED BY <1>0, <1>1, <1>2, <2>1, <2>2
<1>3. CASE ReadPort
  <2>1. port # <<>> /\ port' = Tail(port) /\ unread' = unread /\ pc = "read"
    BY <1>3 DEF ReadPort, InPort, ringVars
  <2>2. count = count' + One(Head(port))
    <3>1. Cardinality(CharsIn(port)) = Cardinality(CharsIn(Tail(port))) + One(Head(port))
      BY <1>0, <2>1, CharsInTail
    <3>2. CharsIn(port)' = CharsIn(Tail(port))
      BY <2>1 DEF CharsIn, IsChar
    <3> QED BY <3>1, <3>2 DEF count
  <2>3. InDriver = 0 /\ InDriver' = One(Head(port))
    BY <1>3, <2>1 DEF ReadPort, InDriver, One
  <2> QED BY <1>0, <2>1, <2>2, <2>3 DEF CountInv
<1>4. CASE kbd_ack
  <2>1. port # <<>> /\ port' = Tail(port) /\ unread' = unread /\ pc' \notin {"key", "store"}
    BY <1>4 DEF kbd_ack, InPort, ringVars
  <2>2. count = count' + One(Head(port)) /\ One(Head(port)) \in Nat
    <3>1. Cardinality(CharsIn(port)) = Cardinality(CharsIn(Tail(port))) + One(Head(port))
      BY <1>0, <2>1, CharsInTail
    <3>2. CharsIn(port)' = CharsIn(Tail(port))
      BY <2>1 DEF CharsIn, IsChar
    <3> QED BY <3>1, <3>2 DEF count, One
  <2>3. InDriver' = 0
    BY <2>1 DEF InDriver
  <2>4. count' <= count /\ InDriver' <= InDriver
    BY <1>0, <2>2, <2>3
  <2>5. Len(unread') <= Len(unread)
    BY <1>0, <2>1
  <2> QED BY <1>1, <2>4, <2>5
<1>5. CASE AcquireBuffer
  <2>1. port' = port /\ unread' = unread /\ InDriver' = InDriver
    BY <1>5 DEF AcquireBuffer, deviceVars, ringVars, InDriver
  <2>2. count' = count
    BY <2>1 DEF count, CharsIn, IsChar
  <2> QED BY <1>0, <1>1, <2>1, <2>2
<1>6. CASE Store
  <2>1. port' = port /\ InDriver = 1 /\ InDriver' = 0
    BY <1>6 DEF Store, deviceVars, InDriver
  <2>2. count' = count
    BY <2>1 DEF count, CharsIn, IsChar
  <2>3. Len(unread') <= Len(unread) + 1
    <3>1. CASE HasSpace
      <4>1. \E entry : unread' = Append(unread, entry)
        BY <1>6, <3>1 DEF Store
      <4> QED BY <1>0, <4>1
    <3>2. CASE ~HasSpace
      BY <1>0, <1>6, <3>2 DEF Store
    <3> QED BY <3>1, <3>2
  <2> QED BY <1>0, <2>1, <2>2, <2>3 DEF CountInv
<1>7. CASE Register \/ ReleaseSync \/ ReleaseBuffer \/ SendCommand \/ Interrupt \/ UNCHANGED vars
  <2>1. /\ port' = port /\ unread' = unread
        /\ pc' = pc \/ pc' \notin {"key", "store"}
    BY <1>7 DEF Register, ReleaseSync, ReleaseBuffer, SendCommand, Interrupt, deviceVars,
                ringVars, vars
  <2> QED BY <1>0, <1>2, <2>1
<1>8. CASE Reply
  <2>1. pc' = pc /\ unread' = unread
    BY <1>8 DEF Reply, ringVars
  <2>2. count' = count
    <3>1. CharsIn(port)' = CharsIn(port')
      BY DEF CharsIn, IsChar
    <3>2. Cardinality(CharsIn(Append(port, Ack))) = count
      <4>1. One(Ack) = 0 /\ Ack \in Byte
        BY AckIsByte DEF One
      <4> QED BY <1>0, <4>1, CharsInAppend, CharsInFinite DEF count
    <3>3. port = <<>> => <<Ack>> = Append(port, Ack)
      OBVIOUS
    <3>4. port # <<>> => Cardinality(CharsIn(<<Head(port), Ack>> \o Tail(port))) = count
      BY <1>0, CharsInBehind DEF count
    <3> QED BY <1>8, <3>1, <3>2, <3>3, <3>4 DEF Reply, count
  <2> QED BY <1>0, <1>1, <2>1, <2>2 DEF InDriver
<1>9. ASSUME NEW r \in Readers, GetChar(r) \/ ReaderStep(r)
      PROVE  CountInv'
  <2>1. port' = port /\ pc' = pc
    BY <1>9 DEF GetChar, ReaderStep, LockBuffer, TakeChar, Return, deviceVars
  <2>2. unread' = unread \/ (unread # <<>> /\ unread' = Tail(unread))
    BY <1>9 DEF GetChar, ReaderStep, LockBuffer, TakeChar, Return, ringVars
  <2>3. Len(unread') <= Len(unread)
    BY <1>0, <2>2, HeadTailProperties
  <2> QED BY <1>2, <2>1, <2>3
<1>10. ASSUME NEW k \in Keys, NEW up \in BOOLEAN, Type(k, up)
       PROVE  CountInv'
  <2> DEFINE byte == [key |-> k, up |-> up, meant |-> lock \/ down \cap ShiftKeys # {}]
  <2>1. byte \in Byte /\ port' = Append(port, byte) /\ unread' = unread /\ pc' = pc
    BY <1>10 DEF Type, Types, DeviceTypes, Byte, ringVars
  <2>2. IsChar(byte) => Len(unread) + Coming < TypeAhead
    BY <1>10 DEF Type, IsChar
  <2> HIDE DEF byte
  <2>3. count' = count + One(byte)
    <3>1. CharsIn(port)' = CharsIn(port')
      BY DEF CharsIn, IsChar
    <3> QED BY <1>0, <2>1, <3>1, CharsInAppend DEF count
  <2>4. InDriver' = InDriver
    BY <2>1 DEF InDriver
  <2>5. Coming' = Coming + One(byte) /\ One(byte) \in Nat
    BY <1>0, <2>3, <2>4 DEF One
  <2>6. (One(byte) = 1 /\ Len(unread) + Coming < TypeAhead) \/ One(byte) = 0
    <3>1. CASE IsChar(byte)
      BY <2>2, <3>1 DEF One
    <3>2. CASE ~IsChar(byte)
      BY <3>2 DEF One
    <3> QED BY <3>1, <3>2
  <2>7. Len(unread') + Coming' <= TypeAhead
    <3>1. Len(unread') = Len(unread)
      BY <2>1
    <3>2. Len(unread) + Coming + One(byte) <= TypeAhead
      BY <1>0, <2>6
    <3>3. Coming \in Nat /\ Len(unread) \in Nat /\ One(byte) \in Nat /\ TypeAhead \in Nat
      BY <1>0, <2>5
    <3>4. Coming' = Coming + One(byte)
      BY <2>5
    <3> QED BY <3>1, <3>2, <3>3, <3>4
  <2> QED BY <2>7 DEF CountInv
<1> QED
  BY <1>3, <1>4, <1>5, <1>6, <1>7, <1>8, <1>9, <1>10 DEF Next, DriverStep

-----------------------------------------------------------------------------
(* The ring.                                                               *)

\* The n-th position after one that is read.
Cell(from, n) == (from + n) % MAX_BUFFER_LEN

RingInv ==
    /\ next_writing_pos = Cell(ReadingFrom, Len(unread))
    /\ \A i \in DOMAIN unread : buffer[Cell(ReadingFrom, i - 1)] = unread[i].char

LEMMA CellFacts ==
    ASSUME NEW from \in Position
    PROVE  /\ Cell(from, 0) = from
           /\ \A n \in 0..MAX_BUFFER_LEN : Cell(from, n) \in Position
           /\ \A n \in 0..(MAX_BUFFER_LEN - 1) :
                /\ Following(Cell(from, n)) = Cell(from, n + 1)
                /\ Cell(Following(from), n) = Cell(from, n + 1)
           /\ \A m, n \in 0..(MAX_BUFFER_LEN - 1) : Cell(from, m) = Cell(from, n) => m = n
<1> DEFINE N == MAX_BUFFER_LEN
<1>1. N \in Nat \ {0} /\ from \in 0..(N - 1)
  BY KeyboardAssumption DEF Position
<1>2. \A n \in 0..N : Cell(from, n) = IF from + n < N THEN from + n ELSE from + n - N
  <2> SUFFICES ASSUME NEW n \in 0..N
               PROVE  Cell(from, n) = IF from + n < N THEN from + n ELSE from + n - N
    OBVIOUS
  <2> DEFINE k == from + n
  <2>1. k \in 0..(2 * MAX_BUFFER_LEN - 1)
    BY <1>1
  <2> HIDE DEF k
  <2>2. k % MAX_BUFFER_LEN = IF k < MAX_BUFFER_LEN THEN k ELSE k - MAX_BUFFER_LEN
    BY <2>1, ModOnce
  <2>3. Cell(from, n) = k % MAX_BUFFER_LEN
    BY DEF k, Cell
  <2>4. Cell(from, n) = IF k < MAX_BUFFER_LEN THEN k ELSE k - MAX_BUFFER_LEN
    BY <2>2, <2>3
  <2> QED BY <1>1, <2>4 DEF k
<1>3. \A n \in 0..(N - 1) : Following(n) = IF n + 1 < N THEN n + 1 ELSE 0
  <2> SUFFICES ASSUME NEW n \in 0..(N - 1)
               PROVE  Following(n) = IF n + 1 < N THEN n + 1 ELSE 0
    OBVIOUS
  <2> DEFINE k == n + 1
  <2>1. k \in 0..(2 * MAX_BUFFER_LEN - 1)
    BY <1>1
  <2> HIDE DEF k
  <2>2. k % MAX_BUFFER_LEN = IF k < MAX_BUFFER_LEN THEN k ELSE k - MAX_BUFFER_LEN
    BY <2>1, ModOnce
  <2>3. Following(n) = k % MAX_BUFFER_LEN
    BY DEF k, Following
  <2>4. CASE n + 1 < N
    BY <1>1, <2>2, <2>3, <2>4 DEF k
  <2>5. CASE ~(n + 1 < N)
    <3>1. n + 1 = N
      BY <1>1, <2>5
    <3> QED BY <1>1, <2>2, <2>3, <2>5, <3>1 DEF k
  <2> QED BY <2>4, <2>5
<1>4. \A n \in 0..(N - 1) : Cell(Following(from), n) = Cell(from, n + 1)
  <2> SUFFICES ASSUME NEW n \in 0..(N - 1)
               PROVE  Cell(Following(from), n) = Cell(from, n + 1)
    OBVIOUS
  <2>1. CASE from + 1 < N
    <3>1. Following(from) = from + 1
      BY <1>1, <1>3, <2>1
    <3>2. (from + 1) + n = from + (n + 1)
      BY <1>1
    <3> QED BY <3>1, <3>2 DEF Cell
  <2>2. CASE ~(from + 1 < N)
    <3>1. Following(from) = 0 /\ from = N - 1
      BY <1>1, <1>3, <2>2
    <3>2. Cell(from, n + 1) = n
      BY <1>1, <1>2, <3>1
    <3>3. 0 + n = n /\ n \in 0..(2 * N - 1) /\ n < N
      BY <1>1
    <3>4. Cell(0, n) = n
      BY <3>3, ModOnce DEF Cell
    <3> QED BY <3>1, <3>2, <3>4
  <2> QED BY <2>1, <2>2
<1>5. \A n \in 0..N : Cell(from, n) \in 0..(N - 1)
  BY <1>1, <1>2
<1>6. \A n \in 0..(N - 1) : Following(Cell(from, n)) = Cell(from, n + 1)
  <2> SUFFICES ASSUME NEW n \in 0..(N - 1)
               PROVE  Following(Cell(from, n)) = Cell(from, n + 1)
    OBVIOUS
  <2>1. n \in 0..N /\ n + 1 \in 0..N
    BY <1>1
  <2>2. Cell(from, n) \in 0..(N - 1)
    BY <1>5, <2>1
  <2> QED BY <1>1, <1>2, <1>3, <2>1, <2>2
<1>7. Cell(from, 0) = from
  BY <1>1, <1>2
<1>8. \A m, n \in 0..(N - 1) : Cell(from, m) = Cell(from, n) => m = n
  BY <1>1, <1>2
<1> QED BY <1>4, <1>5, <1>6, <1>7, <1>8 DEF Position

LEMMA ReadingFromType ==
    ASSUME Types
    PROVE  ReadingFrom \in Position
BY FollowingType DEF ReadingFrom, Types, RingTypes

\* Whoever is inside the ring is there alone.
LEMMA Alone ==
    ASSUME Types, MutexInv,
           NEW p \in Asking, p \notin Range(keyboard_buffer_mutex.waiting)
    PROVE  /\ \A q \in Asking : q # p => q \in Range(keyboard_buffer_mutex.waiting)
           /\ \A r \in Readers : at[r] = "move" => r = p
<1> DEFINE waiting == Range(keyboard_buffer_mutex.waiting)
<1>1. Asking \ waiting = {p}
  BY DEF MutexInv, Exclusive
<1>2. \A q \in Asking : q # p => q \in waiting
  BY <1>1
<1>3. \A r \in Readers : at[r] = "move" => r \in Asking /\ r \notin waiting
  BY ReadersAssumption DEF Asking, Process, MutexInv, WaitsAtItsCall
<1> QED BY <1>1, <1>2, <1>3

LEMMA InitRingInv == Init => RingInv
<1> SUFFICES ASSUME Init PROVE RingInv
  OBVIOUS
<1>1. Len(unread) = 0 /\ DOMAIN unread = {} /\ next_writing_pos = 0 /\ ReadingFrom = 0
  BY DEF Init, ReadingFrom
<1>2. 0 \in Position
  BY KeyboardAssumption DEF Position
<1> QED BY <1>1, <1>2, CellFacts DEF RingInv

\* A character goes in behind the last one that nobody has read.
LEMMA StoreRingInv ==
    ASSUME Types, RingInv, CountInv, TypeAhead <= MAX_BUFFER_LEN, Store
    PROVE  RingInv'
<1> DEFINE from == ReadingFrom
           n == Len(unread)
           char == [key |-> scancode.key, caps |-> shift_is_pressed]
           entry == [char |-> char, meant |-> scancode.meant]
<1>1. /\ from \in Position /\ unread \in Seq(Entry) /\ n \in Nat /\ DOMAIN unread = 1..n
      /\ buffer \in [Position -> Char] /\ MAX_BUFFER_LEN \in Nat
  BY ReadingFromType, LenProperties, KeyboardAssumption DEF Types, RingTypes
<1>2. ReadingFrom' = from
  BY DEF Store, ReadingFrom, Following
<1>3. CASE ~HasSpace
  <2>1. UNCHANGED <<buffer, next_writing_pos, unread>>
    BY <1>3 DEF Store
  <2> HIDE DEF from, n
  <2> QED BY <1>2, <2>1 DEF RingInv, Cell, from
<1>4. CASE HasSpace
  <2>1. /\ buffer' = [buffer EXCEPT ![next_writing_pos] = char]
        /\ next_writing_pos' = Following(next_writing_pos)
        /\ unread' = Append(unread, entry)
    BY <1>4 DEF Store
  <2>2. n < MAX_BUFFER_LEN
    <3>1. InDriver = 1
      BY DEF Store, InDriver
    <3> QED BY <3>1, ComingSum, KeyboardAssumption DEF CountInv
  <2>3. /\ next_writing_pos = Cell(from, n)
        /\ \A i \in 1..n : buffer[Cell(from, i - 1)] = unread[i].char
    BY <1>1 DEF RingInv
  <2>4. entry.char = char
    OBVIOUS
  <2> HIDE DEF from, n, char, entry
  <2>5. /\ Len(unread') = n + 1 /\ DOMAIN unread' = 1..(n + 1) /\ unread'[n + 1] = entry
        /\ \A i \in 1..n : unread'[i] = unread[i]
    BY <1>1, <2>1 DEF n
  <2>6. n \in 0..(MAX_BUFFER_LEN - 1) /\ \A i \in 1..n : i - 1 \in 0..(MAX_BUFFER_LEN - 1) /\ i - 1 # n
    BY <1>1, <2>2
  <2>7. next_writing_pos' = Cell(from, n + 1)
    BY <1>1, <2>1, <2>3, <2>6, CellFacts
  <2>8. Cell(from, n) \in Position /\ \A i \in 1..n : Cell(from, i - 1) # Cell(from, n)
    <3>1. n \in 0..MAX_BUFFER_LEN
      BY <1>1, <2>6
    <3> QED BY <1>1, <2>6, <3>1, CellFacts
  <2>9. ASSUME NEW i \in 1..(n + 1)
        PROVE  buffer'[Cell(from, i - 1)] = unread'[i].char
    <3>1. CASE i = n + 1
      <4>1. i - 1 = n
        BY <1>1, <3>1
      <4>2. buffer'[Cell(from, n)] = char
        BY <1>1, <2>1, <2>3, <2>8
      <4> QED BY <2>4, <2>5, <3>1, <4>1, <4>2
    <3>2. CASE i # n + 1
      <4>1. i \in 1..n
        BY <1>1, <3>2
      <4>2. buffer'[Cell(from, i - 1)] = buffer[Cell(from, i - 1)]
        <5>1. i - 1 \in 0..MAX_BUFFER_LEN
          BY <1>1, <2>2, <4>1
        <5>2. Cell(from, i - 1) \in Position
          BY <1>1, <5>1, CellFacts
        <5> QED BY <1>1, <2>1, <2>3, <2>8, <4>1, <5>2
      <4> QED BY <2>3, <2>5, <4>1, <4>2
    <3> QED BY <3>1, <3>2
  <2>10. (ReadingFrom' = from) /\ Cell(ReadingFrom, Len(unread))' = Cell(from, n + 1)
    BY <1>2, <2>5 DEF Cell
  <2>11. next_writing_pos' = Cell(ReadingFrom, Len(unread))'
    BY <2>7, <2>10
  <2> QED BY <1>2, <2>5, <2>9, <2>11 DEF RingInv, Cell
<1> QED BY <1>3, <1>4

\* The oldest character is taken, and the next position is the first one.
LEMMA TakeRingInv ==
    ASSUME Types, MutexInv, SyncInv, RingInv, CountInv, TypeAhead <= MAX_BUFFER_LEN,
           NEW r \in Readers, TakeChar(r)
    PROVE  RingInv'
<1> DEFINE from == next_reading_pos
           n == Len(unread)
<1>1. /\ from \in Position /\ unread \in Seq(Entry) /\ n \in Nat /\ DOMAIN unread = 1..n
      /\ at \in [Readers -> {"caller", "sync", "take", "move"}] /\ MAX_BUFFER_LEN \in Nat
  BY LenProperties, KeyboardAssumption DEF Types, RingTypes, ReaderTypes
<1>2. /\ at[r] = "take" /\ at' = [at EXCEPT ![r] = "move"]
      /\ UNCHANGED <<buffer, next_reading_pos, next_writing_pos>>
      /\ r \notin Range(keyboard_buffer_mutex.waiting)
      /\ r \notin Range(keyboard_buffer_sync.waiting)
      /\ unread' = IF unread = <<>> THEN <<>> ELSE Tail(unread)
  BY DEF TakeChar, Blocked
<1>3. r \in Asking
  BY <1>2, ReadersAssumption DEF Asking, Process
<1>4. \A q \in Readers : at[q] # "move"
  BY <1>2, <1>3, Alone
<1>5. ReadingFrom = from /\ ReadingFrom' = Following(from)
  BY <1>1, <1>2, <1>4 DEF ReadingFrom, Following
<1>6. n > 0
  <2>1. r \in Admitted
    BY <1>2 DEF Admitted
  <2>2. Cardinality(Admitted) # 0 /\ Cardinality(Admitted) \in Nat
    BY <2>1, AdmittedFinite, FS_EmptySet
  <2>3. Free \in Nat /\ Unannounced \in Nat
    <3>1. keyboard_buffer_sync.count \in Int
      BY SoundFacts DEF SyncInv
    <3> QED BY <3>1 DEF Free, Unannounced
  <2> QED BY <1>1, <2>2, <2>3 DEF SyncInv
<1>7. n <= MAX_BUFFER_LEN
  BY ComingSum, KeyboardAssumption DEF CountInv
<1>8. /\ next_writing_pos = Cell(from, n)
      /\ \A i \in 1..n : buffer[Cell(from, i - 1)] = unread[i].char
  BY <1>1, <1>5 DEF RingInv
<1> HIDE DEF from, n
<1>9. /\ Len(unread') = n - 1 /\ DOMAIN unread' = 1..(n - 1)
      /\ \A i \in 1..(n - 1) : unread'[i] = unread[i + 1]
  <2>1. unread # <<>>
    BY <1>1, <1>6, EmptySeq DEF n
  <2>2. unread' = Tail(unread)
    BY <1>2, <2>1
  <2>3. unread' \in Seq(Entry) /\ Len(unread') = n - 1 /\ \A i \in 1..(n - 1) : unread'[i] = unread[i + 1]
    BY <1>1, <2>1, <2>2, HeadTailProperties DEF n
  <2> QED BY <2>3, LenProperties
<1>10. n - 1 \in 0..(MAX_BUFFER_LEN - 1) /\ (n - 1) + 1 = n
  BY <1>1, <1>6, <1>7
<1>11. next_writing_pos' = Cell(Following(from), n - 1)
  BY <1>1, <1>2, <1>8, <1>10, CellFacts
<1>12. ASSUME NEW i \in 1..(n - 1)
       PROVE  buffer'[Cell(Following(from), i - 1)] = unread'[i].char
  <2>1. i - 1 \in 0..(MAX_BUFFER_LEN - 1) /\ (i - 1) + 1 = i /\ i + 1 \in 1..n /\ (i + 1) - 1 = i
    BY <1>1, <1>7
  <2>2. Cell(Following(from), i - 1) = Cell(from, i)
    BY <1>1, <2>1, CellFacts
  <2>3. buffer[Cell(from, i)] = unread[i + 1].char
    BY <1>8, <2>1
  <2> QED BY <1>2, <1>9, <2>2, <2>3
<1>13. Cell(ReadingFrom, Len(unread))' = Cell(Following(from), n - 1)
  BY <1>5, <1>9 DEF Cell
<1>14. next_writing_pos' = Cell(ReadingFrom, Len(unread))'
  BY <1>11, <1>13
<1>15. \A i \in DOMAIN unread' : buffer'[Cell(ReadingFrom', i - 1)] = unread'[i].char
  BY <1>5, <1>9, <1>12
<1> QED BY <1>14, <1>15 DEF RingInv, Cell

LEMMA NextRingInv ==
    ASSUME Types, MutexInv, SyncInv, CountInv, RingInv, TypeAhead <= MAX_BUFFER_LEN, [Next]_vars
    PROVE  RingInv'
<1>1. ASSUME UNCHANGED <<buffer, next_writing_pos, unread>>, ReadingFrom' = ReadingFrom
      PROVE  RingInv'
  BY <1>1 DEF RingInv, Cell
<1>2. ASSUME UNCHANGED <<buffer, next_reading_pos, next_writing_pos, unread, at>>
      PROVE  RingInv'
  <2>1. ReadingFrom' = ReadingFrom
    BY <1>2 DEF ReadingFrom, Following
  <2> QED BY <1>1, <1>2, <2>1
<1>3. CASE \/ Register \/ ReadPort \/ AcquireBuffer \/ ReleaseSync \/ ReleaseBuffer
           \/ SendCommand \/ kbd_ack \/ Interrupt \/ Reply \/ UNCHANGED vars
  BY <1>2, <1>3 DEF Register, ReadPort, AcquireBuffer, ReleaseSync, ReleaseBuffer, SendCommand,
                    kbd_ack, Interrupt, Reply, vars, ringVars
<1>4. CASE Store
  BY <1>4, StoreRingInv
<1>5. ASSUME NEW r \in Readers, GetChar(r) \/ LockBuffer(r)
      PROVE  RingInv'
  <2>1. \A q \in Readers : at'[q] = "move" <=> at[q] = "move"
    BY <1>5 DEF GetChar, LockBuffer, Types, ReaderTypes
  <2>2. UNCHANGED ringVars
    BY <1>5 DEF GetChar, LockBuffer
  <2>3. ReadingFrom' = ReadingFrom
    BY <2>1, <2>2 DEF ReadingFrom, Following, ringVars
  <2> QED BY <1>1, <2>2, <2>3 DEF ringVars
<1>6. ASSUME NEW r \in Readers, TakeChar(r)
      PROVE  RingInv'
  BY <1>6, TakeRingInv
<1>7. ASSUME NEW r \in Readers, Return(r)
      PROVE  RingInv'
  <2>1. /\ at[r] = "move" /\ at' = [at EXCEPT ![r] = "caller"]
        /\ next_reading_pos' = Following(next_reading_pos)
        /\ UNCHANGED <<buffer, next_writing_pos, unread>>
    BY <1>7 DEF Return
  <2>2. r \in Asking /\ r \notin Range(keyboard_buffer_mutex.waiting)
    BY <2>1, ReadersAssumption DEF Asking, Process, MutexInv, WaitsAtItsCall
  <2>3. \A q \in Readers : at[q] = "move" => q = r
    BY <2>2, Alone
  <2>4. \A q \in Readers : at'[q] # "move"
    BY <2>1, <2>3 DEF Types, ReaderTypes
  <2>5. ReadingFrom' = ReadingFrom
    BY <2>1, <2>4 DEF ReadingFrom
  <2> QED BY <1>1, <2>1, <2>5
<1>8. ASSUME NEW k \in Keys, NEW up \in BOOLEAN, Type(k, up)
      PROVE  RingInv'
  BY <1>2, <1>8 DEF Type, ringVars
<1> QED
  BY <1>3, <1>4, <1>5, <1>6, <1>7, <1>8 DEF Next, DriverStep, ReaderStep

LEMMA RingIsHeld ==
    ASSUME Types, MutexInv, SyncInv, RingInv
    PROVE  RingHolds
<1>1. unread \in Seq(Entry) /\ Len(unread) \in Nat /\ DOMAIN unread = 1..Len(unread)
  BY LenProperties DEF Types, RingTypes
<1>2. ReadingFrom \in Position /\ Position \subseteq Int
  BY ReadingFromType, KeyboardAssumption DEF Position
<1>3. ASSUME NEW i \in DOMAIN unread
      PROVE  buffer[(ReadingFrom + i - 1) % MAX_BUFFER_LEN] = unread[i].char
  <2>1. ReadingFrom + (i - 1) = ReadingFrom + i - 1
    BY <1>1, <1>2
  <2>2. Cell(ReadingFrom, i - 1) = (ReadingFrom + i - 1) % MAX_BUFFER_LEN
    BY <2>1 DEF Cell
  <2> QED BY <2>2 DEF RingInv
<1>4. ASSUME NEW r \in Readers, at[r] = "take", ~Blocked(r)
      PROVE  unread # <<>> /\ buffer[next_reading_pos] = Head(unread).char
  <2>1. r \in Asking /\ r \notin Range(keyboard_buffer_mutex.waiting)
    BY <1>4, ReadersAssumption DEF Asking, Process, Blocked
  <2>2. \A q \in Readers : at[q] # "move"
    BY <1>4, <2>1, Alone
  <2>3. ReadingFrom = next_reading_pos
    BY <2>2 DEF ReadingFrom
  <2>4. unread # <<>>
    <3>1. r \in Admitted
      BY <1>4 DEF Admitted, Blocked
    <3>2. Cardinality(Admitted) # 0 /\ Cardinality(Admitted) \in Nat
      BY <3>1, AdmittedFinite, FS_EmptySet
    <3>3. Free \in Nat /\ Unannounced \in Nat
      <4>1. keyboard_buffer_sync.count \in Int
        BY SoundFacts DEF SyncInv
      <4> QED BY <4>1 DEF Free, Unannounced
    <3>4. Len(unread) # 0
      BY <3>2, <3>3 DEF SyncInv
    <3> QED BY <1>1, <3>4, EmptySeq
  <2>5. 1 \in DOMAIN unread /\ Head(unread) = unread[1]
    BY <1>1, <2>4, HeadTailProperties, EmptySeq
  <2>6. Cell(next_reading_pos, 1 - 1) = next_reading_pos
    BY <1>2, <2>3, CellFacts
  <2> QED BY <2>3, <2>4, <2>5, <2>6 DEF RingInv
<1> QED BY <1>3, <1>4 DEF RingHolds

\* No more processes wait for the mutex than there are, less the one inside.
LEMMA MutexCount ==
    ASSUME MutexInv
    PROVE  keyboard_buffer_mutex.count \in -Cardinality(Readers)..1
<1> DEFINE sem == keyboard_buffer_mutex
           n == Len(sem.waiting)
<1>1. /\ sem.count \in Int /\ sem.count <= 1 /\ n \in Nat /\ DOMAIN sem.waiting = 1..n
      /\ n = IF sem.count < 0 THEN -sem.count ELSE 0
      /\ IsInjective(sem.waiting) /\ sem.waiting \in Seq(Process)
      /\ Range(sem.waiting) \subseteq Asking
  BY SoundFacts DEF MutexInv, Sound, Exclusive
<1>2. Cardinality(Readers) \in Nat
  BY ReadersAssumption, FS_CardinalityType
<1>3. CASE sem.count >= 0
  BY <1>1, <1>2, <1>3
<1>4. CASE sem.count < 0
  <2>1. PICK p : Asking \ Range(sem.waiting) = {p}
    BY <1>4 DEF MutexInv, Exclusive
  <2>2. p \in Process /\ p \notin Range(sem.waiting)
    BY <2>1 DEF Asking
  <2> DEFINE others == Process \ {p}
  <2>3. IsFiniteSet(others) /\ Cardinality(others) = Cardinality(Readers)
    <3>1. IsFiniteSet(Process) /\ Cardinality(Process) = Cardinality(Readers) + 1
      BY ReadersAssumption, FS_AddElement DEF Process
    <3>2. IsFiniteSet(others) /\ Cardinality(others) = Cardinality(Process) - 1
      <4> HIDE DEF sem, n
      <4> QED BY <2>2, <3>1, FS_RemoveElement
    <3> QED BY <1>2, <3>1, <3>2
  <2>4. sem.waiting \in Injection(1..n, others)
    <3>1. \A i \in 1..n : sem.waiting[i] \in Range(sem.waiting)
      BY <1>1 DEF Range
    <3>2. \A i \in 1..n : sem.waiting[i] \in others
      BY <1>1, <2>2, <3>1 DEF Asking
    <3>3. sem.waiting = [i \in 1..n |-> sem.waiting[i]]
      BY <1>1
    <3> HIDE DEF sem, n, others
    <3>4. sem.waiting \in [1..n -> others]
      BY <3>2, <3>3
    <3> QED BY <1>1, <3>4 DEF Injection
  <2>5. Cardinality(1..n) <= Cardinality(Readers)
    <3> HIDE DEF others, sem, n
    <3> QED BY <2>3, <2>4, FS_Injection
  <2>6. Cardinality(1..n) = n
    BY <1>1, <1>4, FS_Interval
  <2> QED BY <1>1, <1>2, <1>4, <2>5, <2>6
<1> QED BY <1>1, <1>3, <1>4

\* When the user types ahead no more than the ring has room for, the ring and
\* the semaphore agree with what was stored and taken: no character is lost,
\* doubled or overtaken, with any number of readers and any length of the ring.
THEOREM RingCorrect ==
    ASSUME TypeAhead <= MAX_BUFFER_LEN
    PROVE  Spec => []RingOK
<1>1. Types /\ MutexInv => TypeOK
  BY MutexCount
     DEF TypeOK, Types, DriverTypes, DeviceTypes, RingTypes, Byte, Char, Entry, Position
<1>2. SyncInv => SyncCounts
  BY DEF SyncInv, SyncCounts, Admitted, Free, Unannounced
<1>3. Types /\ MutexInv /\ SyncInv /\ RingInv => RingOK
  BY <1>1, <1>2, RingIsHeld DEF RingOK
<1>4. Types /\ MutexInv /\ SyncInv /\ CountInv /\ RingInv /\ [Next]_vars => RingInv'
  BY NextRingInv
<1> QED BY <1>3, <1>4, InitTypes, NextTypes, InitMutexInv, NextMutexInv, InitSyncInv, NextSyncInv,
           InitCountInv, NextCountInv, InitRingInv, PTL DEF Spec

-----------------------------------------------------------------------------
(* What the driver knows of the keyboard.                                  *)

\* The keys held down and the lock, as one who has seen the bytes so far has them.
View == [down : SUBSET Keys, lock : BOOLEAN]

UserView == [down |-> down, lock |-> lock]

DriverView ==
    [down |-> {k \in Keys : is_key_pressed[k] \/ (HoldsChar /\ k = scancode.key)},
     lock |-> is_caps_lock_active]

Shifted(view) == view.lock \/ view.down \cap ShiftKeys # {}

After(view, byte) ==
    IF byte = Ack THEN view
    ELSE [down |-> IF byte.up THEN view.down \ {byte.key} ELSE view.down \cup {byte.key},
          lock |-> IF byte.key = CAPS_LOCK /\ ~byte.up /\ byte.key \notin view.down
                   THEN ~view.lock ELSE view.lock]

\* A byte that the view explains: an answer, or a key as it was meant.
Explained(view, byte) ==
    byte = Ack \/ (byte.key \in Keys /\ byte.meant = Shifted(view))

\* The bytes lead from one view to another.
Lead(bytes, first, last) ==
    \E views \in [1..(Len(bytes) + 1) -> View] :
        /\ views[1] = first /\ views[Len(bytes) + 1] = last
        /\ \A i \in 1..Len(bytes) :
             Explained(views[i], bytes[i]) /\ views[i + 1] = After(views[i], bytes[i])

\* The bytes the driver has not read lead from its view to the user's.
KeysInv ==
    ~swallowed =>
        /\ Lead(port, DriverView, UserView)
        /\ pc \in {"key", "store"} => scancode.meant = shift_is_pressed
        /\ CharsAsMeant

LEMMA ViewTypes ==
    ASSUME Types
    PROVE  DriverView \in View /\ UserView \in View
BY DEF DriverView, UserView, View, Types, DriverTypes, DeviceTypes

\* A step that neither moves bytes nor changes a view.
LEMMA LeadKept ==
    ASSUME port' = port, DriverView' = DriverView, UserView' = UserView
    PROVE  Lead(port, DriverView, UserView)' <=> Lead(port, DriverView, UserView)
BY SMTT(30) DEF Lead, Explained, After, Shifted

LEMMA LeadNothing ==
    ASSUME NEW view \in View
    PROVE  Lead(<<>>, view, view)
<1> DEFINE views == [i \in 1..1 |-> view]
<1>1. Len(<<>>) = 0 /\ 0 + 1 = 1
  OBVIOUS
<1>2. views \in [1..1 -> View] /\ views[1] = view
  OBVIOUS
<1> HIDE DEF views
<1>3. \A i \in 1..0 : FALSE
  OBVIOUS
<1> QED BY <1>1, <1>2, <1>3 DEF Lead

LEMMA LeadAppend ==
    ASSUME NEW bytes \in Seq(Byte), NEW first, NEW last \in View, Lead(bytes, first, last),
           NEW byte \in Byte, Explained(last, byte), After(last, byte) \in View
    PROVE  Lead(Append(bytes, byte), first, After(last, byte))
<1> DEFINE n == Len(bytes)
           more == Append(bytes, byte)
<1>1. /\ n \in Nat /\ Len(more) = n + 1 /\ more[n + 1] = byte
      /\ \A i \in 1..n : more[i] = bytes[i]
  BY AppendProperties, LenProperties
<1>2. PICK views \in [1..(n + 1) -> View] :
        /\ views[1] = first /\ views[n + 1] = last
        /\ \A i \in 1..n : Explained(views[i], bytes[i]) /\ views[i + 1] = After(views[i], bytes[i])
  BY DEF Lead
<1> DEFINE next == [i \in 1..(n + 2) |-> IF i = n + 2 THEN After(last, byte) ELSE views[i]]
<1> HIDE DEF n, more
<1>3. next \in [1..(n + 2) -> View]
  <2>1. \A i \in 1..(n + 2) : i # n + 2 => i \in 1..(n + 1)
    BY <1>1
  <2> QED BY <1>2, <2>1
<1>4. \A i \in 1..(n + 1) : next[i] = views[i]
  <2>1. \A i \in 1..(n + 1) : i \in 1..(n + 2) /\ i # n + 2
    BY <1>1
  <2> QED BY <2>1
<1>5. next[n + 2] = After(last, byte)
  <2>1. n + 2 \in 1..(n + 2)
    BY <1>1
  <2> QED BY <2>1
<1> HIDE DEF next
<1>6. next[1] = first /\ next[n + 1] = last
  <2>1. 1 \in 1..(n + 1) /\ n + 1 \in 1..(n + 1)
    BY <1>1
  <2> QED BY <1>2, <1>4, <2>1
<1>7. ASSUME NEW i \in 1..(n + 1)
      PROVE  Explained(next[i], more[i]) /\ next[i + 1] = After(next[i], more[i])
  <2>1. CASE i = n + 1
    <3>1. i + 1 = n + 2
      BY <1>1, <2>1
    <3> QED BY <1>1, <1>5, <1>6, <2>1, <3>1
  <2>2. CASE i # n + 1
    <3>1. i \in 1..n /\ i + 1 \in 1..(n + 1)
      BY <1>1, <2>2
    <3> QED BY <1>1, <1>2, <1>4, <3>1
  <2> QED BY <2>1, <2>2
<1>8. Len(more) + 1 = n + 2
  BY <1>1
<1> QED BY <1>1, <1>3, <1>5, <1>6, <1>7, <1>8 DEF Lead, more

LEMMA LeadTail ==
    ASSUME NEW bytes \in Seq(Byte), bytes # <<>>, NEW first, NEW last, Lead(bytes, first, last)
    PROVE  /\ Explained(first, Head(bytes))
           /\ Lead(Tail(bytes), After(first, Head(bytes)), last)
<1> DEFINE n == Len(bytes)
           rest == Tail(bytes)
<1>1. /\ n \in Nat \ {0} /\ Head(bytes) = bytes[1] /\ Len(rest) = n - 1
      /\ \A i \in 1..(n - 1) : rest[i] = bytes[i + 1]
  BY HeadTailProperties, LenProperties, EmptySeq
<1>2. PICK views \in [1..(n + 1) -> View] :
        /\ views[1] = first /\ views[n + 1] = last
        /\ \A i \in 1..n : Explained(views[i], bytes[i]) /\ views[i + 1] = After(views[i], bytes[i])
  BY DEF Lead
<1> DEFINE next == [i \in 1..n |-> views[i + 1]]
<1> HIDE DEF n, rest
<1>3. next \in [1..n -> View]
  <2>1. \A i \in 1..n : i + 1 \in 1..(n + 1)
    BY <1>1
  <2> QED BY <1>2, <2>1
<1>4. \A i \in 1..n : next[i] = views[i + 1]
  OBVIOUS
<1> HIDE DEF next
<1>5. 1 \in 1..n /\ n \in 1..n /\ (n - 1) + 1 = n
  BY <1>1
<1>6. Explained(first, Head(bytes)) /\ next[1] = After(first, Head(bytes)) /\ next[n] = last
  BY <1>1, <1>2, <1>4, <1>5
<1>7. ASSUME NEW i \in 1..(n - 1)
      PROVE  Explained(next[i], rest[i]) /\ next[i + 1] = After(next[i], rest[i])
  <2>1. i \in 1..n /\ i + 1 \in 1..n
    BY <1>1
  <2> QED BY <1>1, <1>2, <1>4, <2>1
<1> QED BY <1>1, <1>3, <1>5, <1>6, <1>7 DEF Lead, rest

\* An answer changes nobody's view, wherever it goes in.
LEMMA LeadBehind ==
    ASSUME NEW bytes \in Seq(Byte), bytes # <<>>, NEW first, NEW last, Lead(bytes, first, last)
    PROVE  Lead(<<Head(bytes), Ack>> \o Tail(bytes), first, last)
<1> DEFINE n == Len(bytes)
           more == <<Head(bytes), Ack>> \o Tail(bytes)
<1>1. /\ n \in Nat \ {0} /\ Head(bytes) = bytes[1] /\ Head(bytes) \in Byte
      /\ Tail(bytes) \in Seq(Byte) /\ Len(Tail(bytes)) = n - 1
      /\ \A i \in 1..(n - 1) : Tail(bytes)[i] = bytes[i + 1]
  BY HeadTailProperties, LenProperties, EmptySeq
<1>2. /\ Len(more) = n + 1 /\ more[1] = bytes[1] /\ more[2] = Ack
      /\ \A i \in 3..(n + 1) : more[i] = bytes[i - 1]
  <2> DEFINE two == <<Head(bytes), Ack>>
             rest == Tail(bytes)
  <2>1. two \in Seq(Byte) /\ Len(two) = 2 /\ two[1] = bytes[1] /\ two[2] = Ack
    <3>1. Head(bytes) \in Byte /\ Ack \in Byte /\ Head(bytes) = bytes[1]
      BY <1>1, AckIsByte
    <3> QED BY <3>1
  <2> HIDE DEF two, rest
  <2>2. /\ Len(two \o rest) = 2 + (n - 1)
        /\ \A i \in 1..(2 + (n - 1)) :
             (two \o rest)[i] = IF i <= 2 THEN two[i] ELSE rest[i - 2]
    <3>1. rest \in Seq(Byte) /\ Len(rest) = n - 1
      BY <1>1 DEF rest
    <3>2. /\ Len(two \o rest) = Len(two) + Len(rest)
          /\ \A i \in 1..(Len(two) + Len(rest)) :
               (two \o rest)[i] = IF i <= Len(two) THEN two[i] ELSE rest[i - Len(two)]
      BY <2>1, <3>1, ConcatProperties
    <3> QED BY <2>1, <3>1, <3>2
  <2>3. (two \o rest)[1] = bytes[1] /\ (two \o rest)[2] = Ack
    BY <1>1, <2>1, <2>2
  <2>4. ASSUME NEW i \in 3..(n + 1)
        PROVE  (two \o rest)[i] = bytes[i - 1]
    <3>1. i \in 1..(2 + (n - 1)) /\ ~(i <= 2) /\ i - 2 \in 1..(n - 1) /\ (i - 2) + 1 = i - 1
      BY <1>1
    <3>2. rest[i - 2] = bytes[i - 1]
      BY <1>1, <3>1 DEF rest
    <3> QED BY <2>2, <3>1, <3>2
  <2>5. Len(two \o rest) = n + 1
    BY <1>1, <2>2
  <2> QED BY <2>3, <2>4, <2>5 DEF two, rest
<1>3. PICK views \in [1..(n + 1) -> View] :
        /\ views[1] = first /\ views[n + 1] = last
        /\ \A i \in 1..n : Explained(views[i], bytes[i]) /\ views[i + 1] = After(views[i], bytes[i])
  BY DEF Lead
<1> DEFINE next == [i \in 1..(n + 2) |-> IF i <= 2 THEN views[i] ELSE views[i - 1]]
<1> HIDE DEF n, more
<1>4. next \in [1..(n + 2) -> View]
  <2>1. \A i \in 1..(n + 2) : IF i <= 2 THEN i \in 1..(n + 1) ELSE i - 1 \in 1..(n + 1)
    BY <1>1
  <2> QED BY <1>3, <2>1
<1>5. next[1] = views[1] /\ next[2] = views[2] /\ \A i \in 3..(n + 2) : next[i] = views[i - 1]
  <2>1. 1 \in 1..(n + 2) /\ 2 \in 1..(n + 2) /\ \A i \in 3..(n + 2) : i \in 1..(n + 2) /\ ~(i <= 2)
    BY <1>1
  <2> QED BY <2>1
<1> HIDE DEF next
<1>6. next[n + 2] = last
  <2>1. n + 2 \in 3..(n + 2) /\ (n + 2) - 1 = n + 1
    BY <1>1
  <2> QED BY <1>3, <1>5, <2>1
<1>7. ASSUME NEW i \in 1..(n + 1)
      PROVE  Explained(next[i], more[i]) /\ next[i + 1] = After(next[i], more[i])
  <2>1. CASE i = 1
    <3>1. 1 \in 1..n /\ 1 + 1 = 2
      BY <1>1
    <3> QED BY <1>2, <1>3, <1>5, <2>1, <3>1
  <2>2. CASE i = 2
    <3>1. 3 \in 3..(n + 2) /\ 3 - 1 = 2 /\ 2 + 1 = 3
      BY <1>1
    <3>2. next[3] = next[2]
      BY <1>5, <3>1
    <3> QED BY <1>2, <2>2, <3>1, <3>2 DEF Explained, After
  <2>3. CASE i \notin {1, 2}
    <3>1. /\ i \in 3..(n + 1) /\ i \in 3..(n + 2) /\ i + 1 \in 3..(n + 2)
          /\ (i + 1) - 1 = (i - 1) + 1 /\ i - 1 \in 1..n
      BY <1>1, <2>3
    <3> QED BY <1>2, <1>3, <1>5, <3>1
  <2> QED BY <2>1, <2>2, <2>3
<1>8. Len(more) + 1 = n + 2 /\ Len(more) = n + 1
  BY <1>1, <1>2
<1> QED BY <1>3, <1>4, <1>5, <1>6, <1>7, <1>8 DEF Lead, more

LEMMA InitKeysInv == Init => KeysInv
<1> SUFFICES ASSUME Init PROVE KeysInv
  OBVIOUS
<1>1. DriverView = UserView
  BY DEF Init, DriverView, UserView, HoldsChar
<1>2. UserView \in View
  BY InitTypes, ViewTypes
<1>3. port = <<>> /\ unread = <<>> /\ pc = "start"
  BY DEF Init
<1>4. Lead(port, DriverView, UserView)
  BY <1>1, <1>2, <1>3, LeadNothing
<1>5. CharsAsMeant
  BY <1>3 DEF CharsAsMeant
<1> QED BY <1>3, <1>4, <1>5 DEF KeysInv

LEMMA TypeKeysInv ==
    ASSUME Types, KeysInv, NEW k \in Keys, NEW up \in BOOLEAN, Type(k, up)
    PROVE  KeysInv'
<1> DEFINE byte == [key |-> k, up |-> up, meant |-> lock \/ down \cap ShiftKeys # {}]
<1>1. /\ ~swallowed /\ port' = Append(port, byte)
      /\ UNCHANGED <<pc, keyVars, ringVars>>
      /\ down' = IF up THEN down \ {k} ELSE down \cup {k}
      /\ lock' = IF k = CAPS_LOCK /\ ~up /\ k \notin down THEN ~lock ELSE lock
  BY DEF Type
<1>2. byte \in Byte /\ port \in Seq(Byte) /\ lock \in BOOLEAN
  BY DEF Byte, Types, DeviceTypes
<1>3. byte # Ack
  BY KeysAssumption DEF Ack
<1>4. DriverView' = DriverView
  BY <1>1 DEF DriverView, keyVars, HoldsChar
<1>5. UserView' = After(UserView, byte)
  BY <1>1, <1>3 DEF UserView, After
<1>6. Explained(UserView, byte)
  BY DEF Explained, Shifted, UserView
<1>7. UserView \in View /\ UserView' \in View
  <2>1. Types'
    BY NextTypes DEF Next
  <2>2. down' \subseteq Keys /\ lock' \in BOOLEAN
    BY <2>1 DEF Types, DeviceTypes
  <2> QED BY <2>2, ViewTypes DEF UserView, View
<1> HIDE DEF byte
<1>8. Lead(port', DriverView', UserView')
  BY <1>1, <1>2, <1>4, <1>5, <1>6, <1>7, LeadAppend DEF KeysInv
<1>9. Lead(port, DriverView, UserView)'
  BY <1>8 DEF Lead, Explained, After, Shifted
<1>10. shift_is_pressed' = shift_is_pressed /\ scancode' = scancode /\ pc' = pc /\ swallowed' = swallowed
  BY <1>1 DEF keyVars, shift_is_pressed
<1>11. CharsAsMeant'
  BY <1>1 DEF KeysInv, CharsAsMeant, ringVars
<1> QED BY <1>1, <1>9, <1>10, <1>11 DEF KeysInv

LEMMA ReplyKeysInv ==
    ASSUME Types, KeysInv, Reply
    PROVE  KeysInv'
<1>1. /\ UNCHANGED <<userVars, pc, keyVars, ringVars>>
      /\ port' = Append(port, Ack) \/ (port # <<>> /\ port' = <<Head(port), Ack>> \o Tail(port))
  <2>1. <<Ack>> = Append(<<>>, Ack)
    OBVIOUS
  <2> QED BY <2>1 DEF Reply
<1>2. DriverView' = DriverView /\ UserView' = UserView
  BY <1>1 DEF DriverView, UserView, keyVars, userVars, HoldsChar
<1>3. shift_is_pressed' = shift_is_pressed /\ scancode' = scancode /\ pc' = pc /\ swallowed' = swallowed
  BY <1>1 DEF keyVars, shift_is_pressed
<1>4. CharsAsMeant' = CharsAsMeant
  BY <1>1, <1>3 DEF CharsAsMeant, ringVars
<1>5. ASSUME ~swallowed
      PROVE  Lead(port', DriverView, UserView)
  <2>1. port \in Seq(Byte) /\ Ack \in Byte /\ UserView \in View /\ Lead(port, DriverView, UserView)
    BY <1>5, ViewTypes, AckIsByte DEF KeysInv, Types, DeviceTypes
  <2>2. After(UserView, Ack) = UserView /\ Explained(UserView, Ack)
    BY DEF After, Explained
  <2>3. Lead(Append(port, Ack), DriverView, UserView)
    <3>1. Lead(Append(port, Ack), DriverView, After(UserView, Ack))
      BY <2>1, <2>2, LeadAppend
    <3> QED BY <2>2, <3>1
  <2>4. port # <<>> => Lead(<<Head(port), Ack>> \o Tail(port), DriverView, UserView)
    BY <2>1, LeadBehind
  <2> QED BY <1>1, <2>3, <2>4
<1>6. ~swallowed => Lead(port, DriverView, UserView)'
  BY <1>2, <1>5 DEF Lead, Explained, After, Shifted
<1> QED BY <1>3, <1>4, <1>6 DEF KeysInv

\* What the driver makes of a byte is what the byte changed.
LEMMA ReadKeysInv ==
    ASSUME Types, KeysInv, ReadPort
    PROVE  KeysInv'
<1> DEFINE byte == Head(port)
<1>1. /\ port # <<>> /\ port' = Tail(port) /\ pc = "read"
      /\ UNCHANGED <<userVars, swallowed, ringVars>>
      /\ is_key_pressed' = IF Settles(byte)
            THEN [is_key_pressed EXCEPT ![byte.key] = ~byte.up] ELSE is_key_pressed
      /\ is_caps_lock_active' = (is_caps_lock_active # Toggles(byte))
      /\ scancode' = IF IsChar(byte) THEN byte ELSE Ack
      /\ pc' = IF IsChar(byte) THEN "key" ELSE IF Toggles(byte) THEN "leds" ELSE "wait"
  BY DEF ReadPort, InPort
<1>2. /\ port \in Seq(Byte) /\ byte \in Byte
      /\ is_key_pressed \in [Keys -> BOOLEAN] /\ is_caps_lock_active \in BOOLEAN
  BY <1>1, HeadTailProperties DEF Types, DeviceTypes, DriverTypes
<1>0. /\ ~Toggles(byte) => is_caps_lock_active' = is_caps_lock_active
      /\ Toggles(byte) => is_caps_lock_active' = ~is_caps_lock_active
  <2>1. Toggles(byte) \in BOOLEAN
    BY DEF Toggles
  <2>2. \A a, b, c \in BOOLEAN : a = (b # c) => (~c => a = b) /\ (c => a = ~b)
    OBVIOUS
  <2>3. is_caps_lock_active' \in BOOLEAN
    BY <1>1
  <2> HIDE DEF byte
  <2> QED BY <1>1, <1>2, <2>1, <2>2, <2>3
<1>3. CASE swallowed
  BY <1>1, <1>3 DEF KeysInv
<1>4. CASE ~swallowed
  <2>1. Explained(DriverView, byte) /\ Lead(port', After(DriverView, byte), UserView)
    BY <1>1, <1>2, <1>4, LeadTail DEF KeysInv
  <2>2. DriverView = [down |-> {k \in Keys : is_key_pressed[k]}, lock |-> is_caps_lock_active]
    BY <1>1 DEF DriverView, HoldsChar
  <2> HIDE DEF byte
  <2>3. DriverView' = After(DriverView, byte)
    <3>1. CASE byte = Ack
      <4>1. ~IsChar(byte) /\ ~Settles(byte) /\ ~Toggles(byte)
        BY <3>1, AckIsByte, KeysAssumption DEF Settles, Toggles, Ack, IsChar, Keys
      <4>2. is_key_pressed' = is_key_pressed /\ is_caps_lock_active' = is_caps_lock_active
        BY <1>0, <1>1, <4>1
      <4>3. pc' = "wait"
        BY <1>1, <4>1
      <4> QED BY <2>2, <3>1, <4>2, <4>3 DEF DriverView, HoldsChar, After
    <3>2. CASE byte # Ack /\ IsChar(byte)
      <4>1. byte.key \in Keys /\ byte.key # CAPS_LOCK /\ ~byte.up
        BY <3>2, KeysAssumption DEF IsChar, Keys
      <4>2. ~Settles(byte) /\ ~Toggles(byte)
        BY <3>2, <4>1 DEF Settles, Toggles
      <4>3. /\ is_key_pressed' = is_key_pressed /\ is_caps_lock_active' = is_caps_lock_active
            /\ pc' = "key" /\ scancode' = byte
        BY <1>0, <1>1, <3>2, <4>2
      <4>4. DriverView' = [down |-> {k \in Keys : is_key_pressed[k] \/ k = byte.key},
                           lock |-> is_caps_lock_active]
        BY <4>3 DEF DriverView, HoldsChar
      <4>5. {k \in Keys : is_key_pressed[k] \/ k = byte.key} = {k \in Keys : is_key_pressed[k]} \cup {byte.key}
        BY <4>1
      <4> QED BY <2>2, <3>2, <4>1, <4>4, <4>5 DEF After
    <3>3. CASE byte # Ack /\ ~IsChar(byte)
      <4>1. byte.key \in Keys
        BY <2>1, <3>3 DEF Explained
      <4>2. is_key_pressed' = [is_key_pressed EXCEPT ![byte.key] = ~byte.up] /\ pc' \in {"leds", "wait"}
        BY <1>1, <3>3, <4>1 DEF Settles
      <4>3. DriverView' = [down |-> {k \in Keys : is_key_pressed'[k]}, lock |-> is_caps_lock_active']
        BY <4>2 DEF DriverView, HoldsChar
      <4>4. {k \in Keys : is_key_pressed'[k]} =
              IF byte.up THEN {k \in Keys : is_key_pressed[k]} \ {byte.key}
              ELSE {k \in Keys : is_key_pressed[k]} \cup {byte.key}
        BY <1>2, <4>1, <4>2
      <4>5. Toggles(byte) <=>
              byte.key = CAPS_LOCK /\ ~byte.up /\ byte.key \notin {k \in Keys : is_key_pressed[k]}
        BY <4>1 DEF Toggles
      <4>6. is_caps_lock_active' =
              IF byte.key = CAPS_LOCK /\ ~byte.up /\ byte.key \notin {k \in Keys : is_key_pressed[k]}
              THEN ~is_caps_lock_active ELSE is_caps_lock_active
        BY <1>0, <4>5
      <4> QED BY <2>2, <3>3, <4>3, <4>4, <4>6 DEF After
    <3> QED BY <3>1, <3>2, <3>3
  <2>4. UserView' = UserView
    BY <1>1 DEF UserView, userVars
  <2>5. Lead(port, DriverView, UserView)'
    <3>1. Lead(port', DriverView', UserView')
      BY <2>1, <2>3, <2>4
    <3> QED BY <3>1 DEF Lead, Explained, After, Shifted
  <2>6. pc' \in {"key", "store"} => scancode'.meant = shift_is_pressed'
    <3> SUFFICES ASSUME pc' \in {"key", "store"}
                 PROVE  scancode'.meant = shift_is_pressed'
      OBVIOUS
    <3>1. IsChar(byte)
      BY <1>1
    <3>2. byte # Ack /\ byte.key # CAPS_LOCK
      BY <3>1, AckIsByte, KeysAssumption DEF IsChar
    <3>3. ~Settles(byte) /\ ~Toggles(byte)
      BY <3>1, <3>2 DEF Settles, Toggles
    <3>4. is_key_pressed' = is_key_pressed /\ is_caps_lock_active' = is_caps_lock_active /\ scancode' = byte
      BY <1>0, <1>1, <3>1, <3>3
    <3>5. shift_is_pressed' = shift_is_pressed
      BY <3>4 DEF shift_is_pressed
    <3>6. byte.meant = Shifted(DriverView)
      BY <2>1, <3>2 DEF Explained
    <3>7. Shifted(DriverView) = shift_is_pressed
      BY <2>2 DEF Shifted, shift_is_pressed, Keys
    <3> QED BY <3>4, <3>5, <3>6, <3>7
  <2>7. CharsAsMeant'
    BY <1>1, <1>4 DEF KeysInv, CharsAsMeant, ringVars
  <2> QED BY <2>5, <2>6, <2>7 DEF KeysInv
<1> QED BY <1>3, <1>4

\* A character is stored as the shift and the lock are for the driver, which
\* are as they were for the user when its key went down.
LEMMA StoreKeysInv ==
    ASSUME Types, KeysInv, Store
    PROVE  KeysInv'
<1>1. UNCHANGED <<deviceVars, userVars, keyVars>> /\ pc = "store" /\ pc' \in {"sync", "release"}
  BY DEF Store
<1>2. DriverView' = DriverView /\ UserView' = UserView /\ port' = port /\ swallowed' = swallowed
  BY <1>1 DEF DriverView, UserView, deviceVars, userVars, keyVars, HoldsChar
<1>3. ~swallowed => Lead(port, DriverView, UserView)'
  BY <1>2, LeadKept DEF KeysInv
<1>4. ~swallowed => CharsAsMeant'
  <2> SUFFICES ASSUME ~swallowed PROVE CharsAsMeant'
    OBVIOUS
  <2>1. CASE ~HasSpace
    BY <1>2, <2>1 DEF Store, KeysInv, CharsAsMeant
  <2>2. CASE HasSpace
    <3> DEFINE char == [key |-> scancode.key, caps |-> shift_is_pressed]
               entry == [char |-> char, meant |-> scancode.meant]
    <3>1. unread' = Append(unread, entry)
      BY <2>2 DEF Store
    <3>2. entry.char.caps = entry.meant
      BY <1>1 DEF KeysInv
    <3> HIDE DEF entry
    <3>3. unread \in Seq(Entry) /\ Len(unread) \in Nat /\ DOMAIN unread = 1..Len(unread)
      BY LenProperties DEF Types, RingTypes
    <3>4. /\ DOMAIN unread' = 1..(Len(unread) + 1) /\ unread'[Len(unread) + 1] = entry
          /\ \A i \in 1..Len(unread) : unread'[i] = unread[i]
      BY <3>1, <3>3
    <3>5. ASSUME NEW i \in DOMAIN unread'
          PROVE  unread'[i].char.caps = unread'[i].meant
      <4>1. i = Len(unread) + 1 \/ i \in DOMAIN unread
        BY <3>3, <3>4
      <4> QED BY <3>2, <3>3, <3>4, <4>1 DEF KeysInv, CharsAsMeant
    <3> QED BY <3>5 DEF CharsAsMeant
  <2> QED BY <2>1, <2>2
<1> QED BY <1>1, <1>2, <1>3, <1>4 DEF KeysInv

LEMMA NextKeysInv == Types /\ KeysInv /\ [Next]_vars => KeysInv'
<1> SUFFICES ASSUME Types, KeysInv, [Next]_vars PROVE KeysInv'
  OBVIOUS
<1>1. ASSUME UNCHANGED <<port, userVars, keyVars, unread>>, HoldsChar' = HoldsChar,
             pc' \in {"key", "store"} => pc \in {"key", "store"}
      PROVE  KeysInv'
  <2>1. DriverView' = DriverView /\ UserView' = UserView /\ shift_is_pressed' = shift_is_pressed
    BY <1>1 DEF DriverView, UserView, userVars, keyVars, shift_is_pressed
  <2> QED BY <1>1, <2>1, LeadKept DEF KeysInv, keyVars, CharsAsMeant
<1>2. CASE Register \/ AcquireBuffer \/ ReleaseSync \/ SendCommand \/ Interrupt \/ UNCHANGED vars
  <2>1. UNCHANGED <<port, userVars, keyVars, unread>>
    BY <1>2 DEF Register, AcquireBuffer, ReleaseSync, SendCommand, Interrupt, vars, deviceVars, ringVars
  <2>2. (pc' = pc) \/ {pc, pc'} \subseteq {"key", "store", "sync", "release"}
                   \/ {pc, pc'} \cap {"key", "store", "sync", "release"} = {}
    BY <1>2 DEF Register, AcquireBuffer, ReleaseSync, SendCommand, Interrupt, vars
  <2>3. HoldsChar' = HoldsChar
    <3>1. HoldsChar \in BOOLEAN /\ HoldsChar' \in BOOLEAN
      BY DEF HoldsChar
    <3>2. HoldsChar' <=> HoldsChar
      BY <2>2 DEF HoldsChar
    <3> HIDE DEF HoldsChar
    <3> QED BY <3>1, <3>2
  <2>4. pc' \in {"key", "store"} => pc \in {"key", "store"}
    BY <1>2 DEF Register, AcquireBuffer, ReleaseSync, SendCommand, Interrupt, vars
  <2> QED BY <1>1, <2>1, <2>3, <2>4
<1>3. CASE ReadPort
  BY <1>3, ReadKeysInv
<1>4. CASE Store
  BY <1>4, StoreKeysInv
<1>5. CASE ReleaseBuffer
  <2>1. /\ pc = "release" /\ pc' = "wait" /\ UNCHANGED <<port, userVars, unread>>
        /\ is_caps_lock_active' = is_caps_lock_active /\ swallowed' = swallowed
        /\ is_key_pressed' = [is_key_pressed EXCEPT ![scancode.key] = TRUE]
    BY <1>5 DEF ReleaseBuffer, deviceVars, ringVars
  <2>2. is_key_pressed \in [Keys -> BOOLEAN] /\ scancode.key \in Keys
    BY <2>1 DEF Types, DriverTypes, HoldsChar, IsChar, Keys
  <2>3. DriverView' = DriverView
    <3>1. \A k \in Keys : is_key_pressed'[k] <=> is_key_pressed[k] \/ k = scancode.key
      BY <2>1, <2>2
    <3>2. ~HoldsChar' /\ HoldsChar
      BY <2>1 DEF HoldsChar
    <3> QED BY <2>1, <3>1, <3>2 DEF DriverView
  <2>4. UserView' = UserView
    BY <2>1 DEF UserView, userVars
  <2> QED BY <2>1, <2>3, <2>4, LeadKept DEF KeysInv, CharsAsMeant
<1>6. CASE kbd_ack
  <2>1. /\ port # <<>> /\ port' = Tail(port) /\ pc = "ack" /\ pc' \in {"ack", "lights"}
        /\ swallowed' = (swallowed \/ Head(port) # Ack)
        /\ UNCHANGED <<userVars, scancode, is_key_pressed, is_caps_lock_active, unread>>
    BY <1>6 DEF kbd_ack, InPort, ringVars
  <2> SUFFICES ASSUME ~swallowed' PROVE KeysInv'
    BY DEF KeysInv
  <2>2. ~swallowed /\ Head(port) = Ack
    BY <2>1
  <2>3. DriverView' = DriverView /\ UserView' = UserView
    BY <2>1 DEF DriverView, UserView, userVars, HoldsChar
  <2>4. port \in Seq(Byte) /\ Lead(port, DriverView, UserView)
    BY <2>2 DEF KeysInv, Types, DeviceTypes
  <2>5. Lead(Tail(port), After(DriverView, Head(port)), UserView)
    BY <2>1, <2>4, LeadTail
  <2>6. Lead(port', DriverView', UserView')
    BY <2>1, <2>2, <2>3, <2>5 DEF After
  <2>7. CharsAsMeant'
    BY <2>1, <2>2 DEF KeysInv, CharsAsMeant
  <2> QED BY <2>1, <2>6, <2>7 DEF KeysInv, Lead, Explained, After, Shifted
<1>7. CASE Reply
  BY <1>7, ReplyKeysInv
<1>8. ASSUME NEW r \in Readers, TakeChar(r)
      PROVE  KeysInv'
  <2>1. /\ UNCHANGED <<deviceVars, userVars, pc, keyVars>>
        /\ unread' = IF unread = <<>> THEN <<>> ELSE Tail(unread)
    BY <1>8 DEF TakeChar
  <2>2. DriverView' = DriverView /\ UserView' = UserView /\ shift_is_pressed' = shift_is_pressed
    BY <2>1 DEF DriverView, UserView, userVars, keyVars, shift_is_pressed, HoldsChar
  <2>3. \A i \in DOMAIN unread' : i + 1 \in DOMAIN unread /\ unread'[i] = unread[i + 1]
    <3>1. unread \in Seq(Entry)
      BY DEF Types, RingTypes
    <3>2. CASE unread = <<>>
      BY <2>1, <3>2
    <3>3. CASE unread # <<>>
      <4>1. /\ unread' \in Seq(Entry) /\ Len(unread') = Len(unread) - 1
            /\ \A i \in 1..(Len(unread) - 1) : unread'[i] = unread[i + 1]
        BY <2>1, <3>1, <3>3, HeadTailProperties
      <4>2. DOMAIN unread' = 1..Len(unread') /\ DOMAIN unread = 1..Len(unread) /\ Len(unread) \in Nat
        BY <3>1, <4>1, LenProperties
      <4> QED BY <4>1, <4>2
    <3> QED BY <3>2, <3>3
  <2>4. CharsAsMeant => CharsAsMeant'
    BY <2>1, <2>3 DEF CharsAsMeant, keyVars
  <2> QED BY <2>1, <2>2, <2>4, LeadKept DEF KeysInv, deviceVars, keyVars
<1>9. ASSUME NEW r \in Readers, GetChar(r) \/ LockBuffer(r) \/ Return(r)
      PROVE  KeysInv'
  <2>1. UNCHANGED <<port, userVars, keyVars, unread, pc>>
    BY <1>9 DEF GetChar, LockBuffer, Return, deviceVars, ringVars
  <2> QED BY <1>1, <2>1 DEF HoldsChar
<1>10. ASSUME NEW k \in Keys, NEW up \in BOOLEAN, Type(k, up)
       PROVE  KeysInv'
  BY <1>10, TypeKeysInv
<1> QED
  BY <1>2, <1>3, <1>4, <1>5, <1>6, <1>7, <1>8, <1>9, <1>10 DEF Next, DriverStep, ReaderStep

\* Unless the driver took the byte of a key for an answer, the characters in
\* the ring are those meant when their keys went down, and a driver that has
\* read all there is agrees with the keyboard on the keys and the lock.
THEOREM DriverUnderstandsKeys == Spec => []KeysOK
<1>1. KeysInv => CharsAsMeant
  BY DEF KeysInv, CharsAsMeant
<1>2. Types /\ KeysInv => KeysFollow
  <2> SUFFICES ASSUME Types, KeysInv, pc = "wait", port = <<>>, ~swallowed
               PROVE  /\ \A k \in Keys : is_key_pressed[k] = (k \in down)
                      /\ is_caps_lock_active = lock
    BY DEF KeysFollow
  <2>1. PICK views \in [1..(Len(port) + 1) -> View] :
          views[1] = DriverView /\ views[Len(port) + 1] = UserView
    BY DEF KeysInv, Lead
  <2>2. Len(port) + 1 = 1
    OBVIOUS
  <2>3. DriverView = UserView
    BY <2>1, <2>2
  <2>4. {k \in Keys : is_key_pressed[k]} = down /\ is_caps_lock_active = lock
    BY <2>3 DEF DriverView, UserView, HoldsChar
  <2>5. \A k \in Keys : is_key_pressed[k] \in BOOLEAN
    BY DEF Types, DriverTypes
  <2> QED BY <2>4, <2>5
<1>3. Types /\ KeysInv => KeysOK
  BY <1>1, <1>2 DEF KeysOK
<1> QED BY <1>3, InitTypes, NextTypes, InitKeysInv, NextKeysInv, PTL DEF Spec

=============================================================================
