------------------------------ MODULE Keyboard ------------------------------
(***************************************************************************)
(* The keyboard driver: main() and get_char() of                           *)
(* modules/ps2_keyboard/ps2_keyboard.cpp, its callers in getc() of         *)
(* lib/ps2_keyboard.cpp, and the device behind port 0x60.                  *)
(*                                                                         *)
(* The driver and the processes that run get_char() share a ring buffer    *)
(* under two semaphores and are preempted between any two steps.  The      *)
(* driver sets the lights by polling the port that also brings the keys.   *)
(* A byte of the device is a record: the key and whether it was released,  *)
(* and, as history, whether whoever typed it meant the shifted character.  *)
(***************************************************************************)
EXTENDS Naturals, Integers, FiniteSets, SequencesExt

CONSTANTS
    MAX_BUFFER_LEN,
    CharKeys,     \* the keys that kb_us gives a character
    ShiftKeys, CAPS_LOCK,
    Readers,      \* the processes that run get_char()
    EarlyKeys,    \* whether keys are pressed before the driver first waits
    PortBytes,    \* bound of the model on the bytes the device holds back
    TypeAhead     \* bound of the model on the characters nobody has read

Keys == CharKeys \cup ShiftKeys \cup {CAPS_LOCK}
NoKey == "none"
Driver == "driver"

ASSUME KeyboardAssumption ==
    /\ MAX_BUFFER_LEN \in Nat \ {0}
    /\ EarlyKeys \in BOOLEAN
    /\ PortBytes \in Nat /\ TypeAhead \in Nat

\* The scan codes are different, and kb_us is zero for shift and caps lock.
ASSUME KeysAssumption ==
    /\ NoKey \notin Keys
    /\ CAPS_LOCK \notin CharKeys \cup ShiftKeys
    /\ CharKeys \cap ShiftKeys = {}

ASSUME ReadersAssumption == IsFiniteSet(Readers) /\ Driver \notin Readers

VARIABLES
    port,       \* the bytes the device has for port 0x60, the oldest first
    replies,    \* the commands the device has to acknowledge
    irq,        \* irq 1 is raised and not delivered
    down, lock, \* the keys held down, and whether caps lock is on for the user
    pc,         \* where the driver is in main()
    scancode,   \* the key whose character is on its way to the buffer, or Ack
    is_key_pressed, is_caps_lock_active,
    buffer, next_reading_pos, next_writing_pos,
    keyboard_buffer_mutex, keyboard_buffer_sync,
    at,         \* where each reader is in get_char()
    unread,     \* history: the characters put in the buffer and not read yet
    swallowed   \* history: the driver took the byte of a key for an answer

deviceVars == <<port, replies, irq>>
userVars == <<down, lock>>
keyVars == <<scancode, is_key_pressed, is_caps_lock_active, swallowed>>
ringVars == <<buffer, next_reading_pos, next_writing_pos, unread>>
semaphoreVars == <<keyboard_buffer_mutex, keyboard_buffer_sync>>
vars == <<deviceVars, userVars, pc, keyVars, ringVars, semaphoreVars, at>>

Ack == [key |-> NoKey, up |-> TRUE, meant |-> FALSE]      \* 0xfa
NoChar == [key |-> NoKey, caps |-> FALSE]
Semaphore(count) == [count |-> count, waiting |-> <<>>]

\* Mutant: the mutex lets two processes in.
Mutex_OfTwo == Semaphore(2)
Mutex == Semaphore(1)

Init ==
    /\ port = <<>> /\ replies = 0 /\ irq = FALSE
    /\ down = {} /\ lock = FALSE
    /\ pc = "start"
    /\ scancode = Ack
    /\ is_key_pressed = [k \in Keys |-> FALSE]
    /\ is_caps_lock_active = FALSE
    /\ buffer = [i \in 0..(MAX_BUFFER_LEN - 1) |-> NoChar]
    /\ next_reading_pos = 0 /\ next_writing_pos = 0 /\ unread = <<>>
    /\ keyboard_buffer_mutex = Mutex
    /\ keyboard_buffer_sync = Semaphore(0)
    /\ at = [r \in Readers |-> "caller"]
    /\ swallowed = FALSE

-----------------------------------------------------------------------------
(* Semaphores, as the process manager serves them: first come, first served*)

Acquired(semaphore, p) ==
    [count |-> semaphore.count - 1,
     waiting |-> IF semaphore.count <= 0 THEN Append(semaphore.waiting, p)
                 ELSE semaphore.waiting]

Released(semaphore) ==
    [count |-> semaphore.count + 1,
     waiting |-> IF semaphore.waiting = <<>> THEN <<>> ELSE Tail(semaphore.waiting)]

Blocked(p) ==
    \/ p \in Range(keyboard_buffer_mutex.waiting)
    \/ p \in Range(keyboard_buffer_sync.waiting)

-----------------------------------------------------------------------------
(* The device and who types on it.  The byte at the head of port is in the *)
(* controller's output buffer: its arrival there raises the irq.           *)

IsChar(byte) == byte.key \in CharKeys /\ ~byte.up

\* The characters that are on their way to the buffer.
Coming ==
    Cardinality({i \in DOMAIN port : IsChar(port[i])})
      + IF pc \in {"key", "store"} THEN 1 ELSE 0

\* The keyboard answers a command before it looks at its keys again.
Type(k, up) ==
    /\ EarlyKeys \/ pc # "start"
    /\ replies = 0
    /\ Len(port) < PortBytes
    /\ ~swallowed      \* bound of the model: the typing ends there
    /\ up => k \in down
    /\ k \in CharKeys /\ ~up => Len(unread) + Coming < TypeAhead
    /\ port' = Append(port, [key |-> k, up |-> up, meant |-> lock \/ down \cap ShiftKeys # {}])
    /\ irq' = (irq \/ port = <<>>)
    /\ down' = IF up THEN down \ {k} ELSE down \cup {k}
    /\ lock' = IF k = CAPS_LOCK /\ ~up /\ k \notin down THEN ~lock ELSE lock
    /\ UNCHANGED <<replies, pc, keyVars, ringVars, semaphoreVars, at>>

\* The acknowledgement of a command comes before or after the keys held back.
Reply ==
    /\ replies > 0
    /\ replies' = replies - 1
    /\ port' \in {Append(port, Ack), IF port = <<>> THEN <<Ack>>
                                     ELSE <<Head(port), Ack>> \o Tail(port)}
    /\ irq' = (irq \/ port = <<>>)
    /\ UNCHANGED <<userVars, pc, keyVars, ringVars, semaphoreVars, at>>

\* inb(KEYBOARD_DATA_PORT) takes a byte, whose request to interrupt ends with
\* it, and the next one takes its place.
InPort ==
    /\ port # <<>>
    /\ port' = Tail(port)
    /\ irq' = (Len(port) > 1)

-----------------------------------------------------------------------------
(* The driver.                                                             *)

\* Mutant: the irq of a busy driver is ended at once too.
Ends_WhenBusy == TRUE

\* An irq waits at the controller until the driver has ended the one before.
Ends == pc \in {"start", "wait"}

\* irq_handler(): an irq without a driver that is ready is lost.
Interrupt ==
    /\ irq
    /\ Ends
    /\ irq' = FALSE
    /\ pc' = IF pc = "wait" THEN "read" ELSE pc
    /\ UNCHANGED <<port, replies, userVars, keyVars, ringVars, semaphoreVars, at>>

\* set_driver(), set_driver_function() and the first wait_for_interrupt().
Register ==
    /\ pc = "start"
    /\ pc' = "wait"
    /\ UNCHANGED <<deviceVars, userVars, keyVars, ringVars, semaphoreVars, at>>

\* Mutant: the lock changes as long as its key repeats.
Toggles_EachRepeat(byte) == byte.key = CAPS_LOCK /\ ~byte.up

\* A key that is held repeats: only its first byte changes the lock.
Toggles(byte) == byte.key = CAPS_LOCK /\ ~byte.up /\ ~is_key_pressed[CAPS_LOCK]

\* The bytes that set is_key_pressed at once; a key with a character goes to
\* the buffer first.
Settles(byte) == byte.key \in Keys /\ ~IsChar(byte)

\* The status port is never zero: its system flag stays set after boot.
ReadPort ==
    /\ pc = "read"
    /\ InPort
    /\ LET byte == Head(port)
       IN  /\ is_key_pressed' = IF Settles(byte)
                THEN [is_key_pressed EXCEPT ![byte.key] = ~byte.up] ELSE is_key_pressed
           /\ is_caps_lock_active' = (is_caps_lock_active # Toggles(byte))
           /\ scancode' = IF IsChar(byte) THEN byte ELSE Ack
           /\ pc' = IF IsChar(byte) THEN "key" ELSE IF Toggles(byte) THEN "leds" ELSE "wait"
    /\ UNCHANGED <<replies, userVars, swallowed, ringVars, semaphoreVars, at>>

AcquireBuffer ==
    /\ pc = "key"
    /\ keyboard_buffer_mutex' = Acquired(keyboard_buffer_mutex, Driver)
    /\ pc' = "store"
    /\ UNCHANGED <<deviceVars, userVars, keyVars, ringVars, keyboard_buffer_sync, at>>

Following(position) == (position + 1) % MAX_BUFFER_LEN

shift_is_pressed == is_caps_lock_active \/ \E k \in ShiftKeys : is_key_pressed[k]

\* "1 % MAX_BUFFER_LEN" is computed first.
HasSpace == next_writing_pos + (1 % MAX_BUFFER_LEN) # next_reading_pos

Store ==
    /\ pc = "store" /\ ~Blocked(Driver)
    /\ IF HasSpace
       THEN LET char == [key |-> scancode.key, caps |-> shift_is_pressed]
            IN  /\ buffer' = [buffer EXCEPT ![next_writing_pos] = char]
                /\ next_writing_pos' = Following(next_writing_pos)
                /\ unread' = Append(unread, [char |-> char, meant |-> scancode.meant])
                /\ pc' = "sync"
       ELSE pc' = "release" /\ UNCHANGED <<buffer, next_writing_pos, unread>>
    /\ UNCHANGED <<deviceVars, userVars, keyVars, next_reading_pos, semaphoreVars, at>>

\* Mutant: a character is announced once, when the buffer was empty.
ReleaseSync_FirstOnly ==
    /\ pc = "sync"
    /\ keyboard_buffer_sync' = IF Len(unread) = 1 THEN Released(keyboard_buffer_sync)
                               ELSE keyboard_buffer_sync
    /\ pc' = "release"
    /\ UNCHANGED <<deviceVars, userVars, keyVars, ringVars, keyboard_buffer_mutex, at>>

ReleaseSync ==
    /\ pc = "sync"
    /\ keyboard_buffer_sync' = Released(keyboard_buffer_sync)
    /\ pc' = "release"
    /\ UNCHANGED <<deviceVars, userVars, keyVars, ringVars, keyboard_buffer_mutex, at>>

ReleaseBuffer ==
    /\ pc = "release"
    /\ keyboard_buffer_mutex' = Released(keyboard_buffer_mutex)
    /\ is_key_pressed' = [is_key_pressed EXCEPT ![scancode.key] = TRUE]
    /\ scancode' = Ack
    /\ pc' = "wait"
    /\ UNCHANGED <<deviceVars, userVars, is_caps_lock_active, swallowed, ringVars,
                   keyboard_buffer_sync, at>>

\* set_kb_leds(): the command 0xed, and after its acknowledgement the lights.
SendCommand ==
    /\ pc \in {"leds", "lights"}
    /\ replies' = replies + 1
    /\ pc' = IF pc = "leds" THEN "ack" ELSE "wait"
    /\ UNCHANGED <<port, irq, userVars, keyVars, ringVars, semaphoreVars, at>>

\* kbd_ack() reads the port until it finds 0xfa.  An empty port gives the last
\* byte again: the key of the lock, and the loop goes on.
kbd_ack ==
    /\ pc = "ack"
    /\ InPort
    /\ pc' = IF Head(port) = Ack THEN "lights" ELSE "ack"
    /\ swallowed' = (swallowed \/ Head(port) # Ack)
    /\ UNCHANGED <<replies, userVars, scancode, is_key_pressed, is_caps_lock_active, ringVars,
                   semaphoreVars, at>>

-----------------------------------------------------------------------------
(* get_char(), in a process that driver_call() makes for each call.        *)

\* Mutant: the buffer is locked before there is something to read.
GetChar_LocksFirst(r) ==
    /\ at[r] = "caller" /\ pc # "start"
    /\ keyboard_buffer_mutex' = Acquired(keyboard_buffer_mutex, r)
    /\ keyboard_buffer_sync' = Acquired(keyboard_buffer_sync, r)
    /\ at' = [at EXCEPT ![r] = "take"]
    /\ UNCHANGED <<deviceVars, userVars, pc, keyVars, ringVars>>

\* driver_call() makes no process before the driver is ready.
GetChar(r) ==
    /\ at[r] = "caller" /\ pc # "start"
    /\ keyboard_buffer_sync' = Acquired(keyboard_buffer_sync, r)
    /\ at' = [at EXCEPT ![r] = "sync"]
    /\ UNCHANGED <<deviceVars, userVars, pc, keyVars, ringVars, keyboard_buffer_mutex>>

LockBuffer(r) ==
    /\ at[r] = "sync" /\ ~Blocked(r)
    /\ keyboard_buffer_mutex' = Acquired(keyboard_buffer_mutex, r)
    /\ at' = [at EXCEPT ![r] = "take"]
    /\ UNCHANGED <<deviceVars, userVars, pc, keyVars, ringVars, keyboard_buffer_sync>>

\* buffer[next_reading_pos] is read.
TakeChar(r) ==
    /\ at[r] = "take" /\ ~Blocked(r)
    /\ unread' = IF unread = <<>> THEN <<>> ELSE Tail(unread)
    /\ at' = [at EXCEPT ![r] = "move"]
    /\ UNCHANGED <<deviceVars, userVars, pc, keyVars, buffer, next_reading_pos,
                   next_writing_pos, semaphoreVars>>

\* next_reading_pos moves on and the buffer is unlocked.
Return(r) ==
    /\ at[r] = "move"
    /\ next_reading_pos' = Following(next_reading_pos)
    /\ keyboard_buffer_mutex' = Released(keyboard_buffer_mutex)
    /\ at' = [at EXCEPT ![r] = "caller"]
    /\ UNCHANGED <<deviceVars, userVars, pc, keyVars, buffer, next_writing_pos, unread,
                   keyboard_buffer_sync>>

-----------------------------------------------------------------------------

DriverStep ==
    \/ Register \/ ReadPort
    \/ AcquireBuffer \/ Store \/ ReleaseSync \/ ReleaseBuffer
    \/ SendCommand \/ kbd_ack

ReaderStep(r) == LockBuffer(r) \/ TakeChar(r) \/ Return(r)

Next ==
    \/ DriverStep
    \/ Interrupt
    \/ Reply
    \/ \E r \in Readers : GetChar(r) \/ ReaderStep(r)
    \/ \E k \in Keys, up \in BOOLEAN : Type(k, up)

\* The scheduler runs every ready process (ReadyRuns of Multitasking), the
\* interrupt controller delivers, and the device answers its commands.
Spec ==
    /\ Init /\ [][Next]_vars
    /\ WF_vars(DriverStep) /\ WF_vars(Interrupt) /\ WF_vars(Reply)
    /\ \A r \in Readers : WF_vars(ReaderStep(r))

-----------------------------------------------------------------------------
(* Properties.                                                             *)

\* Every variable has the type of the source's declaration.
TypeOK ==
    LET Byte == [key : Keys \cup {NoKey}, up : BOOLEAN, meant : BOOLEAN]
        Char == [key : CharKeys \cup {NoKey}, caps : BOOLEAN]
        Position == 0..(MAX_BUFFER_LEN - 1)
    IN  /\ port \in Seq(Byte) /\ scancode \in Byte
        /\ is_key_pressed \in [Keys -> BOOLEAN] /\ is_caps_lock_active \in BOOLEAN
        /\ buffer \in [Position -> Char]
        /\ next_reading_pos \in Position /\ next_writing_pos \in Position
        /\ unread \in Seq([char : Char, meant : BOOLEAN])
        /\ keyboard_buffer_mutex.count \in -Cardinality(Readers)..1

\* Where the next character will be read from.
ReadingFrom ==
    IF \E r \in Readers : at[r] = "move"
    THEN Following(next_reading_pos) ELSE next_reading_pos

\* The buffer holds, from the position where it is read, the characters that
\* were put in and not read, in their order, and a reader takes the oldest one:
\* none is lost, doubled or overtaken.
RingHolds ==
    /\ \A i \in DOMAIN unread :
         buffer[(ReadingFrom + i - 1) % MAX_BUFFER_LEN] = unread[i].char
    /\ \A r \in Readers : at[r] = "take" /\ ~Blocked(r) =>
         unread # <<>> /\ buffer[next_reading_pos] = Head(unread).char

\* keyboard_buffer_sync lets in one reader for each character in the buffer.
SyncCounts ==
    LET admitted == {r \in Readers : at[r] \in {"sync", "take"}
                                     /\ r \notin Range(keyboard_buffer_sync.waiting)}
        free == IF keyboard_buffer_sync.count > 0 THEN keyboard_buffer_sync.count ELSE 0
    IN  Len(unread) = free + Cardinality(admitted) + IF pc = "sync" THEN 1 ELSE 0

\* The ring and the semaphore that counts its characters agree with what was
\* stored and taken.
RingOK == TypeOK /\ RingHolds /\ SyncCounts

\* The characters in the buffer are those that were meant when their keys were
\* pressed, however late the driver reads the bytes, unless an answer was mistaken.
CharsAsMeant ==
    ~swallowed => \A i \in DOMAIN unread : unread[i].char.caps = unread[i].meant

\* When the driver has read all there is, it agrees with the keyboard on the
\* keys held down and the lock.
KeysFollow ==
    pc = "wait" /\ port = <<>> /\ ~swallowed =>
        /\ \A k \in Keys : is_key_pressed[k] = (k \in down)
        /\ is_caps_lock_active = lock

\* The driver understands the keyboard, unless it took the byte of a key for
\* the answer to a command.
KeysOK == CharsAsMeant /\ KeysFollow

\* The driver waits only when the byte it has not read will interrupt it.
ByteWillInterrupt ==
    pc = "wait" /\ port # <<>> => irq

\* Neither the polling of the port nor a reader holds the driver forever.
DriverComesBack ==
    pc # "start" ~> pc = "wait"

\* A reader that asks gets a character if there is one.
ReaderServed ==
    \A r \in Readers :
        at[r] = "sync" /\ unread # <<>> ~> at[r] = "caller" \/ unread = <<>>

\* "we have sufficient space in the buffer" (main): no unread character is overwritten.
SufficientSpace ==
    pc = "store" /\ ~Blocked(Driver) /\ HasSpace => Len(unread) < MAX_BUFFER_LEN

=============================================================================
