-------------------------- MODULE M68kMemoryProofs --------------------------
(***************************************************************************)
(* Proofs about M68kMemory, for every memory map, boot table and set of    *)
(* programs its assumptions allow.  The invariant is TypeOK with QueueInv, *)
(* what the queue holds against the memory: neither is inductive alone.    *)
(***************************************************************************)
EXTENDS M68kMemory, TLAPS

USE DEF vars, queueVars, cpuVars, memVars
USE DEF Addresses, Ram, InRam, Phases, is_booting, Running

-----------------------------------------------------------------------------
(* The memory map.                                                         *)

\* What a read returns is a word.
LEMMA WordsAreWords ==
  ASSUME TypeOK, NEW a \in Nat, Even(a), NEW w \in WordsAt(a)
  PROVE w \in Word
<1>1. CASE is_booting /\ a \div 2 <= 3
  <2>1. a \div 2 \in 0..3
    BY <1>1
  <2>2. w = BootTable[a \div 2]
    BY <1>1 DEF WordsAt
  <2> QED
    BY <2>1, <2>2, BootAssumption
<1>2. CASE is_booting /\ ~(a \div 2 <= 3)
  <2>1. w \in Data \X Data
    BY <1>2 DEF WordsAt
  <2> QED
    BY <2>1, DataAssumption DEF Word
<1>3. CASE ~is_booting /\ a \in XoseraWindow
  <2>1. w \in {0} \X Data
    BY <1>3 DEF WordsAt
  <2> QED
    BY <2>1, DataAssumption DEF Word
<1>4. CASE ~is_booting /\ a \notin XoseraWindow
  <2>1. a <= MaxRam /\ w = WordAt(a)
    <3>1. CASE a > MaxRam
      <4>1. WordsAt(a) = {}
        BY <1>4, <3>1 DEF WordsAt
      <4> QED
        BY <4>1
    <3>2. CASE ~(a > MaxRam)
      <4>1. WordsAt(a) = {WordAt(a)}
        BY <1>4, <3>2 DEF WordsAt
      <4> QED
        BY <4>1, <3>2, MapAssumption
    <3> QED
      BY <3>1, <3>2
  <2>2. a \in Ram /\ a + 1 \in Ram
    BY <2>1, MapAssumption DEF Even
  <2> QED
    BY <2>1, <2>2 DEF WordAt, Word, TypeOK
<1> QED
  BY <1>1, <1>2, <1>3, <1>4

\* Outside the reset, a read that returns finds the RAM or Xosera.
LEMMA WordsHaveAddress ==
  ASSUME NEW a \in Nat, ~is_booting, NEW w \in WordsAt(a)
  PROVE a \in Addresses
<1>1. CASE a \in XoseraWindow \/ a <= MaxRam
  BY <1>1, MapAssumption DEF XoseraWindow
<1>2. CASE ~(a \in XoseraWindow) /\ ~(a <= MaxRam)
  <2>1. a > MaxRam
    BY <1>2, MapAssumption
  <2>2. WordsAt(a) = {}
    BY <1>2, <2>1 DEF WordsAt
  <2> QED
    BY <2>2
<1> QED
  BY <1>1, <1>2

\* The address of a word in the RAM is not in the window.
LEMMA RamWords ==
  ASSUME TypeOK, NEW a \in Ram, Even(a), ~is_booting
  PROVE WordsAt(a) = {WordAt(a)} /\ a + 1 \in Ram
BY MapAssumption DEF WordsAt, XoseraWindow, Even

\* The table, at the addresses the reset fetches from.
LEMMA TableWords ==
  ASSUME NEW n \in 0..3, is_booting
  PROVE WordsAt(2 * n) = {BootTable[n]}
BY DEF WordsAt

\* Even addresses stay even.
LEMMA EvenNext ==
  ASSUME NEW a \in Nat, Even(a)
  PROVE a + 2 \in Nat /\ Even(a + 2)
BY DEF Even

-----------------------------------------------------------------------------
(* Types.                                                                  *)

\* A fetch keeps the types of what it changes.
LEMMA FetchTypes ==
  ASSUME TypeOK, QueueInv, NEW word \in Delivered, Fetch(word),
         is_booting => Len(vector) < 4
  PROVE /\ word \in Word
        /\ pc' \in Addresses /\ pref_addr' \in Addresses
        /\ pref_data' \in Word
        /\ dirty' \in BOOLEAN
<1>1. pc \in Nat /\ Even(pc)
  BY DEF Fetch, TypeOK
<1>2. word \in Word
  BY <1>1, WordsAreWords DEF Delivered, TypeOK
<1>3. pref_data' \in Word
  BY <1>1, EvenNext, WordsAreWords DEF Fetch
<1>4. pc + 2 \in Addresses
  <2>1. CASE is_booting
    <3>1. pc = 2 * Len(vector) /\ Len(vector) \in Nat
      BY <2>1 DEF QueueInv, TypeOK
    <3> QED
      BY <2>1, <3>1, MapAssumption
  <2>2. CASE ~is_booting
    BY <1>1, <2>2, WordsHaveAddress DEF Fetch
  <2> QED
    BY <2>1, <2>2
<1> QED
  BY <1>2, <1>3, <1>4 DEF Fetch

\* The vector of the reset is the table's.
LEMMA VectorIsTable ==
  ASSUME QueueInv, is_booting, TypeOK, Len(vector) = 4
  PROVE LongOf(vector[3], vector[4]) = EntryPoint
BY DEF QueueInv, EntryPoint

\* What main loads is bytes.
LEMMA ImageTypes ==
  ASSUME NEW program \in Programs
  PROVE Image(program) \in [Ram -> Byte]
<1>1. program \in Seq(Byte)
  BY DataAssumption
<1>2. \A i \in DOMAIN program : program[i] \in Byte
  BY <1>1
<1> QED
  BY <1>2 DEF Image, Byte

\* What a store leaves is bytes.
LEMMA StoredTypes ==
  ASSUME TypeOK, NEW size \in {1, 2, 4}, NEW a \in Ram,
         NEW v \in [1..size -> Data]
  PROVE Stored(size, a, v) \in [Ram -> Byte]
BY MapAssumption, DataAssumption DEF Stored, Span, TypeOK

\* Every step keeps TypeOK.
LEMMA TypeStep ==
  ASSUME TypeOK, QueueInv, [Next]_vars
  PROVE TypeOK'
<1>1. CASE Load
  BY <1>1, ImageTypes DEF Load, MayLoad, TypeOK
<1>2. CASE LoadFails
  BY <1>2 DEF LoadFails, MayLoad, Fault, Endings, TypeOK
<1>3. CASE BeginReset
  BY <1>3, BootAssumption, MapAssumption DEF BeginReset, TypeOK
<1>4. CASE BootFetch
  <2>1. PICK word \in Delivered : Fetch(word) /\ vector' = Append(vector, word)
    BY <1>4 DEF BootFetch
  <2>2. /\ word \in Word /\ pc' \in Addresses /\ pref_addr' \in Addresses
        /\ pref_data' \in Word /\ dirty' \in BOOLEAN
    BY <1>4, <2>1, FetchTypes DEF BootFetch
  <2>3. vector' \in Seq(Word) /\ Len(vector') <= 4
    BY <1>4, <2>1, <2>2 DEF BootFetch, TypeOK
  <2> QED
    BY <1>4, <2>2, <2>3 DEF BootFetch, TypeOK
<1>5. CASE EndReset
  <2>1. pc' = EntryPoint
    BY <1>5, VectorIsTable DEF EndReset
  <2>2. EntryPoint \in Addresses
    BY BootAssumption, MapAssumption
  <2> QED
    BY <1>5, <2>1, <2>2 DEF EndReset, TypeOK
<1>6. CASE BeginInstruction
  <2>1. PICK word \in Delivered : Fetch(word)
    BY <1>6 DEF BeginInstruction
  <2>2. /\ pc' \in Addresses /\ pref_addr' \in Addresses
        /\ pref_data' \in Word /\ dirty' \in BOOLEAN
    BY <1>6, <2>1, FetchTypes DEF BeginInstruction
  <2> QED
    BY <1>6, <2>2 DEF BeginInstruction, TypeOK
<1>7. CASE FetchExtension
  <2>1. PICK word \in Delivered : Fetch(word)
    BY <1>7 DEF FetchExtension
  <2>2. /\ pc' \in Addresses /\ pref_addr' \in Addresses
        /\ pref_data' \in Word /\ dirty' \in BOOLEAN
    BY <1>7, <2>1, FetchTypes DEF FetchExtension
  <2> QED
    BY <1>7, <2>2 DEF FetchExtension, TypeOK
<1>8. CASE OpcodeFaults
  BY <1>8 DEF OpcodeFaults, Endings, TypeOK
<1>9. CASE ExtensionFaults
  BY <1>9 DEF ExtensionFaults, Fault, Endings, TypeOK
<1>10. CASE EndInstruction \/ AddressErrorEnds \/ OpcodeAddressError
  BY <1>10
  DEF EndInstruction, AddressErrorEnds, OpcodeAddressError, TypeOK
<1>11. CASE Jump
  BY <1>11, DataAssumption DEF Jump, TypeOK
<1>12. ASSUME NEW size \in {1, 2, 4}, NEW a \in Addresses, ReadData(size, a)
       PROVE TypeOK'
  BY <1>12 DEF ReadData, TypeOK
<1>13. ASSUME NEW size \in {1, 2, 4}, NEW a \in Addresses, WriteRam(size, a)
       PROVE TypeOK'
  <2>1. ram' \in [Ram -> Byte]
    <3>1. PICK v \in [1..size -> Data] : ram' = Stored(size, a, v)
      BY <1>13 DEF WriteRam
    <3>2. a \in Ram
      BY <1>13 DEF WriteRam
    <3> QED
      BY <3>1, <3>2, StoredTypes
  <2>2. writes' \in 0..MaxWrites
    BY <1>13, DataAssumption DEF WriteRam, TypeOK
  <2>3. overrun' \in BOOLEAN /\ dirty' \in BOOLEAN
    BY <1>13 DEF WriteRam
  <2> QED
    BY <1>13, <2>1, <2>2, <2>3 DEF WriteRam, TypeOK
<1>14. ASSUME NEW a \in Addresses, WriteXosera(a) \/ AccessFaults(a)
       PROVE TypeOK'
  BY <1>14 DEF WriteXosera, AccessFaults, Fault, Endings, TypeOK
<1>15. CASE UNCHANGED vars
  BY <1>15 DEF TypeOK
<1> QED
  BY <1>1, <1>2, <1>3, <1>4, <1>5, <1>6, <1>7, <1>8, <1>9, <1>10, <1>11, <1>12,
     <1>13, <1>14, <1>15
  DEF Next, CpuStep, MainStep

-----------------------------------------------------------------------------
(* The queue.                                                              *)

\* A fetch outside the reset leaves the word at its address in the queue.
LEMMA FetchFills ==
  ASSUME TypeOK, NEW word, Fetch(word), ~is_booting
  PROVE /\ pref_addr' \in Nat /\ Even(pref_addr')
        /\ pref_addr' \in Ram => pref_data' = WordAt(pref_addr')
<1>1. pc + 2 \in Nat /\ Even(pc + 2)
  BY EvenNext DEF Fetch, TypeOK
<1>2. CASE pc + 2 \in Ram
  <2>1. WordsAt(pc + 2) = {WordAt(pc + 2)}
    BY <1>1, <1>2, RamWords
  <2> QED
    BY <1>1, <2>1 DEF Fetch
<1>3. CASE pc + 2 \notin Ram
  BY <1>1, <1>3 DEF Fetch
<1> QED
  BY <1>2, <1>3

\* A store that spares a word leaves it as it is.
LEMMA StoreSpares ==
  ASSUME NEW size, NEW a, NEW v, NEW w \in Ram, w + 1 \in Ram,
         {w, w + 1} \cap Span(size, a) = {}
  PROVE /\ Stored(size, a, v)[w] = ram[w]
        /\ Stored(size, a, v)[w + 1] = ram[w + 1]
BY DEF Stored

\* Every step keeps QueueInv.
LEMMA QueueStep ==
  ASSUME TypeOK, QueueInv, [Next]_vars
  PROVE QueueInv'
<1>1. CASE Load
  BY <1>1 DEF Load, MayLoad, QueueInv
<1>2. CASE LoadFails
  BY <1>2 DEF LoadFails, MayLoad, Fault, QueueInv, WordAt
<1>3. CASE BeginReset
  BY <1>3, BootAssumption DEF BeginReset, QueueInv
<1>4. CASE BootFetch
  <2>1. PICK word \in Delivered : Fetch(word) /\ vector' = Append(vector, word)
    BY <1>4 DEF BootFetch
  <2> DEFINE n == Len(vector)
  <2>2. n \in 0..3 /\ pc = 2 * n /\ is_booting
    <3>1. Len(vector) \in Nat /\ Len(vector) < 4 /\ is_booting
      BY <1>4 DEF BootFetch, TypeOK
    <3>2. pc = 2 * Len(vector)
      BY <3>1 DEF QueueInv
    <3>3. \A m \in Nat : m < 4 => m \in 0..3
      OBVIOUS
    <3>4. Len(vector) \in 0..3
      BY <3>1, <3>3, Zenon
    <3> QED
      BY <3>1, <3>2, <3>4
  <2>3. word \in Word
    BY <1>4, <2>1, FetchTypes DEF BootFetch
  <2>4. Len(vector') = n + 1 /\ vector'[n + 1] = word
        /\ \A i \in 1..n : vector'[i] = vector[i]
    BY <2>1, <2>3 DEF TypeOK
  <2>5. word = BootTable[n]
    <3>1. CASE pc = pref_addr
      <4>1. n # 0
        BY <2>2, <3>1, BootAssumption DEF QueueInv, TypeOK
      <4> QED
        BY <2>1, <2>2, <3>1, <4>1 DEF Delivered, QueueInv
    <3>2. CASE pc # pref_addr
      BY <2>1, <2>2, <3>2, TableWords DEF Delivered
    <3> QED
      BY <3>1, <3>2
  <2>6. n < 3 => pref_data' = BootTable[n + 1]
    <3> SUFFICES ASSUME n < 3
                 PROVE pref_data' = BootTable[n + 1]
      OBVIOUS
    <3>1. WordsAt(2 * (n + 1)) = {BootTable[n + 1]}
      BY <2>2, TableWords
    <3>2. pc + 2 = 2 * (n + 1)
      BY <2>2
    <3> QED
      BY <2>1, <3>1, <3>2 DEF Fetch
  <2>7. pc' = 2 * (n + 1) /\ pref_addr' = pc' /\ Even(pref_addr')
    BY <2>1, <2>2 DEF Fetch, Even
  <2>8. \A i \in 1..(n + 1) : vector'[i] = BootTable[i - 1]
    BY <2>2, <2>4, <2>5 DEF QueueInv
  <2>9. vector' # <<>> /\ phase' = "boot"
    BY <1>4, <2>2, <2>4 DEF BootFetch
  <2> QED
    BY <2>2, <2>4, <2>6, <2>7, <2>8, <2>9 DEF QueueInv
<1>5. CASE EndReset
  <2>1. pc' = EntryPoint
    BY <1>5, VectorIsTable DEF EndReset
  <2>2. pref_addr = 8
    <3>1. vector # <<>> /\ is_booting /\ Len(vector) = 4
      BY <1>5 DEF EndReset
    <3>2. pref_addr = pc /\ pc = 2 * 4
      BY <3>1 DEF QueueInv
    <3> QED
      BY <3>2
  <2> QED
    BY <1>5, <2>1, <2>2 DEF EndReset, QueueInv
<1>6. CASE BeginInstruction
  <2>1. PICK word \in Delivered : Fetch(word)
    BY <1>6 DEF BeginInstruction
  <2>2. /\ pref_addr' \in Nat /\ Even(pref_addr')
        /\ pref_addr' \in Ram => pref_data' = WordAt(pref_addr')
    BY <1>6, <2>1, FetchFills DEF BeginInstruction
  <2>3. Even(pref_addr)'
    BY <2>2 DEF Even
  <2>4. (pref_addr <= MaxRam => pref_data = WordAt(pref_addr))'
    BY <1>6, <2>2, MapAssumption DEF BeginInstruction, WordAt
  <2>5. phase' = "run"
    BY <1>6 DEF BeginInstruction
  <2> QED
    BY <2>3, <2>4, <2>5 DEF QueueInv
<1>7. CASE FetchExtension
  <2>1. PICK word \in Delivered : Fetch(word)
    BY <1>7 DEF FetchExtension
  <2>2. /\ pref_addr' \in Nat /\ Even(pref_addr')
        /\ pref_addr' \in Ram => pref_data' = WordAt(pref_addr')
    BY <1>7, <2>1, FetchFills DEF FetchExtension
  <2>3. Even(pref_addr)'
    BY <2>2 DEF Even
  <2>4. (pref_addr <= MaxRam => pref_data = WordAt(pref_addr))'
    BY <1>7, <2>2, MapAssumption DEF FetchExtension, WordAt
  <2>5. phase' = "run"
    BY <1>7 DEF FetchExtension
  <2> QED
    BY <2>3, <2>4, <2>5 DEF QueueInv
<1>8. CASE OpcodeFaults
  BY <1>8 DEF OpcodeFaults, QueueInv, WordAt
<1>9. CASE ExtensionFaults
  BY <1>9 DEF ExtensionFaults, Fault, QueueInv, WordAt
<1>10. CASE EndInstruction \/ AddressErrorEnds \/ OpcodeAddressError
  BY <1>10
  DEF EndInstruction, AddressErrorEnds, OpcodeAddressError, QueueInv, WordAt
<1>11. CASE Jump
  BY <1>11 DEF Jump, QueueInv, WordAt
<1>12. ASSUME NEW size \in {1, 2, 4}, NEW a \in Addresses, ReadData(size, a)
       PROVE QueueInv'
  BY <1>12 DEF ReadData, QueueInv, WordAt
<1>13. ASSUME NEW size \in {1, 2, 4}, NEW a \in Addresses, WriteRam(size, a)
       PROVE QueueInv'
  <2>1. ASSUME ~dirty', pref_addr \in Ram
        PROVE pref_data = <<ram'[pref_addr], ram'[pref_addr + 1]>>
    <3>1. ~dirty /\ {pref_addr, pref_addr + 1} \cap Span(size, a) = {}
      BY <1>13, <2>1 DEF WriteRam
    <3>2. Even(pref_addr) /\ pref_addr + 1 \in Ram
      BY <2>1, MapAssumption DEF QueueInv, Even
    <3>3. PICK v : ram' = Stored(size, a, v)
      BY <1>13 DEF WriteRam
    <3>4. /\ ram'[pref_addr] = ram[pref_addr]
          /\ ram'[pref_addr + 1] = ram[pref_addr + 1]
      BY <2>1, <3>1, <3>2, <3>3, StoreSpares
    <3>5. pref_data = WordAt(pref_addr)
      BY <1>13, <2>1, <3>1, <3>2 DEF WriteRam, QueueInv
    <3> QED
      BY <3>4, <3>5 DEF WordAt
  <2> QED
    BY <1>13, <2>1 DEF WriteRam, QueueInv, WordAt, TypeOK
<1>14. ASSUME NEW a \in Addresses, WriteXosera(a) \/ AccessFaults(a)
       PROVE QueueInv'
  BY <1>14 DEF WriteXosera, AccessFaults, Fault, QueueInv, WordAt
<1>15. CASE UNCHANGED vars
  BY <1>15 DEF QueueInv, WordAt
<1> QED
  BY <1>1, <1>2, <1>3, <1>4, <1>5, <1>6, <1>7, <1>8, <1>9, <1>10, <1>11, <1>12,
     <1>13, <1>14, <1>15
  DEF Next, CpuStep, MainStep

\* The first state.
LEMMA InitInv ==
  ASSUME Init
  PROVE TypeOK /\ QueueInv
<1>1. /\ ram \in [Ram -> Byte] /\ 0 \in Addresses
      /\ pref_data \in Word /\ 0 \in 0..MaxWrites
  BY MapAssumption, DataAssumption DEF Init, Word, Byte
<1>2. vector \in Seq(Word) /\ Len(vector) = 0
  BY DEF Init
<1>3. overrun \in BOOLEAN /\ dirty \in BOOLEAN
  BY DEF Init
<1>4. TypeOK
  BY <1>1, <1>2, <1>3 DEF Init, TypeOK
<1>5. QueueInv
  BY DEF Init, QueueInv, Even
<1> QED
  BY <1>4, <1>5

\* The types, and what the queue holds, in every state.
THEOREM MemoryInvariance == Spec => [](TypeOK /\ QueueInv)
<1>1. Init => TypeOK /\ QueueInv
  BY InitInv
<1>2. TypeOK /\ QueueInv /\ [Next]_vars => (TypeOK /\ QueueInv)'
  BY TypeStep, QueueStep
<1> QED
  BY <1>1, <1>2, PTL DEF Spec

\* The types by themselves: the RAM holds bytes and the queue words, and a
\* reset has read no more than the four words of the boot table.
THEOREM MemoryTypes == Spec => []TypeOK
  BY MemoryInvariance, PTL

-----------------------------------------------------------------------------
(* What a program executes.                                                *)

(***************************************************************************)
(* What is fetched from the RAM is what it holds, but for one word that    *)
(* the program overwrote after it was prefetched.                          *)
(***************************************************************************)
THEOREM FetchesAreCurrent == Spec => []FetchIsCurrent
<1>1. TypeOK /\ QueueInv => FetchIsCurrent
  <2> SUFFICES ASSUME TypeOK, QueueInv, Running, Even(pc), InRam(pc),
                      ~(pc = pref_addr /\ dirty)
               PROVE Delivered = {WordAt(pc)}
    BY DEF FetchIsCurrent
  <2>1. CASE pc = pref_addr
    BY <2>1 DEF Delivered, QueueInv
  <2>2. CASE pc # pref_addr
    BY <2>2, RamWords DEF Delivered, TypeOK
  <2> QED
    BY <2>1, <2>2
<1> QED
  BY <1>1, MemoryInvariance, PTL

\* A reset leaves the stack pointer and the counter of the boot table.
THEOREM ResetVectors == Spec => []BootVectors
<1>1. QueueInv => BootVectors
  BY DEF QueueInv, BootVectors, InitialSp
<1> QED
  BY <1>1, MemoryInvariance, PTL

\* The first word executed after a reset is the one in the RAM.
THEOREM FirstWordsAreCurrent == Spec => []FirstWordCurrent
<1>1. TypeOK /\ QueueInv => FirstWordCurrent
  <2> SUFFICES ASSUME TypeOK, QueueInv, phase = "start"
               PROVE Delivered = {WordAt(EntryPoint)}
    BY DEF FirstWordCurrent
  <2>1. pc = EntryPoint /\ pref_addr = 8
    BY DEF QueueInv
  <2> QED
    BY <2>1, RamWords, BootAssumption DEF Delivered
<1> QED
  BY <1>1, MemoryInvariance, PTL

=============================================================================
