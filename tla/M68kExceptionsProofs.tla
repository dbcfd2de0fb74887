------------------------ MODULE M68kExceptionsProofs ------------------------
(***************************************************************************)
(* Proofs about M68kExceptions, for every size of the RAM, vector table    *)
(* and program: the types, the frames, and what RTE returns to; then the   *)
(* two modes.  User mode is left through a vector only, A7 and the bank    *)
(* implement StackPointers, and what is odd in user mode does not end the  *)
(* process.                                                                *)
(*                                                                         *)
(* Good is kept by every operator a step is composed of, whatever its      *)
(* status; so a step needs no more than the lemmas of its operators.       *)
(* For the modes, a handler is either Ordinary, and keeps the mode and     *)
(* the bank, or an exception (Left), or the supervisor's (Supervised); an  *)
(* address error makes an ordinary one Left.  Moded says what all of them  *)
(* do to the two modes.                                                    *)
(***************************************************************************)
EXTENDS M68kExceptions, TLAPS

\* The status registers a frame may hold: those put together from fields.
SrOf(t, b, k, c) == 32768 * t + 2048 * (4 * b) + 256 * k + c

Srs == {v \in Word : SrOf((v \div 32768) % 2, (v \div 8192) % 2,
                         (v \div 256) % 8, v % 32) = v}

Good(m) == /\ m \in Machines
           /\ \A f \in m.frames : FrameAt(m, f) /\ f.sr \in Srs

USE DEF User, Supervisor, MODE_READ, MODE_WRITE, FUNCTION_CODE_USER_DATA,
        FUNCTION_CODE_USER_PROGRAM, INSTRUCTION_YES, INSTRUCTION_NO

LEMMA Sizes == /\ AddressSpace \in Nat /\ MaxRam \in Nat
               /\ MaxRam < AddressSpace - 1 /\ WordSize \in Nat
<1>1. WordSize \in Nat /\ AddressSpace \in Nat
  BY SizesAssumption
<1> QED BY <1>1, ExceptionAssumption

\* Writing the status register back gives the fields it was made of.
LEMMA SrRange ==
  ASSUME NEW m \in Machines
  PROVE  /\ GetSr(m) \in Srs
         /\ (GetSr(m) \div 32768) % 2 = m.t1
         /\ 4 * ((GetSr(m) \div 8192) % 2) = m.s
         /\ (GetSr(m) \div 256) % 8 = m.mask
         /\ GetSr(m) % 32 = m.ccr
<1>1. m.s \in {0, 4} /\ m.t1 \in {0, 1} /\ m.mask \in 0..7 /\ m.ccr \in 0..31
  BY DEF Machines
<1>2. PICK t \in {0, 1}, b \in {0, 1}, k \in 0..7, c \in 0..31 :
        m.t1 = t /\ m.s = 4 * b /\ m.mask = k /\ m.ccr = c
  BY <1>1
<1>3. PICK v : v = 32768 * t + 2048 * (4 * b) + 256 * k + c
  OBVIOUS
<1>4. GetSr(m) = v
  BY <1>2, <1>3 DEF GetSr
<1>5. /\ v \in Int /\ 0 <= v /\ v < 65536
      /\ (v \div 32768) % 2 = t /\ (v \div 8192) % 2 = b
      /\ (v \div 256) % 8 = k /\ v % 32 = c
  <2>1. v \in Int /\ 0 <= v /\ v < 65536 /\ v \div 32768 = t
    BY <1>3
  <2>2. v \div 8192 = 4 * t + b
    BY <1>3
  <2>3. v \div 256 = 128 * t + 32 * b + k
    BY <1>3
  <2>4. PICK q \in Int : q = 1024 * t + 256 * b + 8 * k
    OBVIOUS
  <2>5. v = 32 * q + c
    BY <1>3, <2>4
  <2>6. v % 32 = c
    BY <2>5
  <2>7. t % 2 = t /\ (4 * t + b) % 2 = b
    OBVIOUS
  <2>8. PICK u \in Int : u = 16 * t + 4 * b
    OBVIOUS
  <2>9. 128 * t + 32 * b + k = 8 * u + k
    BY <2>8
  <2>10. (128 * t + 32 * b + k) % 8 = k
    BY <2>9
  <2> QED BY <2>1, <2>2, <2>3, <2>6, <2>7, <2>10
<1>6. v < WordSize /\ WordSize \in Nat
  BY <1>5, SizesAssumption
<1>7. v \in Word
  BY <1>5, <1>6 DEF Word
<1>8. v \in Srs
  <2>1. v = SrOf(t, b, k, c)
    BY <1>3 DEF SrOf
  <2>2. SrOf((v \div 32768) % 2, (v \div 8192) % 2, (v \div 256) % 8, v % 32)
          = SrOf(t, b, k, c)
    BY <1>5
  <2> QED BY <1>7, <2>1, <2>2 DEF Srs
<1> QED BY <1>2, <1>4, <1>5, <1>8

\* What does not touch the RAM, nor the history, keeps the frames.
LEMMA SameRam ==
  ASSUME NEW m, Good(m), NEW n \in Machines,
         n.ram = m.ram, n.frames = m.frames
  PROVE  Good(n)
BY DEF Good, FrameAt, LongAt

LEMMA SetSGood ==
  ASSUME NEW m, Good(m), NEW value \in {User, Supervisor}
  PROVE  Good(SetS(m, value))
<1>1. PICK b : b = [m.base EXCEPT ![m.s] = m.sp]
  OBVIOUS
<1>2. b \in [{User, Supervisor} -> Address]
  BY <1>1 DEF Good, Machines
<1>2a. PICK a \in Address : a = b[value]
  BY <1>2
<1>3. SetS(m, value) = [m EXCEPT !.base = b, !.s = value, !.sp = a]
  BY <1>1, <1>2a DEF SetS
<1>4. /\ SetS(m, value) \in Machines
      /\ SetS(m, value).ram = m.ram /\ SetS(m, value).frames = m.frames
  BY <1>2, <1>3 DEF Good, Machines
<1> QED BY <1>4, SameRam

LEMMA SetSrNointGood ==
  ASSUME NEW m, Good(m), NEW value \in Word
  PROVE  Good(SetSrNoint(m, value))
<1>1. value \in Nat
  BY Sizes DEF Word
<1>2. PICK t \in {0, 1}, k \in 0..7, c \in 0..31, s \in {User, Supervisor} :
        /\ t = (value \div 32768) % 2 /\ k = (value \div 256) % 8
        /\ c = value % 32 /\ s = 4 * ((value \div 8192) % 2)
  BY <1>1
<1>3. PICK n : n = [m EXCEPT !.t1 = t, !.mask = k, !.ccr = c]
  OBVIOUS
<1>4. n \in Machines /\ n.ram = m.ram /\ n.frames = m.frames
  BY <1>3 DEF Good, Machines
<1>5. Good(n)
  BY <1>4, SameRam
<1>6. SetSrNoint(m, value) = SetS(n, s)
  BY <1>2, <1>3 DEF SetSrNoint
<1> QED BY <1>5, <1>6, SetSGood

LEMMA AddressRange ==
  ASSUME NEW i \in Int
  PROVE  /\ ADDRESS_68K(i) \in Address
         /\ i \in Address => ADDRESS_68K(i) = i
<1>1. /\ ADDRESS_68K(i) \in Int
      /\ 0 <= ADDRESS_68K(i) /\ ADDRESS_68K(i) < AddressSpace
      /\ 0 <= i /\ i < AddressSpace => ADDRESS_68K(i) = i
  BY SizesAssumption DEF ADDRESS_68K
<1> QED BY <1>1, Sizes DEF Address

\* Below zero an address is at the end of the space, where there is no RAM.
LEMMA AddressBelow ==
  ASSUME NEW i \in Address, NEW d \in {2, 4}, ADDRESS_68K(i - d) + d - 1 <= MaxRam
  PROVE  i >= d /\ ADDRESS_68K(i - d) = i - d
<1>1. i \in Int /\ 0 <= i /\ i < AddressSpace
  BY Sizes DEF Address
<1>2. i < d => ADDRESS_68K(i - d) = i - d + AddressSpace
  BY <1>1, SizesAssumption DEF ADDRESS_68K
<1>3. i >= d => ADDRESS_68K(i - d) = i - d
  BY <1>1, SizesAssumption DEF ADDRESS_68K
<1> QED BY <1>1, <1>2, <1>3, Sizes

\* What an access, a push or a pull that succeeds, has done to m to give n.
Accessed(m, a, bytes, n) ==
  /\ a \in RamWords /\ a + bytes - 1 <= MaxRam
  /\ bytes = 4 => a + 2 \in RamWords
  /\ n = m

PushedWord(m, v, n) ==
  LET a == ADDRESS_68K(m.sp - 2) IN
  /\ m.status = "ok" /\ a \in RamWords
  /\ n = [m EXCEPT !.sp = a, !.ram = [m.ram EXCEPT ![a] = v],
                   !.frames = Keep(m.frames, {a})]

PushedLong(m, v, n) ==
  LET a == ADDRESS_68K(m.sp - 4) IN
  /\ m.status = "ok" /\ a \in RamWords /\ a + 2 \in RamWords
  /\ n = [m EXCEPT !.sp = a,
                   !.ram = [m.ram EXCEPT ![a] = v \div WordSize,
                                         ![a + 2] = v % WordSize],
                   !.frames = Keep(m.frames, {a, a + 2})]

Pulled(m, bytes, n) ==
  /\ m.status = "ok" /\ m.sp \in RamWords /\ m.sp + bytes - 1 <= MaxRam
  /\ bytes = 4 => m.sp + 2 \in RamWords
  /\ n = [m EXCEPT !.sp = m.sp + bytes]

Fits(m, a, bytes) == m.status = "ok" /\ Even(a) /\ a + bytes - 1 <= MaxRam

\* An access changes the status and what is kept of an address error only.
LEMMA AccessGood ==
  ASSUME NEW m, Good(m), NEW a \in Address, NEW bytes \in {2, 4},
         NEW mode \in {MODE_READ, MODE_WRITE},
         NEW fc \in {FUNCTION_CODE_USER_DATA, FUNCTION_CODE_USER_PROGRAM}
  PROVE  LET n == Access(m, a, bytes, mode, fc) IN
         /\ Good(n)
         /\ m.status = "ok" /\ n.status = "ok" => Accessed(m, a, bytes, n)
         /\ Fits(m, a, bytes) => n.status = "ok"
<1>1. a \in Nat /\ MaxRam \in Nat
  BY Sizes DEF Address
<1>2. PICK access \in 0..22 : access = mode + m.s + fc
  BY DEF Good, Machines
<1>3. PICK w : w = Access(m, a, bytes, mode, fc)
  OBVIOUS
<1>4. CASE ~Even(a)
  <2>1. w = [m EXCEPT !.status = "aerr",
                      !.aerr = [address |-> a, access |-> access]]
    BY <1>2, <1>3, <1>4 DEF Access
  <2>2. w \in Machines /\ w.ram = m.ram /\ w.frames = m.frames
        /\ w.status = "aerr"
    BY <2>1 DEF Good, Machines
  <2>3. Good(w)
    BY <2>2, SameRam
  <2> QED BY <2>2, <2>3, <1>3, <1>4 DEF Fits
<1>5. CASE Even(a) /\ a \notin 0..MaxRam
  <2>1. w = [m EXCEPT !.status = "exit", !.aerr = m.aerr]
    BY <1>3, <1>5 DEF Access
  <2>2. w \in Machines /\ w.ram = m.ram /\ w.frames = m.frames
        /\ w.status = "exit"
    BY <2>1 DEF Good, Machines
  <2>3. Good(w)
    BY <2>2, SameRam
  <2> QED BY <2>2, <2>3, <1>1, <1>3, <1>5 DEF Fits
<1>6. CASE Even(a) /\ a \in 0..MaxRam /\ a + bytes - 1 > MaxRam
  <2>1. w = [m EXCEPT !.status = "lost", !.aerr = m.aerr]
    BY <1>3, <1>6 DEF Access
  <2>2. w \in Machines /\ w.ram = m.ram /\ w.frames = m.frames
        /\ w.status = "lost"
    BY <2>1 DEF Good, Machines
  <2>3. Good(w)
    BY <2>2, SameRam
  <2> QED BY <2>2, <2>3, <1>1, <1>3, <1>6 DEF Fits
<1>7. CASE Even(a) /\ a \in 0..MaxRam /\ ~(a + bytes - 1 > MaxRam)
  <2>1. w = [m EXCEPT !.status = "ok", !.aerr = m.aerr]
    BY <1>3, <1>7 DEF Access
  <2>2. /\ w \in Machines /\ w.ram = m.ram /\ w.frames = m.frames
        /\ w.status = "ok"
        /\ m.status = "ok" => w = m
    BY <2>1 DEF Good, Machines
  <2>3. Good(w)
    BY <2>2, SameRam
  <2>4. a \in RamWords /\ (bytes = 4 => a + 2 \in RamWords)
        /\ a + bytes - 1 <= MaxRam
    BY <1>7, <1>1 DEF RamWords, Even
  <2>5. m.status = "ok" => Accessed(m, a, bytes, w)
    BY <2>2, <2>4 DEF Accessed
  <2> QED BY <2>2, <2>3, <2>5, <1>3
<1> QED BY <1>1, <1>4, <1>5, <1>6, <1>7

\* Frames that are kept are not touched by what is written.
LEMMA KeptFrames ==
  ASSUME NEW m, Good(m), NEW n, n \in Machines, NEW written \in SUBSET RamWords,
         n.frames = Keep(m.frames, written),
         \A a \in RamWords \ written : n.ram[a] = m.ram[a]
  PROVE  Good(n)
<1> SUFFICES ASSUME NEW f \in n.frames PROVE FrameAt(n, f) /\ f.sr \in Srs
  BY DEF Good
<1>1. f \in m.frames /\ {f.at, f.at + 2, f.at + 4} \intersect written = {}
  BY DEF Keep
<1>2. FrameAt(m, f) /\ f.sr \in Srs
  BY <1>1 DEF Good
<1>3. /\ f.at \in RamWords \ written /\ f.at + 2 \in RamWords \ written
      /\ f.at + 4 \in RamWords \ written
  BY <1>1, <1>2 DEF FrameAt
<1>4. f.at \in Int /\ (f.at + 2) + 2 = f.at + 4
  BY <1>3 DEF RamWords
<1> QED BY <1>2, <1>3, <1>4 DEF FrameAt, LongAt

LEMMA PushWordGood ==
  ASSUME NEW m, Good(m), NEW v \in Word
  PROVE  LET p == PushWord(m, v) IN
         /\ Good(p)
         /\ p.status = "ok" => PushedWord(m, v, p)
         /\ m.sp >= 2 /\ Fits(m, m.sp - 2, 2) => p.status = "ok"
<1>1. m.sp - 2 \in Int
  BY Sizes DEF Good, Machines, Address
<1>2. PICK a \in Address : a = ADDRESS_68K(m.sp - 2)
  BY <1>1, AddressRange
<1>3. PICK n : n = [m EXCEPT !.sp = a]
  OBVIOUS
<1>4. PICK w : w = Access(n, a, 2, MODE_WRITE, FUNCTION_CODE_USER_DATA)
  OBVIOUS
<1>5. PICK r : r = [w EXCEPT !.ram = [m.ram EXCEPT ![a] = v],
                             !.frames = Keep(m.frames, {a})]
  OBVIOUS
<1>6. PICK p : p = PushWord(m, v)
  OBVIOUS
<1>7. p = Then(m, Then(w, r))
  BY <1>2, <1>3, <1>4, <1>5, <1>6 DEF PushWord
<1>8. n \in Machines /\ n.ram = m.ram /\ n.frames = m.frames
      /\ n.status = m.status
  BY <1>3 DEF Good, Machines
<1>9. Good(n)
  BY <1>8, SameRam
<1>10. /\ Good(w)
       /\ n.status = "ok" /\ w.status = "ok" => Accessed(n, a, 2, w)
       /\ Fits(n, a, 2) => w.status = "ok"
  BY <1>4, <1>9, AccessGood
<1>f. ASSUME m.sp >= 2, Fits(m, m.sp - 2, 2) PROVE w.status = "ok"
  <2>1. m.sp - 2 \in Address
    BY <1>1, <1>f, Sizes DEF Good, Machines, Address
  <2>2. a = m.sp - 2
    BY <1>1, <1>2, <2>1, AddressRange
  <2> QED BY <1>f, <1>8, <1>10, <2>2 DEF Fits
<1>11. CASE m.status # "ok"
  BY <1>6, <1>7, <1>11 DEF Then, Fits
<1>12. CASE m.status = "ok" /\ w.status # "ok"
  BY <1>6, <1>7, <1>f, <1>10, <1>12 DEF Then
<1>13. CASE m.status = "ok" /\ w.status = "ok"
  <2>1. p = r
    BY <1>7, <1>13 DEF Then
  <2>2. a \in RamWords /\ w = n
    BY <1>8, <1>10, <1>13 DEF Accessed
  <2>3. PICK ram \in [RamWords -> Word] : ram = [m.ram EXCEPT ![a] = v]
    BY <2>2 DEF Good, Machines
  <2>4. PICK frames \in SUBSET Frames : frames = Keep(m.frames, {a})
    BY DEF Good, Machines, Keep
  <2>5. r = [m EXCEPT !.sp = a, !.ram = ram, !.frames = frames]
    BY <1>3, <1>5, <2>2, <2>3, <2>4
  <2>6. r \in Machines /\ r.ram = ram /\ r.frames = frames /\ r.status = "ok"
    BY <1>13, <2>5 DEF Good, Machines
  <2>7. \A b \in RamWords \ {a} : r.ram[b] = m.ram[b]
    BY <2>3, <2>6 DEF Good, Machines
  <2>8. Good(r)
    BY <2>2, <2>4, <2>6, <2>7, KeptFrames
  <2>9. PushedWord(m, v, r)
    BY <1>2, <1>13, <2>2, <2>3, <2>4, <2>5 DEF PushedWord
  <2> QED BY <1>6, <2>1, <2>6, <2>8, <2>9
<1> QED BY <1>11, <1>12, <1>13

LEMMA Halves ==
  ASSUME NEW v \in Address, NEW h, h = v \div WordSize, NEW l, l = v % WordSize
  PROVE  h \in Word /\ l \in Word /\ (h % 256) * WordSize + l = v
<1>1. v \in Int /\ 0 <= v /\ v < AddressSpace
  BY Sizes DEF Address
<1>2. v < 16777216
  BY <1>1, SizesAssumption
<1>3. h = v \div 65536 /\ l = v % 65536
  BY SizesAssumption
<1>4. /\ h \in Int /\ l \in Int
      /\ 0 <= h /\ h < 256 /\ 0 <= l /\ l < 65536 /\ v = h * 65536 + l
  BY <1>1, <1>2, <1>3
<1>5. (h % 256) * WordSize + l = v
  BY <1>4, SizesAssumption
<1>6. h < WordSize /\ l < WordSize
  BY <1>4, SizesAssumption
<1> QED BY <1>4, <1>5, <1>6, Sizes DEF Word

LEMMA PushLongGood ==
  ASSUME NEW m, Good(m), NEW v \in Address
  PROVE  LET p == PushLong(m, v) IN
         /\ Good(p)
         /\ p.status = "ok" => PushedLong(m, v, p)
         /\ m.sp >= 4 /\ Fits(m, m.sp - 4, 4) => p.status = "ok"
<1>1. m.sp - 4 \in Int
  BY Sizes DEF Good, Machines, Address
<1>2. PICK a \in Address : a = ADDRESS_68K(m.sp - 4)
  BY <1>1, AddressRange
<1>3. PICK n : n = [m EXCEPT !.sp = a]
  OBVIOUS
<1>4. PICK w : w = Access(n, a, 4, MODE_WRITE, FUNCTION_CODE_USER_DATA)
  OBVIOUS
<1>h. PICK h \in Word, l \in Word : h = v \div WordSize /\ l = v % WordSize
  BY Halves
<1>5. PICK r : r = [w EXCEPT !.ram = [m.ram EXCEPT ![a] = h, ![a + 2] = l],
                             !.frames = Keep(m.frames, {a, a + 2})]
  OBVIOUS
<1>6. PICK p : p = PushLong(m, v)
  OBVIOUS
<1>7. p = Then(m, Then(w, r))
  BY <1>2, <1>3, <1>4, <1>h, <1>5, <1>6 DEF PushLong
<1>8. n \in Machines /\ n.ram = m.ram /\ n.frames = m.frames
      /\ n.status = m.status
  BY <1>3 DEF Good, Machines
<1>9. Good(n)
  BY <1>8, SameRam
<1>10. /\ Good(w)
       /\ n.status = "ok" /\ w.status = "ok" => Accessed(n, a, 4, w)
       /\ Fits(n, a, 4) => w.status = "ok"
  BY <1>4, <1>9, AccessGood
<1>f. ASSUME m.sp >= 4, Fits(m, m.sp - 4, 4) PROVE w.status = "ok"
  <2>1. m.sp - 4 \in Address
    BY <1>1, <1>f, Sizes DEF Good, Machines, Address
  <2>2. a = m.sp - 4
    BY <1>1, <1>2, <2>1, AddressRange
  <2> QED BY <1>f, <1>8, <1>10, <2>2 DEF Fits
<1>11. CASE m.status # "ok"
  BY <1>6, <1>7, <1>11 DEF Then, Fits
<1>12. CASE m.status = "ok" /\ w.status # "ok"
  BY <1>6, <1>7, <1>f, <1>10, <1>12 DEF Then
<1>13. CASE m.status = "ok" /\ w.status = "ok"
  <2>1. p = r
    BY <1>7, <1>13 DEF Then
  <2>2. a \in RamWords /\ a + 2 \in RamWords /\ w = n
    BY <1>8, <1>10, <1>13 DEF Accessed
  <2>3. PICK ram \in [RamWords -> Word] :
          ram = [m.ram EXCEPT ![a] = h, ![a + 2] = l]
    BY <2>2 DEF Good, Machines
  <2>4. PICK frames \in SUBSET Frames : frames = Keep(m.frames, {a, a + 2})
    BY DEF Good, Machines, Keep
  <2>5. r = [m EXCEPT !.sp = a, !.ram = ram, !.frames = frames]
    BY <1>3, <1>5, <2>2, <2>3, <2>4
  <2>6. r \in Machines /\ r.ram = ram /\ r.frames = frames /\ r.status = "ok"
    BY <1>13, <2>5 DEF Good, Machines
  <2>7. \A b \in RamWords \ {a, a + 2} : r.ram[b] = m.ram[b]
    BY <2>2, <2>3, <2>6 DEF Good, Machines
  <2>8. Good(r)
    BY <2>2, <2>4, <2>6, <2>7, KeptFrames
  <2>9. PushedLong(m, v, r)
    BY <1>2, <1>h, <1>13, <2>2, <2>3, <2>4, <2>5 DEF PushedLong
  <2> QED BY <1>6, <2>1, <2>6, <2>8, <2>9
<1> QED BY <1>11, <1>12, <1>13

LEMMA PullGood ==
  ASSUME NEW m, Good(m), NEW bytes \in {2, 4}
  PROVE  LET p == Pull(m, bytes) IN
         /\ Good(p)
         /\ p.status = "ok" => Pulled(m, bytes, p)
         /\ Fits(m, m.sp, bytes) => p.status = "ok"
<1>1. m.sp \in Address /\ m.sp \in Int /\ m.sp + bytes \in Int
  BY Sizes DEF Good, Machines, Address
<1>2. PICK b \in Address : b = ADDRESS_68K(m.sp + bytes)
  BY <1>1, AddressRange
<1>3. PICK n : n = [m EXCEPT !.sp = b]
  OBVIOUS
<1>a. PICK a \in Address : a = m.sp
  BY <1>1
<1>4. PICK w : w = Access(n, a, bytes, MODE_READ, FUNCTION_CODE_USER_DATA)
  OBVIOUS
<1>5. PICK p : p = Pull(m, bytes)
  OBVIOUS
<1>6. p = Then(m, w)
  BY <1>2, <1>3, <1>a, <1>4, <1>5 DEF Pull
<1>7. n \in Machines /\ n.ram = m.ram /\ n.frames = m.frames
      /\ n.status = m.status
  BY <1>3 DEF Good, Machines
<1>8. Good(n)
  BY <1>7, SameRam
<1>9. /\ Good(w)
      /\ n.status = "ok" /\ w.status = "ok" => Accessed(n, a, bytes, w)
      /\ Fits(n, a, bytes) => w.status = "ok"
  BY <1>4, <1>8, AccessGood
<1>13. CASE m.status # "ok"
  BY <1>5, <1>6, <1>13 DEF Then, Good, Fits
<1>14. CASE m.status = "ok"
  <2>1. p = w
    BY <1>6, <1>14 DEF Then
  <2>2. Fits(m, m.sp, bytes) => p.status = "ok"
    BY <1>a, <1>7, <1>9, <2>1 DEF Fits
  <2>3. ASSUME w.status = "ok" PROVE Pulled(m, bytes, w)
    <3>1. /\ a \in RamWords /\ a + bytes - 1 <= MaxRam
          /\ bytes = 4 => a + 2 \in RamWords
          /\ w = n
      BY <1>7, <1>9, <1>14, <2>3 DEF Accessed
    <3>2. m.sp + bytes \in Address
      BY <1>a, <1>1, <3>1, Sizes DEF Address
    <3>3. b = m.sp + bytes
      BY <1>1, <1>2, <3>2, AddressRange
    <3> QED BY <1>3, <1>a, <1>14, <3>1, <3>3 DEF Pulled
  <2> QED BY <1>5, <1>9, <2>1, <2>2, <2>3
<1> QED BY <1>13, <1>14

\* The two pushes of a frame leave it where the stack pointer is, and change
\* nothing else of the CPU.
FramedAs(m, pc, sr, p) ==
  /\ m.status = "ok"
  /\ m.sp \in 6..(MaxRam + 1) /\ m.sp - 6 \in RamWords
  /\ p = [m EXCEPT !.sp = m.sp - 6, !.ram = p.ram, !.frames = p.frames]
  /\ FrameAt(p, [at |-> m.sp - 6, pc |-> pc, sr |-> sr])

LEMMA FramePushed ==
  ASSUME NEW m, Good(m), NEW pc \in Address, NEW sr \in Word,
         NEW l, Good(l), PushedLong(m, pc, l),
         NEW p, Good(p), PushedWord(l, sr, p)
  PROVE  FramedAs(m, pc, sr, p)
<1>3. PICK a : a = ADDRESS_68K(m.sp - 4)
  OBVIOUS
<1>h. PICK h \in Word, w \in Word : h = pc \div WordSize /\ w = pc % WordSize
  BY Halves
<1>4. /\ m.status = "ok" /\ a \in RamWords /\ a + 2 \in RamWords
      /\ l = [m EXCEPT !.sp = a, !.ram = [m.ram EXCEPT ![a] = h, ![a + 2] = w],
                       !.frames = Keep(m.frames, {a, a + 2})]
  BY <1>3, <1>h DEF PushedLong
<1>5. PICK b : b = ADDRESS_68K(a - 2)
  OBVIOUS
<1>6. l.sp = a
  BY <1>4 DEF Good, Machines
<1>7. /\ b \in RamWords
      /\ p = [l EXCEPT !.sp = b, !.ram = [l.ram EXCEPT ![b] = sr],
                       !.frames = Keep(l.frames, {b})]
  BY <1>5, <1>6 DEF PushedWord
<1>8. m.sp \in Address /\ a \in Address
      /\ a \in 0..MaxRam /\ a + 2 \in 0..MaxRam /\ b \in 0..MaxRam
      /\ a % 2 = 0 /\ m.sp \in Int
  BY <1>4, <1>7, Sizes DEF Good, Machines, Address, RamWords, Even
<1>9. m.sp >= 4 /\ a = m.sp - 4
  <2>1. a + 4 - 1 <= MaxRam
    BY <1>4, <1>8, ExceptionAssumption DEF RamWords, Even
  <2> QED BY <1>3, <1>8, <2>1, AddressBelow
<1>10. a >= 2 /\ b = a - 2
  <2>1. b + 2 - 1 <= MaxRam
    BY <1>7, ExceptionAssumption DEF RamWords, Even
  <2> QED BY <1>5, <1>8, <2>1, AddressBelow
<1>11. m.sp <= MaxRam + 1
  BY <1>8, <1>9, ExceptionAssumption
<1>12. p.sp = b /\ b + 2 = a /\ b + 4 = a + 2 /\ b # a /\ b # a + 2
       /\ a # a + 2 /\ b = m.sp - 6
  BY <1>7, <1>8, <1>9, <1>10 DEF Good, Machines
<1>13. /\ l.ram \in [RamWords -> Word] /\ m.ram \in [RamWords -> Word]
       /\ l.ram = [m.ram EXCEPT ![a] = h, ![a + 2] = w]
       /\ p.ram = [l.ram EXCEPT ![b] = sr]
  BY <1>4, <1>7 DEF Good, Machines
<1>14. p.ram[b] = sr /\ p.ram[a] = h /\ p.ram[a + 2] = w
  BY <1>4, <1>7, <1>12, <1>13
<1>15. FrameAt(p, [at |-> m.sp - 6, pc |-> pc, sr |-> sr])
  <2>1. (h % 256) * WordSize + w = pc
    BY <1>h, Halves
  <2>2. LongAt(p, a) = pc
    BY <1>14, <2>1 DEF LongAt
  <2> QED BY <1>4, <1>7, <1>12, <1>14, <2>2 DEF FrameAt
<1>16. p = [m EXCEPT !.sp = b, !.ram = p.ram, !.frames = p.frames]
  <2>1. l = [m EXCEPT !.sp = a, !.ram = l.ram, !.frames = l.frames]
    <3>1. PICK x, y : l = [m EXCEPT !.sp = a, !.ram = x, !.frames = y]
      BY <1>4
    <3> QED BY <3>1 DEF Good, Machines
  <2>2. PICK x, y : p = [l EXCEPT !.sp = b, !.ram = x, !.frames = y]
    BY <1>7
  <2> QED BY <2>1, <2>2 DEF Good, Machines
<1>17. m.sp \in 6..(MaxRam + 1) /\ m.sp - 6 \in RamWords
  BY <1>7, <1>8, <1>9, <1>10, <1>11, <1>12, Sizes
<1> QED BY <1>4, <1>12, <1>15, <1>16, <1>17 DEF FramedAs

\* A frame that could be written is found where the stack pointer is, and
\* nothing else of the CPU has changed.
Framed(m, pc, sr, n) ==
  /\ m.status = "ok" /\ m.sp \in 6..(MaxRam + 1)
  /\ [at |-> m.sp - 6, pc |-> pc, sr |-> sr] \in n.frames
  /\ n = [m EXCEPT !.sp = m.sp - 6, !.ram = n.ram, !.frames = n.frames]

LEMMA StackFrameGood ==
  ASSUME NEW m, Good(m), NEW pc \in Address, NEW sr \in Srs
  PROVE  LET n == StackFrame(m, pc, sr) IN
         /\ Good(n)
         /\ n.status = "ok" => Framed(m, pc, sr, n)
         /\ m.sp >= 6 /\ Fits(m, m.sp - 6, 6) => n.status = "ok"
<1>s. sr \in Word
  BY DEF Srs
<1>0. PICK l : l = PushLong(m, pc)
  OBVIOUS
<1>1. PICK p : p = PushWord(l, sr)
  OBVIOUS
<1>2. PICK f : f = [at |-> p.sp, pc |-> pc, sr |-> sr]
  OBVIOUS
<1>3. PICK r : r = [p EXCEPT !.frames = p.frames \union {f}]
  OBVIOUS
<1>n. PICK n : n = StackFrame(m, pc, sr)
  OBVIOUS
<1>4. n = Then(p, r)
  BY <1>0, <1>1, <1>2, <1>3, <1>n DEF StackFrame
<1>l. /\ Good(l) /\ (l.status = "ok" => PushedLong(m, pc, l))
      /\ m.sp >= 4 /\ Fits(m, m.sp - 4, 4) => l.status = "ok"
  BY <1>0, PushLongGood
<1>5. /\ Good(p) /\ (p.status = "ok" => PushedWord(l, sr, p))
      /\ l.sp >= 2 /\ Fits(l, l.sp - 2, 2) => p.status = "ok"
  BY <1>s, <1>1, <1>l, PushWordGood
<1>f. ASSUME m.sp >= 6, Fits(m, m.sp - 6, 6) PROVE p.status = "ok"
  <2>1. m.sp \in Int /\ MaxRam \in Int
    BY Sizes DEF Good, Machines, Address
  <2>2. m.sp >= 4 /\ Fits(m, m.sp - 4, 4)
    BY <1>f, <2>1 DEF Fits, Even
  <2>3. l.status = "ok" /\ PushedLong(m, pc, l)
    BY <1>l, <2>2
  <2>4. m.sp - 4 \in Address
    BY <2>1, <2>2, Sizes DEF Good, Machines, Address
  <2>5. ADDRESS_68K(m.sp - 4) = m.sp - 4
    BY <2>1, <2>4, AddressRange
  <2>6. l.sp = m.sp - 4
    <3>1. PICK x, y : l = [m EXCEPT !.sp = ADDRESS_68K(m.sp - 4), !.ram = x,
                                    !.frames = y]
      BY <2>3 DEF PushedLong
    <3> QED BY <2>5, <3>1 DEF Good, Machines
  <2>7. l.sp - 2 = m.sp - 6 /\ l.sp >= 2
    BY <1>f, <2>1, <2>6
  <2>8. Fits(l, l.sp - 2, 2)
    BY <1>f, <2>1, <2>3, <2>7 DEF Fits
  <2> QED BY <1>5, <2>7, <2>8
<1>6. CASE p.status # "ok"
  BY <1>n, <1>4, <1>5, <1>6, <1>f DEF Then
<1>7. CASE p.status = "ok"
  <2>1. FramedAs(m, pc, sr, p)
    <3>1. l.status = "ok"
      BY <1>5, <1>7 DEF PushedWord
    <3> QED BY <1>s, <1>l, <1>5, <1>7, <3>1, FramePushed
  <2>2. n = r
    BY <1>4, <1>7 DEF Then
  <2>3. p.sp = m.sp - 6 /\ m.sp - 6 \in Address
    BY <1>5, <2>1, Sizes DEF FramedAs, Good, Machines, RamWords, Address
  <2>4. f \in Frames /\ FrameAt(p, f)
    BY <1>s, <1>2, <2>1, <2>3 DEF FramedAs, Frames
  <2>5. /\ r \in Machines /\ r.ram = p.ram /\ r.frames = p.frames \union {f}
        /\ r.status = "ok"
    BY <1>3, <1>5, <1>7, <2>4 DEF Good, Machines
  <2>6. Good(r)
    <3> SUFFICES ASSUME NEW g \in r.frames PROVE FrameAt(r, g) /\ g.sr \in Srs
      BY <2>5 DEF Good
    <3>1. FrameAt(p, g) /\ g.sr \in Srs
      BY <1>2, <1>5, <2>4, <2>5 DEF Good
    <3> QED BY <2>5, <3>1 DEF FrameAt, LongAt
  <2>7. r = [m EXCEPT !.sp = m.sp - 6, !.ram = r.ram, !.frames = r.frames]
    BY <1>3, <1>5, <2>1, <2>5 DEF FramedAs, Good, Machines
  <2>8. [at |-> m.sp - 6, pc |-> pc, sr |-> sr] \in r.frames
    BY <1>2, <2>3, <2>5
  <2>9. Framed(m, pc, sr, r)
    BY <2>1, <2>7, <2>8 DEF Framed, FramedAs
  <2> QED BY <1>n, <2>2, <2>5, <2>6, <2>9
<1> QED BY <1>6, <1>7
-----------------------------------------------------------------------------
(* The exceptions.                                                         *)

LEMMA Codes ==
  /\ User = 0 /\ Supervisor = 4
  /\ \A access \in 0..22, mode \in {INSTRUCTION_YES, INSTRUCTION_NO} :
       access + mode \in Word
<1>1. ASSUME NEW access \in 0..22, NEW mode \in {0, 8}
      PROVE  access + mode \in Int /\ 0 <= access + mode /\ access + mode < 65536
  OBVIOUS
<1>2. ASSUME NEW access \in 0..22, NEW mode \in {0, 8}
      PROVE  access + mode < WordSize
  BY <1>1, SizesAssumption
<1> QED BY <1>1, <1>2, Sizes DEF Word

LEMMA JumpVectorGood ==
  ASSUME NEW m, Good(m), NEW v \in Vectors
  PROVE  /\ Good(JumpVector(m, v))
         /\ JumpVector(m, v) = IF m.status = "ok"
                               THEN [m EXCEPT !.pc = Handler[v]] ELSE m
         /\ JumpVector(m, v).status = m.status
<1>1. PICK a \in Address : a = Handler[v]
  BY HandlerAssumption
<1>2. PICK n : n = [m EXCEPT !.pc = a]
  OBVIOUS
<1>3. /\ n \in Machines /\ n.ram = m.ram /\ n.frames = m.frames
      /\ n.status = m.status
  BY <1>2 DEF Good, Machines
<1>4. Good(n)
  BY <1>3, SameRam
<1>5. JumpVector(m, v) = IF m.status = "ok" THEN n ELSE m
  BY <1>1, <1>2 DEF JumpVector, Then
<1> QED BY <1>1, <1>2, <1>3, <1>4, <1>5

LEMMA InitExceptionGood ==
  ASSUME NEW m, Good(m)
  PROVE  LET i == InitException(m) IN
         /\ Good(i)
         /\ i = [m EXCEPT !.t1 = 0, !.base = [m.base EXCEPT ![m.s] = m.sp],
                          !.s = Supervisor, !.sp = SupervisorSp(m)]
<1>1. PICK n : n = [m EXCEPT !.t1 = 0]
  OBVIOUS
<1>2. /\ n \in Machines /\ n.ram = m.ram /\ n.frames = m.frames
      /\ n.base = m.base /\ n.s = m.s /\ n.sp = m.sp
  BY <1>1 DEF Good, Machines
<1>3. Good(n)
  BY <1>2, SameRam
<1>4. InitException(m) = SetS(n, Supervisor)
  BY <1>1 DEF InitException
<1>5. Good(InitException(m))
  BY <1>3, <1>4, SetSGood
<1>6. PICK b : b = [m.base EXCEPT ![m.s] = m.sp]
  OBVIOUS
<1>7. b[Supervisor] = SupervisorSp(m)
  BY <1>6 DEF Good, Machines, SupervisorSp
<1>8. SetS(n, Supervisor) = [n EXCEPT !.base = b, !.s = Supervisor,
                                      !.sp = SupervisorSp(m)]
  BY <1>2, <1>6, <1>7 DEF SetS
<1>9. SetS(n, Supervisor) = [m EXCEPT !.t1 = 0, !.base = b, !.s = Supervisor,
                                      !.sp = SupervisorSp(m)]
  BY <1>1, <1>8 DEF Good, Machines
<1> QED BY <1>4, <1>5, <1>6, <1>9

\* What an exception that could be taken leaves of the CPU it found; mask is
\* the one an interrupt sets.
Taken(m, sr, pc, v, n) ==
  /\ m.status = "ok"
  /\ n.pc = Handler[v] /\ n.s = Supervisor
  /\ SupervisorSp(m) \in 6..(MaxRam + 1)
  /\ n.sp = SupervisorSp(m) - 6
  /\ n.base[User] = UserSp(m)
  /\ [at |-> SupervisorSp(m) - 6, pc |-> pc, sr |-> sr] \in n.frames
  /\ n.mask = m.mask /\ n.run_mode = m.run_mode

\* The body of an exception, once the CPU is in supervisor mode.
LEMMA FrameAndJump ==
  ASSUME NEW i, Good(i), NEW pc \in Address, NEW sr \in Srs, NEW v \in Vectors
  PROVE  LET n == JumpVector(StackFrame(i, pc, sr), v) IN
         /\ Good(n)
         /\ n.status = "ok" =>
              /\ i.status = "ok" /\ i.sp \in 6..(MaxRam + 1)
              /\ n.pc = Handler[v] /\ n.sp = i.sp - 6
              /\ n.s = i.s /\ n.base = i.base /\ n.mask = i.mask
              /\ n.run_mode = i.run_mode /\ n.stopped = i.stopped
              /\ [at |-> i.sp - 6, pc |-> pc, sr |-> sr] \in n.frames
         /\ i.sp >= 6 /\ Fits(i, i.sp - 6, 6) => n.status = "ok"
<1>1. PICK f : f = StackFrame(i, pc, sr)
  OBVIOUS
<1>2. PICK n : n = JumpVector(f, v)
  OBVIOUS
<1>3. /\ Good(f)
      /\ f.status = "ok" => Framed(i, pc, sr, f)
      /\ i.sp >= 6 /\ Fits(i, i.sp - 6, 6) => f.status = "ok"
  BY <1>1, StackFrameGood
<1>4. /\ Good(n) /\ n.status = f.status
      /\ f.status = "ok" => n = [f EXCEPT !.pc = Handler[v]]
  BY <1>2, <1>3, JumpVectorGood
<1>5. ASSUME n.status = "ok"
      PROVE  /\ i.status = "ok" /\ i.sp \in 6..(MaxRam + 1)
             /\ n.pc = Handler[v] /\ n.sp = i.sp - 6
             /\ n.s = i.s /\ n.base = i.base /\ n.mask = i.mask
             /\ n.run_mode = i.run_mode /\ n.stopped = i.stopped
             /\ [at |-> i.sp - 6, pc |-> pc, sr |-> sr] \in n.frames
  <2>1. Framed(i, pc, sr, f) /\ n = [f EXCEPT !.pc = Handler[v]]
    BY <1>3, <1>4, <1>5
  <2>2. /\ f.sp = i.sp - 6 /\ f.s = i.s /\ f.base = i.base /\ f.mask = i.mask
        /\ f.run_mode = i.run_mode /\ f.stopped = i.stopped
    BY <2>1 DEF Framed, Good, Machines
  <2>3. /\ n.pc = Handler[v] /\ n.sp = f.sp /\ n.s = f.s /\ n.base = f.base
        /\ n.mask = f.mask /\ n.run_mode = f.run_mode /\ n.stopped = f.stopped
        /\ n.frames = f.frames
    BY <1>3, <2>1 DEF Good, Machines
  <2> QED BY <2>1, <2>2, <2>3 DEF Framed
<1> QED BY <1>1, <1>2, <1>3, <1>4, <1>5

LEMMA ExceptionGood ==
  ASSUME NEW m, Good(m), NEW v \in Vectors, NEW pc \in Address
  PROVE  LET n == Exception(m, v, pc) IN
         Good(n) /\ (n.status = "ok" => Taken(m, GetSr(m), pc, v, n))
<1>1. PICK i : i = InitException(m)
  OBVIOUS
<1>2. PICK sr \in Srs : sr = GetSr(m)
  BY SrRange DEF Good
<1>3. PICK n : n = Exception(m, v, pc)
  OBVIOUS
<1>4. n = JumpVector(StackFrame(i, pc, sr), v)
  BY <1>1, <1>2, <1>3 DEF Exception
<1>5. /\ Good(i)
      /\ i = [m EXCEPT !.t1 = 0, !.base = [m.base EXCEPT ![m.s] = m.sp],
                       !.s = Supervisor, !.sp = SupervisorSp(m)]
  BY <1>1, InitExceptionGood
<1>6. /\ i.status = m.status /\ i.sp = SupervisorSp(m) /\ i.s = Supervisor
      /\ i.base[User] = UserSp(m) /\ i.mask = m.mask
      /\ i.run_mode = m.run_mode
  BY <1>5 DEF Good, Machines, UserSp
<1>g. Good(i)
  BY <1>5
<1>7. /\ Good(n)
      /\ n.status = "ok" =>
           /\ i.status = "ok" /\ i.sp \in 6..(MaxRam + 1)
           /\ n.pc = Handler[v] /\ n.sp = i.sp - 6
           /\ n.s = i.s /\ n.base = i.base /\ n.mask = i.mask
           /\ n.run_mode = i.run_mode
           /\ [at |-> i.sp - 6, pc |-> pc, sr |-> sr] \in n.frames
  BY <1>4, <1>g, FrameAndJump
<1>8. n.status = "ok" => Taken(m, sr, pc, v, n)
  BY <1>6, <1>7 DEF Taken
<1> QED BY <1>2, <1>3, <1>7, <1>8

LEMMA StackFrameBuserrGood ==
  ASSUME NEW m, Good(m), NEW sr \in Srs
  PROVE  Good(StackFrameBuserr(m, sr))
<1>1. PICK f : f = StackFrame(m, m.pc, sr)
  OBVIOUS
<1>2. PICK w : w = PushWord(f, Opcode)
  OBVIOUS
<1>3. PICK l : l = PushLong(w, m.aerr.address)
  OBVIOUS
<1>4. StackFrameBuserr(m, sr) = PushWord(l, m.aerr.access + m.instr_mode)
  BY <1>1, <1>2, <1>3 DEF StackFrameBuserr
<1>5. /\ m.pc \in Address /\ m.aerr.address \in Address
      /\ m.aerr.access + m.instr_mode \in Word /\ Opcode \in Word
  BY Codes, ExceptionAssumption DEF Good, Machines
<1>6. Good(f)
  BY <1>1, <1>5, StackFrameGood
<1>7. Good(w)
  BY <1>2, <1>5, <1>6, PushWordGood
<1>8. Good(l)
  BY <1>3, <1>5, <1>7, PushLongGood
<1> QED BY <1>4, <1>5, <1>8, PushWordGood

LEMMA AddressErrorGood ==
  ASSUME NEW m, Good(m)
  PROVE  LET n == AddressError(m) IN
         Good(n) /\ (n.status = "ok" => n.run_mode = "berr")
<1>1. PICK c : c = [m EXCEPT !.status = "ok"]
  OBVIOUS
<1>2. c \in Machines /\ c.ram = m.ram /\ c.frames = m.frames
  BY <1>1 DEF Good, Machines
<1>3. PICK i : i = InitException(c)
  OBVIOUS
<1>4. Good(i)
  BY <1>2, <1>3, SameRam, InitExceptionGood
<1>5. PICK w : w = [i EXCEPT !.run_mode = "wsf"]
  OBVIOUS
<1>6. w \in Machines /\ w.ram = i.ram /\ w.frames = i.frames
  BY <1>4, <1>5 DEF Good, Machines
<1>7. PICK b : b = StackFrameBuserr(w, GetSr(m))
  OBVIOUS
<1>8. Good(b)
  <2>1. GetSr(m) \in Srs
    BY SrRange DEF Good
  <2>2. Good(w)
    BY <1>4, <1>6, SameRam
  <2> QED BY <1>7, <2>1, <2>2, StackFrameBuserrGood
<1>9. PICK f : f = JumpVector(b, EXCEPTION_ADDRESS_ERROR)
  OBVIOUS
<1>10. Good(f)
  BY <1>8, <1>9, JumpVectorGood DEF Vectors
<1>11. PICK g : g = [f EXCEPT !.run_mode = "berr"]
  OBVIOUS
<1>12. PICK x : x = [i EXCEPT !.status = "exit"]
  OBVIOUS
<1>13. /\ g \in Machines /\ g.ram = f.ram /\ g.frames = f.frames
       /\ g.run_mode = "berr"
  BY <1>10, <1>11 DEF Good, Machines
<1>14. /\ x \in Machines /\ x.ram = i.ram /\ x.frames = i.frames
       /\ x.status = "exit"
  BY <1>4, <1>12 DEF Good, Machines
<1>15. Good(g) /\ Good(x)
  BY <1>4, <1>10, <1>13, <1>14, SameRam
<1>16. AddressError(m) = IF m.run_mode = "wsf" THEN x ELSE Then(f, g)
  BY <1>1, <1>3, <1>5, <1>7, <1>9, <1>11, <1>12 DEF AddressError
<1>17. CASE m.run_mode = "wsf"
  BY <1>14, <1>15, <1>16, <1>17
<1>18. CASE m.run_mode # "wsf"
  BY <1>10, <1>13, <1>15, <1>16, <1>18 DEF Then
<1> QED BY <1>17, <1>18

\* Whatever an instruction left, the return point leaves no frame half written.
LEMMA TrappedGood ==
  ASSUME NEW m, Good(m), m.status = "ok" => m.run_mode # "wsf"
  PROVE  LET n == Trapped(m) IN
         /\ Good(n)
         /\ n.status = "ok" => n.run_mode # "wsf"
         /\ m.status = "ok" => n = m
<1>1. PICK e : e = AddressError(m)
  OBVIOUS
<1>2. PICK d : d = AddressError(e)
  OBVIOUS
<1>3. Good(e) /\ (e.status = "ok" => e.run_mode = "berr")
  BY <1>1, AddressErrorGood
<1>4. Good(d) /\ (d.status = "ok" => d.run_mode = "berr")
  BY <1>2, <1>3, AddressErrorGood
<1>5. Trapped(m) = IF m.status # "aerr" THEN m
                   ELSE IF e.status = "aerr" THEN d ELSE e
  BY <1>1, <1>2 DEF Trapped
<1>6. CASE m.status # "aerr"
  BY <1>5, <1>6
<1>7. CASE m.status = "aerr" /\ e.status = "aerr"
  BY <1>4, <1>5, <1>7
<1>8. CASE m.status = "aerr" /\ e.status # "aerr"
  BY <1>3, <1>5, <1>8
<1> QED BY <1>6, <1>7, <1>8

\* What an interrupt that could be taken leaves.
InterruptVectors ==
  {EXCEPTION_INTERRUPT_AUTOVECTOR + Level, EXCEPTION_UNINITIALIZED_INTERRUPT}

Interrupted(m, n) ==
  /\ m.status = "ok" /\ n.mask = Level /\ n.run_mode = m.run_mode
  /\ n.base[User] = UserSp(m) /\ n.s = Supervisor
  /\ n.sp = SupervisorSp(m) - 6 /\ n.stopped = 0
  /\ \E v \in InterruptVectors : n.pc = Handler[v]
  /\ [at |-> SupervisorSp(m) - 6, pc |-> m.pc, sr |-> GetSr(m)] \in n.frames

LEMMA ExceptionInterruptGood ==
  ASSUME NEW m, Good(m)
  PROVE  LET n == ExceptionInterrupt(m) IN
         /\ Good(n)
         /\ n.status = "ok" => Interrupted(m, n)
         /\ SupervisorSp(m) >= 6 /\ Fits(m, SupervisorSp(m) - 6, 6)
              => n.status = "ok"
<1>1. PICK c : c = [m EXCEPT !.instr_mode = INSTRUCTION_NO, !.stopped = 0]
  OBVIOUS
<1>2. /\ c \in Machines /\ c.ram = m.ram /\ c.frames = m.frames
      /\ c.s = m.s /\ c.sp = m.sp /\ c.base = m.base /\ c.status = m.status
      /\ c.run_mode = m.run_mode /\ c.stopped = 0
  BY <1>1 DEF Good, Machines
<1>3. Good(c)
  BY <1>2, SameRam
<1>4. PICK i : i = InitException(c)
  OBVIOUS
<1>5. /\ Good(i)
      /\ i = [c EXCEPT !.t1 = 0, !.base = [c.base EXCEPT ![c.s] = c.sp],
                       !.s = Supervisor, !.sp = SupervisorSp(c)]
  BY <1>3, <1>4, InitExceptionGood
<1>6. SupervisorSp(c) = SupervisorSp(m) /\ UserSp(c) = UserSp(m)
  BY <1>2 DEF SupervisorSp, UserSp
<1>7. /\ i.status = m.status /\ i.sp = SupervisorSp(m) /\ i.s = Supervisor
      /\ i.base[User] = UserSp(m) /\ i.run_mode = m.run_mode /\ i.stopped = 0
  <2>1. i.base[User] = UserSp(c)
    BY <1>2, <1>5 DEF Machines, UserSp
  <2> QED BY <1>2, <1>5, <1>6, <2>1 DEF Machines
<1>k. PICK k \in 0..7 : k = Level
  BY ExceptionAssumption
<1>8. PICK j : j = [i EXCEPT !.mask = k]
  OBVIOUS
<1>9. /\ j \in Machines /\ j.ram = i.ram /\ j.frames = i.frames
      /\ j.status = i.status /\ j.sp = i.sp /\ j.s = i.s /\ j.base = i.base
      /\ j.run_mode = i.run_mode /\ j.stopped = i.stopped /\ j.mask = k
  BY <1>5, <1>8 DEF Good, Machines
<1>10. Good(j)
  BY <1>5, <1>9, SameRam
<1>11. PICK v \in InterruptVectors :
         v = IF Handler[EXCEPTION_INTERRUPT_AUTOVECTOR + Level] # 0
             THEN EXCEPTION_INTERRUPT_AUTOVECTOR + Level
             ELSE EXCEPTION_UNINITIALIZED_INTERRUPT
  BY DEF InterruptVectors
<1>v. v \in Vectors
  BY DEF InterruptVectors, Vectors
<1>12. PICK sr \in Srs : sr = GetSr(m)
  BY SrRange DEF Good
<1>13. PICK pc \in Address : pc = m.pc
  BY DEF Good, Machines
<1>14. PICK n : n = ExceptionInterrupt(m)
  OBVIOUS
<1>15. n = JumpVector(StackFrame(j, pc, sr), v)
  BY <1>1, <1>4, <1>k, <1>8, <1>11, <1>12, <1>13, <1>14 DEF ExceptionInterrupt
<1>16. /\ Good(n)
       /\ n.status = "ok" =>
              /\ j.status = "ok" /\ j.sp \in 6..(MaxRam + 1)
              /\ n.pc = Handler[v] /\ n.sp = j.sp - 6
              /\ n.s = j.s /\ n.base = j.base /\ n.mask = j.mask
              /\ n.run_mode = j.run_mode /\ n.stopped = j.stopped
              /\ [at |-> j.sp - 6, pc |-> pc, sr |-> sr] \in n.frames
       /\ j.sp >= 6 /\ Fits(j, j.sp - 6, 6) => n.status = "ok"
  BY <1>10, <1>15, <1>v, FrameAndJump
<1>17. n.status = "ok" => Interrupted(m, n)
  BY <1>k, <1>7, <1>9, <1>12, <1>13, <1>16 DEF Interrupted
<1>18. SupervisorSp(m) >= 6 /\ Fits(m, SupervisorSp(m) - 6, 6)
         => n.status = "ok"
  BY <1>7, <1>9, <1>16 DEF Fits
<1> QED BY <1>14, <1>16, <1>17, <1>18

LEMMA CheckInterruptsGood ==
  ASSUME NEW m, Good(m)
  PROVE  LET n == CheckInterrupts(m) IN
         Good(n) /\ (n.status = "ok" => m.status = "ok"
                                        /\ n.run_mode = m.run_mode)
BY ExceptionInterruptGood DEF CheckInterrupts, Interrupted

LEMMA SetSrGood ==
  ASSUME NEW m, Good(m), NEW value \in Word
  PROVE  LET n == SetSr(m, value) IN
         Good(n) /\ (n.status = "ok" => m.status = "ok"
                                        /\ n.run_mode = m.run_mode)
<1>1. PICK z : z = SetSrNoint(m, value)
  OBVIOUS
<1>2. Good(z)
  BY <1>1, SetSrNointGood
<1>3. z.status = m.status /\ z.run_mode = m.run_mode
  BY <1>1 DEF SetSrNoint, SetS, Good, Machines
<1>4. SetSr(m, value) = CheckInterrupts(z)
  BY <1>1 DEF SetSr
<1> QED BY <1>2, <1>3, <1>4, CheckInterruptsGood
-----------------------------------------------------------------------------
(* The steps.                                                              *)

Calm(m) == m.status = "ok" => m.run_mode # "wsf"

CpuOK == /\ Good(cpu)
         /\ cpu.run_mode # "wsf" /\ cpu.status = "ok" /\ cpu.aerr = NoError

Inv ==
  /\ CpuOK
  /\ int_level \in {0, Level}
  /\ executing \in BOOLEAN /\ (executing => cpu.stopped = 0 /\ process = "runs")
  /\ process \in {"runs", "exited", "lost"}

LEMMA NoErrorType == NoError \in [address : Address, access : 0..22]
<1>1. 1 \in Address
  BY Sizes DEF Address
<1>2. 0 \in 0..22
  OBVIOUS
<1> QED BY <1>1, <1>2 DEF NoError

LEMMA BecomesGood ==
  ASSUME CpuOK, NEW m, Good(m), Calm(m), Becomes(m)
  PROVE  /\ CpuOK' /\ process' \in {"runs", "exited", "lost"}
         /\ process' = "runs" <=> m.status = "ok"
         /\ m.status = "ok" => cpu' = [m EXCEPT !.aerr = NoError]
<1>1. CASE m.status = "ok"
  <2>1. cpu' = [m EXCEPT !.aerr = NoError] /\ process' = "runs"
    BY <1>1 DEF Becomes
  <2>2. PICK e \in [address : Address, access : 0..22] : e = NoError
    BY NoErrorType
  <2>3. /\ cpu' \in Machines /\ cpu'.ram = m.ram /\ cpu'.frames = m.frames
        /\ cpu'.run_mode = m.run_mode /\ cpu'.status = "ok" /\ cpu'.aerr = NoError
    BY <1>1, <2>1, <2>2 DEF Good, Machines
  <2>4. Good(cpu')
    BY <2>3, SameRam
  <2> QED BY <1>1, <2>1, <2>3, <2>4 DEF CpuOK, Calm
<1>2. CASE m.status # "ok"
  <2>1. cpu' = cpu /\ process' \in {"exited", "lost"}
    BY <1>2 DEF Becomes
  <2> QED BY <1>2, <2>1 DEF CpuOK
<1> QED BY <1>1, <1>2

LEMMA ExecutesGood ==
  ASSUME Inv, NEW m, Good(m), Calm(m), Executes(m)
  PROVE  Inv'
<1>1. PICK n : n = Trapped(m)
  OBVIOUS
<1>2. Good(n) /\ Calm(n)
  BY <1>1, TrappedGood DEF Calm
<1>3. CpuOK' /\ process' \in {"runs", "exited", "lost"}
  BY <1>1, <1>2, BecomesGood DEF Executes, Inv
<1>4. executing' = FALSE /\ int_level' = int_level
  BY DEF Executes
<1> QED BY <1>3, <1>4 DEF Inv

LEMMA PcGood ==
  ASSUME NEW m, Good(m), NEW pc \in Address
  PROVE  LET n == [m EXCEPT !.pc = pc] IN
         Good(n) /\ n.status = m.status /\ n.run_mode = m.run_mode
<1>1. PICK n : n = [m EXCEPT !.pc = pc]
  OBVIOUS
<1>2. /\ n \in Machines /\ n.ram = m.ram /\ n.frames = m.frames
      /\ n.status = m.status /\ n.run_mode = m.run_mode
  BY <1>1 DEF Good, Machines
<1> QED BY <1>1, <1>2, SameRam

LEMMA SpGood ==
  ASSUME NEW m, Good(m), NEW sp \in Address
  PROVE  LET n == [m EXCEPT !.sp = sp] IN
         Good(n) /\ n.status = m.status /\ n.run_mode = m.run_mode
<1>1. PICK n : n = [m EXCEPT !.sp = sp]
  OBVIOUS
<1>2. /\ n \in Machines /\ n.ram = m.ram /\ n.frames = m.frames
      /\ n.status = m.status /\ n.run_mode = m.run_mode
  BY <1>1 DEF Good, Machines
<1> QED BY <1>1, <1>2, SameRam

LEMMA ModeGood ==
  ASSUME NEW m, Good(m), NEW mode \in {INSTRUCTION_YES, INSTRUCTION_NO}
  PROVE  LET n == [m EXCEPT !.instr_mode = mode] IN
         Good(n) /\ n.status = m.status /\ n.run_mode = m.run_mode
<1>1. PICK n : n = [m EXCEPT !.instr_mode = mode]
  OBVIOUS
<1>2. /\ n \in Machines /\ n.ram = m.ram /\ n.frames = m.frames
      /\ n.status = m.status /\ n.run_mode = m.run_mode
  BY <1>1 DEF Good, Machines
<1> QED BY <1>1, <1>2, SameRam

LEMMA CcrGood ==
  ASSUME NEW m, Good(m), NEW value \in Word
  PROVE  LET n == [m EXCEPT !.ccr = value % 32] IN
         Good(n) /\ n.status = m.status /\ n.run_mode = m.run_mode
<1>0. PICK c \in 0..31 : c = value % 32
  BY Sizes DEF Word
<1>1. PICK n : n = [m EXCEPT !.ccr = c]
  OBVIOUS
<1>2. /\ n \in Machines /\ n.ram = m.ram /\ n.frames = m.frames
      /\ n.status = m.status /\ n.run_mode = m.run_mode
  BY <1>1 DEF Good, Machines
<1> QED BY <1>0, <1>1, <1>2, SameRam

LEMMA FetchedGood ==
  ASSUME CpuOK, NEW words \in Nat
  PROVE  /\ Good(Fetched(words)) /\ Fetched(words).status = "ok"
         /\ Fetched(words).run_mode # "wsf"
         /\ Fetched(words).s = cpu.s /\ Fetched(words).sp = cpu.sp
         /\ Fetched(words).base = cpu.base /\ Fetched(words).ram = cpu.ram
         /\ Fetched(words).frames = cpu.frames
<1>1. PICK a \in Address : a = ADDRESS_68K(cpu.pc + 2 * words)
  <2>1. cpu.pc + 2 * words \in Int
    BY Sizes DEF CpuOK, Good, Machines, Address
  <2> QED BY <2>1, AddressRange
<1>2. PICK n : n = Fetched(words)
  OBVIOUS
<1>3. n = [cpu EXCEPT !.pc = a]
  BY <1>1, <1>2 DEF Fetched
<1>4. /\ n \in Machines /\ n.ram = cpu.ram /\ n.frames = cpu.frames
      /\ n.status = cpu.status /\ n.run_mode = cpu.run_mode
      /\ n.s = cpu.s /\ n.sp = cpu.sp /\ n.base = cpu.base
  BY <1>3 DEF CpuOK, Good, Machines
<1>5. Good(n)
  BY <1>4, SameRam DEF CpuOK
<1> QED BY <1>2, <1>4, <1>5 DEF CpuOK

LEMMA ExceptionCalm ==
  ASSUME NEW m, Good(m), m.run_mode # "wsf", NEW v \in Vectors, NEW pc \in Address
  PROVE  Good(Exception(m, v, pc)) /\ Calm(Exception(m, v, pc))
BY ExceptionGood DEF Calm, Taken

LEMMA ViolationGood ==
  ASSUME CpuOK
  PROVE  Good(PrivilegeViolation) /\ Calm(PrivilegeViolation)
<1>1. PICK f : f = [Fetched(1) EXCEPT !.instr_mode = INSTRUCTION_NO]
  OBVIOUS
<1>2. Good(f) /\ f.run_mode # "wsf"
  BY <1>1, FetchedGood, ModeGood
<1>3. cpu.pc \in Address /\ EXCEPTION_PRIVILEGE_VIOLATION \in Vectors
  BY DEF CpuOK, Good, Machines, Vectors
<1>4. PrivilegeViolation = Exception(f, EXCEPTION_PRIVILEGE_VIOLATION, cpu.pc)
  BY <1>1 DEF PrivilegeViolation
<1> QED BY <1>2, <1>3, <1>4, ExceptionCalm

LEMMA PrivilegedGood ==
  ASSUME Inv, NEW m, Good(m), Calm(m), Privileged(m)
  PROVE  Inv'
<1>1. CASE cpu.s = Supervisor
  BY <1>1, ExecutesGood DEF Privileged
<1>2. CASE cpu.s # Supervisor
  <2>1. PICK x : x = PrivilegeViolation
    OBVIOUS
  <2>2. Good(x) /\ Calm(x)
    BY <2>1, ViolationGood DEF Inv
  <2>3. Executes(x)
    BY <1>2, <2>1 DEF Privileged
  <2> QED BY <2>2, <2>3, ExecutesGood
<1> QED BY <1>1, <1>2

LEMMA InitGood == Init => Inv
<1> SUFFICES ASSUME Init PROVE Inv
  OBVIOUS
<1>1. NoError \in [address : Address, access : 0..22] /\ 0 \in Address
      /\ BootSp \in Address /\ BootPc \in Address /\ 0 \in Word
  <2>1. WordSize > 0
    BY SizesAssumption
  <2>2. 0 \in Address /\ 0 \in Word
    BY <2>1, Sizes DEF Address, Word
  <2> QED BY <2>2, ExceptionAssumption, NoErrorType
<1>2. PICK base \in [{User, Supervisor} -> Address] :
        base = [b \in {User, Supervisor} |-> 0]
  BY <1>1
<1>3. PICK ram \in [RamWords -> Word] : ram = [a \in RamWords |-> 0]
  BY <1>1
<1>4. cpu = [s |-> Supervisor, t1 |-> 0, mask |-> 7, ccr |-> 0,
             sp |-> BootSp, base |-> base,
             pc |-> BootPc, run_mode |-> "normal",
             instr_mode |-> INSTRUCTION_YES, stopped |-> 0,
             ram |-> ram, frames |-> {},
             status |-> "ok", aerr |-> NoError]
  BY <1>2, <1>3 DEF Init
<1>5. Good(cpu) /\ cpu.run_mode # "wsf" /\ cpu.status = "ok"
      /\ cpu.aerr = NoError
  BY <1>1, <1>4 DEF Good, Machines
<1> QED BY <1>5 DEF Init, Inv, CpuOK

LEMMA ResetGood == Inv /\ Reset => Inv'
<1> SUFFICES ASSUME Inv, Reset PROVE Inv'
  OBVIOUS
<1>k. PICK k \in 0..7 : k = 7
  OBVIOUS
<1>1. PICK n : n = [cpu EXCEPT !.t1 = 0, !.mask = k, !.stopped = 0,
                               !.instr_mode = INSTRUCTION_YES]
  OBVIOUS
<1>0. cpu \in Machines /\ Good(cpu)
  BY DEF Inv, CpuOK, Good
<1>2. n \in Machines /\ n.ram = cpu.ram /\ n.frames = cpu.frames
      /\ n.status = cpu.status /\ n.aerr = cpu.aerr
  BY <1>0, <1>1 DEF Machines
<1>3. Good(n)
  BY <1>0, <1>2, SameRam
<1>4. PICK z : z = SetS(n, Supervisor)
  OBVIOUS
<1>5. Good(z)
  BY <1>3, <1>4, SetSGood
<1>6. z.status = n.status /\ z.aerr = n.aerr
  BY <1>3, <1>4 DEF SetS, Good, Machines
<1>7. cpu' = [z EXCEPT !.sp = BootSp, !.pc = BootPc, !.run_mode = "normal"]
  BY <1>k, <1>1, <1>4 DEF Reset
<1>8. /\ cpu' \in Machines /\ cpu'.ram = z.ram /\ cpu'.frames = z.frames
      /\ cpu'.run_mode = "normal" /\ cpu'.status = z.status
      /\ cpu'.aerr = z.aerr
  BY <1>5, <1>7, ExceptionAssumption DEF Good, Machines
<1>9. Good(cpu')
  BY <1>5, <1>8, SameRam
<1>10. CpuOK'
  BY <1>2, <1>6, <1>8, <1>9 DEF CpuOK, Inv
<1>11. int_level' = 0 /\ executing' = executing /\ ~executing
       /\ process' = process
  BY DEF Reset
<1> QED BY <1>10, <1>11 DEF Inv

LEMMA ExecuteBeginGood == Inv /\ ExecuteBegin => Inv'
<1> SUFFICES ASSUME Inv, ExecuteBegin PROVE Inv'
  OBVIOUS
<1>1. PICK m : m = CheckInterrupts(cpu)
  OBVIOUS
<1>2. Good(m) /\ Calm(m)
  BY <1>1, CheckInterruptsGood DEF Inv, CpuOK, Calm
<1>3. /\ Becomes(m) /\ int_level' = int_level
      /\ executing' = (m.status = "ok" /\ m.stopped = 0)
  BY <1>1 DEF ExecuteBegin
<1>4. /\ CpuOK' /\ process' \in {"runs", "exited", "lost"}
      /\ process' = "runs" <=> m.status = "ok"
      /\ m.status = "ok" => cpu' = [m EXCEPT !.aerr = NoError]
  BY <1>2, <1>3, BecomesGood DEF Inv
<1>5. m.status = "ok" => cpu'.stopped = m.stopped
  BY <1>2, <1>4 DEF Good, Machines
<1>6. executing' \in BOOLEAN
  BY <1>3, Zenon
<1>7. executing' => m.status = "ok" /\ m.stopped = 0
  BY <1>3, Zenon
<1>8. executing' => cpu'.stopped = 0 /\ process' = "runs"
  BY <1>4, <1>5, <1>7
<1>9. int_level' \in {0, Level}
  BY <1>3 DEF Inv
<1> HIDE DEF CpuOK
<1> QED BY <1>4, <1>6, <1>8, <1>9, Zenon DEF Inv

LEMMA FetchFailsGood == Inv /\ FetchFails => Inv'
<1> SUFFICES ASSUME Inv, FetchFails PROVE Inv'
  OBVIOUS
<1>1. PICK pc \in Address : pc = cpu.pc
  BY DEF Inv, CpuOK, Good, Machines
<1>2. PICK m : m = Access(cpu, pc, 2, MODE_READ, FUNCTION_CODE_USER_PROGRAM)
  OBVIOUS
<1>3. Good(m) /\ (cpu.status = "ok" /\ m.status = "ok" => Accessed(cpu, pc, 2, m))
  BY <1>2, AccessGood DEF Inv, CpuOK
<1>4. Calm(m)
  BY <1>3 DEF Calm, Accessed, Inv, CpuOK
<1>5. Executes(m)
  BY <1>1, <1>2 DEF FetchFails
<1> QED BY <1>3, <1>4, <1>5, ExecutesGood

LEMMA TrapGood ==
  ASSUME Inv, NEW v \in TrapVectors, Trap(v)
  PROVE  Inv'
<1>1. PICK x : x = Exception(Fetched(1), v, Fetched(1).pc)
  OBVIOUS
<1>2. Good(Fetched(1)) /\ Fetched(1).run_mode # "wsf"
  BY FetchedGood DEF Inv
<1>3. Fetched(1).pc \in Address /\ v \in Vectors
  BY <1>2 DEF Good, Machines, Vectors
<1>4. Good(x) /\ Calm(x)
  BY <1>1, <1>2, <1>3, ExceptionCalm
<1> QED BY <1>1, <1>4, ExecutesGood DEF Trap

\* What CHK does to the flags is a change of the status register by them.
LEMMA FlagsOfChk ==
  ASSUME NEW m, Good(m), NEW flags \in ChkFlags
  PROVE  \E c \in 0..31 :
           /\ c = 16 * (m.ccr \div 16) + flags
           /\ 32768 * m.t1 + 2048 * m.s + 256 * m.mask + c
                = 16 * (GetSr(m) \div 16) + flags
<1>1. m.s \in {0, 4} /\ m.t1 \in {0, 1} /\ m.mask \in 0..7 /\ m.ccr \in 0..31
  BY DEF Good, Machines
<1>2. flags \in {0, 4, 8}
  BY DEF ChkFlags
<1>3. PICK t \in {0, 1}, b \in {0, 4}, k \in 0..7, x \in {0, 1}, l \in 0..15 :
        m.t1 = t /\ m.s = b /\ m.mask = k /\ m.ccr = 16 * x + l
  BY <1>1
<1>4. m.ccr \div 16 = x
  BY <1>3
<1>5. PICK u \in Nat : u = 2048 * t + 128 * b + 16 * k + x
  OBVIOUS
<1>6. PICK v : v = GetSr(m)
  OBVIOUS
<1>7. v = 16 * u + l
  BY <1>3, <1>5, <1>6 DEF GetSr
<1>8. v \div 16 = u
  BY <1>7
<1>9. PICK c \in 0..31 : c = 16 * x + flags
  BY <1>2
<1>10. 32768 * t + 2048 * b + 256 * k + c = 16 * u + flags
  BY <1>2, <1>5, <1>9
<1> QED BY <1>3, <1>4, <1>6, <1>8, <1>9, <1>10

LEMMA ChkGood ==
  ASSUME NEW m, Good(m), Calm(m), NEW flags \in ChkFlags
  PROVE  Good(Chk(m, flags)) /\ Calm(Chk(m, flags))
<1>1. PICK c \in 0..31 : c = 16 * (m.ccr \div 16) + flags
  BY FlagsOfChk
<1>2. PICK n : n = [m EXCEPT !.ccr = c]
  OBVIOUS
<1>3. /\ n \in Machines /\ n.ram = m.ram /\ n.frames = m.frames
      /\ n.status = m.status /\ n.run_mode = m.run_mode
  BY <1>2 DEF Good, Machines
<1>4. Good(n)
  BY <1>3, SameRam
<1>5. m.pc \in Address /\ EXCEPTION_CHK \in Vectors
  BY DEF Good, Machines, Vectors
<1>6. PICK x : x = Exception(n, EXCEPTION_CHK, m.pc)
  OBVIOUS
<1>7. Chk(m, flags) = Then(m, x)
  BY <1>1, <1>2, <1>6 DEF Chk
<1>8. m.status = "ok" => Good(x) /\ Calm(x)
  BY <1>3, <1>4, <1>5, <1>6, ExceptionCalm DEF Calm
<1> QED BY <1>7, <1>8 DEF Then

LEMMA ChkRegisterGood ==
  ASSUME Inv, NEW flags \in ChkFlags, ChkRegister(flags)
  PROVE  Inv'
BY FetchedGood, ChkGood, ExecutesGood DEF ChkRegister, Calm, Inv

LEMMA ChkPoppedGood ==
  ASSUME Inv, NEW flags \in ChkFlags, ChkPopped(flags)
  PROVE  Inv'
<1>1. Good(Fetched(1)) /\ Fetched(1).run_mode # "wsf"
  BY FetchedGood DEF Inv
<1>2. PICK p : p = Pull(Fetched(1), 2)
  OBVIOUS
<1>3. Good(p) /\ (p.status = "ok" => Pulled(Fetched(1), 2, p))
  BY <1>1, <1>2, PullGood
<1>4. Calm(p)
  BY <1>1, <1>3 DEF Calm, Pulled, Good, Machines
<1> QED BY <1>2, <1>3, <1>4, ChkGood, ExecutesGood DEF ChkPopped

LEMMA LineTrapGood ==
  ASSUME Inv, NEW v \in LineVectors, LineTrap(v)
  PROVE  Inv'
<1>1. PICK x : x = Exception(Fetched(1), v, cpu.pc)
  OBVIOUS
<1>2. Good(Fetched(1)) /\ Fetched(1).run_mode # "wsf"
  BY FetchedGood DEF Inv
<1>3. cpu.pc \in Address /\ v \in Vectors
  BY DEF Inv, CpuOK, Good, Machines, Vectors
<1>4. Good(x) /\ Calm(x)
  BY <1>1, <1>2, <1>3, ExceptionCalm
<1> QED BY <1>1, <1>4, ExecutesGood DEF LineTrap

LEMMA IllegalGood == ASSUME Inv, Illegal PROVE Inv'
<1>1. PICK f : f = [Fetched(1) EXCEPT !.instr_mode = INSTRUCTION_NO]
  OBVIOUS
<1>2. Good(f) /\ f.run_mode # "wsf"
  BY <1>1, FetchedGood, ModeGood DEF Inv
<1>3. cpu.pc \in Address /\ EXCEPTION_ILLEGAL_INSTRUCTION \in Vectors
  BY DEF Inv, CpuOK, Good, Machines, Vectors
<1>4. PICK x : x = Exception(f, EXCEPTION_ILLEGAL_INSTRUCTION, cpu.pc)
  OBVIOUS
<1>5. Good(x) /\ Calm(x)
  BY <1>2, <1>3, <1>4, ExceptionCalm
<1> QED BY <1>1, <1>4, <1>5, ExecutesGood DEF Illegal

LEMMA MoveToSrGood ==
  ASSUME Inv, NEW v \in SrValues, MoveToSr(v)
  PROVE  Inv'
<1>1. PICK x : x = SetSr(Fetched(1), v)
  OBVIOUS
<1>2. v \in Word
  BY ExceptionAssumption
<1>3. Good(x) /\ Calm(x)
  BY <1>1, <1>2, FetchedGood, SetSrGood DEF Inv, Calm
<1> QED BY <1>1, <1>3, PrivilegedGood DEF MoveToSr

LEMMA StopGood ==
  ASSUME Inv, NEW v \in SrValues, Stop(v)
  PROVE  Inv'
<1>1. PICK f : f = [Fetched(2) EXCEPT !.stopped = 1]
  OBVIOUS
<1>2. Good(Fetched(2)) /\ Fetched(2).run_mode # "wsf"
  BY FetchedGood DEF Inv
<1>3. /\ f \in Machines /\ f.ram = Fetched(2).ram /\ f.frames = Fetched(2).frames
      /\ f.run_mode # "wsf"
  BY <1>1, <1>2 DEF Good, Machines
<1>4. Good(f)
  BY <1>2, <1>3, SameRam
<1>5. PICK x : x = SetSr(f, v)
  OBVIOUS
<1>6. Good(x) /\ Calm(x)
  BY <1>3, <1>4, <1>5, SetSrGood, ExceptionAssumption DEF Calm
<1> QED BY <1>1, <1>5, <1>6, PrivilegedGood DEF Stop

LEMMA MoveToUspGood ==
  ASSUME Inv, NEW a \in SpValues, MoveToUsp(a)
  PROVE  Inv'
<1>1. Good(Fetched(1)) /\ Fetched(1).run_mode # "wsf"
  BY FetchedGood DEF Inv
<1>2. PICK x : x = [Fetched(1) EXCEPT !.base = [@ EXCEPT ![User] = a]]
  OBVIOUS
<1>3. a \in Address
  BY ExceptionAssumption
<1>4. /\ x \in Machines /\ x.ram = Fetched(1).ram /\ x.frames = Fetched(1).frames
      /\ x.run_mode # "wsf"
  BY <1>1, <1>2, <1>3 DEF Good, Machines
<1>5. Good(x) /\ Calm(x)
  BY <1>1, <1>4, SameRam DEF Calm
<1> QED BY <1>2, <1>5, PrivilegedGood DEF MoveToUsp

\* RESET in user mode is a privileged instruction like the others.
LEMMA ResetOfUser ==
  ASSUME cpu.s # Supervisor, ResetInstruction
  PROVE  Privileged(Fetched(1))
BY DEF ResetInstruction, Privileged, Executes

LEMMA ResetInstructionGood == ASSUME Inv, ResetInstruction PROVE Inv'
<1>1. PICK f : f = Fetched(1)
  OBVIOUS
<1>2. Good(f) /\ Calm(f) /\ f.status = "ok"
  BY <1>1, FetchedGood DEF Inv, Calm
<1>3. CASE cpu.s = Supervisor
  <2>1. Trapped(f) = f
    BY <1>2 DEF Trapped
  <2>2. Becomes(f) /\ executing' = FALSE /\ int_level' = 0
    BY <1>1, <1>3, <2>1 DEF ResetInstruction
  <2>3. CpuOK' /\ process' \in {"runs", "exited", "lost"}
    BY <1>2, <2>2, BecomesGood DEF Inv
  <2> QED BY <2>2, <2>3 DEF Inv
<1>4. CASE cpu.s # Supervisor
  BY <1>1, <1>2, <1>4, ResetOfUser, PrivilegedGood
<1> QED BY <1>3, <1>4

\* What RTE pulls is in the RAM, so it is a word and an address.
LEMMA WordAtType ==
  ASSUME NEW m, Good(m), NEW a \in RamWords
  PROVE  WordAt(m, a) \in Word
BY DEF WordAt, Good, Machines

LEMMA LongAtType ==
  ASSUME NEW m, Good(m), NEW a \in RamWords, a + 2 \in RamWords
  PROVE  LongAt(m, a) \in Address
<1>1. PICK h \in Word, l \in Word : h = m.ram[a] /\ l = m.ram[a + 2]
  BY DEF Good, Machines
<1>2. h \in Int /\ l \in Int /\ 0 <= l /\ l < WordSize
  BY Sizes DEF Word
<1>3. PICK q \in 0..255 : q = h % 256
  BY <1>2
<1>4. 0 <= q * 65536 + l /\ q * 65536 + l < 16777216
  BY <1>2, SizesAssumption
<1>5. PICK v \in Int : v = q * WordSize + l
  BY <1>2, SizesAssumption
<1>6. 0 <= v /\ v < AddressSpace
  BY <1>4, <1>5, SizesAssumption
<1>7. LongAt(m, a) = v
  BY <1>1, <1>3, <1>5 DEF LongAt
<1> QED BY <1>5, <1>6, <1>7, Sizes DEF Address

LEMMA RteGood == ASSUME Inv, Rte PROVE Inv'
<1>1. PICK f : f = Fetched(1)
  OBVIOUS
<1>2. Good(f) /\ f.run_mode # "wsf"
  BY <1>1, FetchedGood DEF Inv
<1>3. PICK o : o = Pull(f, 2)
  OBVIOUS
<1>4. Good(o) /\ (o.status = "ok" => Pulled(f, 2, o))
  BY <1>2, <1>3, PullGood
<1>5. PICK p : p = Pull(o, 4)
  OBVIOUS
<1>6. Good(p) /\ (p.status = "ok" => Pulled(o, 4, p))
  BY <1>4, <1>5, PullGood
<1>7. PICK r : r = SetSr([p EXCEPT !.pc = LongAt(f, f.sp + 2)], WordAt(f, f.sp))
  OBVIOUS
<1>8. PICK x : x = [r EXCEPT !.instr_mode = INSTRUCTION_YES,
                             !.run_mode = "normal"]
  OBVIOUS
<1>9. Privileged(Then(p, Then(r, x)))
  BY <1>1, <1>3, <1>5, <1>7, <1>8 DEF Rte
<1>10. CASE p.status # "ok"
  <2>1. Then(p, Then(r, x)) = p /\ Calm(p)
    BY <1>10 DEF Then, Calm
  <2> QED BY <1>6, <1>9, <2>1, PrivilegedGood
<1>11. CASE p.status = "ok"
  <2>1. Pulled(o, 4, p) /\ o.status = "ok" /\ Pulled(f, 2, o)
    BY <1>4, <1>6, <1>11 DEF Pulled
  <2>2. f.sp \in RamWords /\ o.sp = f.sp + 2
    BY <1>2, <2>1 DEF Pulled, Good, Machines
  <2>3. f.sp + 2 \in RamWords /\ (f.sp + 2) + 2 \in RamWords
    BY <2>1, <2>2 DEF Pulled
  <2>4. PICK pc \in Address, sr \in Word :
          pc = LongAt(f, f.sp + 2) /\ sr = WordAt(f, f.sp)
    BY <1>2, <2>2, <2>3, WordAtType, LongAtType
  <2>5. PICK q : q = [p EXCEPT !.pc = pc]
    OBVIOUS
  <2>6. Good(q)
    BY <1>6, <2>5, PcGood
  <2>7. Good(r)
    BY <1>7, <2>4, <2>5, <2>6, SetSrGood
  <2>8. CASE r.status # "ok"
    <3>1. Then(p, Then(r, x)) = r /\ Calm(r)
      BY <1>11, <2>8 DEF Then, Calm
    <3> QED BY <1>9, <2>7, <3>1, PrivilegedGood
  <2>9. CASE r.status = "ok"
    <3>1. /\ x \in Machines /\ x.ram = r.ram /\ x.frames = r.frames
          /\ x.run_mode = "normal"
      BY <1>8, <2>7 DEF Good, Machines
    <3>2. Good(x) /\ Calm(x)
      BY <2>7, <3>1, SameRam DEF Calm
    <3>3. Then(p, Then(r, x)) = x
      BY <1>11, <2>9 DEF Then
    <3> QED BY <1>9, <3>2, <3>3, PrivilegedGood
  <2> QED BY <2>8, <2>9
<1> QED BY <1>10, <1>11

LEMMA SetCcrGood ==
  ASSUME Inv, NEW v \in DataWords, SetCcr(v % 32)
  PROVE  Inv'
<1>1. v \in Word /\ (v % 32) % 32 = v % 32
  BY ExceptionAssumption, Sizes DEF Word
<1>2. PICK x : x = [Fetched(1) EXCEPT !.ccr = v % 32]
  OBVIOUS
<1>3. Good(x) /\ Calm(x)
  BY <1>1, <1>2, FetchedGood, CcrGood DEF Inv, Calm
<1> QED BY <1>2, <1>3, ExecutesGood DEF SetCcr

LEMMA RtrGood == ASSUME Inv, Rtr PROVE Inv'
<1>1. PICK f : f = Fetched(1)
  OBVIOUS
<1>2. Good(f) /\ f.run_mode # "wsf"
  BY <1>1, FetchedGood DEF Inv
<1>3. PICK o : o = Pull(f, 2)
  OBVIOUS
<1>4. Good(o) /\ (o.status = "ok" => Pulled(f, 2, o))
  BY <1>2, <1>3, PullGood
<1>5. PICK c : c = [o EXCEPT !.ccr = WordAt(f, f.sp) % 32]
  OBVIOUS
<1>6. PICK p : p = Pull(c, 4)
  OBVIOUS
<1>7. PICK x : x = [p EXCEPT !.pc = LongAt(c, c.sp)]
  OBVIOUS
<1>8. Executes(Then(o, Then(p, x)))
  BY <1>1, <1>3, <1>5, <1>6, <1>7 DEF Rtr
<1>9. CASE o.status # "ok"
  <2>1. Then(o, Then(p, x)) = o /\ Calm(o)
    BY <1>9 DEF Then, Calm
  <2> QED BY <1>4, <1>8, <2>1, ExecutesGood
<1>10. CASE o.status = "ok"
  <2>1. f.sp \in RamWords /\ o.run_mode = f.run_mode
    BY <1>2, <1>4, <1>10 DEF Pulled, Good, Machines
  <2>2. WordAt(f, f.sp) \in Word
    BY <1>2, <2>1, WordAtType
  <2>3. Good(c) /\ c.status = "ok" /\ c.run_mode = f.run_mode
    BY <1>4, <1>5, <1>10, <2>1, <2>2, CcrGood
  <2>4. Good(p) /\ (p.status = "ok" => Pulled(c, 4, p))
    BY <1>6, <2>3, PullGood
  <2>5. CASE p.status # "ok"
    <3>1. Then(o, Then(p, x)) = p /\ Calm(p)
      BY <1>10, <2>5 DEF Then, Calm
    <3> QED BY <1>8, <2>4, <3>1, ExecutesGood
  <2>6. CASE p.status = "ok"
    <3>1. c.sp \in RamWords /\ c.sp + 2 \in RamWords
          /\ p.run_mode = c.run_mode
      BY <2>3, <2>4, <2>6 DEF Pulled, Good, Machines
    <3>2. LongAt(c, c.sp) \in Address
      BY <2>3, <3>1, LongAtType
    <3>3. Good(x) /\ Calm(x)
      BY <1>2, <1>7, <2>3, <2>4, <3>1, <3>2, PcGood DEF Calm
    <3>4. Then(o, Then(p, x)) = x
      BY <1>10, <2>6 DEF Then
    <3> QED BY <1>8, <3>3, <3>4, ExecutesGood
  <2> QED BY <2>5, <2>6
<1> QED BY <1>9, <1>10

LEMMA RtsGood == ASSUME Inv, Rts PROVE Inv'
<1>1. PICK c : c = Fetched(1)
  OBVIOUS
<1>2. Good(c) /\ c.run_mode # "wsf"
  BY <1>1, FetchedGood DEF Inv
<1>3. PICK p : p = Pull(c, 4)
  OBVIOUS
<1>4. PICK x : x = [p EXCEPT !.pc = LongAt(c, c.sp)]
  OBVIOUS
<1>5. Executes(Then(p, x))
  BY <1>1, <1>3, <1>4 DEF Rts
<1>6. Good(p) /\ (p.status = "ok" => Pulled(c, 4, p))
  BY <1>2, <1>3, PullGood
<1>7. CASE p.status # "ok"
  <2>1. Then(p, x) = p /\ Calm(p)
    BY <1>7 DEF Then, Calm
  <2> QED BY <1>5, <1>6, <2>1, ExecutesGood
<1>8. CASE p.status = "ok"
  <2>1. c.sp \in RamWords /\ c.sp + 2 \in RamWords /\ p.run_mode = c.run_mode
    BY <1>2, <1>6, <1>8 DEF Pulled, Good, Machines
  <2>2. LongAt(c, c.sp) \in Address
    BY <1>2, <2>1, LongAtType
  <2>3. Good(x) /\ Calm(x)
    BY <1>2, <1>4, <1>6, <2>1, <2>2, PcGood DEF Calm
  <2>4. Then(p, x) = x
    BY <1>8 DEF Then
  <2> QED BY <1>5, <2>3, <2>4, ExecutesGood
<1> QED BY <1>7, <1>8

LEMMA JsrGood ==
  ASSUME Inv, NEW t \in Targets, Jsr(t)
  PROVE  Inv'
<1>1. PICK f : f = Fetched(1)
  OBVIOUS
<1>2. Good(f) /\ f.run_mode # "wsf"
  BY <1>1, FetchedGood DEF Inv
<1>3. PICK p : p = PushLong(f, f.pc)
  OBVIOUS
<1>4. f.pc \in Address /\ t \in Address
  BY <1>2, ExceptionAssumption DEF Good, Machines
<1>5. Good(p) /\ (p.status = "ok" => PushedLong(f, f.pc, p))
  BY <1>2, <1>3, <1>4, PushLongGood
<1>6. PICK x : x = [p EXCEPT !.pc = t]
  OBVIOUS
<1>7. Executes(Then(p, x))
  BY <1>1, <1>3, <1>6 DEF Jsr
<1>8. CASE p.status # "ok"
  <2>1. Then(p, x) = p /\ Calm(p)
    BY <1>8 DEF Then, Calm
  <2> QED BY <1>5, <1>7, <2>1, ExecutesGood
<1>9. CASE p.status = "ok"
  <2>1. p.run_mode = f.run_mode
    <3>1. PICK a, b, c : p = [f EXCEPT !.sp = a, !.ram = b, !.frames = c]
      BY <1>5, <1>9 DEF PushedLong
    <3> QED BY <1>2, <3>1 DEF Good, Machines
  <2>2. Good(x) /\ Calm(x)
    BY <1>2, <1>4, <1>5, <1>6, <2>1, PcGood DEF Calm
  <2>3. Then(p, x) = x
    BY <1>9 DEF Then
  <2> QED BY <1>7, <2>2, <2>3, ExecutesGood
<1> QED BY <1>8, <1>9

LEMMA JumpGood ==
  ASSUME Inv, NEW t \in Targets, Jump(t)
  PROVE  Inv'
<1>1. PICK x : x = [Fetched(1) EXCEPT !.pc = t]
  OBVIOUS
<1>2. t \in Address
  BY ExceptionAssumption
<1>3. Good(x) /\ Calm(x)
  BY <1>1, <1>2, FetchedGood, PcGood DEF Inv, Calm
<1> QED BY <1>1, <1>3, ExecutesGood DEF Jump

LEMMA PushGood ==
  ASSUME Inv, NEW v \in DataWords, Push(v)
  PROVE  Inv'
<1>1. Good(Fetched(1)) /\ Fetched(1).run_mode # "wsf"
  BY FetchedGood DEF Inv
<1>2. PICK p : p = PushWord(Fetched(1), v)
  OBVIOUS
<1>3. Good(p) /\ (p.status = "ok" => PushedWord(Fetched(1), v, p))
  BY <1>1, <1>2, PushWordGood, ExceptionAssumption
<1>4. ASSUME p.status = "ok" PROVE p.run_mode # "wsf"
  <2>1. PICK a, b, c :
          p = [Fetched(1) EXCEPT !.sp = a, !.ram = b, !.frames = c]
    BY <1>3, <1>4 DEF PushedWord
  <2> QED BY <1>1, <2>1 DEF Good, Machines
<1> QED BY <1>2, <1>3, <1>4, ExecutesGood DEF Push, Calm

LEMMA PopGood == ASSUME Inv, Pop PROVE Inv'
<1>1. Good(Fetched(1)) /\ Fetched(1).run_mode # "wsf"
  BY FetchedGood DEF Inv
<1>2. PICK p : p = Pull(Fetched(1), 2)
  OBVIOUS
<1>3. Good(p) /\ (p.status = "ok" => Pulled(Fetched(1), 2, p))
  BY <1>1, <1>2, PullGood
<1>4. Calm(p)
  BY <1>1, <1>3 DEF Calm, Pulled, Good, Machines
<1> QED BY <1>2, <1>3, <1>4, ExecutesGood DEF Pop

LEMMA UnlkGood ==
  ASSUME Inv, NEW a \in SpValues, Unlk(a)
  PROVE  Inv'
<1>1. PICK c : c = [Fetched(1) EXCEPT !.sp = a]
  OBVIOUS
<1>2. Good(c) /\ c.run_mode # "wsf"
  BY <1>1, FetchedGood, SpGood, ExceptionAssumption DEF Inv
<1>3. PICK p : p = Pull(c, 4)
  OBVIOUS
<1>4. Good(p) /\ (p.status = "ok" => Pulled(c, 4, p))
  BY <1>2, <1>3, PullGood
<1>5. Calm(p)
  BY <1>2, <1>4 DEF Calm, Pulled, Good, Machines
<1> QED BY <1>1, <1>3, <1>4, <1>5, ExecutesGood DEF Unlk

LEMMA SetSpGood ==
  ASSUME Inv, NEW a \in SpValues, SetSp(a)
  PROVE  Inv'
<1>1. PICK x : x = [Fetched(1) EXCEPT !.sp = a]
  OBVIOUS
<1>2. a \in Address
  BY ExceptionAssumption
<1>3. Good(x) /\ Calm(x)
  BY <1>1, <1>2, FetchedGood, SpGood DEF Inv, Calm
<1> QED BY <1>1, <1>3, ExecutesGood DEF SetSp

LEMMA DropAccessWordsGood == ASSUME Inv, DropAccessWords PROVE Inv'
<1>1. Good(Fetched(2)) /\ Fetched(2).run_mode # "wsf"
  BY FetchedGood DEF Inv
<1>2. PICK a \in Address : a = ADDRESS_68K(Fetched(2).sp + 8)
  <2>1. Fetched(2).sp + 8 \in Int
    BY <1>1, Sizes DEF Good, Machines, Address
  <2> QED BY <2>1, AddressRange
<1>3. PICK x : x = [Fetched(2) EXCEPT !.sp = a]
  OBVIOUS
<1>4. Good(x) /\ Calm(x)
  BY <1>1, <1>3, SpGood DEF Calm
<1> QED BY <1>2, <1>3, <1>4, ExecutesGood DEF DropAccessWords

LEMMA OddAccessGood ==
  ASSUME Inv, NEW mode \in {MODE_READ, MODE_WRITE}, OddAccess(mode)
  PROVE  Inv'
<1>1. Good(Fetched(1)) /\ Fetched(1).run_mode # "wsf"
  BY FetchedGood DEF Inv
<1>2. PICK x : x = Access(Fetched(1), 1, 2, mode, FUNCTION_CODE_USER_DATA)
  OBVIOUS
<1>3. 1 \in Address
  BY Sizes DEF Address
<1>4. Good(x) /\ (Fetched(1).status = "ok" /\ x.status = "ok"
                    => Accessed(Fetched(1), 1, 2, x))
  BY <1>1, <1>2, <1>3, AccessGood
<1>5. Calm(x)
  <2>1. ~(1 \in RamWords)
    BY DEF RamWords, Even
  <2> QED BY <1>4, <2>1, FetchedGood DEF Inv, Accessed, Calm
<1> QED BY <1>2, <1>4, <1>5, ExecutesGood DEF OddAccess

LEMMA StepGood == Inv /\ [Next]_vars => Inv'
<1> SUFFICES ASSUME Inv, [Next]_vars PROVE Inv'
  OBVIOUS
<1>1. CASE Reset
  BY <1>1, ResetGood
<1>2. CASE \E level \in {0, Level} : SetIrq(level)
  BY <1>2 DEF SetIrq, Inv, CpuOK
<1>3. CASE ExecuteBegin
  BY <1>3, ExecuteBeginGood
<1>4. CASE FetchFails
  BY <1>4, FetchFailsGood
<1>5. CASE Instruction
  BY <1>5, TrapGood, LineTrapGood, IllegalGood, MoveToSrGood, StopGood,
     MoveToUspGood, ResetInstructionGood, RteGood, SetCcrGood, RtrGood, RtsGood,
     JsrGood, JumpGood, PushGood, PopGood, DropAccessWordsGood, SetSpGood,
     OddAccessGood, UnlkGood, ChkRegisterGood, ChkPoppedGood, Zenon DEF Instruction
<1>6. CASE UNCHANGED vars
  BY <1>6 DEF vars, Inv, CpuOK
<1> QED BY <1>1, <1>2, <1>3, <1>4, <1>5, <1>6 DEF Next

THEOREM InvariantHolds == Spec => []Inv
BY InitGood, StepGood, PTL DEF Spec

\* The types of the CPU's state, whatever the program does to A7, the status
\* register and the vectors' targets.
THEOREM ExceptionTypes == Spec => []TypeOK
<1>1. Inv => TypeOK
  BY DEF Inv, CpuOK, Good, TypeOK
<1> QED BY <1>1, InvariantHolds, PTL

\* Every frame that was not written over is in the RAM as it was stacked.
THEOREM FramesStay == Spec => []FramesIntact
<1>1. Inv => FramesIntact
  BY DEF Inv, CpuOK, Good, FramesIntact
<1> QED BY <1>1, InvariantHolds, PTL

\* Loading a status register that was stacked gives it back, and moves the
\* stack pointer of neither mode.
LEMMA SrLoaded ==
  ASSUME NEW m, Good(m), NEW sr \in Srs
  PROVE  LET z == SetSrNoint(m, sr) IN
         /\ Good(z) /\ GetSr(z) = sr /\ z.pc = m.pc /\ z.status = m.status
         /\ SupervisorSp(z) = SupervisorSp(m) /\ UserSp(z) = UserSp(m)
<1>1. sr \in Word /\ sr \in Nat
  BY Sizes DEF Srs, Word
<1>2. PICK t \in {0, 1}, b \in {0, 1}, k \in 0..7, c \in 0..31 :
        /\ t = (sr \div 32768) % 2 /\ b = (sr \div 8192) % 2
        /\ k = (sr \div 256) % 8 /\ c = sr % 32
  BY <1>1
<1>3. SrOf(t, b, k, c) = sr
  BY <1>2 DEF Srs
<1>4. PICK n : n = [m EXCEPT !.t1 = t, !.mask = k, !.ccr = c]
  OBVIOUS
<1>5. PICK z : z = SetSrNoint(m, sr)
  OBVIOUS
<1>6. PICK s \in {User, Supervisor} : s = 4 * b
  BY <1>2
<1>7. z = SetS(n, s)
  BY <1>2, <1>4, <1>5, <1>6 DEF SetSrNoint
<1>8. n \in Machines /\ n.t1 = t /\ n.mask = k /\ n.ccr = c /\ n.sp = m.sp
      /\ n.base = m.base /\ n.s = m.s /\ n.pc = m.pc /\ n.status = m.status
  BY <1>4 DEF Good, Machines
<1>9. PICK base : base = [n.base EXCEPT ![n.s] = n.sp]
  OBVIOUS
<1>10. z = [n EXCEPT !.base = base, !.s = s, !.sp = base[s]]
  BY <1>7, <1>9 DEF SetS
<1>11. /\ z.t1 = t /\ z.mask = k /\ z.ccr = c /\ z.s = s /\ z.pc = n.pc
       /\ z.status = n.status /\ z.base = base /\ z.sp = base[s]
  BY <1>8, <1>10 DEF Machines
<1>12. GetSr(z) = SrOf(t, b, k, c)
  BY <1>6, <1>11 DEF GetSr, SrOf
<1>13. n.s \in {User, Supervisor} /\ DOMAIN n.base = {User, Supervisor}
  BY <1>8 DEF Machines
<1>14. SupervisorSp(z) = SupervisorSp(n) /\ UserSp(z) = UserSp(n)
  BY <1>9, <1>11, <1>13 DEF SupervisorSp, UserSp
<1>15. SupervisorSp(n) = SupervisorSp(m) /\ UserSp(n) = UserSp(m)
  BY <1>8 DEF SupervisorSp, UserSp
<1>16. Good(z)
  BY <1>1, <1>5, SetSrNointGood
<1> QED BY <1>3, <1>5, <1>8, <1>11, <1>12, <1>14, <1>15, <1>16

\* RTE pulls the frame its stack pointer is at.
LEMMA FramePulled ==
  ASSUME NEW f, Good(f), f.status = "ok", NEW g \in f.frames, f.sp = g.at,
         NEW o, o = Pull(f, 2), NEW p, p = Pull(o, 4)
  PROVE  /\ Good(p) /\ p.status = "ok"
         /\ p = [f EXCEPT !.sp = g.at + 6]
         /\ WordAt(f, f.sp) = g.sr /\ LongAt(f, f.sp + 2) = g.pc
         /\ g \in Frames /\ g.sr \in Srs /\ g.at + 5 <= MaxRam
<1>1. FrameAt(f, g) /\ g.sr \in Srs /\ g \in Frames
  BY DEF Good, Machines
<1>2. g.at \in RamWords /\ g.at + 2 \in RamWords /\ g.at + 4 \in RamWords
  BY <1>1 DEF FrameAt
<1>3. g.at \in Int /\ MaxRam \in Int /\ g.at % 2 = 0 /\ (g.at + 2) % 2 = 0
      /\ g.at >= 0
  BY <1>2, Sizes DEF RamWords, Even
<1>4. g.at + 5 <= MaxRam
  BY <1>2, <1>3, ExceptionAssumption DEF RamWords, Even
<1>5. Fits(f, f.sp, 2)
  BY <1>3, <1>4 DEF Fits, Even
<1>6. Good(o) /\ o.status = "ok" /\ Pulled(f, 2, o)
  BY <1>5, PullGood
<1>7. o = [f EXCEPT !.sp = g.at + 2] /\ o.sp = g.at + 2
  BY <1>6 DEF Pulled, Good, Machines
<1>8. Fits(o, o.sp, 4)
  BY <1>3, <1>4, <1>6, <1>7 DEF Fits, Even
<1>9. Good(p) /\ p.status = "ok" /\ Pulled(o, 4, p)
  BY <1>6, <1>8, PullGood
<1>10. p = [o EXCEPT !.sp = g.at + 6]
  BY <1>3, <1>7, <1>9 DEF Pulled
<1>11. p = [f EXCEPT !.sp = g.at + 6]
  BY <1>7, <1>10 DEF Good, Machines
<1> QED BY <1>1, <1>4, <1>9, <1>11 DEF FrameAt, WordAt

\* What RTE leaves, with the frame g behind the stack pointer.
Back(m, g, n) ==
  /\ n.status = "ok" /\ UserSp(n) = UserSp(m)
  /\ \/ n.pc = g.pc /\ GetSr(n) = g.sr /\ SupervisorSp(n) = g.at + 6
     \/ int_level = Level /\ n.mask = Level /\ g \in n.frames
          /\ SupervisorSp(n) = g.at

LEMMA InterruptsBack ==
  ASSUME NEW m, Good(m), m.status = "ok", NEW g \in Frames, g.at + 5 <= MaxRam,
         m.pc = g.pc, GetSr(m) = g.sr, SupervisorSp(m) = g.at + 6,
         int_level \in {0, Level}
  PROVE  LET n == CheckInterrupts(m) IN Good(n) /\ Back(m, g, n)
<1>1. g.at \in Int /\ g.at >= 0 /\ MaxRam \in Int /\ g.at % 2 = 0
      /\ g = [at |-> g.at, pc |-> g.pc, sr |-> g.sr]
  BY Sizes DEF Frames, RamWords, Even
<1>2. CASE int_level > m.mask
  <2>1. PICK n : n = ExceptionInterrupt(m)
    OBVIOUS
  <2>2. SupervisorSp(m) - 6 = g.at /\ SupervisorSp(m) >= 6
    BY <1>1
  <2>3. Fits(m, SupervisorSp(m) - 6, 6)
    BY <1>1, <2>2 DEF Fits, Even
  <2>4. Good(n) /\ n.status = "ok" /\ Interrupted(m, n)
    BY <2>1, <2>2, <2>3, ExceptionInterruptGood
  <2>5. int_level = Level
    BY <1>2 DEF Good, Machines
  <2>6. g \in n.frames
    BY <1>1, <2>2, <2>4 DEF Interrupted
  <2>7. UserSp(n) = UserSp(m) /\ SupervisorSp(n) = g.at /\ n.mask = Level
    BY <2>2, <2>4 DEF Interrupted, UserSp, SupervisorSp
  <2>8. CheckInterrupts(m) = n
    BY <1>2, <2>1 DEF CheckInterrupts
  <2> QED BY <2>4, <2>5, <2>6, <2>7, <2>8 DEF Back
<1>3. CASE ~(int_level > m.mask)
  BY <1>3 DEF CheckInterrupts, Back
<1> QED BY <1>2, <1>3

LEMMA RteBack ==
  ASSUME Inv, NEW g \in cpu.frames, Rte, cpu.s = Supervisor, cpu.sp = g.at
  PROVE  /\ process' = "runs" /\ UserSp(cpu') = UserSp(cpu)
         /\ Resumes(g) \/ InterruptedAgain(g)
<1>1. PICK f : f = Fetched(1)
  OBVIOUS
<1>2. /\ Good(f) /\ f.run_mode # "wsf" /\ f.status = "ok" /\ g \in f.frames
      /\ f.sp = g.at /\ f.s = Supervisor /\ f.base = cpu.base
  BY <1>1, FetchedGood DEF Inv
<1>3. PICK o : o = Pull(f, 2)
  OBVIOUS
<1>4. PICK p : p = Pull(o, 4)
  OBVIOUS
<1>5. /\ Good(p) /\ p.status = "ok"
      /\ p = [f EXCEPT !.sp = g.at + 6]
      /\ WordAt(f, f.sp) = g.sr /\ LongAt(f, f.sp + 2) = g.pc
      /\ g \in Frames /\ g.sr \in Srs /\ g.at + 5 <= MaxRam
  BY <1>2, <1>3, <1>4, FramePulled
<1>6. PICK q : q = [p EXCEPT !.pc = g.pc]
  OBVIOUS
<1>7. g.pc \in Address
  BY <1>5 DEF Frames
<1>8. Good(q) /\ q.status = "ok" /\ q.pc = g.pc
  <2>1. Good(q) /\ q.status = "ok"
    BY <1>5, <1>6, <1>7, PcGood
  <2>2. q.pc = g.pc
    BY <1>5, <1>6 DEF Good, Machines
  <2> QED BY <2>1, <2>2
<1>9. q.s = Supervisor /\ q.sp = g.at + 6 /\ q.base = cpu.base
  BY <1>2, <1>5, <1>6 DEF Good, Machines
<1>10. SupervisorSp(q) = g.at + 6 /\ UserSp(q) = UserSp(cpu)
  BY <1>9 DEF SupervisorSp, UserSp
<1>11. PICK z : z = SetSrNoint(q, g.sr)
  OBVIOUS
<1>12. /\ Good(z) /\ GetSr(z) = g.sr /\ z.pc = g.pc /\ z.status = "ok"
       /\ SupervisorSp(z) = g.at + 6 /\ UserSp(z) = UserSp(cpu)
  BY <1>5, <1>8, <1>10, <1>11, SrLoaded
<1>13. PICK r : r = CheckInterrupts(z)
  OBVIOUS
<1>14. Good(r) /\ Back(z, g, r)
  BY <1>5, <1>12, <1>13, InterruptsBack DEF Inv
<1>15. PICK x : x = [r EXCEPT !.instr_mode = INSTRUCTION_YES,
                              !.run_mode = "normal"]
  OBVIOUS
<1>16. /\ x \in Machines /\ x.ram = r.ram /\ x.frames = r.frames
       /\ x.run_mode = "normal" /\ x.status = r.status /\ x.pc = r.pc
       /\ x.mask = r.mask /\ x.s = r.s /\ x.sp = r.sp /\ x.base = r.base
       /\ x.t1 = r.t1 /\ x.ccr = r.ccr
  BY <1>14, <1>15 DEF Good, Machines
<1>17. Good(x) /\ x.status = "ok"
  BY <1>14, <1>16, SameRam DEF Back
<1>18. r = SetSr(q, g.sr)
  BY <1>11, <1>13 DEF SetSr
<1>19. Executes(x)
  <2>1. Privileged(Then(p, Then(r, x)))
    BY <1>1, <1>3, <1>4, <1>5, <1>6, <1>15, <1>18 DEF Rte
  <2>2. Then(p, Then(r, x)) = x
    BY <1>5, <1>16, <1>17 DEF Then
  <2> QED BY <2>1, <2>2 DEF Privileged
<1>20. Becomes(x)
  <2>1. Trapped(x) = x
    BY <1>16, <1>17, TrappedGood
  <2> QED BY <1>19, <2>1 DEF Executes
<1>21. process' = "runs" /\ cpu' = [x EXCEPT !.aerr = NoError]
  BY <1>17, <1>20 DEF Becomes
<1>22. /\ cpu'.pc = r.pc /\ cpu'.mask = r.mask /\ cpu'.s = r.s /\ cpu'.sp = r.sp
       /\ cpu'.base = r.base /\ cpu'.frames = r.frames
       /\ cpu'.t1 = r.t1 /\ cpu'.ccr = r.ccr
  BY <1>16, <1>21 DEF Machines
<1>23. /\ GetSr(cpu') = GetSr(r) /\ SupervisorSp(cpu') = SupervisorSp(r)
       /\ UserSp(cpu') = UserSp(r)
  BY <1>22 DEF GetSr, SupervisorSp, UserSp
<1> QED BY <1>12, <1>14, <1>21, <1>22, <1>23
        DEF Back, Resumes, InterruptedAgain

\* RTE resumes what was interrupted, or interrupts it again where it was.
THEOREM RteResumes == Spec => RteReturns
<1>1. ASSUME Inv, [Next]_vars
      PROVE  [\A f \in cpu.frames :
                Rte /\ cpu.s = Supervisor /\ cpu.sp = f.at
                  => /\ process' = "runs"
                     /\ UserSp(cpu') = UserSp(cpu)
                     /\ Resumes(f) \/ InterruptedAgain(f)]_vars
  BY <1>1, RteBack
<1> QED BY <1>1, InvariantHolds, PTL DEF RteReturns, Spec

-----------------------------------------------------------------------------
(* The two modes: what memory accesses leave alone.                        *)

\* Neither mode nor mask, nor the bank of stack pointers, nor STOP.
Kept(m, n) == /\ n.s = m.s /\ n.t1 = m.t1 /\ n.mask = m.mask /\ n.base = m.base
              /\ n.stopped = m.stopped

Settings(m, n) == Kept(m, n) /\ n.ccr = m.ccr /\ n.run_mode = m.run_mode

LEMMA AccessSettings ==
  ASSUME NEW m, Good(m), NEW a \in Address, NEW bytes \in {2, 4},
         NEW mode \in {MODE_READ, MODE_WRITE},
         NEW fc \in {FUNCTION_CODE_USER_DATA, FUNCTION_CODE_USER_PROGRAM}
  PROVE  LET n == Access(m, a, bytes, mode, fc) IN
         /\ Settings(m, n) /\ n.sp = m.sp /\ n.pc = m.pc
         /\ n.status = "aerr" <=> ~Even(a)
<1>1. PICK n : n = Access(m, a, bytes, mode, fc)
  OBVIOUS
<1>2. PICK status, aerr :
        /\ n = [m EXCEPT !.status = status, !.aerr = aerr]
        /\ status = CASE ~Even(a) -> "aerr"
                      [] Even(a) /\ a \notin 0..MaxRam -> "exit"
                      [] Even(a) /\ a \in 0..MaxRam ->
                           IF a + bytes - 1 > MaxRam THEN "lost" ELSE "ok"
  BY <1>1 DEF Access
<1>3. status = "aerr" <=> ~Even(a)
  BY <1>2
<1>4. n.status = status /\ n.sp = m.sp /\ n.pc = m.pc /\ Settings(m, n)
  BY <1>2 DEF Good, Machines, Settings, Kept
<1> QED BY <1>1, <1>3, <1>4

LEMMA PushWordSettings ==
  ASSUME NEW m, Good(m), NEW v \in Word
  PROVE  LET p == PushWord(m, v) IN
         /\ Settings(m, p) /\ p.pc = m.pc
         /\ m.status # "ok" => p = m
         /\ m.status = "ok" => /\ p.sp = ADDRESS_68K(m.sp - 2)
                               /\ p.status = "aerr" <=> ~Even(p.sp)
<1>1. m.sp - 2 \in Int
  BY Sizes DEF Good, Machines, Address
<1>2. PICK a \in Address : a = ADDRESS_68K(m.sp - 2)
  BY <1>1, AddressRange
<1>3. PICK n : n = [m EXCEPT !.sp = a]
  OBVIOUS
<1>4. PICK w : w = Access(n, a, 2, MODE_WRITE, FUNCTION_CODE_USER_DATA)
  OBVIOUS
<1>5. PICK ram, frames :
        ram = [m.ram EXCEPT ![a] = v] /\ frames = Keep(m.frames, {a})
  OBVIOUS
<1>6. PICK r : r = [w EXCEPT !.ram = ram, !.frames = frames]
  OBVIOUS
<1>7. PICK p : p = PushWord(m, v)
  OBVIOUS
<1>8. p = Then(m, Then(w, r))
  BY <1>2, <1>3, <1>4, <1>5, <1>6, <1>7 DEF PushWord
<1>9. /\ n \in Machines /\ n.ram = m.ram /\ n.frames = m.frames /\ n.sp = a
      /\ Settings(m, n) /\ n.pc = m.pc
  BY <1>3 DEF Good, Machines, Settings, Kept
<1>10. Good(n)
  BY <1>9, SameRam
<1>11. Good(w)
  BY <1>4, <1>10, AccessGood
<1>12. Settings(n, w) /\ w.pc = n.pc /\ w.sp = a /\ (w.status = "aerr" <=> ~Even(a))
  BY <1>4, <1>9, <1>10, AccessSettings
<1>13. Settings(w, r) /\ r.pc = w.pc /\ r.sp = w.sp /\ r.status = w.status
  BY <1>6, <1>11 DEF Good, Machines, Settings, Kept
<1>14. m.status # "ok" => p = m
  BY <1>8 DEF Then
<1>15. m.status = "ok" => p = w \/ p = r
  BY <1>8 DEF Then
<1>16. Settings(m, p) /\ p.pc = m.pc
  BY <1>9, <1>12, <1>13, <1>14, <1>15 DEF Settings, Kept
<1> QED BY <1>2, <1>7, <1>12, <1>13, <1>14, <1>15, <1>16

LEMMA PushLongSettings ==
  ASSUME NEW m, Good(m), NEW v \in Address
  PROVE  LET p == PushLong(m, v) IN
         /\ Settings(m, p) /\ p.pc = m.pc
         /\ m.status # "ok" => p = m
         /\ m.status = "ok" => /\ p.sp = ADDRESS_68K(m.sp - 4)
                               /\ p.status = "aerr" <=> ~Even(p.sp)
<1>1. m.sp - 4 \in Int
  BY Sizes DEF Good, Machines, Address
<1>2. PICK a \in Address : a = ADDRESS_68K(m.sp - 4)
  BY <1>1, AddressRange
<1>3. PICK n : n = [m EXCEPT !.sp = a]
  OBVIOUS
<1>4. PICK w : w = Access(n, a, 4, MODE_WRITE, FUNCTION_CODE_USER_DATA)
  OBVIOUS
<1>5. PICK ram, frames :
        /\ ram = [m.ram EXCEPT ![a] = v \div WordSize, ![a + 2] = v % WordSize]
        /\ frames = Keep(m.frames, {a, a + 2})
  OBVIOUS
<1>6. PICK r : r = [w EXCEPT !.ram = ram, !.frames = frames]
  OBVIOUS
<1>7. PICK p : p = PushLong(m, v)
  OBVIOUS
<1>8. p = Then(m, Then(w, r))
  BY <1>2, <1>3, <1>4, <1>5, <1>6, <1>7 DEF PushLong
<1>9. /\ n \in Machines /\ n.ram = m.ram /\ n.frames = m.frames /\ n.sp = a
      /\ Settings(m, n) /\ n.pc = m.pc
  BY <1>3 DEF Good, Machines, Settings, Kept
<1>10. Good(n)
  BY <1>9, SameRam
<1>11. Good(w)
  BY <1>4, <1>10, AccessGood
<1>12. Settings(n, w) /\ w.pc = n.pc /\ w.sp = a /\ (w.status = "aerr" <=> ~Even(a))
  BY <1>4, <1>9, <1>10, AccessSettings
<1>13. Settings(w, r) /\ r.pc = w.pc /\ r.sp = w.sp /\ r.status = w.status
  BY <1>6, <1>11 DEF Good, Machines, Settings, Kept
<1>14. m.status # "ok" => p = m
  BY <1>8 DEF Then
<1>15. m.status = "ok" => p = w \/ p = r
  BY <1>8 DEF Then
<1>16. Settings(m, p) /\ p.pc = m.pc
  BY <1>9, <1>12, <1>13, <1>14, <1>15 DEF Settings, Kept
<1> QED BY <1>2, <1>7, <1>12, <1>13, <1>14, <1>15, <1>16

LEMMA PullSettings ==
  ASSUME NEW m, Good(m), NEW bytes \in {2, 4}
  PROVE  LET p == Pull(m, bytes) IN
         /\ Settings(m, p) /\ p.pc = m.pc
         /\ m.status # "ok" => p = m
         /\ m.status = "ok" => /\ p.sp = ADDRESS_68K(m.sp + bytes)
                               /\ p.status = "aerr" <=> ~Even(m.sp)
<1>1. m.sp \in Address /\ m.sp \in Int /\ m.sp + bytes \in Int
  BY Sizes DEF Good, Machines, Address
<1>2. PICK b \in Address : b = ADDRESS_68K(m.sp + bytes)
  BY <1>1, AddressRange
<1>3. PICK n : n = [m EXCEPT !.sp = b]
  OBVIOUS
<1>4. PICK a \in Address : a = m.sp
  BY <1>1
<1>5. PICK w : w = Access(n, a, bytes, MODE_READ, FUNCTION_CODE_USER_DATA)
  OBVIOUS
<1>6. PICK p : p = Pull(m, bytes)
  OBVIOUS
<1>7. p = Then(m, w)
  BY <1>2, <1>3, <1>4, <1>5, <1>6 DEF Pull
<1>8. /\ n \in Machines /\ n.ram = m.ram /\ n.frames = m.frames /\ n.sp = b
      /\ Settings(m, n) /\ n.pc = m.pc
  BY <1>3 DEF Good, Machines, Settings, Kept
<1>9. Good(n)
  BY <1>8, SameRam
<1>10. Settings(n, w) /\ w.pc = n.pc /\ w.sp = b /\ (w.status = "aerr" <=> ~Even(a))
  BY <1>5, <1>8, <1>9, AccessSettings
<1>11. m.status # "ok" => p = m
  BY <1>7 DEF Then
<1>12. m.status = "ok" => p = w
  BY <1>7 DEF Then
<1>13. Settings(m, m) /\ Settings(m, w) /\ w.pc = m.pc
  BY <1>8, <1>10 DEF Settings, Kept
<1> QED BY <1>2, <1>4, <1>6, <1>10, <1>11, <1>12, <1>13

\* A frame, and the jump to the vector: whatever the status, they change no
\* setting; an address error comes of the stack pointer that is left.
LEMMA FrameSettings ==
  ASSUME NEW i, Good(i), NEW pc \in Address, NEW sr \in Srs
  PROVE  LET f == StackFrame(i, pc, sr) IN
         Settings(i, f) /\ (i.status = "ok" /\ f.status = "aerr" => ~Even(f.sp))
<1>1. PICK l : l = PushLong(i, pc)
  OBVIOUS
<1>2. PICK p : p = PushWord(l, sr)
  OBVIOUS
<1>3. PICK frames : frames = p.frames \union {[at |-> p.sp, pc |-> pc, sr |-> sr]}
  OBVIOUS
<1>4. PICK r : r = [p EXCEPT !.frames = frames]
  OBVIOUS
<1>5. PICK f : f = StackFrame(i, pc, sr)
  OBVIOUS
<1>6. f = Then(p, r)
  BY <1>1, <1>2, <1>3, <1>4, <1>5 DEF StackFrame
<1>7. Good(l)
  BY <1>1, PushLongGood
<1>8. /\ Settings(i, l)
      /\ i.status = "ok" => (l.status = "aerr" => ~Even(l.sp))
  BY <1>1, PushLongSettings
<1>9. sr \in Word
  BY DEF Srs
<1>10. /\ Settings(l, p)
       /\ l.status # "ok" => p = l
       /\ l.status = "ok" => (p.status = "aerr" => ~Even(p.sp))
  BY <1>2, <1>7, <1>9, PushWordSettings
<1>11. Good(p)
  BY <1>2, <1>7, <1>9, PushWordGood
<1>12. Settings(p, r) /\ r.status = p.status /\ r.sp = p.sp
  BY <1>4, <1>11 DEF Good, Machines, Settings, Kept
<1>13. f = p \/ f = r
  BY <1>6 DEF Then
<1>14. Settings(i, f)
  BY <1>8, <1>10, <1>12, <1>13 DEF Settings, Kept
<1> QED BY <1>5, <1>8, <1>10, <1>12, <1>13, <1>14

LEMMA JumpSettings ==
  ASSUME NEW f, Good(f), NEW v \in Vectors
  PROVE  LET n == JumpVector(f, v) IN
         Settings(f, n) /\ n.status = f.status /\ n.sp = f.sp
<1>1. PICK a \in Address : a = Handler[v]
  BY HandlerAssumption
<1>2. PICK n : n = JumpVector(f, v)
  OBVIOUS
<1>3. n = f \/ n = [f EXCEPT !.pc = a]
  BY <1>1, <1>2 DEF JumpVector, Then
<1>4. Settings(f, n) /\ n.status = f.status /\ n.sp = f.sp
  BY <1>3 DEF Good, Machines, Settings, Kept
<1> QED BY <1>2, <1>4

\* In supervisor mode, with the user's pointer in the bank; or so far off the
\* stack that not even an address error can be stacked.
Inside(m, n) == /\ n.s = Supervisor /\ n.base[User] = UserSp(m)
                /\ n.status = "aerr" => ~Even(n.sp)

LEMMA ExceptionInside ==
  ASSUME NEW m, Good(m), m.status = "ok", NEW v \in Vectors, NEW pc \in Address
  PROVE  Inside(m, Exception(m, v, pc))
<1>1. PICK i : i = InitException(m)
  OBVIOUS
<1>2. PICK sr \in Srs : sr = GetSr(m)
  BY SrRange DEF Good
<1>3. PICK f : f = StackFrame(i, pc, sr)
  OBVIOUS
<1>4. PICK n : n = JumpVector(f, v)
  OBVIOUS
<1>5. n = Exception(m, v, pc)
  BY <1>1, <1>2, <1>3, <1>4 DEF Exception
<1>6. /\ Good(i)
      /\ i = [m EXCEPT !.t1 = 0, !.base = [m.base EXCEPT ![m.s] = m.sp],
                       !.s = Supervisor, !.sp = SupervisorSp(m)]
  BY <1>1, InitExceptionGood
<1>7. i.status = "ok" /\ i.s = Supervisor /\ i.base[User] = UserSp(m)
  BY <1>6 DEF Good, Machines, UserSp
<1>8. /\ Good(f) /\ Settings(i, f)
      /\ i.status = "ok" /\ f.status = "aerr" => ~Even(f.sp)
  <2>1. Good(i)
    BY <1>6
  <2> QED BY <1>3, <2>1, FrameSettings, StackFrameGood
<1>9. Settings(f, n) /\ n.status = f.status /\ n.sp = f.sp
  BY <1>4, <1>8, JumpSettings
<1> QED BY <1>5, <1>7, <1>8, <1>9 DEF Inside, Settings, Kept

LEMMA InterruptInside ==
  ASSUME NEW m, Good(m), m.status = "ok"
  PROVE  Inside(m, ExceptionInterrupt(m))
<1>1. PICK c : c = [m EXCEPT !.instr_mode = INSTRUCTION_NO, !.stopped = 0]
  OBVIOUS
<1>2. /\ c \in Machines /\ c.ram = m.ram /\ c.frames = m.frames
      /\ c.s = m.s /\ c.sp = m.sp /\ c.base = m.base /\ c.status = "ok"
  BY <1>1 DEF Good, Machines
<1>3. Good(c)
  BY <1>2, SameRam
<1>4. PICK i : i = InitException(c)
  OBVIOUS
<1>5. /\ Good(i)
      /\ i = [c EXCEPT !.t1 = 0, !.base = [c.base EXCEPT ![c.s] = c.sp],
                       !.s = Supervisor, !.sp = SupervisorSp(c)]
  BY <1>3, <1>4, InitExceptionGood
<1>6. i.status = "ok" /\ i.s = Supervisor /\ i.base[User] = UserSp(m)
  BY <1>2, <1>5 DEF Machines, UserSp
<1>7. PICK k \in 0..7 : k = Level
  BY ExceptionAssumption
<1>8. PICK j : j = [i EXCEPT !.mask = k]
  OBVIOUS
<1>9. /\ j \in Machines /\ j.ram = i.ram /\ j.frames = i.frames
      /\ j.status = "ok" /\ j.s = Supervisor /\ j.base[User] = UserSp(m)
  BY <1>5, <1>6, <1>8 DEF Good, Machines
<1>10. Good(j)
  BY <1>5, <1>9, SameRam
<1>11. PICK v \in Vectors :
         v = IF Handler[EXCEPTION_INTERRUPT_AUTOVECTOR + Level] # 0
             THEN EXCEPTION_INTERRUPT_AUTOVECTOR + Level
             ELSE EXCEPTION_UNINITIALIZED_INTERRUPT
  BY DEF Vectors
<1>12. PICK sr \in Srs : sr = GetSr(m)
  BY SrRange DEF Good
<1>13. PICK pc \in Address : pc = m.pc
  BY DEF Good, Machines
<1>14. PICK f : f = StackFrame(j, pc, sr)
  OBVIOUS
<1>15. PICK n : n = ExceptionInterrupt(m)
  OBVIOUS
<1>16. n = JumpVector(f, v)
  BY <1>1, <1>4, <1>7, <1>8, <1>11, <1>12, <1>13, <1>14, <1>15
     DEF ExceptionInterrupt
<1>17. /\ Good(f) /\ Settings(j, f)
       /\ j.status = "ok" /\ f.status = "aerr" => ~Even(f.sp)
  BY <1>10, <1>14, FrameSettings, StackFrameGood
<1>18. Settings(f, n) /\ n.status = f.status /\ n.sp = f.sp
  BY <1>16, <1>17, JumpSettings
<1> QED BY <1>9, <1>15, <1>17, <1>18 DEF Inside, Settings, Kept

\* A push that succeeds keeps the frames above it.
LEMMA PushedWordAbove ==
  ASSUME NEW m, Good(m), NEW v, NEW n, Good(n), PushedWord(m, v, n)
  PROVE  /\ m.status = "ok" /\ n.sp = m.sp - 2 /\ n.sp \in RamWords
         /\ \A g \in m.frames : g.at >= m.sp => g \in n.frames
<1>1. PICK a : a = ADDRESS_68K(m.sp - 2)
  OBVIOUS
<1>2. PICK ram, frames : /\ n = [m EXCEPT !.sp = a, !.ram = ram, !.frames = frames]
                         /\ frames = Keep(m.frames, {a})
  BY <1>1 DEF PushedWord
<1>3. a \in RamWords /\ m.status = "ok"
  BY <1>1 DEF PushedWord
<1>4. n.sp = a /\ n.frames = Keep(m.frames, {a})
  BY <1>2 DEF Good, Machines
<1>5. m.sp \in Address /\ a \in Int /\ a <= MaxRam /\ a % 2 = 0
  BY <1>3, Sizes DEF Good, Machines, RamWords, Even
<1>6. a + 2 - 1 <= MaxRam
  BY <1>5, ExceptionAssumption
<1>7. m.sp >= 2 /\ a = m.sp - 2 /\ m.sp \in Int
  BY <1>1, <1>5, <1>6, AddressBelow, Sizes DEF Address
<1>8. ASSUME NEW g \in m.frames, g.at >= m.sp PROVE g \in n.frames
  <2>1. g.at \in Int
    BY Sizes DEF Good, Machines, Frames, RamWords
  <2>2. g.at # a /\ g.at + 2 # a /\ g.at + 4 # a
    BY <1>7, <1>8, <2>1
  <2> QED BY <1>4, <2>2 DEF Keep
<1> QED BY <1>3, <1>4, <1>7, <1>8

LEMMA PushedLongAbove ==
  ASSUME NEW m, Good(m), NEW v, NEW n, Good(n), PushedLong(m, v, n)
  PROVE  /\ m.status = "ok" /\ n.sp = m.sp - 4 /\ n.sp \in RamWords
         /\ \A g \in m.frames : g.at >= m.sp => g \in n.frames
<1>1. PICK a : a = ADDRESS_68K(m.sp - 4)
  OBVIOUS
<1>2. PICK ram, frames : /\ n = [m EXCEPT !.sp = a, !.ram = ram, !.frames = frames]
                         /\ frames = Keep(m.frames, {a, a + 2})
  BY <1>1 DEF PushedLong
<1>3. a \in RamWords /\ a + 2 \in RamWords /\ m.status = "ok"
  BY <1>1 DEF PushedLong
<1>4. n.sp = a /\ n.frames = Keep(m.frames, {a, a + 2})
  BY <1>2 DEF Good, Machines
<1>5. m.sp \in Address /\ a \in Int /\ a + 2 <= MaxRam /\ a % 2 = 0
  BY <1>3, Sizes DEF Good, Machines, RamWords, Even
<1>6. a + 4 - 1 <= MaxRam
  BY <1>5, ExceptionAssumption
<1>7. m.sp >= 4 /\ a = m.sp - 4 /\ m.sp \in Int
  BY <1>1, <1>5, <1>6, AddressBelow, Sizes DEF Address
<1>8. ASSUME NEW g \in m.frames, g.at >= m.sp PROVE g \in n.frames
  <2>1. g.at \in Int
    BY Sizes DEF Good, Machines, Frames, RamWords
  <2>2. /\ g.at # a /\ g.at + 2 # a /\ g.at + 4 # a
        /\ g.at # a + 2 /\ g.at + 2 # a + 2 /\ g.at + 4 # a + 2
    BY <1>7, <1>8, <2>1
  <2> QED BY <1>4, <2>2 DEF Keep
<1> QED BY <1>3, <1>4, <1>7, <1>8

\* The frame of an address error: the 3 words of every frame, and 4 below.
LEMMA BuserrFrame ==
  ASSUME NEW m, Good(m), NEW sr \in Srs
  PROVE  LET n == StackFrameBuserr(m, sr) IN
         /\ Settings(m, n)
         /\ n.status = "ok" =>
              /\ n.sp = m.sp - 14 /\ Even(m.sp)
              /\ [at |-> m.sp - 6, pc |-> m.pc, sr |-> sr] \in n.frames
<1>1. PICK f : f = StackFrame(m, m.pc, sr)
  OBVIOUS
<1>2. PICK w : w = PushWord(f, Opcode)
  OBVIOUS
<1>3. PICK address : address = m.aerr.address
  OBVIOUS
<1>4. PICK l : l = PushLong(w, address)
  OBVIOUS
<1>5. PICK access : access = m.aerr.access + m.instr_mode
  OBVIOUS
<1>6. PICK n : n = PushWord(l, access)
  OBVIOUS
<1>7. n = StackFrameBuserr(m, sr)
  BY <1>1, <1>2, <1>3, <1>4, <1>5, <1>6 DEF StackFrameBuserr
<1>8. m.pc \in Address /\ address \in Address /\ access \in Word /\ Opcode \in Word
  BY <1>3, <1>5, Codes, ExceptionAssumption DEF Good, Machines
<1>9. Good(f) /\ (f.status = "ok" => Framed(m, m.pc, sr, f)) /\ Settings(m, f)
  BY <1>1, <1>8, StackFrameGood, FrameSettings
<1>10. Good(w) /\ (w.status = "ok" => PushedWord(f, Opcode, w)) /\ Settings(f, w)
  BY <1>2, <1>8, <1>9, PushWordGood, PushWordSettings
<1>11. Good(l) /\ (l.status = "ok" => PushedLong(w, address, l)) /\ Settings(w, l)
  BY <1>4, <1>8, <1>10, PushLongGood, PushLongSettings
<1>12. Good(n) /\ (n.status = "ok" => PushedWord(l, access, n)) /\ Settings(l, n)
  BY <1>6, <1>8, <1>11, PushWordGood, PushWordSettings
<1>13. Settings(m, n)
  BY <1>9, <1>10, <1>11, <1>12 DEF Settings, Kept
<1>14. ASSUME n.status = "ok"
       PROVE  /\ n.sp = m.sp - 14 /\ Even(m.sp)
              /\ [at |-> m.sp - 6, pc |-> m.pc, sr |-> sr] \in n.frames
  <2>1. PICK g : g = [at |-> m.sp - 6, pc |-> m.pc, sr |-> sr]
    OBVIOUS
  <2>2. /\ l.status = "ok" /\ n.sp = l.sp - 2
        /\ \A x \in l.frames : x.at >= l.sp => x \in n.frames
    BY <1>11, <1>12, <1>14, PushedWordAbove
  <2>3. /\ w.status = "ok" /\ l.sp = w.sp - 4
        /\ \A x \in w.frames : x.at >= w.sp => x \in l.frames
    BY <1>10, <1>11, <2>2, PushedLongAbove
  <2>4. /\ f.status = "ok" /\ w.sp = f.sp - 2 /\ w.sp \in RamWords
        /\ \A x \in f.frames : x.at >= f.sp => x \in w.frames
    BY <1>9, <1>10, <2>3, PushedWordAbove
  <2>5. Framed(m, m.pc, sr, f)
    BY <1>9, <2>4
  <2>6. g \in f.frames /\ g.at = m.sp - 6
    BY <2>1, <2>5 DEF Framed
  <2>7. m.sp \in Int /\ f.sp = m.sp - 6
    <3>1. m.sp \in Int
      BY Sizes DEF Good, Machines, Address
    <3>2. PICK ram, frames : f = [m EXCEPT !.sp = m.sp - 6, !.ram = ram,
                                           !.frames = frames]
      BY <2>5 DEF Framed
    <3> QED BY <3>1, <3>2 DEF Good, Machines
  <2>8. g \in w.frames
    BY <2>4, <2>6, <2>7
  <2>9. g \in l.frames
    BY <2>3, <2>4, <2>6, <2>7, <2>8
  <2>10. g \in n.frames
    BY <2>2, <2>3, <2>4, <2>6, <2>7, <2>9
  <2>11. Even(m.sp)
    BY <2>4, <2>7 DEF RamWords, Even
  <2> QED BY <2>1, <2>2, <2>3, <2>4, <2>7, <2>10, <2>11
<1> QED BY <1>7, <1>13, <1>14

\* m was left for the exception v, whose frame has 3 words, or 7, and pc.
Left(m, n, bytes, v, pc) ==
  /\ n.s = Supervisor /\ n.base[User] = UserSp(m)
  /\ n.sp = SupervisorSp(m) - bytes
  /\ n.pc = Handler[v]
  /\ \E f \in n.frames :
       f.sr = GetSr(m) /\ f.pc = pc /\ SupervisorSp(m) = f.at + 6
ErrorLeft(m, n) == Left(m, n, 14, EXCEPTION_ADDRESS_ERROR, m.pc)

LEMMA AddressErrorLeaves ==
  ASSUME NEW m, Good(m)
  PROVE  LET n == AddressError(m) IN
         /\ n.status = "ok" => ErrorLeft(m, n) /\ Even(SupervisorSp(m))
         /\ n.status = "aerr" => n.run_mode = "wsf"
         /\ m.run_mode = "wsf" => n.status = "exit"
<1>1. PICK c : c = [m EXCEPT !.status = "ok"]
  OBVIOUS
<1>2. /\ c \in Machines /\ c.ram = m.ram /\ c.frames = m.frames
      /\ c.s = m.s /\ c.sp = m.sp /\ c.base = m.base /\ c.pc = m.pc
  BY <1>1 DEF Good, Machines
<1>3. Good(c)
  BY <1>2, SameRam
<1>4. PICK i : i = InitException(c)
  OBVIOUS
<1>5. /\ Good(i)
      /\ i = [c EXCEPT !.t1 = 0, !.base = [c.base EXCEPT ![c.s] = c.sp],
                       !.s = Supervisor, !.sp = SupervisorSp(c)]
  BY <1>3, <1>4, InitExceptionGood
<1>6. SupervisorSp(c) = SupervisorSp(m) /\ UserSp(c) = UserSp(m)
  BY <1>2 DEF SupervisorSp, UserSp
<1>7. /\ i.sp = SupervisorSp(m) /\ i.s = Supervisor
      /\ i.base[User] = UserSp(m) /\ i.pc = m.pc
  <2>1. i.base[User] = UserSp(c)
    BY <1>2, <1>5 DEF Machines, UserSp
  <2> QED BY <1>2, <1>5, <1>6, <2>1 DEF Machines
<1>8. PICK w : w = [i EXCEPT !.run_mode = "wsf"]
  OBVIOUS
<1>9. /\ w \in Machines /\ w.ram = i.ram /\ w.frames = i.frames
      /\ w.sp = i.sp /\ w.s = i.s /\ w.base = i.base /\ w.run_mode = "wsf"
      /\ w.pc = i.pc
  <2>1. Good(i)
    BY <1>5
  <2> QED BY <1>8, <2>1 DEF Good, Machines
<1>10. Good(w)
  BY <1>5, <1>9, SameRam
<1>11. PICK sr \in Srs : sr = GetSr(m)
  BY SrRange DEF Good
<1>12. PICK b : b = StackFrameBuserr(w, sr)
  OBVIOUS
<1>13. /\ Good(b) /\ Settings(w, b)
       /\ b.status = "ok" =>
            /\ b.sp = w.sp - 14 /\ Even(w.sp)
            /\ [at |-> w.sp - 6, pc |-> w.pc, sr |-> sr] \in b.frames
  BY <1>10, <1>12, BuserrFrame, StackFrameBuserrGood
<1>14. PICK f : f = JumpVector(b, EXCEPTION_ADDRESS_ERROR)
  OBVIOUS
<1>15. EXCEPTION_ADDRESS_ERROR \in Vectors
  BY DEF Vectors
<1>16. /\ Good(f) /\ Settings(b, f) /\ f.status = b.status /\ f.sp = b.sp
       /\ b.status = "ok" => f = [b EXCEPT !.pc = Handler[EXCEPTION_ADDRESS_ERROR]]
  BY <1>13, <1>14, <1>15, JumpSettings, JumpVectorGood
<1>17. PICK g : g = [f EXCEPT !.run_mode = "berr"]
  OBVIOUS
<1>18. PICK x : x = [i EXCEPT !.status = "exit"]
  OBVIOUS
<1>19. x.status = "exit"
  BY <1>5, <1>18 DEF Good, Machines
<1>20. /\ g.status = f.status /\ g.s = f.s /\ g.base = f.base /\ g.sp = f.sp
       /\ g.pc = f.pc /\ g.frames = f.frames
  BY <1>16, <1>17 DEF Good, Machines
<1>21. PICK n : n = AddressError(m)
  OBVIOUS
<1>22. n = IF m.run_mode = "wsf" THEN x ELSE Then(f, g)
  BY <1>1, <1>4, <1>8, <1>11, <1>12, <1>14, <1>17, <1>18, <1>21 DEF AddressError
<1>23. ASSUME n.status = "ok" PROVE ErrorLeft(m, n) /\ Even(SupervisorSp(m))
  <2>1. n = g /\ b.status = "ok"
    BY <1>16, <1>19, <1>20, <1>22, <1>23 DEF Then
  <2>2. f.pc = Handler[EXCEPTION_ADDRESS_ERROR] /\ f.frames = b.frames
    BY <1>13, <1>16, <2>1 DEF Good, Machines
  <2>3. n.s = Supervisor /\ n.base[User] = UserSp(m)
    BY <1>7, <1>9, <1>13, <1>16, <1>20, <2>1 DEF Settings, Kept
  <2>4. n.sp = SupervisorSp(m) - 14 /\ Even(SupervisorSp(m))
    BY <1>7, <1>9, <1>13, <1>16, <1>20, <2>1
  <2>5. SupervisorSp(m) \in Int
    BY Sizes DEF SupervisorSp, Good, Machines, Address
  <2>6. PICK h : h = [at |-> SupervisorSp(m) - 6, pc |-> w.pc, sr |-> sr]
    OBVIOUS
  <2>7. h \in n.frames /\ h.sr = GetSr(m) /\ h.pc = m.pc /\ SupervisorSp(m) = h.at + 6
    BY <1>7, <1>9, <1>11, <1>13, <1>20, <2>1, <2>2, <2>5, <2>6
  <2>8. n.pc = Handler[EXCEPTION_ADDRESS_ERROR]
    BY <1>20, <2>1, <2>2
  <2> QED BY <2>3, <2>4, <2>7, <2>8 DEF ErrorLeft, Left
<1>24. ASSUME n.status = "aerr" PROVE n.run_mode = "wsf"
  <2>1. n = f
    BY <1>16, <1>19, <1>20, <1>22, <1>24 DEF Then
  <2> QED BY <1>9, <1>13, <1>16, <2>1 DEF Settings
<1>25. m.run_mode = "wsf" => n.status = "exit"
  BY <1>19, <1>22
<1> QED BY <1>21, <1>23, <1>24, <1>25

\* The return point leaves an address error behind as an exception, or not at
\* all.
LEMMA TrappedLeaves ==
  ASSUME NEW m, Good(m), Trapped(m).status = "ok", m.status # "ok"
  PROVE  ErrorLeft(m, Trapped(m)) /\ Even(SupervisorSp(m)) /\ m.status = "aerr"
<1>1. PICK e : e = AddressError(m)
  OBVIOUS
<1>2. PICK d : d = AddressError(e)
  OBVIOUS
<1>3. PICK n : n = Trapped(m)
  OBVIOUS
<1>4. n = IF m.status # "aerr" THEN m ELSE IF e.status = "aerr" THEN d ELSE e
  BY <1>1, <1>2, <1>3 DEF Trapped
<1>5. Good(e) /\ (e.status = "aerr" => e.run_mode = "wsf")
  BY <1>1, AddressErrorGood, AddressErrorLeaves
<1>6. e.run_mode = "wsf" => d.status = "exit"
  BY <1>2, <1>5, AddressErrorLeaves
<1>7. n = e /\ e.status = "ok" /\ m.status = "aerr"
  BY <1>3, <1>4, <1>5, <1>6
<1> QED BY <1>1, <1>3, <1>7, AddressErrorLeaves
-----------------------------------------------------------------------------
(* What a step does to the two modes.                                      *)

EnterPointers ==
  /\ SupervisorSp(cpu) - SupervisorSp(cpu') \in {6, 14}
  /\ \/ \E d \in {-4, -2, 0, 2, 4} : UserSp(cpu') = ADDRESS_68K(UserSp(cpu) + d)
     \/ /\ SupervisorSp(cpu) - SupervisorSp(cpu') = 14
        /\ ~Even(UserSp(cpu'))

\* From user mode, and from supervisor mode.
Passed == IF cpu'.s = User THEN Confined
          ELSE cpu'.s = Supervisor /\ Entered /\ EnterPointers
Managed == /\ UserSp(cpu') = UserSp(cpu)
           /\ cpu'.s = User => SupervisorSp(cpu') - SupervisorSp(cpu) \in {0, 6}
Moded == (cpu.s = User => Passed) /\ (cpu.s = Supervisor => Managed)

\* The next CPU is n.
Is(n) == /\ n.status = "ok"
         /\ cpu'.s = n.s /\ cpu'.t1 = n.t1 /\ cpu'.mask = n.mask
         /\ cpu'.sp = n.sp /\ cpu'.base = n.base /\ cpu'.pc = n.pc
         /\ cpu'.stopped = n.stopped /\ cpu'.frames = n.frames

LEMMA BecomesIs ==
  ASSUME NEW n, Good(n), Becomes(n), process' = "runs"
  PROVE  Is(n)
<1>1. n.status = "ok"
  BY DEF Becomes
<1>2. cpu' = [n EXCEPT !.aerr = NoError]
  BY <1>1 DEF Becomes
<1> QED BY <1>1, <1>2 DEF Is, Good, Machines

LEMMA Types ==
  ASSUME NEW m, Good(m)
  PROVE  /\ m.s \in {User, Supervisor} /\ m.sp \in Address /\ m.sp \in Int
         /\ UserSp(m) \in Address /\ SupervisorSp(m) \in Address
         /\ UserSp(m) \in Int /\ SupervisorSp(m) \in Int
<1>1. m.s \in {User, Supervisor} /\ m.sp \in Address
      /\ m.base[User] \in Address /\ m.base[Supervisor] \in Address
  BY DEF Good, Machines
<1>2. UserSp(m) \in Address /\ SupervisorSp(m) \in Address
  BY <1>1 DEF UserSp, SupervisorSp
<1>3. \A a \in Address : a \in Int
  BY Sizes DEF Address
<1> QED BY <1>1, <1>2, <1>3

\* The vectors that stack the counter behind the instruction, and CHK, which
\* alone stacks other flags.
LEMMA OtherVectors ==
  \A v \in LineVectors \union InterruptVectors \union
        {EXCEPTION_ADDRESS_ERROR, EXCEPTION_ILLEGAL_INSTRUCTION,
         EXCEPTION_PRIVILEGE_VIOLATION} :
    v \in Vectors \ (TrapVectors \union {EXCEPTION_CHK})
<1>1. PICK i \in 25..30 : i = EXCEPTION_INTERRUPT_AUTOVECTOR + Level
  BY ExceptionAssumption DEF EXCEPTION_INTERRUPT_AUTOVECTOR
<1>2. InterruptVectors = {i, 15}
  BY <1>1 DEF InterruptVectors, EXCEPTION_UNINITIALIZED_INTERRUPT
<1>3. Vectors = TrapVectors \union LineVectors \union {3, 4, 6, 8, 15, i}
  BY <1>1 DEF Vectors, EXCEPTION_ADDRESS_ERROR, EXCEPTION_ILLEGAL_INSTRUCTION,
     EXCEPTION_CHK, EXCEPTION_PRIVILEGE_VIOLATION, EXCEPTION_UNINITIALIZED_INTERRUPT
<1>4. 3 \notin TrapVectors /\ 4 \notin TrapVectors /\ 8 \notin TrapVectors
      /\ 15 \notin TrapVectors /\ i \notin TrapVectors
      /\ 6 \notin LineVectors /\ (\A v \in LineVectors : v \notin TrapVectors)
  <2>1. 3 \in 3..4 /\ 4 \in 3..4
    OBVIOUS
  <2> QED BY <1>1, <2>1, TrapAssumption DEF EXCEPTION_CHK
<1> QED BY <1>2, <1>3, <1>4
     DEF EXCEPTION_ADDRESS_ERROR, EXCEPTION_ILLEGAL_INSTRUCTION, EXCEPTION_CHK,
         EXCEPTION_PRIVILEGE_VIOLATION

LEMMA Stacked ==
  /\ \A v \in TrapVectors : v # EXCEPTION_CHK /\ Fetched(1).pc \in StackedPc(v)
  /\ Fetched(1).pc \in StackedPc(EXCEPTION_CHK)
  /\ \A v \in Vectors \ (TrapVectors \union {EXCEPTION_CHK}) : cpu.pc \in StackedPc(v)
  /\ {cpu.pc, Fetched(1).pc} \subseteq StackedPc(EXCEPTION_ADDRESS_ERROR)
  /\ \A v \in Vectors \ {EXCEPTION_CHK} : GetSr(cpu) \in StackedSr(v)
<1>1. EXCEPTION_ADDRESS_ERROR \notin TrapVectors \union {EXCEPTION_CHK}
  BY OtherVectors
<1>2. EXCEPTION_CHK \notin TrapVectors
  BY TrapAssumption
<1> QED BY <1>1, <1>2 DEF StackedPc, StackedSr

\* m, which is left for the exception v, has what v may stack of user mode, and
\* its pointer in front of the operand, behind it, or at what UNLK loaded.
Departed(m, bytes, v, pc) ==
  /\ SupervisorSp(m) = SupervisorSp(cpu)
  /\ GetSr(m) \in StackedSr(v) /\ pc \in StackedPc(v)
  /\ \/ \E d \in {-4, -2, 0, 2, 4} : UserSp(m) = ADDRESS_68K(UserSp(cpu) + d)
     \/ bytes = 14 /\ ~Even(UserSp(m))

LEMMA LeftPasses ==
  ASSUME Inv, NEW m, Good(m), NEW n, Is(n), NEW bytes \in {6, 14},
         NEW v \in Vectors, NEW pc, Left(m, n, bytes, v, pc),
         cpu.s = User => Departed(m, bytes, v, pc),
         cpu.s = Supervisor => UserSp(m) = UserSp(cpu)
  PROVE  Moded
<1>1. /\ cpu'.s = Supervisor /\ UserSp(cpu') = UserSp(m)
      /\ SupervisorSp(cpu') = SupervisorSp(m) - bytes
  BY DEF Is, Left, UserSp, SupervisorSp
<1>2. ASSUME cpu.s = User PROVE Passed
  <2>1. Departed(m, bytes, v, pc)
    BY <1>2
  <2>2. Entered
    BY <2>1 DEF Is, Left, Entered, Departed
  <2>3. SupervisorSp(cpu) - SupervisorSp(cpu') = bytes
    <3>1. SupervisorSp(m) \in Int
      BY Types
    <3> QED BY <1>1, <2>1, <3>1 DEF Departed
  <2>4. EnterPointers
    BY <1>1, <2>1, <2>3 DEF EnterPointers, Departed
  <2> QED BY <1>1, <2>2, <2>4 DEF Passed
<1>3. ASSUME cpu.s = Supervisor PROVE Managed
  BY <1>1, <1>3 DEF Managed
<1> QED BY <1>2, <1>3 DEF Moded

\* An instruction that works in its mode.  If an access failed it has moved no
\* more than the pointer.
Ordinary(n) ==
  /\ Kept(cpu, n)
  /\ n.status = "aerr" =>
       /\ n.ccr = cpu.ccr /\ n.pc \in {cpu.pc, Fetched(1).pc}
       /\ \/ \E d \in {-4, -2, 0, 2, 4} : n.sp = ADDRESS_68K(cpu.sp + d)
          \/ ~Even(n.sp)

LEMMA OrdinaryStep ==
  ASSUME Inv, NEW n, Good(n), Calm(n), Ordinary(n), Executes(n), process' = "runs"
  PROVE  Moded
<1>1. PICK x : x = Trapped(n)
  OBVIOUS
<1>2. Good(x) /\ (n.status = "ok" => x = n)
  BY <1>1, TrappedGood DEF Calm
<1>3. Is(x)
  BY <1>1, <1>2, BecomesIs DEF Executes
<1>4. CASE n.status = "ok"
  <2>1. cpu'.s = cpu.s /\ cpu'.base = cpu.base /\ Kept(cpu, cpu')
    BY <1>2, <1>3, <1>4 DEF Is, Ordinary, Kept
  <2>2. cpu.s = User => Confined /\ cpu'.s = User
    BY <2>1 DEF Kept, Confined, SupervisorSp
  <2>3. cpu.s = Supervisor => Managed
    BY <2>1 DEF Managed, UserSp
  <2> QED BY <2>2, <2>3 DEF Moded, Passed
<1>5. CASE n.status # "ok"
  <2>1. ErrorLeft(n, x) /\ n.status = "aerr"
    BY <1>1, <1>3, <1>5, TrappedLeaves DEF Is
  <2>2. /\ n.pc \in {cpu.pc, Fetched(1).pc}
        /\ \/ \E d \in {-4, -2, 0, 2, 4} : n.sp = ADDRESS_68K(cpu.sp + d)
           \/ ~Even(n.sp)
    BY <2>1 DEF Ordinary
  <2>3. n.s = cpu.s /\ n.base = cpu.base /\ GetSr(n) = GetSr(cpu)
    BY <2>1 DEF Ordinary, Kept, GetSr
  <2>4. CASE cpu.s = User
    <3>1. SupervisorSp(n) = SupervisorSp(cpu)
      BY <2>3, <2>4 DEF SupervisorSp
    <3>2. UserSp(n) = n.sp /\ UserSp(cpu) = cpu.sp
      BY <2>3, <2>4 DEF UserSp
    <3>3. EXCEPTION_ADDRESS_ERROR \in Vectors \ {EXCEPTION_CHK}
      BY OtherVectors
    <3>4. Departed(n, 14, EXCEPTION_ADDRESS_ERROR, n.pc)
      BY <2>2, <2>3, <3>1, <3>2, <3>3, Stacked DEF Departed
    <3> QED BY <1>3, <2>1, <2>4, <3>3, <3>4, LeftPasses DEF ErrorLeft
  <2>5. CASE cpu.s = Supervisor
    <3>1. UserSp(n) = UserSp(cpu)
      BY <2>3, <2>5 DEF UserSp
    <3>2. UserSp(x) = UserSp(n) /\ x.s = Supervisor
      BY <2>1 DEF ErrorLeft, Left, UserSp
    <3>3. Managed
      BY <1>3, <3>1, <3>2 DEF Managed, Is, UserSp
    <3> QED BY <2>5, <3>3 DEF Moded
  <2> QED BY <2>4, <2>5, Types DEF Inv, CpuOK
<1> QED BY <1>4, <1>5

\* An instruction that is an exception; m is the CPU behind its words and its
\* operand.
LEMMA ExceptionStep ==
  ASSUME Inv, NEW m, Good(m), m.status = "ok", m.run_mode # "wsf",
         Kept(cpu, m), NEW d \in {-4, -2, 0, 2, 4}, m.sp = ADDRESS_68K(cpu.sp + d),
         NEW v \in Vectors, GetSr(m) \in StackedSr(v),
         NEW pc \in Address, pc \in StackedPc(v),
         Executes(Exception(m, v, pc)), process' = "runs"
  PROVE  Moded
<1>1. PICK n : n = Exception(m, v, pc)
  OBVIOUS
<1>2. Good(n) /\ Calm(n) /\ Inside(m, n)
  BY <1>1, ExceptionCalm, ExceptionInside
<1>3. n.status = "ok" => Taken(m, GetSr(m), pc, v, n)
  BY <1>1, ExceptionGood
<1>4. PICK x : x = Trapped(n)
  OBVIOUS
<1>5. Good(x) /\ (n.status = "ok" => x = n)
  BY <1>2, <1>4, TrappedGood DEF Calm
<1>6. Is(x)
  BY <1>1, <1>4, <1>5, BecomesIs DEF Executes
<1>7. n.status = "ok"
  <2> SUFFICES ASSUME n.status # "ok" PROVE FALSE
    OBVIOUS
  <2>1. Even(SupervisorSp(n)) /\ n.status = "aerr"
    BY <1>2, <1>4, <1>6, TrappedLeaves DEF Is
  <2> QED BY <1>2, <2>1 DEF Inside, SupervisorSp
<1>8. Taken(m, GetSr(m), pc, v, n) /\ x = n
  BY <1>3, <1>5, <1>7
<1>9. PICK f : f = [at |-> SupervisorSp(m) - 6, pc |-> pc, sr |-> GetSr(m)]
  OBVIOUS
<1>10. f \in n.frames /\ f.sr = GetSr(m) /\ f.pc = pc /\ SupervisorSp(m) = f.at + 6
  <2>1. SupervisorSp(m) \in Int
    BY Types
  <2> QED BY <1>8, <1>9, <2>1 DEF Taken
<1>11. Left(m, n, 6, v, pc)
  BY <1>8, <1>10 DEF Left, Taken
<1>12. cpu.s = User => Departed(m, 6, v, pc)
  BY DEF Kept, SupervisorSp, UserSp, Departed
<1>13. cpu.s = Supervisor => UserSp(m) = UserSp(cpu)
  BY DEF Kept, UserSp
<1> QED BY <1>6, <1>8, <1>11, <1>12, <1>13, LeftPasses

LEMMA PointerStays == Inv => cpu.sp = ADDRESS_68K(cpu.sp + 0)
<1> SUFFICES ASSUME Inv PROVE cpu.sp = ADDRESS_68K(cpu.sp + 0)
  OBVIOUS
<1>1. cpu.sp \in Address /\ cpu.sp \in Int
  BY Types DEF Inv, CpuOK
<1>2. cpu.sp + 0 = cpu.sp
  BY <1>1
<1> QED BY <1>1, <1>2, AddressRange

\* One that does nothing else before.
LEMMA PlainExceptionStep ==
  ASSUME Inv, NEW m, Good(m), m.status = "ok", m.run_mode # "wsf",
         Kept(cpu, m), m.ccr = cpu.ccr, m.sp = cpu.sp,
         NEW v \in Vectors, v # EXCEPTION_CHK,
         NEW pc \in Address, pc \in StackedPc(v),
         Executes(Exception(m, v, pc)), process' = "runs"
  PROVE  Moded
<1>1. GetSr(m) = GetSr(cpu)
  BY DEF Kept, GetSr
<1>2. GetSr(m) \in StackedSr(v)
  BY <1>1, Stacked
<1>3. m.sp = ADDRESS_68K(cpu.sp + 0)
  BY PointerStays
<1> QED BY <1>2, <1>3, ExceptionStep

\* An instruction of the supervisor that leads to n.
Supervised(n) ==
  /\ UserSp(n) = UserSp(cpu)
  /\ n.status = "ok" /\ n.s = User => SupervisorSp(n) - SupervisorSp(cpu) \in {0, 6}

LEMMA SupervisedStep ==
  ASSUME Inv, cpu.s = Supervisor, NEW n, Good(n), Calm(n), Supervised(n),
         Executes(n), process' = "runs"
  PROVE  Moded
<1>1. PICK x : x = Trapped(n)
  OBVIOUS
<1>2. Good(x) /\ (n.status = "ok" => x = n)
  BY <1>1, TrappedGood DEF Calm
<1>3. Is(x)
  BY <1>1, <1>2, BecomesIs DEF Executes
<1>4. CASE n.status = "ok"
  <2>1. /\ UserSp(cpu') = UserSp(n) /\ SupervisorSp(cpu') = SupervisorSp(n)
        /\ cpu'.s = n.s
    BY <1>2, <1>3, <1>4 DEF Is, UserSp, SupervisorSp
  <2>2. Managed
    BY <1>4, <2>1 DEF Managed, Supervised
  <2> QED BY <2>2 DEF Moded
<1>5. CASE n.status # "ok"
  <2>1. ErrorLeft(n, x)
    BY <1>1, <1>3, <1>5, TrappedLeaves DEF Is
  <2>2. UserSp(cpu') = UserSp(n) /\ cpu'.s = Supervisor
    BY <1>3, <2>1 DEF ErrorLeft, Left, Is, UserSp
  <2>3. Managed
    BY <2>2 DEF Managed, Supervised
  <2> QED BY <2>3 DEF Moded
<1> QED BY <1>4, <1>5

LEMMA FetchedKept ==
  ASSUME Inv, NEW words \in Nat
  PROVE  LET f == Fetched(words) IN
         Kept(cpu, f) /\ f.ccr = cpu.ccr /\ f.run_mode = cpu.run_mode
<1>1. PICK a : a = ADDRESS_68K(cpu.pc + 2 * words)
  OBVIOUS
<1>2. PICK f : f = Fetched(words)
  OBVIOUS
<1>3. f = [cpu EXCEPT !.pc = a]
  BY <1>1, <1>2 DEF Fetched
<1>4. Kept(cpu, f) /\ f.ccr = cpu.ccr /\ f.run_mode = cpu.run_mode
  BY <1>3 DEF Inv, CpuOK, Good, Machines, Kept
<1> QED BY <1>2, <1>4

\* The same, for an exception that first marks that no instruction runs.
LEMMA MarkedKept ==
  ASSUME Inv
  PROVE  LET f == [Fetched(1) EXCEPT !.instr_mode = INSTRUCTION_NO] IN
         /\ Good(f) /\ f.status = "ok" /\ f.run_mode # "wsf" /\ Kept(cpu, f)
         /\ f.ccr = cpu.ccr /\ f.sp = cpu.sp
<1>1. PICK g : g = Fetched(1)
  OBVIOUS
<1>2. Good(g) /\ g.status = "ok" /\ g.run_mode # "wsf" /\ g.sp = cpu.sp
  BY <1>1, FetchedGood DEF Inv
<1>3. Kept(cpu, g) /\ g.ccr = cpu.ccr
  BY <1>1, FetchedKept
<1>4. PICK f : f = [g EXCEPT !.instr_mode = INSTRUCTION_NO]
  OBVIOUS
<1>5. Good(f) /\ f.status = g.status /\ f.run_mode = g.run_mode
  BY <1>2, <1>4, ModeGood
<1>6. Kept(g, f) /\ f.ccr = g.ccr /\ f.sp = g.sp
  BY <1>2, <1>4 DEF Good, Machines, Kept
<1> QED BY <1>1, <1>2, <1>3, <1>4, <1>5, <1>6 DEF Kept

LEMMA PrivilegedStep ==
  ASSUME Inv, NEW n, Privileged(n), process' = "runs",
         cpu.s = Supervisor => Good(n) /\ Calm(n) /\ Supervised(n)
  PROVE  Moded
<1>1. CASE cpu.s = Supervisor
  BY <1>1, SupervisedStep DEF Privileged
<1>2. CASE cpu.s # Supervisor
  <2>1. PICK f : f = [Fetched(1) EXCEPT !.instr_mode = INSTRUCTION_NO]
    OBVIOUS
  <2>2. Executes(Exception(f, EXCEPTION_PRIVILEGE_VIOLATION, cpu.pc))
    BY <1>2, <2>1 DEF Privileged, PrivilegeViolation
  <2>3. EXCEPTION_PRIVILEGE_VIOLATION \in Vectors /\ cpu.pc \in Address
    BY DEF Vectors, Inv, CpuOK, Good, Machines
  <2>4. /\ EXCEPTION_PRIVILEGE_VIOLATION # EXCEPTION_CHK
        /\ cpu.pc \in StackedPc(EXCEPTION_PRIVILEGE_VIOLATION)
    BY OtherVectors, Stacked
  <2> QED BY <2>1, <2>2, <2>3, <2>4, MarkedKept, PlainExceptionStep
<1> QED BY <1>1, <1>2

\* Loading the status register moves neither of the two pointers.
LEMMA SrPointers ==
  ASSUME NEW m, Good(m), NEW value \in Word
  PROVE  LET z == SetSrNoint(m, value) IN
         /\ Good(z) /\ z.status = m.status
         /\ SupervisorSp(z) = SupervisorSp(m) /\ UserSp(z) = UserSp(m)
<1>1. value \in Nat
  BY Sizes DEF Word
<1>2. PICK t \in {0, 1}, k \in 0..7, c \in 0..31, s \in {User, Supervisor} :
        /\ t = (value \div 32768) % 2 /\ k = (value \div 256) % 8
        /\ c = value % 32 /\ s = 4 * ((value \div 8192) % 2)
  BY <1>1
<1>3. PICK n : n = [m EXCEPT !.t1 = t, !.mask = k, !.ccr = c]
  OBVIOUS
<1>4. PICK z : z = SetSrNoint(m, value)
  OBVIOUS
<1>5. z = SetS(n, s)
  BY <1>2, <1>3, <1>4 DEF SetSrNoint
<1>6. n \in Machines /\ n.sp = m.sp /\ n.base = m.base /\ n.s = m.s
      /\ n.status = m.status
  BY <1>3 DEF Good, Machines
<1>7. PICK base : base = [n.base EXCEPT ![n.s] = n.sp]
  OBVIOUS
<1>8. z = [n EXCEPT !.base = base, !.s = s, !.sp = base[s]]
  BY <1>5, <1>7 DEF SetS
<1>9. z.s = s /\ z.status = n.status /\ z.base = base /\ z.sp = base[s]
  BY <1>6, <1>8 DEF Machines
<1>10. n.s \in {User, Supervisor} /\ DOMAIN n.base = {User, Supervisor}
  BY <1>6 DEF Machines
<1>11. SupervisorSp(z) = SupervisorSp(n) /\ UserSp(z) = UserSp(n)
  BY <1>7, <1>9, <1>10 DEF SupervisorSp, UserSp
<1>12. SupervisorSp(n) = SupervisorSp(m) /\ UserSp(n) = UserSp(m)
  BY <1>6 DEF SupervisorSp, UserSp
<1>13. Good(z)
  BY <1>4, SetSrNointGood
<1> QED BY <1>4, <1>6, <1>9, <1>11, <1>12, <1>13

LEMMA SetSrPointers ==
  ASSUME NEW m, Good(m), m.status = "ok", NEW value \in Word
  PROVE  LET n == SetSr(m, value) IN
         /\ UserSp(n) = UserSp(m)
         /\ n.status = "ok" /\ n.s = User => SupervisorSp(n) = SupervisorSp(m)
<1>1. PICK z : z = SetSrNoint(m, value)
  OBVIOUS
<1>2. /\ Good(z) /\ z.status = "ok"
      /\ SupervisorSp(z) = SupervisorSp(m) /\ UserSp(z) = UserSp(m)
  BY <1>1, SrPointers
<1>3. PICK n : n = SetSr(m, value)
  OBVIOUS
<1>4. n = z \/ n = ExceptionInterrupt(z)
  BY <1>1, <1>3 DEF SetSr, CheckInterrupts
<1>5. Inside(z, ExceptionInterrupt(z))
  BY <1>2, InterruptInside
<1>6. n = ExceptionInterrupt(z) => UserSp(n) = UserSp(z) /\ n.s = Supervisor
  BY <1>5 DEF Inside, UserSp
<1> QED BY <1>2, <1>3, <1>4, <1>6
-----------------------------------------------------------------------------
(* The instructions.                                                       *)

LEMMA FetchFailsModes == Inv /\ FetchFails /\ process' = "runs" => Moded
<1> SUFFICES ASSUME Inv, FetchFails, process' = "runs" PROVE Moded
  OBVIOUS
<1>1. PICK pc \in Address : pc = cpu.pc
  BY DEF Inv, CpuOK, Good, Machines
<1>2. PICK m : m = Access(cpu, pc, 2, MODE_READ, FUNCTION_CODE_USER_PROGRAM)
  OBVIOUS
<1>3. Good(m) /\ (cpu.status = "ok" /\ m.status = "ok" => Accessed(cpu, pc, 2, m))
  BY <1>2, AccessGood DEF Inv, CpuOK
<1>4. Calm(m)
  BY <1>3 DEF Calm, Accessed, Inv, CpuOK
<1>5. Settings(cpu, m) /\ m.sp = cpu.sp /\ m.pc = cpu.pc
  BY <1>2, AccessSettings DEF Inv, CpuOK
<1>6. Ordinary(m)
  BY <1>5, PointerStays DEF Ordinary, Settings
<1>7. Executes(m)
  BY <1>1, <1>2 DEF FetchFails
<1> QED BY <1>3, <1>4, <1>6, <1>7, OrdinaryStep

LEMMA TrapModes ==
  ASSUME Inv, NEW v \in TrapVectors, Trap(v), process' = "runs"
  PROVE  Moded
<1>1. PICK f : f = Fetched(1)
  OBVIOUS
<1>2. Good(f) /\ f.run_mode # "wsf" /\ f.status = "ok" /\ f.sp = cpu.sp
  BY <1>1, FetchedGood DEF Inv
<1>3. f.pc \in Address /\ v \in Vectors
  BY <1>2 DEF Good, Machines, Vectors
<1>4. Executes(Exception(f, v, f.pc))
  BY <1>1 DEF Trap
<1>5. Kept(cpu, f) /\ f.ccr = cpu.ccr
  BY <1>1, FetchedKept
<1>6. v # EXCEPTION_CHK /\ f.pc \in StackedPc(v)
  BY <1>1, Stacked
<1> QED BY <1>2, <1>3, <1>4, <1>5, <1>6, PlainExceptionStep

LEMMA LineTrapModes ==
  ASSUME Inv, NEW v \in LineVectors, LineTrap(v), process' = "runs"
  PROVE  Moded
<1>1. PICK f : f = Fetched(1)
  OBVIOUS
<1>2. Good(f) /\ f.run_mode # "wsf" /\ f.status = "ok" /\ f.sp = cpu.sp
  BY <1>1, FetchedGood DEF Inv
<1>3. cpu.pc \in Address /\ v \in Vectors
  BY DEF Inv, CpuOK, Good, Machines, Vectors
<1>4. Executes(Exception(f, v, cpu.pc))
  BY <1>1 DEF LineTrap
<1>5. Kept(cpu, f) /\ f.ccr = cpu.ccr
  BY <1>1, FetchedKept
<1>6. v # EXCEPTION_CHK /\ cpu.pc \in StackedPc(v)
  BY OtherVectors, Stacked
<1> QED BY <1>2, <1>3, <1>4, <1>5, <1>6, PlainExceptionStep

LEMMA IllegalModes == ASSUME Inv, Illegal, process' = "runs" PROVE Moded
<1>1. PICK f : f = [Fetched(1) EXCEPT !.instr_mode = INSTRUCTION_NO]
  OBVIOUS
<1>2. Executes(Exception(f, EXCEPTION_ILLEGAL_INSTRUCTION, cpu.pc))
  BY <1>1 DEF Illegal
<1>3. EXCEPTION_ILLEGAL_INSTRUCTION \in Vectors /\ cpu.pc \in Address
  BY DEF Vectors, Inv, CpuOK, Good, Machines
<1>4. /\ EXCEPTION_ILLEGAL_INSTRUCTION # EXCEPTION_CHK
      /\ cpu.pc \in StackedPc(EXCEPTION_ILLEGAL_INSTRUCTION)
  BY OtherVectors, Stacked
<1> QED BY <1>1, <1>2, <1>3, <1>4, MarkedKept, PlainExceptionStep

LEMMA MoveToSrModes ==
  ASSUME Inv, NEW v \in SrValues, MoveToSr(v), process' = "runs"
  PROVE  Moded
<1>1. PICK f : f = Fetched(1)
  OBVIOUS
<1>2. /\ Good(f) /\ f.run_mode # "wsf" /\ f.status = "ok" /\ f.s = cpu.s
      /\ f.sp = cpu.sp /\ f.base = cpu.base
  BY <1>1, FetchedGood DEF Inv
<1>3. PICK x : x = SetSr(f, v)
  OBVIOUS
<1>4. v \in Word
  BY ExceptionAssumption
<1>5. Good(x) /\ Calm(x)
  BY <1>2, <1>3, <1>4, SetSrGood DEF Calm
<1>6. /\ UserSp(x) = UserSp(f)
      /\ x.status = "ok" /\ x.s = User => SupervisorSp(x) = SupervisorSp(f)
  BY <1>2, <1>3, <1>4, SetSrPointers
<1>7. UserSp(f) = UserSp(cpu) /\ SupervisorSp(f) = SupervisorSp(cpu)
  BY <1>2 DEF UserSp, SupervisorSp
<1>8. SupervisorSp(cpu) \in Int
  BY Types DEF Inv, CpuOK
<1>9. Supervised(x)
  BY <1>6, <1>7, <1>8 DEF Supervised
<1>10. Privileged(x)
  BY <1>1, <1>3 DEF MoveToSr
<1> QED BY <1>5, <1>9, <1>10, PrivilegedStep

LEMMA StopModes ==
  ASSUME Inv, NEW v \in SrValues, Stop(v), process' = "runs"
  PROVE  Moded
<1>1. PICK g : g = Fetched(2)
  OBVIOUS
<1>2. /\ Good(g) /\ g.run_mode # "wsf" /\ g.status = "ok" /\ g.s = cpu.s
      /\ g.sp = cpu.sp /\ g.base = cpu.base
  BY <1>1, FetchedGood DEF Inv
<1>3. PICK f : f = [g EXCEPT !.stopped = 1]
  OBVIOUS
<1>4. /\ f \in Machines /\ f.ram = g.ram /\ f.frames = g.frames
      /\ f.run_mode # "wsf" /\ f.status = "ok"
      /\ f.s = cpu.s /\ f.sp = cpu.sp /\ f.base = cpu.base
  BY <1>2, <1>3 DEF Good, Machines
<1>5. Good(f)
  BY <1>2, <1>4, SameRam
<1>6. PICK x : x = SetSr(f, v)
  OBVIOUS
<1>7. v \in Word
  BY ExceptionAssumption
<1>8. Good(x) /\ Calm(x)
  BY <1>4, <1>5, <1>6, <1>7, SetSrGood DEF Calm
<1>9. /\ UserSp(x) = UserSp(f)
      /\ x.status = "ok" /\ x.s = User => SupervisorSp(x) = SupervisorSp(f)
  BY <1>4, <1>5, <1>6, <1>7, SetSrPointers
<1>10. UserSp(f) = UserSp(cpu) /\ SupervisorSp(f) = SupervisorSp(cpu)
  BY <1>4 DEF UserSp, SupervisorSp
<1>11. SupervisorSp(cpu) \in Int
  BY Types DEF Inv, CpuOK
<1>12. Supervised(x)
  BY <1>9, <1>10, <1>11 DEF Supervised
<1>13. Privileged(x)
  BY <1>1, <1>3, <1>6 DEF Stop
<1> QED BY <1>8, <1>12, <1>13, PrivilegedStep

\* The one instruction that may touch the other pointer.
UspSet == /\ cpu.s = Supervisor /\ cpu'.s = Supervisor
          /\ SupervisorSp(cpu') = SupervisorSp(cpu)

LEMMA MoveToUspModes ==
  ASSUME Inv, NEW a \in SpValues, MoveToUsp(a), process' = "runs"
  PROVE  UspSet \/ Moded
<1>1. PICK f : f = Fetched(1)
  OBVIOUS
<1>2. /\ Good(f) /\ f.run_mode # "wsf" /\ f.status = "ok" /\ f.s = cpu.s
      /\ f.sp = cpu.sp
  BY <1>1, FetchedGood DEF Inv
<1>3. PICK x : x = [f EXCEPT !.base = [@ EXCEPT ![User] = a]]
  OBVIOUS
<1>4. a \in Address
  BY ExceptionAssumption
<1>5. /\ x \in Machines /\ x.ram = f.ram /\ x.frames = f.frames
      /\ x.status = "ok" /\ x.run_mode # "wsf" /\ x.s = cpu.s /\ x.sp = cpu.sp
  BY <1>2, <1>3, <1>4 DEF Good, Machines
<1>6. Good(x)
  BY <1>2, <1>5, SameRam
<1>7. Privileged(x)
  BY <1>1, <1>3 DEF MoveToUsp
<1>8. CASE cpu.s = Supervisor
  <2>1. Trapped(x) = x
    BY <1>5, <1>6, TrappedGood
  <2>2. Becomes(x)
    BY <1>7, <1>8, <2>1 DEF Privileged, Executes
  <2>3. Is(x)
    BY <1>6, <2>2, BecomesIs
  <2> QED BY <1>5, <1>8, <2>3 DEF Is, UspSet, SupervisorSp
<1>9. CASE cpu.s # Supervisor
  BY <1>7, <1>9, PrivilegedStep
<1> QED BY <1>8, <1>9

LEMMA ResetInstructionModes ==
  ASSUME Inv, ResetInstruction, process' = "runs"
  PROVE  Moded
<1>1. PICK f : f = Fetched(1)
  OBVIOUS
<1>2. /\ Good(f) /\ f.status = "ok" /\ f.s = cpu.s
      /\ f.sp = cpu.sp /\ f.base = cpu.base
  BY <1>1, FetchedGood DEF Inv
<1>3. CASE cpu.s = Supervisor
  <2>1. Trapped(f) = f
    BY <1>2 DEF Trapped
  <2>2. Becomes(f)
    BY <1>1, <1>3, <2>1 DEF ResetInstruction
  <2>3. Is(f)
    BY <1>2, <2>2, BecomesIs
  <2>4. UserSp(cpu') = UserSp(cpu) /\ cpu'.s = Supervisor
    BY <1>2, <1>3, <2>3 DEF Is, UserSp
  <2> QED BY <1>3, <2>4 DEF Moded, Managed
<1>4. CASE cpu.s # Supervisor
  BY <1>4, ResetOfUser, PrivilegedStep
<1> QED BY <1>3, <1>4

\* Where the first of two pulls succeeds, the second one is aligned.
LEMMA SecondPull ==
  ASSUME NEW f, Good(f), NEW o, o = Pull(f, 2), o.status = "ok",
         NEW c, Good(c), c.sp = o.sp, c.status = "ok"
  PROVE  Pull(c, 4).status # "aerr"
<1>1. Pulled(f, 2, o)
  BY PullGood
<1>2. f.sp \in RamWords /\ o.sp = f.sp + 2
  BY <1>1 DEF Pulled, Good, Machines
<1>3. Even(c.sp)
  BY <1>2 DEF RamWords, Even
<1> QED BY <1>3, PullSettings

LEMMA RteModes == ASSUME Inv, Rte, process' = "runs" PROVE Moded
<1>1. PICK f : f = Fetched(1)
  OBVIOUS
<1>2. /\ Good(f) /\ f.run_mode # "wsf" /\ f.status = "ok" /\ f.s = cpu.s
      /\ f.sp = cpu.sp /\ f.base = cpu.base
  BY <1>1, FetchedGood DEF Inv
<1>3. PICK o : o = Pull(f, 2)
  OBVIOUS
<1>4. Good(o) /\ (o.status = "ok" => Pulled(f, 2, o)) /\ Settings(f, o)
  BY <1>2, <1>3, PullGood, PullSettings
<1>5. PICK p : p = Pull(o, 4)
  OBVIOUS
<1>6. Good(p) /\ (p.status = "ok" => Pulled(o, 4, p)) /\ Settings(o, p)
  BY <1>4, <1>5, PullGood, PullSettings
<1>7. PICK pc, sr : pc = LongAt(f, f.sp + 2) /\ sr = WordAt(f, f.sp)
  OBVIOUS
<1>8. PICK q : q = [p EXCEPT !.pc = pc]
  OBVIOUS
<1>9. PICK r : r = SetSr(q, sr)
  OBVIOUS
<1>10. PICK x : x = [r EXCEPT !.instr_mode = INSTRUCTION_YES,
                              !.run_mode = "normal"]
  OBVIOUS
<1>11. Privileged(Then(p, Then(r, x)))
  BY <1>1, <1>3, <1>5, <1>7, <1>8, <1>9, <1>10 DEF Rte
<1>12. cpu.s = Supervisor => UserSp(p) = UserSp(cpu) /\ p.s = Supervisor
  BY <1>2, <1>4, <1>6 DEF Settings, Kept, UserSp
<1>13. CASE p.status # "ok"
  <2>1. Then(p, Then(r, x)) = p /\ Calm(p)
    BY <1>13 DEF Then, Calm
  <2>2. cpu.s = Supervisor => Supervised(p)
    BY <1>12, <1>13 DEF Supervised
  <2> QED BY <1>6, <1>11, <2>1, <2>2, PrivilegedStep
<1>14. CASE p.status = "ok"
  <2>1. Pulled(o, 4, p) /\ o.status = "ok" /\ Pulled(f, 2, o)
    BY <1>4, <1>6, <1>14 DEF Pulled
  <2>2. f.sp \in RamWords /\ o.sp = f.sp + 2
    BY <1>2, <2>1 DEF Pulled, Good, Machines
  <2>3. f.sp + 2 \in RamWords /\ (f.sp + 2) + 2 \in RamWords
    BY <2>1, <2>2 DEF Pulled
  <2>4. pc \in Address /\ sr \in Word
    BY <1>2, <1>7, <2>2, <2>3, WordAtType, LongAtType
  <2>5. p.sp = cpu.sp + 6
    <3>1. p.sp = o.sp + 4
      BY <1>4, <2>1 DEF Pulled, Good, Machines
    <3>2. f.sp \in Int
      BY <1>2, Types
    <3> QED BY <1>2, <2>2, <3>1, <3>2
  <2>6. Good(q) /\ q.status = "ok"
    BY <1>6, <1>8, <1>14, <2>4, PcGood
  <2>7. q.s = p.s /\ q.sp = p.sp /\ q.base = p.base
    BY <1>6, <1>8 DEF Good, Machines
  <2>8. Good(r) /\ (r.status = "ok" => r.run_mode = q.run_mode)
    BY <1>9, <2>4, <2>6, SetSrGood
  <2>9. /\ UserSp(r) = UserSp(q)
        /\ r.status = "ok" /\ r.s = User => SupervisorSp(r) = SupervisorSp(q)
    BY <1>9, <2>4, <2>6, SetSrPointers
  <2>10. cpu.s = Supervisor => /\ UserSp(q) = UserSp(cpu)
                               /\ SupervisorSp(q) - SupervisorSp(cpu) = 6
    <3>1. cpu.sp \in Int
      BY Types DEF Inv, CpuOK
    <3> QED BY <1>12, <2>5, <2>7, <3>1 DEF UserSp, SupervisorSp
  <2>11. cpu.s = Supervisor => Supervised(r)
    BY <2>9, <2>10 DEF Supervised
  <2>12. CASE r.status # "ok"
    <3>1. Then(p, Then(r, x)) = r /\ Calm(r)
      BY <1>14, <2>12 DEF Then, Calm
    <3> QED BY <1>11, <2>8, <2>11, <3>1, PrivilegedStep
  <2>13. CASE r.status = "ok"
    <3>1. /\ x \in Machines /\ x.ram = r.ram /\ x.frames = r.frames
          /\ x.run_mode = "normal" /\ x.status = r.status
          /\ x.s = r.s /\ x.sp = r.sp /\ x.base = r.base
      BY <1>10, <2>8 DEF Good, Machines
    <3>2. Good(x) /\ Calm(x)
      BY <2>8, <3>1, SameRam DEF Calm
    <3>3. Then(p, Then(r, x)) = x
      BY <1>14, <2>13 DEF Then
    <3>4. cpu.s = Supervisor => Supervised(x)
      BY <2>11, <3>1 DEF Supervised, UserSp, SupervisorSp
    <3> QED BY <1>11, <3>2, <3>3, <3>4, PrivilegedStep
  <2> QED BY <2>12, <2>13
<1> QED BY <1>13, <1>14

\* What is changed behind the words of an instruction that succeeds.
LEMMA QuietStep ==
  ASSUME Inv, NEW words \in Nat, NEW x, Good(x), x.status = "ok", Calm(x),
         Kept(Fetched(words), x), Executes(x), process' = "runs"
  PROVE  Moded
<1>1. Kept(cpu, Fetched(words))
  BY FetchedKept
<1>2. Ordinary(x)
  BY <1>1 DEF Ordinary, Kept
<1> QED BY <1>2, OrdinaryStep

LEMMA SetCcrModes ==
  ASSUME Inv, NEW v \in DataWords, SetCcr(v % 32), process' = "runs"
  PROVE  Moded
<1>1. PICK f : f = Fetched(1)
  OBVIOUS
<1>2. Good(f) /\ f.run_mode # "wsf" /\ f.status = "ok"
  BY <1>1, FetchedGood DEF Inv
<1>3. PICK x : x = [f EXCEPT !.ccr = v % 32]
  OBVIOUS
<1>4. v \in Word /\ (v % 32) % 32 = v % 32
  BY ExceptionAssumption, Sizes DEF Word
<1>5. Good(x) /\ x.status = "ok" /\ Calm(x)
  BY <1>2, <1>3, <1>4, CcrGood DEF Calm
<1>6. Kept(f, x)
  BY <1>2, <1>3 DEF Kept, Good, Machines
<1>7. Executes(x)
  BY <1>1, <1>3 DEF SetCcr
<1> QED BY <1>1, <1>5, <1>6, <1>7, QuietStep

LEMMA JumpModes ==
  ASSUME Inv, NEW t \in Targets, Jump(t), process' = "runs"
  PROVE  Moded
<1>1. PICK f : f = Fetched(1)
  OBVIOUS
<1>2. Good(f) /\ f.run_mode # "wsf" /\ f.status = "ok"
  BY <1>1, FetchedGood DEF Inv
<1>3. PICK x : x = [f EXCEPT !.pc = t]
  OBVIOUS
<1>4. t \in Address
  BY ExceptionAssumption
<1>5. Good(x) /\ x.status = "ok" /\ Calm(x)
  BY <1>2, <1>3, <1>4, PcGood DEF Calm
<1>6. Kept(f, x)
  BY <1>2, <1>3 DEF Kept, Good, Machines
<1>7. Executes(x)
  BY <1>1, <1>3 DEF Jump
<1> QED BY <1>1, <1>5, <1>6, <1>7, QuietStep

LEMMA Parity ==
  ASSUME NEW i \in Int
  PROVE  Even(ADDRESS_68K(i)) <=> Even(i)
<1>1. PICK q \in Int : ADDRESS_68K(i) = i - 16777216 * q
  <2>1. i % 16777216 = i - 16777216 * (i \div 16777216)
    OBVIOUS
  <2> QED BY <2>1, SizesAssumption DEF ADDRESS_68K
<1>2. PICK k \in Int : k = 8388608 * q
  OBVIOUS
<1>3. ADDRESS_68K(i) = i - 2 * k
  BY <1>1, <1>2
<1> QED BY <1>3 DEF Even

\* Where a push has room it succeeds.
\* UNLK has loaded the pointer when its pull finds out that it is odd.
LEMMA UnlkModes ==
  ASSUME Inv, NEW a \in SpValues, Unlk(a), process' = "runs"
  PROVE  Moded
<1>1. PICK f : f = Fetched(1)
  OBVIOUS
<1>2. Good(f) /\ f.run_mode # "wsf" /\ f.status = "ok"
  BY <1>1, FetchedGood DEF Inv
<1>3. PICK c : c = [f EXCEPT !.sp = a]
  OBVIOUS
<1>4. a \in Address /\ a \in Int
  BY ExceptionAssumption, Sizes DEF Address
<1>5. Good(c) /\ c.status = "ok" /\ c.run_mode # "wsf"
  BY <1>2, <1>3, <1>4, SpGood
<1>6. Kept(f, c) /\ c.ccr = f.ccr /\ c.pc = f.pc /\ c.sp = a
  BY <1>2, <1>3 DEF Kept, Good, Machines
<1>7. PICK p : p = Pull(c, 4)
  OBVIOUS
<1>8. /\ Good(p) /\ Settings(c, p) /\ p.pc = f.pc
      /\ p.sp = ADDRESS_68K(a + 4) /\ (p.status = "aerr" <=> ~Even(a))
  BY <1>5, <1>6, <1>7, PullGood, PullSettings
<1>9. p.status = "aerr" => ~Even(p.sp)
  <2>1. ~Even(a) => ~Even(a + 4)
    BY <1>4 DEF Even
  <2> QED BY <1>4, <1>8, <2>1, Parity
<1>10. Kept(cpu, f) /\ f.ccr = cpu.ccr
  BY <1>1, FetchedKept
<1>11. Ordinary(p) /\ Calm(p)
  BY <1>1, <1>5, <1>6, <1>8, <1>9, <1>10 DEF Ordinary, Settings, Kept, Calm
<1>12. Executes(p)
  BY <1>1, <1>3, <1>7 DEF Unlk
<1> QED BY <1>8, <1>11, <1>12, OrdinaryStep

LEMMA SetSpModes ==
  ASSUME Inv, NEW a \in SpValues, SetSp(a), process' = "runs"
  PROVE  Moded
<1>1. PICK f : f = Fetched(1)
  OBVIOUS
<1>2. Good(f) /\ f.run_mode # "wsf" /\ f.status = "ok"
  BY <1>1, FetchedGood DEF Inv
<1>3. PICK x : x = [f EXCEPT !.sp = a]
  OBVIOUS
<1>4. a \in Address
  BY ExceptionAssumption
<1>5. Good(x) /\ x.status = "ok" /\ Calm(x)
  BY <1>2, <1>3, <1>4, SpGood DEF Calm
<1>6. Kept(f, x)
  BY <1>2, <1>3 DEF Kept, Good, Machines
<1>7. Executes(x)
  BY <1>1, <1>3 DEF SetSp
<1> QED BY <1>1, <1>5, <1>6, <1>7, QuietStep

LEMMA DropAccessWordsModes ==
  ASSUME Inv, DropAccessWords, process' = "runs"
  PROVE  Moded
<1>1. PICK f : f = Fetched(2)
  OBVIOUS
<1>2. Good(f) /\ f.run_mode # "wsf" /\ f.status = "ok"
  BY <1>1, FetchedGood DEF Inv
<1>3. PICK a \in Address : a = ADDRESS_68K(f.sp + 8)
  <2>1. f.sp + 8 \in Int
    BY <1>2, Types
  <2> QED BY <2>1, AddressRange
<1>4. PICK x : x = [f EXCEPT !.sp = a]
  OBVIOUS
<1>5. Good(x) /\ x.status = "ok" /\ Calm(x)
  BY <1>2, <1>3, <1>4, SpGood DEF Calm
<1>6. Kept(f, x)
  BY <1>2, <1>4 DEF Kept, Good, Machines
<1>7. Executes(x)
  BY <1>1, <1>3, <1>4 DEF DropAccessWords
<1> QED BY <1>1, <1>5, <1>6, <1>7, QuietStep

\* An access to the stack, or to an odd address.
LEMMA AccessStep ==
  ASSUME Inv, NEW f, f = Fetched(1), NEW n, Good(n), Settings(f, n), n.pc = f.pc,
         NEW d \in {-4, -2, 0, 2, 4}, n.sp = ADDRESS_68K(f.sp + d)
  PROVE  Ordinary(n) /\ Calm(n)
<1>1. f.sp = cpu.sp /\ f.run_mode # "wsf"
  BY FetchedGood DEF Inv
<1>2. Kept(cpu, f) /\ f.ccr = cpu.ccr
  BY FetchedKept
<1> QED BY <1>1, <1>2 DEF Ordinary, Settings, Kept, Calm

LEMMA PullStep ==
  ASSUME Inv, NEW f, f = Fetched(1), NEW bytes \in {2, 4}
  PROVE  LET p == Pull(f, bytes) IN Good(p) /\ Ordinary(p) /\ Calm(p)
<1>1. Good(f) /\ f.status = "ok"
  BY FetchedGood DEF Inv
<1>2. PICK p : p = Pull(f, bytes)
  OBVIOUS
<1>3. Good(p)
  BY <1>1, <1>2, PullGood
<1>4. Settings(f, p) /\ p.pc = f.pc /\ p.sp = ADDRESS_68K(f.sp + bytes)
  BY <1>1, <1>2, PullSettings
<1> QED BY <1>2, <1>3, <1>4, AccessStep

LEMMA PopModes == ASSUME Inv, Pop, process' = "runs" PROVE Moded
BY PullStep, OrdinaryStep DEF Pop

\* CHK, behind its operand.
LEMMA ChkStep ==
  ASSUME Inv, NEW m, Good(m), Calm(m), Ordinary(m), m.ccr = cpu.ccr,
         m.pc = Fetched(1).pc,
         NEW d \in {-4, -2, 0, 2, 4}, m.sp = ADDRESS_68K(cpu.sp + d),
         NEW flags \in ChkFlags, Executes(Chk(m, flags)), process' = "runs"
  PROVE  Moded
<1>1. CASE m.status # "ok"
  <2>1. Chk(m, flags) = m
    BY <1>1 DEF Chk, Then
  <2> QED BY <2>1, OrdinaryStep
<1>2. CASE m.status = "ok"
  <2>1. PICK c \in 0..31 :
          /\ c = 16 * (m.ccr \div 16) + flags
          /\ 32768 * m.t1 + 2048 * m.s + 256 * m.mask + c
               = 16 * (GetSr(m) \div 16) + flags
    BY FlagsOfChk
  <2>2. PICK n : n = [m EXCEPT !.ccr = c]
    OBVIOUS
  <2>3. /\ n \in Machines /\ n.ram = m.ram /\ n.frames = m.frames
        /\ n.status = "ok" /\ n.run_mode = m.run_mode /\ n.sp = m.sp
        /\ n.ccr = c /\ Kept(m, n)
    BY <1>2, <2>2 DEF Good, Machines, Kept
  <2>4. Good(n) /\ n.run_mode # "wsf"
    BY <1>2, <2>3, SameRam DEF Calm
  <2>5. GetSr(m) = GetSr(cpu)
    BY DEF Ordinary, Kept, GetSr
  <2>6. GetSr(n) = 16 * (GetSr(cpu) \div 16) + flags
    BY <2>1, <2>3, <2>5 DEF Kept, GetSr
  <2>7. GetSr(n) \in StackedSr(EXCEPTION_CHK)
    BY <2>6 DEF StackedSr
  <2>8. Kept(cpu, n)
    BY <2>3 DEF Ordinary, Kept
  <2>9. PICK pc \in Address : pc = m.pc
    BY DEF Good, Machines
  <2>10. EXCEPTION_CHK \in Vectors /\ pc \in StackedPc(EXCEPTION_CHK)
    BY <2>9, Stacked DEF Vectors
  <2>11. Executes(Exception(n, EXCEPTION_CHK, pc))
    BY <1>2, <2>1, <2>2, <2>9 DEF Chk, Then
  <2> QED BY <2>3, <2>4, <2>7, <2>8, <2>10, <2>11, ExceptionStep
<1> QED BY <1>1, <1>2

LEMMA ChkRegisterModes ==
  ASSUME Inv, NEW flags \in ChkFlags, ChkRegister(flags), process' = "runs"
  PROVE  Moded
<1>1. PICK f : f = Fetched(1)
  OBVIOUS
<1>2. Good(f) /\ f.run_mode # "wsf" /\ f.status = "ok" /\ f.sp = cpu.sp
  BY <1>1, FetchedGood DEF Inv
<1>3. Kept(cpu, f) /\ f.ccr = cpu.ccr
  BY <1>1, FetchedKept
<1>4. Ordinary(f) /\ Calm(f)
  BY <1>2, <1>3 DEF Ordinary, Calm
<1>5. f.sp = ADDRESS_68K(cpu.sp + 0)
  BY <1>2, PointerStays
<1>6. Executes(Chk(f, flags))
  BY <1>1 DEF ChkRegister
<1> QED BY <1>1, <1>2, <1>3, <1>4, <1>5, <1>6, ChkStep

LEMMA ChkPoppedModes ==
  ASSUME Inv, NEW flags \in ChkFlags, ChkPopped(flags), process' = "runs"
  PROVE  Moded
<1>1. PICK f : f = Fetched(1)
  OBVIOUS
<1>2. Good(f) /\ f.status = "ok" /\ f.sp = cpu.sp
  BY <1>1, FetchedGood DEF Inv
<1>3. f.ccr = cpu.ccr
  BY <1>1, FetchedKept
<1>4. PICK p : p = Pull(f, 2)
  OBVIOUS
<1>5. Good(p) /\ Ordinary(p) /\ Calm(p)
  BY <1>1, <1>4, PullStep
<1>6. p.ccr = cpu.ccr /\ p.pc = f.pc /\ p.sp = ADDRESS_68K(cpu.sp + 2)
  BY <1>2, <1>3, <1>4, PullSettings DEF Settings
<1>7. Executes(Chk(p, flags))
  BY <1>1, <1>4 DEF ChkPopped
<1> QED BY <1>1, <1>5, <1>6, <1>7, ChkStep

LEMMA PushModes ==
  ASSUME Inv, NEW v \in DataWords, Push(v), process' = "runs"
  PROVE  Moded
<1>1. PICK f : f = Fetched(1)
  OBVIOUS
<1>2. Good(f) /\ f.status = "ok" /\ f.sp \in Int
  BY <1>1, FetchedGood, Types DEF Inv
<1>3. PICK p : p = PushWord(f, v)
  OBVIOUS
<1>4. Good(p) /\ Settings(f, p) /\ p.pc = f.pc /\ p.sp = ADDRESS_68K(f.sp - 2)
  BY <1>2, <1>3, PushWordGood, PushWordSettings, ExceptionAssumption
<1>5. f.sp - 2 = f.sp + (-2)
  BY <1>2
<1>6. Ordinary(p) /\ Calm(p)
  BY <1>1, <1>4, <1>5, AccessStep
<1>7. Executes(p)
  BY <1>1, <1>3 DEF Push
<1> QED BY <1>4, <1>6, <1>7, OrdinaryStep

LEMMA JsrModes ==
  ASSUME Inv, NEW t \in Targets, Jsr(t), process' = "runs"
  PROVE  Moded
<1>1. PICK f : f = Fetched(1)
  OBVIOUS
<1>2. Good(f) /\ f.status = "ok" /\ f.run_mode # "wsf" /\ f.sp \in Int
  BY <1>1, FetchedGood, Types DEF Inv
<1>3. f.pc \in Address /\ t \in Address
  BY <1>2, ExceptionAssumption DEF Good, Machines
<1>4. PICK p : p = PushLong(f, f.pc)
  OBVIOUS
<1>5. Good(p) /\ Settings(f, p) /\ p.pc = f.pc /\ p.sp = ADDRESS_68K(f.sp - 4)
  BY <1>2, <1>3, <1>4, PushLongGood, PushLongSettings
<1>6. PICK x : x = [p EXCEPT !.pc = t]
  OBVIOUS
<1>7. Executes(Then(p, x))
  BY <1>1, <1>4, <1>6 DEF Jsr
<1>8. CASE p.status # "ok"
  <2>1. f.sp - 4 = f.sp + (-4)
    BY <1>2
  <2>2. Ordinary(p) /\ Calm(p)
    BY <1>1, <1>5, <2>1, AccessStep
  <2>3. Then(p, x) = p
    BY <1>8 DEF Then
  <2> QED BY <1>5, <1>7, <2>2, <2>3, OrdinaryStep
<1>9. CASE p.status = "ok"
  <2>1. Good(x) /\ x.status = "ok" /\ x.run_mode = p.run_mode
    BY <1>3, <1>5, <1>6, <1>9, PcGood
  <2>2. Kept(p, x)
    BY <1>5, <1>6 DEF Kept, Good, Machines
  <2>3. Kept(f, x) /\ Calm(x)
    BY <1>2, <1>5, <2>1, <2>2 DEF Settings, Kept, Calm
  <2>4. Then(p, x) = x
    BY <1>9 DEF Then
  <2> QED BY <1>1, <1>7, <2>1, <2>3, <2>4, QuietStep
<1> QED BY <1>8, <1>9

LEMMA RtsModes == ASSUME Inv, Rts, process' = "runs" PROVE Moded
<1>1. PICK f : f = Fetched(1)
  OBVIOUS
<1>2. Good(f) /\ f.run_mode # "wsf" /\ f.status = "ok"
  BY <1>1, FetchedGood DEF Inv
<1>3. PICK p : p = Pull(f, 4)
  OBVIOUS
<1>4. PICK x : x = [p EXCEPT !.pc = LongAt(f, f.sp)]
  OBVIOUS
<1>5. Executes(Then(p, x))
  BY <1>1, <1>3, <1>4 DEF Rts
<1>6. Good(p) /\ Settings(f, p) /\ (p.status = "ok" => Pulled(f, 4, p))
  BY <1>2, <1>3, PullGood, PullSettings
<1>7. CASE p.status # "ok"
  <2>1. Then(p, x) = p
    BY <1>7 DEF Then
  <2>2. Ordinary(p) /\ Calm(p)
    BY <1>1, <1>3, PullStep
  <2> QED BY <1>5, <1>6, <2>1, <2>2, OrdinaryStep
<1>8. CASE p.status = "ok"
  <2>1. f.sp \in RamWords /\ f.sp + 2 \in RamWords
    BY <1>6, <1>8 DEF Pulled
  <2>2. PICK pc \in Address : pc = LongAt(f, f.sp)
    BY <1>2, <2>1, LongAtType
  <2>3. x = [p EXCEPT !.pc = pc]
    BY <1>4, <2>2
  <2>4. Good(x) /\ x.status = "ok" /\ x.run_mode = p.run_mode
    BY <1>6, <1>8, <2>3, PcGood
  <2>5. Kept(p, x)
    BY <1>6, <2>3 DEF Kept, Good, Machines
  <2>6. Kept(f, x) /\ Calm(x)
    BY <1>2, <1>6, <2>4, <2>5 DEF Settings, Kept, Calm
  <2>7. Then(p, x) = x
    BY <1>8 DEF Then
  <2> QED BY <1>1, <1>5, <2>4, <2>6, <2>7, QuietStep
<1> QED BY <1>7, <1>8

\* It has set the flags when its second pull fails; but an address error comes
\* with the first one.
LEMMA RtrModes == ASSUME Inv, Rtr, process' = "runs" PROVE Moded
<1>1. PICK f : f = Fetched(1)
  OBVIOUS
<1>2. Good(f) /\ f.run_mode # "wsf" /\ f.status = "ok"
  BY <1>1, FetchedGood DEF Inv
<1>3. PICK o : o = Pull(f, 2)
  OBVIOUS
<1>4. Good(o) /\ (o.status = "ok" => Pulled(f, 2, o)) /\ Settings(f, o)
  BY <1>2, <1>3, PullGood, PullSettings
<1>5. PICK ccr : ccr = WordAt(f, f.sp)
  OBVIOUS
<1>6. PICK c : c = [o EXCEPT !.ccr = ccr % 32]
  OBVIOUS
<1>7. PICK p : p = Pull(c, 4)
  OBVIOUS
<1>8. PICK pc : pc = LongAt(c, c.sp)
  OBVIOUS
<1>9. PICK x : x = [p EXCEPT !.pc = pc]
  OBVIOUS
<1>10. Executes(Then(o, Then(p, x)))
  BY <1>1, <1>3, <1>5, <1>6, <1>7, <1>8, <1>9 DEF Rtr
<1>11. CASE o.status # "ok"
  <2>1. Then(o, Then(p, x)) = o
    BY <1>11 DEF Then
  <2>2. Ordinary(o) /\ Calm(o)
    BY <1>1, <1>3, PullStep
  <2> QED BY <1>4, <1>10, <2>1, <2>2, OrdinaryStep
<1>12. CASE o.status = "ok"
  <2>1. f.sp \in RamWords
    BY <1>4, <1>12 DEF Pulled
  <2>2. ccr \in Word
    BY <1>2, <1>5, <2>1, WordAtType
  <2>3. Good(c) /\ c.status = "ok" /\ c.run_mode = o.run_mode
    BY <1>4, <1>6, <1>12, <2>2, CcrGood
  <2>4. Kept(o, c) /\ c.sp = o.sp
    BY <1>4, <1>6 DEF Kept, Good, Machines
  <2>5. /\ Good(p) /\ (p.status = "ok" => Pulled(c, 4, p)) /\ Settings(c, p)
        /\ p.status # "aerr"
    <3>1. Good(p) /\ (p.status = "ok" => Pulled(c, 4, p))
      BY <1>7, <2>3, PullGood
    <3>2. Settings(c, p)
      BY <1>7, <2>3, PullSettings
    <3>3. p.status # "aerr"
      BY <1>2, <1>3, <1>7, <1>12, <2>3, <2>4, SecondPull
    <3> QED BY <3>1, <3>2, <3>3
  <2>6. Kept(f, p) /\ p.run_mode # "wsf"
    BY <1>2, <1>4, <2>3, <2>4, <2>5 DEF Settings, Kept
  <2>7. CASE p.status # "ok"
    <3>1. Then(o, Then(p, x)) = p
      BY <1>12, <2>7 DEF Then
    <3>2. Kept(cpu, f)
      BY <1>1, FetchedKept
    <3>3. Ordinary(p) /\ Calm(p)
      BY <2>5, <2>6, <3>2 DEF Ordinary, Kept, Calm
    <3> QED BY <1>10, <2>5, <3>1, <3>3, OrdinaryStep
  <2>8. CASE p.status = "ok"
    <3>1. c.sp \in RamWords /\ c.sp + 2 \in RamWords
      BY <2>5, <2>8 DEF Pulled
    <3>2. pc \in Address
      BY <1>8, <2>3, <3>1, LongAtType
    <3>3. Good(x) /\ x.status = "ok" /\ x.run_mode = p.run_mode
      BY <1>9, <2>5, <2>8, <3>2, PcGood
    <3>4. Kept(p, x)
      BY <1>9, <2>5 DEF Kept, Good, Machines
    <3>5. Kept(f, x) /\ Calm(x)
      BY <2>6, <3>3, <3>4 DEF Kept, Calm
    <3>6. Then(o, Then(p, x)) = x
      BY <1>12, <2>8 DEF Then
    <3> QED BY <1>1, <1>10, <3>3, <3>5, <3>6, QuietStep
  <2> QED BY <2>7, <2>8
<1> QED BY <1>11, <1>12

LEMMA OddAccessModes ==
  ASSUME Inv, NEW mode \in {MODE_READ, MODE_WRITE}, OddAccess(mode),
         process' = "runs"
  PROVE  Moded
<1>1. PICK f : f = Fetched(1)
  OBVIOUS
<1>2. Good(f) /\ f.run_mode # "wsf"
  BY <1>1, FetchedGood DEF Inv
<1>3. PICK a \in Address : a = 1
  BY Sizes DEF Address
<1>4. PICK n : n = Access(f, a, 2, mode, FUNCTION_CODE_USER_DATA)
  OBVIOUS
<1>5. Good(n) /\ Settings(f, n) /\ n.pc = f.pc /\ n.sp = f.sp
  <2>1. Good(n)
    BY <1>2, <1>4, AccessGood
  <2>2. Settings(f, n) /\ n.pc = f.pc /\ n.sp = f.sp
    BY <1>2, <1>4, AccessSettings
  <2> QED BY <2>1, <2>2
<1>6. n.sp = ADDRESS_68K(f.sp + 0)
  <2>1. f.sp = cpu.sp
    BY <1>1, FetchedGood DEF Inv
  <2> QED BY <1>5, <2>1, PointerStays
<1>7. Ordinary(n) /\ Calm(n)
  BY <1>1, <1>5, <1>6, AccessStep
<1>8. Executes(n)
  BY <1>1, <1>3, <1>4 DEF OddAccess
<1> QED BY <1>5, <1>7, <1>8, OrdinaryStep

\* An interrupt before the first instruction; otherwise nothing happens.
LEMMA ExecuteBeginModes == ASSUME Inv, ExecuteBegin, process' = "runs" PROVE Moded
<1>1. PICK m : m = CheckInterrupts(cpu)
  OBVIOUS
<1>2. Good(cpu) /\ cpu.status = "ok"
  BY DEF Inv, CpuOK
<1>3. Good(m)
  BY <1>1, <1>2, CheckInterruptsGood
<1>4. Is(m)
  BY <1>1, <1>3, BecomesIs DEF ExecuteBegin
<1>5. CASE int_level > cpu.mask
  <2>1. m = ExceptionInterrupt(cpu)
    BY <1>1, <1>5 DEF CheckInterrupts
  <2>2. Interrupted(cpu, m)
    BY <1>2, <1>4, <2>1, ExceptionInterruptGood DEF Is
  <2>3. PICK f : f = [at |-> SupervisorSp(cpu) - 6, pc |-> cpu.pc, sr |-> GetSr(cpu)]
    OBVIOUS
  <2>4. f \in m.frames /\ f.sr = GetSr(cpu) /\ f.pc = cpu.pc /\ SupervisorSp(cpu) = f.at + 6
    <3>1. SupervisorSp(cpu) \in Int
      BY <1>2, Types
    <3> QED BY <2>2, <2>3, <3>1 DEF Interrupted
  <2>5. PICK v \in InterruptVectors : m.pc = Handler[v]
    BY <2>2 DEF Interrupted
  <2>l. Left(cpu, m, 6, v, cpu.pc)
    BY <2>2, <2>4, <2>5 DEF Left, Interrupted
  <2>v. v \in Vectors \ (TrapVectors \union {EXCEPTION_CHK})
    BY OtherVectors
  <2>6. UserSp(cpu) = ADDRESS_68K(UserSp(cpu) + 0)
    <3>1. UserSp(cpu) \in Int /\ UserSp(cpu) \in Address
      BY <1>2, Types
    <3>2. UserSp(cpu) + 0 = UserSp(cpu)
      BY <3>1
    <3> QED BY <3>1, <3>2, AddressRange
  <2>7. Departed(cpu, 6, v, cpu.pc)
    BY <2>v, <2>6, Stacked DEF Departed
  <2> QED BY <1>2, <1>4, <2>l, <2>v, <2>7, LeftPasses
<1>6. CASE ~(int_level > cpu.mask)
  <2>1. m = cpu
    BY <1>1, <1>6 DEF CheckInterrupts
  <2>2. UserSp(cpu') = UserSp(cpu) /\ SupervisorSp(cpu') = SupervisorSp(cpu)
    BY <1>4, <2>1 DEF Is, UserSp, SupervisorSp
  <2>3. cpu.s = User => cpu'.s = User /\ Confined
    BY <1>4, <2>1, <2>2 DEF Is, Confined
  <2>4. SupervisorSp(cpu') - SupervisorSp(cpu) = 0
    <3>1. SupervisorSp(cpu) \in Int
      BY <1>2, Types
    <3> QED BY <2>2, <3>1
  <2>5. Managed
    BY <2>2, <2>4 DEF Managed
  <2> QED BY <2>3, <2>5 DEF Moded, Passed
<1> QED BY <1>5, <1>6

LEMMA ResetModes ==
  ASSUME Inv, Reset
  PROVE  /\ cpu'.s = Supervisor /\ SupervisorSp(cpu') = BootSp
         /\ UserSp(cpu') = UserSp(cpu)
<1>1. PICK n : n = [cpu EXCEPT !.t1 = 0, !.mask = 7, !.stopped = 0,
                               !.instr_mode = INSTRUCTION_YES]
  OBVIOUS
<1>2. cpu \in Machines
  BY DEF Inv, CpuOK, Good
<1>3. n.s = cpu.s /\ n.sp = cpu.sp /\ n.base = cpu.base
      /\ n = [n EXCEPT !.t1 = 0]
  BY <1>1, <1>2 DEF Machines
<1>4. PICK base : base = [n.base EXCEPT ![n.s] = n.sp]
  OBVIOUS
<1>5. PICK z : z = SetS(n, Supervisor)
  OBVIOUS
<1>6. z = [n EXCEPT !.base = base, !.s = Supervisor, !.sp = base[Supervisor]]
  BY <1>4, <1>5 DEF SetS
<1>7. cpu' = [z EXCEPT !.sp = BootSp, !.pc = BootPc, !.run_mode = "normal"]
  BY <1>1, <1>5 DEF Reset
<1>8. cpu'.s = Supervisor /\ cpu'.sp = BootSp /\ cpu'.base = base
  BY <1>1, <1>2, <1>6, <1>7 DEF Machines
<1>9. base[User] = UserSp(cpu)
  BY <1>2, <1>3, <1>4 DEF Machines, UserSp
<1> QED BY <1>8, <1>9 DEF UserSp, SupervisorSp

\* A process that ends leaves the CPU as it was.
LEMMA EndedStays ==
  ASSUME process' # "runs", FetchFails \/ Instruction \/ ExecuteBegin
  PROVE  cpu' = cpu
<1>1. ASSUME NEW m, Becomes(m) PROVE cpu' = cpu
  BY <1>1 DEF Becomes
<1>2. ASSUME NEW m, Executes(m) PROVE cpu' = cpu
  BY <1>1, <1>2 DEF Executes
<1>3. CASE FetchFails
  BY <1>2, <1>3 DEF FetchFails
<1>4. CASE ExecuteBegin
  BY <1>1, <1>4 DEF ExecuteBegin
<1>5. ASSUME NEW m, Privileged(m) PROVE cpu' = cpu
  BY <1>2, <1>5 DEF Privileged
<1>6. CASE Instruction
  BY <1>1, <1>2, <1>5, <1>6, Zenon
     DEF Instruction, Trap, LineTrap, Illegal, MoveToSr, Stop, MoveToUsp,
         ResetInstruction, Rte, SetCcr, Rtr, Rts, Jsr, Jump, Push, Pop, SetSp,
         DropAccessWords, OddAccess, Unlk, ChkRegister, ChkPopped
<1> QED BY <1>3, <1>4, <1>6

LEMMA InstructionModes ==
  ASSUME Inv, Instruction, process' = "runs"
  PROVE  UspSet \/ Moded
BY TrapModes, LineTrapModes, IllegalModes, MoveToSrModes, StopModes,
   MoveToUspModes, ResetInstructionModes, RteModes, SetCcrModes, RtrModes,
   RtsModes, JsrModes, JumpModes, PushModes, PopModes, DropAccessWordsModes,
   SetSpModes, OddAccessModes, UnlkModes, ChkRegisterModes, ChkPoppedModes, Zenon
   DEF Instruction

\* What any step does to the two modes.
LEMMA StepModes ==
  ASSUME Inv, [Next]_vars
  PROVE  \/ Reset \/ cpu' = cpu
         \/ process' = "runs" /\ (UspSet \/ Moded)
<1>1. CASE \E level \in {0, Level} : SetIrq(level)
  BY <1>1 DEF SetIrq
<1>2. CASE UNCHANGED vars
  BY <1>2 DEF vars
<1>3. CASE ExecuteBegin \/ FetchFails \/ Instruction
  BY <1>3, EndedStays, ExecuteBeginModes, FetchFailsModes, InstructionModes
<1> QED BY <1>1, <1>2, <1>3 DEF Next

\* Whatever the program, its stacks and the interrupts: user mode is left through
\* a vector, with the counter and the status register that go with that vector in
\* a frame.
THEOREM UserIsConfined == Spec => UserConfined
<1>1. ASSUME Inv, [Next]_vars
      PROVE  [cpu.s = User /\ process' = "runs" /\ ~Reset
                => IF cpu'.s = User THEN Confined ELSE Entered]_vars
  <2> SUFFICES ASSUME cpu.s = User, ~Reset
               PROVE  IF cpu'.s = User THEN Confined ELSE Entered
    OBVIOUS
  <2>1. CASE cpu' = cpu
    BY <2>1 DEF Confined
  <2>2. CASE UspSet \/ Moded
    BY <2>2 DEF UspSet, Moded, Passed
  <2> QED BY <1>1, <2>1, <2>2, StepModes
<1> QED BY <1>1, InvariantHolds, PTL DEF UserConfined, Spec

\* A7 and the bank of the emulator implement the two stack pointers.
THEOREM PointersStayApart == Spec => PointersApart
<1>1. Init => Pointers!Init
  BY DEF Init, Pointers!Init, UserSp, SupervisorSp
<1>2. ASSUME Inv, Inv', [Next]_vars
      PROVE  [Pointers!Next]_(Pointers!pointers)
  <2>1. UserSp(cpu') \in Address /\ SupervisorSp(cpu') \in Address
    BY <1>2, Types DEF Inv, CpuOK
  <2>2. UserSp(cpu') \in 0..(AddressSpace - 1)
        /\ SupervisorSp(cpu') \in 0..(AddressSpace - 1)
    BY <2>1 DEF Address
  <2>3. cpu.s \in {User, Supervisor} /\ cpu'.s \in {User, Supervisor}
    BY <1>2, Types DEF Inv, CpuOK
  <2>4. CASE Reset
    BY <1>2, <2>4, ResetModes DEF Pointers!Next, Pointers!Reset
  <2>5. CASE cpu' = cpu
    BY <2>5 DEF Pointers!pointers
  <2>6. CASE UspSet
    BY <2>2, <2>6 DEF UspSet, Pointers!Next, Pointers!SetUsp
  <2>7. CASE Moded /\ cpu.s = User /\ cpu'.s = User
    BY <2>2, <2>7 DEF Moded, Passed, Confined, Pointers!Next, Pointers!UserWorks
  <2>8. CASE Moded /\ cpu.s = User /\ cpu'.s = Supervisor
    <3>1. EnterPointers
      BY <2>8 DEF Moded, Passed
    <3>2. ASSUME NEW d \in {-4, -2, 0, 2, 4},
                 UserSp(cpu') = ADDRESS_68K(UserSp(cpu) + d)
          PROVE  Pointers!Enter
      BY <2>8, <3>1, <3>2 DEF EnterPointers, ADDRESS_68K, Pointers!Enter
    <3>3. ASSUME SupervisorSp(cpu) - SupervisorSp(cpu') = 14, ~Even(UserSp(cpu'))
          PROVE  Pointers!EnterOdd
      <4>1. UserSp(cpu') \in Int /\ UserSp(cpu') % 2 = 1
        BY <1>2, <3>3, Types DEF Inv, CpuOK, Even
      <4> QED BY <2>2, <2>8, <3>3, <4>1 DEF Pointers!EnterOdd
    <3> QED BY <3>1, <3>2, <3>3 DEF EnterPointers, Pointers!Next
  <2>9. CASE Moded /\ cpu.s = Supervisor /\ cpu'.s = Supervisor
    BY <2>2, <2>9 DEF Moded, Managed, Pointers!Next, Pointers!SupervisorWorks
  <2>10. CASE Moded /\ cpu.s = Supervisor /\ cpu'.s = User
    BY <2>10 DEF Moded, Managed, Pointers!Next, Pointers!Leave
  <2> QED BY <1>2, <2>3, <2>4, <2>5, <2>6, <2>7, <2>8, <2>9, <2>10, StepModes
<1> QED BY <1>1, <1>2, InvariantHolds, PTL DEF Spec, PointersApart, Pointers!Spec
-----------------------------------------------------------------------------
(* Address errors of user mode.                                            *)

LEMMA PushWordRoom ==
  ASSUME NEW m, Good(m), m.status = "ok", NEW v \in Word,
         Even(m.sp), m.sp \in 2..(MaxRam + 1)
  PROVE  LET n == PushWord(m, v) IN
         Good(n) /\ n.status = "ok" /\ n.sp = m.sp - 2
<1>1. PICK n : n = PushWord(m, v)
  OBVIOUS
<1>2. m.sp \in Int /\ MaxRam \in Int
  BY Sizes
<1>3. m.sp >= 2 /\ Fits(m, m.sp - 2, 2)
  BY <1>2 DEF Fits, Even
<1>4. Good(n) /\ n.status = "ok" /\ PushedWord(m, v, n)
  BY <1>1, <1>3, PushWordGood
<1>5. n.sp = m.sp - 2
  BY <1>4, PushedWordAbove
<1> QED BY <1>1, <1>4, <1>5

LEMMA PushLongRoom ==
  ASSUME NEW m, Good(m), m.status = "ok", NEW v \in Address,
         Even(m.sp), m.sp \in 4..(MaxRam + 1)
  PROVE  LET n == PushLong(m, v) IN
         Good(n) /\ n.status = "ok" /\ n.sp = m.sp - 4
<1>1. PICK n : n = PushLong(m, v)
  OBVIOUS
<1>2. m.sp \in Int /\ MaxRam \in Int
  BY Sizes
<1>3. m.sp >= 4 /\ Fits(m, m.sp - 4, 4)
  BY <1>2 DEF Fits, Even
<1>4. Good(n) /\ n.status = "ok" /\ PushedLong(m, v, n)
  BY <1>1, <1>3, PushLongGood
<1>5. n.sp = m.sp - 4
  BY <1>4, PushedLongAbove
<1> QED BY <1>1, <1>4, <1>5

LEMMA BuserrRoom ==
  ASSUME NEW m, Good(m), m.status = "ok", NEW sr \in Srs,
         Even(m.sp), m.sp \in 14..(MaxRam + 1)
  PROVE  StackFrameBuserr(m, sr).status = "ok"
<1>0. m.sp \in Int /\ MaxRam \in Int /\ m.sp % 2 = 0
  BY Sizes DEF Even
<1>1. PICK f : f = StackFrame(m, m.pc, sr)
  OBVIOUS
<1>2. PICK w : w = PushWord(f, Opcode)
  OBVIOUS
<1>3. PICK address : address = m.aerr.address
  OBVIOUS
<1>4. PICK l : l = PushLong(w, address)
  OBVIOUS
<1>5. PICK access : access = m.aerr.access + m.instr_mode
  OBVIOUS
<1>6. PICK n : n = PushWord(l, access)
  OBVIOUS
<1>7. n = StackFrameBuserr(m, sr)
  BY <1>1, <1>2, <1>3, <1>4, <1>5, <1>6 DEF StackFrameBuserr
<1>8. m.pc \in Address /\ address \in Address /\ access \in Word /\ Opcode \in Word
  BY <1>3, <1>5, Codes, ExceptionAssumption DEF Good, Machines
<1>9. Good(f) /\ f.status = "ok" /\ f.sp = m.sp - 6
  <2>1. m.sp >= 6 /\ Fits(m, m.sp - 6, 6)
    BY <1>0 DEF Fits, Even
  <2>2. Good(f) /\ f.status = "ok" /\ Framed(m, m.pc, sr, f)
    BY <1>1, <1>8, <2>1, StackFrameGood
  <2>3. PICK ram, frames : f = [m EXCEPT !.sp = m.sp - 6, !.ram = ram,
                                         !.frames = frames]
    BY <2>2 DEF Framed
  <2> QED BY <2>2, <2>3 DEF Good, Machines
<1>10. Good(w) /\ w.status = "ok" /\ w.sp = m.sp - 8
  <2>1. Even(f.sp) /\ f.sp \in 2..(MaxRam + 1) /\ f.sp - 2 = m.sp - 8
    BY <1>0, <1>9 DEF Even
  <2> QED BY <1>2, <1>8, <1>9, <2>1, PushWordRoom
<1>11. Good(l) /\ l.status = "ok" /\ l.sp = m.sp - 12
  <2>1. Even(w.sp) /\ w.sp \in 4..(MaxRam + 1) /\ w.sp - 4 = m.sp - 12
    BY <1>0, <1>10 DEF Even
  <2> QED BY <1>4, <1>8, <1>10, <2>1, PushLongRoom
<1>12. n.status = "ok"
  <2>1. Even(l.sp) /\ l.sp \in 2..(MaxRam + 1)
    BY <1>0, <1>11 DEF Even
  <2> QED BY <1>6, <1>8, <1>11, <2>1, PushWordRoom
<1> QED BY <1>7, <1>12

RoomFor(m) == /\ Even(SupervisorSp(m))
              /\ SupervisorSp(m) \in 14..(MaxRam + 1)

LEMMA AddressErrorRoom ==
  ASSUME NEW m, Good(m), m.run_mode # "wsf", RoomFor(m)
  PROVE  AddressError(m).status = "ok"
<1>1. PICK c : c = [m EXCEPT !.status = "ok"]
  OBVIOUS
<1>2. /\ c \in Machines /\ c.ram = m.ram /\ c.frames = m.frames
      /\ c.s = m.s /\ c.sp = m.sp /\ c.base = m.base /\ c.status = "ok"
  BY <1>1 DEF Good, Machines
<1>3. Good(c)
  BY <1>2, SameRam
<1>4. PICK i : i = InitException(c)
  OBVIOUS
<1>5. i = [c EXCEPT !.t1 = 0, !.base = [c.base EXCEPT ![c.s] = c.sp],
                    !.s = Supervisor, !.sp = SupervisorSp(c)]
  BY <1>3, <1>4, InitExceptionGood
<1>6. Good(i)
  BY <1>3, <1>4, InitExceptionGood
<1>7. i.sp = SupervisorSp(m) /\ i.status = "ok"
  <2>1. SupervisorSp(c) = SupervisorSp(m)
    BY <1>2 DEF SupervisorSp
  <2> QED BY <1>2, <1>5, <2>1 DEF Machines
<1>8. PICK w : w = [i EXCEPT !.run_mode = "wsf"]
  OBVIOUS
<1>9. /\ w \in Machines /\ w.ram = i.ram /\ w.frames = i.frames
      /\ w.sp = i.sp /\ w.status = "ok"
  BY <1>6, <1>7, <1>8 DEF Good, Machines
<1>10. Good(w)
  BY <1>6, <1>9, SameRam
<1>11. PICK sr \in Srs : sr = GetSr(m)
  BY SrRange DEF Good
<1>12. PICK b : b = StackFrameBuserr(w, sr)
  OBVIOUS
<1>13. Good(b) /\ b.status = "ok"
  BY <1>7, <1>9, <1>10, <1>12, BuserrRoom, StackFrameBuserrGood DEF RoomFor
<1>14. PICK f : f = JumpVector(b, EXCEPTION_ADDRESS_ERROR)
  OBVIOUS
<1>15. EXCEPTION_ADDRESS_ERROR \in Vectors
  BY DEF Vectors
<1>16. Good(f) /\ f.status = "ok"
  BY <1>13, <1>14, <1>15, JumpVectorGood
<1>17. PICK g : g = [f EXCEPT !.run_mode = "berr"]
  OBVIOUS
<1>18. g.status = "ok"
  BY <1>16, <1>17 DEF Good, Machines
<1>19. AddressError(m) = Then(f, g)
  BY <1>1, <1>4, <1>8, <1>11, <1>12, <1>14, <1>17 DEF AddressError
<1> QED BY <1>16, <1>18, <1>19 DEF Then

\* What user mode may come to before the return point.
Harmless(n) == /\ Good(n) /\ n.run_mode # "wsf" /\ n.s = User /\ n.base = cpu.base
               /\ n.status \in {"ok", "aerr"}

LEMMA HarmlessStep ==
  ASSUME cpu.s = User, Room, NEW n, Harmless(n), Executes(n)
  PROVE  process' = "runs"
<1>1. SupervisorSp(n) = SupervisorSp(cpu)
  BY DEF Harmless, SupervisorSp
<1>2. RoomFor(n)
  BY <1>1 DEF Room, RoomFor
<1>3. AddressError(n).status = "ok"
  BY <1>2, AddressErrorRoom DEF Harmless
<1>4. PICK x : x = Trapped(n)
  OBVIOUS
<1>5. x.status = "ok"
  <2>1. n.status = "ok" => x = n
    BY <1>4 DEF Trapped
  <2>2. n.status = "aerr" => x = AddressError(n)
    BY <1>3, <1>4 DEF Trapped
  <2> QED BY <1>3, <2>1, <2>2 DEF Harmless
<1> QED BY <1>4, <1>5 DEF Executes, Becomes

LEMMA ExceptionRoom ==
  ASSUME Inv, cpu.s = User, Room, NEW m, Good(m), m.status = "ok",
         m.run_mode # "wsf", Kept(cpu, m), NEW v \in Vectors, NEW pc \in Address,
         Executes(Exception(m, v, pc))
  PROVE  process' = "runs"
<1>1. PICK i : i = InitException(m)
  OBVIOUS
<1>2. PICK sr \in Srs : sr = GetSr(m)
  BY SrRange DEF Good
<1>3. PICK n : n = Exception(m, v, pc)
  OBVIOUS
<1>4. n = JumpVector(StackFrame(i, pc, sr), v)
  BY <1>1, <1>2, <1>3 DEF Exception
<1>5. i = [m EXCEPT !.t1 = 0, !.base = [m.base EXCEPT ![m.s] = m.sp],
                    !.s = Supervisor, !.sp = SupervisorSp(m)]
  BY <1>1, InitExceptionGood
<1>6. Good(i)
  BY <1>1, InitExceptionGood
<1>7. i.status = "ok" /\ i.sp = SupervisorSp(m)
  BY <1>5 DEF Good, Machines
<1>8. SupervisorSp(m) = SupervisorSp(cpu)
  BY DEF Kept, SupervisorSp
<1>9. i.sp >= 6 /\ Fits(i, i.sp - 6, 6)
  <2>1. i.sp \in Int /\ MaxRam \in Int
    BY <1>6, Types, Sizes
  <2>2. i.sp % 2 = 0 /\ 14 <= i.sp /\ i.sp <= MaxRam + 1
    BY <1>7, <1>8, <2>1 DEF Room, Even
  <2>3. i.sp >= 6 /\ (i.sp - 6) % 2 = 0 /\ (i.sp - 6) + 6 - 1 <= MaxRam
    BY <2>1, <2>2
  <2> QED BY <1>7, <2>3 DEF Fits, Even
<1>10. Good(n) /\ n.status = "ok"
  <2>1. PICK f : f = StackFrame(i, pc, sr)
    OBVIOUS
  <2>2. Good(f) /\ f.status = "ok"
    BY <1>6, <1>9, <2>1, StackFrameGood
  <2> QED BY <1>4, <2>1, <2>2, JumpVectorGood
<1>11. Trapped(n) = n
  BY <1>10 DEF Trapped
<1> QED BY <1>3, <1>10, <1>11 DEF Executes, Becomes

\* The accesses that a step may make of its own accord are in the RAM, or odd.
OwnRoom == executing /\ cpu.s = User /\ Room /\ OwnAccessesInRam

LEMMA FetchedHarmless ==
  ASSUME Inv, OwnRoom, NEW words \in Nat
  PROVE  Harmless(Fetched(words)) /\ Fetched(words).sp = cpu.sp
BY FetchedGood DEF Inv, Harmless, OwnRoom

\* What is changed of a harmless CPU, but for a status that is worse.
LEMMA KeptHarmless ==
  ASSUME NEW m, Harmless(m), NEW n, Good(n), Kept(m, n),
         n.run_mode = m.run_mode, n.status \in {"ok", "aerr"}
  PROVE  Harmless(n)
BY DEF Harmless, Kept

LEMMA PullHarmless ==
  ASSUME Inv, NEW m, Harmless(m), m.status = "ok", NEW bytes \in {2, 4},
         ~Even(m.sp) \/ m.sp + bytes - 1 <= MaxRam
  PROVE  Harmless(Pull(m, bytes))
<1>1. PICK p : p = Pull(m, bytes)
  OBVIOUS
<1>2. Good(p) /\ (Fits(m, m.sp, bytes) => p.status = "ok")
  BY <1>1, PullGood DEF Harmless
<1>3. Settings(m, p) /\ (p.status = "aerr" <=> ~Even(m.sp))
  BY <1>1, PullSettings DEF Harmless
<1>4. p.status \in {"ok", "aerr"}
  BY <1>2, <1>3 DEF Fits
<1> QED BY <1>1, <1>2, <1>3, <1>4, KeptHarmless DEF Settings

LEMMA PushHarmless ==
  ASSUME Inv, NEW m, Harmless(m), m.status = "ok",
         ~Even(m.sp) \/ m.sp \in 4..(MaxRam + 1)
  PROVE  /\ \A v \in Word : Harmless(PushWord(m, v))
         /\ \A v \in Address : Harmless(PushLong(m, v))
<1>1. m.sp \in Int /\ MaxRam \in Int /\ Good(m)
  BY Types, Sizes DEF Harmless
<1>2. ASSUME NEW v \in Word PROVE Harmless(PushWord(m, v))
  <2>1. PICK p : p = PushWord(m, v)
    OBVIOUS
  <2>2. /\ Good(p) /\ Settings(m, p) /\ p.sp = ADDRESS_68K(m.sp - 2)
        /\ p.status = "aerr" <=> ~Even(p.sp)
    BY <1>1, <2>1, PushWordGood, PushWordSettings
  <2>3. p.status \in {"ok", "aerr"}
    <3>1. CASE Even(m.sp)
      <4>1. m.sp \in 2..(MaxRam + 1)
        BY <1>1, <3>1
      <4> QED BY <1>1, <2>1, <3>1, <4>1, PushWordRoom
    <3>2. CASE ~Even(m.sp)
      <4>1. ~Even(m.sp - 2) /\ m.sp - 2 \in Int
        BY <1>1, <3>2 DEF Even
      <4> QED BY <2>2, <4>1, Parity
    <3> QED BY <3>1, <3>2
  <2> QED BY <2>1, <2>2, <2>3, KeptHarmless DEF Settings
<1>3. ASSUME NEW v \in Address PROVE Harmless(PushLong(m, v))
  <2>1. PICK p : p = PushLong(m, v)
    OBVIOUS
  <2>2. /\ Good(p) /\ Settings(m, p) /\ p.sp = ADDRESS_68K(m.sp - 4)
        /\ p.status = "aerr" <=> ~Even(p.sp)
    BY <1>1, <2>1, PushLongGood, PushLongSettings
  <2>3. p.status \in {"ok", "aerr"}
    <3>1. CASE Even(m.sp)
      BY <1>1, <2>1, <3>1, PushLongRoom
    <3>2. CASE ~Even(m.sp)
      <4>1. ~Even(m.sp - 4) /\ m.sp - 4 \in Int
        BY <1>1, <3>2 DEF Even
      <4> QED BY <2>2, <4>1, Parity
    <3> QED BY <3>1, <3>2
  <2> QED BY <2>1, <2>2, <2>3, KeptHarmless DEF Settings
<1> QED BY <1>2, <1>3

\* The stack pointer of user mode, as the pulls and pushes need it.
LEMMA OwnStack ==
  ASSUME Inv, OwnRoom
  PROVE  /\ ~Even(cpu.sp) \/ cpu.sp \in 4..(MaxRam + 1)
         /\ ~Even(cpu.sp) \/ cpu.sp + 5 <= MaxRam
         /\ cpu.sp \in Int /\ MaxRam \in Int
<1>1. cpu.sp \in Int /\ MaxRam \in Int
  BY Types, Sizes DEF Inv, CpuOK
<1>2. ~Even(cpu.sp) \/ cpu.sp \in 4..(MaxRam - 5)
  BY DEF OwnRoom, OwnAccessesInRam
<1> QED BY <1>1, <1>2

LEMMA FetchFailsCaught ==
  ASSUME Inv, OwnRoom, FetchFails
  PROVE  process' = "runs"
<1>1. PICK pc \in Address : pc = cpu.pc
  BY DEF Inv, CpuOK, Good, Machines
<1>2. ~Even(pc)
  BY <1>1 DEF FetchFails, InRam, OwnRoom, OwnAccessesInRam
<1>3. PICK n : n = Access(cpu, pc, 2, MODE_READ, FUNCTION_CODE_USER_PROGRAM)
  OBVIOUS
<1>4. Good(n)
  BY <1>3, AccessGood DEF Inv, CpuOK
<1>5. Settings(cpu, n) /\ n.status = "aerr"
  BY <1>2, <1>3, AccessSettings DEF Inv, CpuOK
<1>6. Harmless(cpu)
  BY DEF Inv, CpuOK, OwnRoom, Harmless
<1>7. Harmless(n)
  BY <1>4, <1>5, <1>6, KeptHarmless DEF Settings
<1>8. Executes(n)
  BY <1>1, <1>3 DEF FetchFails
<1> QED BY <1>7, <1>8, HarmlessStep DEF OwnRoom

LEMMA TrapCaught ==
  ASSUME Inv, OwnRoom, NEW v \in TrapVectors, Trap(v)
  PROVE  process' = "runs"
<1>1. PICK f : f = Fetched(1)
  OBVIOUS
<1>2. Good(f) /\ f.run_mode # "wsf" /\ f.status = "ok" /\ Kept(cpu, f)
  BY <1>1, FetchedGood, FetchedKept DEF Inv
<1>3. f.pc \in Address /\ v \in Vectors
  BY <1>2 DEF Good, Machines, Vectors
<1>4. Executes(Exception(f, v, f.pc))
  BY <1>1 DEF Trap
<1> QED BY <1>2, <1>3, <1>4, ExceptionRoom DEF OwnRoom

LEMMA LineTrapCaught ==
  ASSUME Inv, OwnRoom, NEW v \in LineVectors, LineTrap(v)
  PROVE  process' = "runs"
<1>1. PICK f : f = Fetched(1)
  OBVIOUS
<1>2. Good(f) /\ f.run_mode # "wsf" /\ f.status = "ok" /\ Kept(cpu, f)
  BY <1>1, FetchedGood, FetchedKept DEF Inv
<1>3. cpu.pc \in Address /\ v \in Vectors
  BY DEF Inv, CpuOK, Good, Machines, Vectors
<1>4. Executes(Exception(f, v, cpu.pc))
  BY <1>1 DEF LineTrap
<1> QED BY <1>2, <1>3, <1>4, ExceptionRoom DEF OwnRoom

LEMMA IllegalCaught == ASSUME Inv, OwnRoom, Illegal PROVE process' = "runs"
<1>1. PICK f : f = [Fetched(1) EXCEPT !.instr_mode = INSTRUCTION_NO]
  OBVIOUS
<1>2. Executes(Exception(f, EXCEPTION_ILLEGAL_INSTRUCTION, cpu.pc))
  BY <1>1 DEF Illegal
<1>3. EXCEPTION_ILLEGAL_INSTRUCTION \in Vectors /\ cpu.pc \in Address
  BY DEF Vectors, Inv, CpuOK, Good, Machines
<1> QED BY <1>1, <1>2, <1>3, MarkedKept, ExceptionRoom DEF OwnRoom

LEMMA PrivilegedCaught ==
  ASSUME Inv, OwnRoom, NEW n, Privileged(n)
  PROVE  process' = "runs"
<1>1. PICK f : f = [Fetched(1) EXCEPT !.instr_mode = INSTRUCTION_NO]
  OBVIOUS
<1>2. Executes(Exception(f, EXCEPTION_PRIVILEGE_VIOLATION, cpu.pc))
  BY <1>1 DEF Privileged, PrivilegeViolation, OwnRoom
<1>3. EXCEPTION_PRIVILEGE_VIOLATION \in Vectors /\ cpu.pc \in Address
  BY DEF Vectors, Inv, CpuOK, Good, Machines
<1> QED BY <1>1, <1>2, <1>3, MarkedKept, ExceptionRoom DEF OwnRoom

LEMMA ChkCaught ==
  ASSUME Inv, OwnRoom, NEW m, Harmless(m), Kept(cpu, m), NEW flags \in ChkFlags,
         Executes(Chk(m, flags))
  PROVE  process' = "runs"
<1>1. CASE m.status # "ok"
  <2>1. Chk(m, flags) = m
    BY <1>1 DEF Chk, Then
  <2> QED BY <2>1, HarmlessStep DEF OwnRoom
<1>2. CASE m.status = "ok"
  <2>0. Good(m) /\ m.run_mode # "wsf"
    BY DEF Harmless
  <2>1. PICK c \in 0..31 : c = 16 * (m.ccr \div 16) + flags
    BY <2>0, FlagsOfChk
  <2>2. PICK n : n = [m EXCEPT !.ccr = c]
    OBVIOUS
  <2>3. /\ n \in Machines /\ n.ram = m.ram /\ n.frames = m.frames
        /\ n.status = "ok" /\ n.run_mode = m.run_mode /\ Kept(m, n)
    BY <1>2, <2>0, <2>2 DEF Good, Machines, Kept
  <2>4. Good(n) /\ Kept(cpu, n)
    BY <2>0, <2>3, SameRam DEF Kept
  <2>5. PICK pc \in Address : pc = m.pc
    BY <2>0 DEF Good, Machines
  <2>6. EXCEPTION_CHK \in Vectors
    BY DEF Vectors
  <2>7. Executes(Exception(n, EXCEPTION_CHK, pc))
    BY <1>2, <2>1, <2>2, <2>5 DEF Chk, Then
  <2> QED BY <2>0, <2>3, <2>4, <2>6, <2>7, ExceptionRoom DEF OwnRoom
<1> QED BY <1>1, <1>2

LEMMA ChkRegisterCaught ==
  ASSUME Inv, OwnRoom, NEW flags \in ChkFlags, ChkRegister(flags)
  PROVE  process' = "runs"
<1>1. Harmless(Fetched(1)) /\ Kept(cpu, Fetched(1))
  BY FetchedHarmless, FetchedKept
<1> QED BY <1>1, ChkCaught DEF ChkRegister

LEMMA ChkPoppedCaught ==
  ASSUME Inv, OwnRoom, NEW flags \in ChkFlags, ChkPopped(flags)
  PROVE  process' = "runs"
<1>1. PICK f : f = Fetched(1)
  OBVIOUS
<1>2. /\ Harmless(f) /\ Good(f) /\ f.sp = cpu.sp /\ f.status = "ok"
      /\ Kept(cpu, f)
  BY <1>1, FetchedGood, FetchedHarmless, FetchedKept DEF Inv
<1>3. ~Even(f.sp) \/ f.sp + 2 - 1 <= MaxRam
  BY <1>2, OwnStack
<1>4. PICK p : p = Pull(f, 2)
  OBVIOUS
<1>5. Harmless(p) /\ Kept(f, p)
  BY <1>2, <1>3, <1>4, PullHarmless, PullSettings DEF Settings
<1>6. Kept(cpu, p)
  BY <1>2, <1>5 DEF Kept
<1> QED BY <1>1, <1>4, <1>5, <1>6, ChkCaught DEF ChkPopped

LEMMA ResetInstructionCaught ==
  ASSUME Inv, OwnRoom, ResetInstruction
  PROVE  process' = "runs"
BY ResetOfUser, PrivilegedCaught DEF OwnRoom

LEMMA SetCcrCaught ==
  ASSUME Inv, OwnRoom, NEW v \in DataWords, SetCcr(v % 32)
  PROVE  process' = "runs"
<1>1. PICK f : f = Fetched(1)
  OBVIOUS
<1>2. Good(f) /\ f.run_mode # "wsf" /\ f.status = "ok" /\ Harmless(f)
  BY <1>1, FetchedGood, FetchedHarmless DEF Inv
<1>3. v \in Word /\ (v % 32) % 32 = v % 32
  BY ExceptionAssumption, Sizes DEF Word
<1>4. PICK x : x = [f EXCEPT !.ccr = v % 32]
  OBVIOUS
<1>5. Good(x) /\ x.status = "ok" /\ x.run_mode = f.run_mode
  BY <1>2, <1>3, <1>4, CcrGood
<1>6. Kept(f, x)
  BY <1>2, <1>4 DEF Kept, Good, Machines
<1>7. Harmless(x)
  BY <1>2, <1>5, <1>6, KeptHarmless
<1>8. Executes(x)
  BY <1>1, <1>3, <1>4 DEF SetCcr
<1> QED BY <1>7, <1>8, HarmlessStep DEF OwnRoom

LEMMA JumpCaught ==
  ASSUME Inv, OwnRoom, NEW t \in Targets, Jump(t)
  PROVE  process' = "runs"
<1>1. PICK f : f = Fetched(1)
  OBVIOUS
<1>2. Good(f) /\ f.run_mode # "wsf" /\ f.status = "ok" /\ Harmless(f)
  BY <1>1, FetchedGood, FetchedHarmless DEF Inv
<1>3. t \in Address
  BY ExceptionAssumption
<1>4. PICK x : x = [f EXCEPT !.pc = t]
  OBVIOUS
<1>5. Good(x) /\ x.status = "ok" /\ x.run_mode = f.run_mode
  BY <1>2, <1>3, <1>4, PcGood
<1>6. Kept(f, x)
  BY <1>2, <1>4 DEF Kept, Good, Machines
<1>7. Harmless(x)
  BY <1>2, <1>5, <1>6, KeptHarmless
<1>8. Executes(x)
  BY <1>1, <1>3, <1>4 DEF Jump
<1> QED BY <1>7, <1>8, HarmlessStep DEF OwnRoom

LEMMA SetSpCaught ==
  ASSUME Inv, OwnRoom, NEW a \in SpValues, SetSp(a)
  PROVE  process' = "runs"
<1>1. PICK f : f = Fetched(1)
  OBVIOUS
<1>2. Good(f) /\ f.run_mode # "wsf" /\ f.status = "ok" /\ Harmless(f)
  BY <1>1, FetchedGood, FetchedHarmless DEF Inv
<1>3. a \in Address
  BY ExceptionAssumption
<1>4. PICK x : x = [f EXCEPT !.sp = a]
  OBVIOUS
<1>5. Good(x) /\ x.status = "ok" /\ x.run_mode = f.run_mode
  BY <1>2, <1>3, <1>4, SpGood
<1>6. Kept(f, x)
  BY <1>2, <1>4 DEF Kept, Good, Machines
<1>7. Harmless(x)
  BY <1>2, <1>5, <1>6, KeptHarmless
<1>8. Executes(x)
  BY <1>1, <1>3, <1>4 DEF SetSp
<1> QED BY <1>7, <1>8, HarmlessStep DEF OwnRoom

LEMMA DropAccessWordsCaught ==
  ASSUME Inv, OwnRoom, DropAccessWords
  PROVE  process' = "runs"
<1>1. PICK f : f = Fetched(2)
  OBVIOUS
<1>2. Good(f) /\ f.run_mode # "wsf" /\ f.status = "ok" /\ Harmless(f)
  BY <1>1, FetchedGood, FetchedHarmless DEF Inv
<1>3. PICK a \in Address : a = ADDRESS_68K(f.sp + 8)
  <2>1. f.sp + 8 \in Int
    BY <1>2, Types
  <2> QED BY <2>1, AddressRange
<1>4. PICK x : x = [f EXCEPT !.sp = a]
  OBVIOUS
<1>5. Good(x) /\ x.status = "ok" /\ x.run_mode = f.run_mode
  BY <1>2, <1>3, <1>4, SpGood
<1>6. Kept(f, x)
  BY <1>2, <1>4 DEF Kept, Good, Machines
<1>7. Harmless(x)
  BY <1>2, <1>5, <1>6, KeptHarmless
<1>8. Executes(x)
  BY <1>1, <1>3, <1>4 DEF DropAccessWords
<1> QED BY <1>7, <1>8, HarmlessStep DEF OwnRoom

LEMMA PopCaught == ASSUME Inv, OwnRoom, Pop PROVE process' = "runs"
<1>1. PICK f : f = Fetched(1)
  OBVIOUS
<1>2. Harmless(f) /\ f.sp = cpu.sp /\ f.status = "ok"
  BY <1>1, FetchedGood, FetchedHarmless DEF Inv
<1>3. ~Even(f.sp) \/ f.sp + 2 - 1 <= MaxRam
  BY <1>2, OwnStack
<1>4. Harmless(Pull(f, 2))
  BY <1>2, <1>3, PullHarmless
<1> QED BY <1>1, <1>4, HarmlessStep DEF Pop, OwnRoom

LEMMA UnlkCaught ==
  ASSUME Inv, OwnRoom, NEW a \in SpValues, Unlk(a)
  PROVE  process' = "runs"
<1>1. PICK f : f = Fetched(1)
  OBVIOUS
<1>2. Good(f) /\ f.run_mode # "wsf" /\ f.status = "ok" /\ Harmless(f)
  BY <1>1, FetchedGood, FetchedHarmless DEF Inv
<1>3. a \in Address /\ a \in Int /\ MaxRam \in Int
  BY ExceptionAssumption, Sizes DEF Address
<1>4. PICK c : c = [f EXCEPT !.sp = a]
  OBVIOUS
<1>5. Good(c) /\ c.status = "ok" /\ c.run_mode = f.run_mode
  BY <1>2, <1>3, <1>4, SpGood
<1>6. Kept(f, c) /\ c.sp = a
  BY <1>2, <1>4 DEF Kept, Good, Machines
<1>7. Harmless(c)
  BY <1>2, <1>5, <1>6, KeptHarmless
<1>8. ~Even(a) \/ a + 4 - 1 <= MaxRam
  <2>1. ~Even(a) \/ a + 3 <= MaxRam
    BY DEF OwnRoom, OwnAccessesInRam
  <2> QED BY <1>3, <2>1
<1>9. Harmless(Pull(c, 4))
  BY <1>5, <1>6, <1>7, <1>8, PullHarmless
<1> QED BY <1>1, <1>4, <1>9, HarmlessStep DEF Unlk, OwnRoom

LEMMA PushCaught ==
  ASSUME Inv, OwnRoom, NEW v \in DataWords, Push(v)
  PROVE  process' = "runs"
<1>1. PICK f : f = Fetched(1)
  OBVIOUS
<1>2. Harmless(f) /\ f.sp = cpu.sp /\ f.status = "ok"
  BY <1>1, FetchedGood, FetchedHarmless DEF Inv
<1>3. v \in Word
  BY ExceptionAssumption
<1>4. Harmless(PushWord(f, v))
  BY <1>2, <1>3, OwnStack, PushHarmless
<1> QED BY <1>1, <1>4, HarmlessStep DEF Push, OwnRoom

LEMMA JsrCaught ==
  ASSUME Inv, OwnRoom, NEW t \in Targets, Jsr(t)
  PROVE  process' = "runs"
<1>1. PICK f : f = Fetched(1)
  OBVIOUS
<1>2. Harmless(f) /\ f.sp = cpu.sp /\ f.status = "ok"
  BY <1>1, FetchedGood, FetchedHarmless DEF Inv
<1>3. f.pc \in Address /\ t \in Address
  BY <1>2, ExceptionAssumption DEF Harmless, Good, Machines
<1>4. PICK p : p = PushLong(f, f.pc)
  OBVIOUS
<1>5. Harmless(p)
  BY <1>2, <1>3, <1>4, OwnStack, PushHarmless
<1>6. PICK x : x = [p EXCEPT !.pc = t]
  OBVIOUS
<1>7. Good(x) /\ x.status = p.status /\ x.run_mode = p.run_mode
  BY <1>3, <1>5, <1>6, PcGood DEF Harmless
<1>8. Kept(p, x)
  BY <1>5, <1>6 DEF Harmless, Kept, Good, Machines
<1>9. Harmless(x)
  BY <1>5, <1>7, <1>8, KeptHarmless DEF Harmless
<1>10. Executes(Then(p, x))
  BY <1>1, <1>4, <1>6 DEF Jsr
<1> QED BY <1>5, <1>9, <1>10, HarmlessStep DEF OwnRoom, Then

LEMMA RtsCaught == ASSUME Inv, OwnRoom, Rts PROVE process' = "runs"
<1>1. PICK f : f = Fetched(1)
  OBVIOUS
<1>2. Harmless(f) /\ f.sp = cpu.sp /\ f.status = "ok"
  BY <1>1, FetchedGood, FetchedHarmless DEF Inv
<1>3. ~Even(f.sp) \/ f.sp + 4 - 1 <= MaxRam
  BY <1>2, OwnStack
<1>4. PICK p : p = Pull(f, 4)
  OBVIOUS
<1>5. Harmless(p)
  BY <1>2, <1>3, <1>4, PullHarmless
<1>6. PICK pc : pc = LongAt(f, f.sp)
  OBVIOUS
<1>7. PICK x : x = [p EXCEPT !.pc = pc]
  OBVIOUS
<1>8. Executes(Then(p, x))
  BY <1>1, <1>4, <1>6, <1>7 DEF Rts
<1>9. CASE p.status = "ok"
  <2>1. Pulled(f, 4, p)
    BY <1>2, <1>4, <1>9, PullGood DEF Harmless
  <2>2. f.sp \in RamWords /\ f.sp + 2 \in RamWords
    BY <2>1 DEF Pulled
  <2>3. pc \in Address
    BY <1>2, <1>6, <2>2, LongAtType DEF Harmless
  <2>4. Good(x) /\ x.status = "ok" /\ x.run_mode = p.run_mode
    BY <1>5, <1>7, <1>9, <2>3, PcGood DEF Harmless
  <2>5. Kept(p, x)
    BY <1>5, <1>7 DEF Harmless, Kept, Good, Machines
  <2>6. Harmless(x)
    BY <1>5, <2>4, <2>5, KeptHarmless
  <2>7. Then(p, x) = x
    BY <1>9 DEF Then
  <2> QED BY <1>8, <2>6, <2>7, HarmlessStep DEF OwnRoom
<1>10. CASE p.status # "ok"
  <2>1. Then(p, x) = p
    BY <1>10 DEF Then
  <2> QED BY <1>5, <1>8, <2>1, HarmlessStep DEF OwnRoom
<1> QED BY <1>9, <1>10

LEMMA RtrCaught == ASSUME Inv, OwnRoom, Rtr PROVE process' = "runs"
<1>1. PICK f : f = Fetched(1)
  OBVIOUS
<1>2. Harmless(f) /\ f.sp = cpu.sp /\ f.status = "ok"
  BY <1>1, FetchedGood, FetchedHarmless DEF Inv
<1>3. PICK o : o = Pull(f, 2)
  OBVIOUS
<1>4. Harmless(o)
  <2>1. ~Even(f.sp) \/ f.sp + 2 - 1 <= MaxRam
    BY <1>2, OwnStack
  <2> QED BY <1>2, <1>3, <2>1, PullHarmless
<1>5. PICK ccr : ccr = WordAt(f, f.sp)
  OBVIOUS
<1>6. PICK c : c = [o EXCEPT !.ccr = ccr % 32]
  OBVIOUS
<1>7. PICK p : p = Pull(c, 4)
  OBVIOUS
<1>8. PICK pc : pc = LongAt(c, c.sp)
  OBVIOUS
<1>9. PICK x : x = [p EXCEPT !.pc = pc]
  OBVIOUS
<1>10. Executes(Then(o, Then(p, x)))
  BY <1>1, <1>3, <1>5, <1>6, <1>7, <1>8, <1>9 DEF Rtr
<1>11. CASE o.status # "ok"
  <2>1. Then(o, Then(p, x)) = o
    BY <1>11 DEF Then
  <2> QED BY <1>4, <1>10, <2>1, HarmlessStep DEF OwnRoom
<1>12. CASE o.status = "ok"
  <2>1. Pulled(f, 2, o)
    BY <1>2, <1>3, <1>12, PullGood DEF Harmless
  <2>2. f.sp \in RamWords /\ o.sp = f.sp + 2
    BY <1>2, <2>1 DEF Pulled, Harmless, Good, Machines
  <2>3. ccr \in Word
    BY <1>2, <1>5, <2>2, WordAtType DEF Harmless
  <2>4. Good(c) /\ c.status = "ok" /\ c.run_mode = o.run_mode
    BY <1>4, <1>6, <1>12, <2>3, CcrGood DEF Harmless
  <2>5. Kept(o, c) /\ c.sp = o.sp
    BY <1>4, <1>6 DEF Harmless, Kept, Good, Machines
  <2>6. Harmless(c)
    BY <1>4, <2>4, <2>5, KeptHarmless
  <2>7. c.sp + 4 - 1 <= MaxRam
    <3>1. Even(f.sp)
      BY <2>2 DEF RamWords
    <3> QED BY <1>2, <2>2, <2>5, <3>1, OwnStack
  <2>8. Harmless(p)
    BY <1>7, <2>4, <2>6, <2>7, PullHarmless
  <2>9. CASE p.status # "ok"
    <3>1. Then(o, Then(p, x)) = p
      BY <1>12, <2>9 DEF Then
    <3> QED BY <1>10, <2>8, <3>1, HarmlessStep DEF OwnRoom
  <2>10. CASE p.status = "ok"
    <3>1. Pulled(c, 4, p)
      BY <1>7, <2>4, <2>10, PullGood
    <3>2. c.sp \in RamWords /\ c.sp + 2 \in RamWords
      BY <3>1 DEF Pulled
    <3>3. pc \in Address
      BY <1>8, <2>4, <3>2, LongAtType
    <3>4. Good(x) /\ x.status = "ok" /\ x.run_mode = p.run_mode
      BY <1>9, <2>8, <2>10, <3>3, PcGood DEF Harmless
    <3>5. Kept(p, x)
      BY <1>9, <2>8 DEF Harmless, Kept, Good, Machines
    <3>6. Harmless(x)
      BY <2>8, <3>4, <3>5, KeptHarmless
    <3>7. Then(o, Then(p, x)) = x
      BY <1>12, <2>10 DEF Then
    <3> QED BY <1>10, <3>6, <3>7, HarmlessStep DEF OwnRoom
  <2> QED BY <2>9, <2>10
<1> QED BY <1>11, <1>12

LEMMA OddAccessCaught ==
  ASSUME Inv, OwnRoom, NEW mode \in {MODE_READ, MODE_WRITE}, OddAccess(mode)
  PROVE  process' = "runs"
<1>1. PICK f : f = Fetched(1)
  OBVIOUS
<1>2. Harmless(f) /\ Good(f)
  BY <1>1, FetchedHarmless DEF Harmless
<1>3. PICK a \in Address : a = 1
  BY Sizes DEF Address
<1>4. PICK n : n = Access(f, a, 2, mode, FUNCTION_CODE_USER_DATA)
  OBVIOUS
<1>5. Good(n)
  BY <1>2, <1>4, AccessGood
<1>6. Settings(f, n) /\ n.status = "aerr"
  <2>1. ~Even(a)
    BY <1>3 DEF Even
  <2>2. Settings(f, n) /\ (n.status = "aerr" <=> ~Even(a))
    BY <1>2, <1>4, AccessSettings
  <2> QED BY <2>1, <2>2
<1>7. Harmless(n)
  BY <1>2, <1>5, <1>6, KeptHarmless DEF Settings
<1>8. Executes(n)
  BY <1>1, <1>3, <1>4 DEF OddAccess
<1> QED BY <1>7, <1>8, HarmlessStep DEF OwnRoom

\* Whatever is odd in user mode, it is an exception of the program and not the
\* end of the process, while the supervisor's stack has room for 7 words.
THEOREM UserErrorsAreCaught == Spec => UserErrorsCaught
<1>1. ASSUME Inv, [Next]_vars
      PROVE  [executing /\ cpu.s = User /\ Room /\ OwnAccessesInRam
                => process' = "runs"]_vars
  <2> SUFFICES ASSUME OwnRoom, Next PROVE process' = "runs"
    BY <1>1 DEF OwnRoom
  <2>1. CASE Reset \/ (\E level \in {0, Level} : SetIrq(level)) \/ ExecuteBegin
    BY <2>1 DEF Reset, SetIrq, ExecuteBegin, OwnRoom
  <2>2. CASE FetchFails
    BY <1>1, <2>2, FetchFailsCaught
  <2>3. CASE Instruction
    BY <1>1, <2>3, TrapCaught, LineTrapCaught, IllegalCaught, PrivilegedCaught,
       SetCcrCaught, RtrCaught, RtsCaught, JsrCaught, JumpCaught, PushCaught,
       PopCaught, DropAccessWordsCaught, SetSpCaught, OddAccessCaught, UnlkCaught,
       ChkRegisterCaught, ChkPoppedCaught, ResetInstructionCaught, Zenon
       DEF Instruction, MoveToSr, Stop, MoveToUsp, Rte
  <2> QED BY <2>1, <2>2, <2>3 DEF Next
<1> QED BY <1>1, InvariantHolds, PTL DEF UserErrorsCaught, Spec
=============================================================================
