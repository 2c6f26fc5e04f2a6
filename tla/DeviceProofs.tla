----------------------------- MODULE DeviceProofs -----------------------------
(***************************************************************************)
(* The drivers, for every size of what they count in: keys are read in the *)
(* order they were typed, sleep is never too short, and the screen shows   *)
(* the end of the text.                                                    *)
(***************************************************************************)
EXTENDS Devices, SequenceTheorems, WellFoundedInduction, TLAPS

-----------------------------------------------------------------------------
(* The keyboard's ring.                                                    *)
Chars == (Letters \X BOOLEAN) \cup {EOF, NoChar}

Kbd == [buffer : [Offsets -> Chars], write_ptr : Offsets, read_ptr : Offsets,
        count : 0 .. CountValues - 1, caps : BOOLEAN, shift : BOOLEAN, ctrl : BOOLEAN]

(* The count, the semaphore, the two ends and the history agree.           *)
Agrees ==
  /\ kbd.count <= BUFFER_SIZE
  /\ kbd.write_ptr = (kbd.read_ptr + kbd.count) % BUFFER_SIZE
  /\ due \in Seq(Chars) /\ Len(due) = kbd.count
  /\ \A i \in 1 .. kbd.count : due[i] = kbd.buffer[(kbd.read_ptr + i - 1) % BUFFER_SIZE]
  /\ keyValue = kbd.count
  /\ ~ astray

KeyInv == kbd \in Kbd /\ keyValue \in Nat /\ (~ KeyTaken => Agrees)

LEMMA KeysInit == KeyboardInit => KeyInv
<1> SUFFICES ASSUME KeyboardInit PROVE KeyInv
  OBVIOUS
<1>1. 0 \in Offsets /\ 0 \in 0 .. CountValues - 1
  BY BufferAssumption DEF Offsets
<1>2. kbd \in Kbd
  BY <1>1 DEF KeyboardInit, Kbd, Chars
<1>3. kbd.count = 0 /\ kbd.write_ptr = 0 /\ kbd.read_ptr = 0
  BY DEF KeyboardInit
<1>4. 0 = (0 + 0) % BUFFER_SIZE
  BY BufferAssumption
<1>5. Agrees
  BY <1>3, <1>4, BufferAssumption DEF KeyboardInit, Agrees
<1> QED BY <1>2, <1>5 DEF KeyInv, KeyboardInit

(* A key is typed.                                                         *)
LEMMA InsertKeeps ==
  ASSUME KeyInv, NEW c \in Chars, insert_char(c)
  PROVE  KeyInv'
<1> DEFINE n == kbd.count
           r == kbd.read_ptr
           w == kbd.write_ptr
<1>1. /\ r \in Offsets /\ w \in Offsets /\ n \in Nat /\ n < BUFFER_SIZE
      /\ kbd.buffer \in [Offsets -> Chars]
      /\ kbd \in Kbd
      /\ BUFFER_SIZE \in Nat \ {0} /\ CountValues > BUFFER_SIZE /\ CountValues \in Nat
  BY BufferAssumption DEF KeyInv, Kbd, insert_char, has_buffer_space, Offsets
<1>2. kbd' = [kbd EXCEPT !.buffer[w] = c, !.write_ptr = (w + 1) % BUFFER_SIZE, !.count = n + 1]
  BY DEF insert_char
<1>3. (w + 1) % BUFFER_SIZE \in Offsets
  BY <1>1 DEF Offsets
<1>4. kbd' \in Kbd
  <2>1. [kbd.buffer EXCEPT ![w] = c] \in [Offsets -> Chars] /\ n + 1 \in 0 .. CountValues - 1
    BY <1>1
  <2> HIDE DEF n, w
  <2> QED BY <2>1, <1>1, <1>2, <1>3 DEF Kbd
<1>5. /\ kbd'.buffer = [kbd.buffer EXCEPT ![w] = c]
      /\ kbd'.write_ptr = (w + 1) % BUFFER_SIZE
      /\ kbd'.count = n + 1 /\ kbd'.read_ptr = r
  BY <1>1, <1>2 DEF Kbd
<1>6. keyValue' = keyValue + 1 /\ keyValue \in Nat /\ spoilt' = spoilt /\ astray' = astray
  BY DEF insert_char, KeyInv
<1>7. ASSUME ~ KeyTaken PROVE Agrees'
  <2>1. /\ due' = Append(due, c) /\ due \in Seq(Chars) /\ Len(due) = n
        /\ w = (r + n) % BUFFER_SIZE
        /\ \A i \in 1 .. n : due[i] = kbd.buffer[(r + i - 1) % BUFFER_SIZE]
        /\ keyValue = n /\ ~ astray
    BY <1>7 DEF insert_char, KeyInv, Agrees
  <2> HIDE DEF n, r, w
  <2>2. /\ due' \in Seq(Chars) /\ Len(due') = n + 1 /\ due'[n + 1] = c
        /\ \A i \in 1 .. n : due'[i] = due[i]
    BY <2>1, <1>1
  <2>3. r \in Nat /\ r < BUFFER_SIZE
    BY <1>1 DEF Offsets
  <2>4. w = IF r + n < BUFFER_SIZE THEN r + n ELSE r + n - BUFFER_SIZE
    <3>1. (r + n) % BUFFER_SIZE = IF r + n < BUFFER_SIZE THEN r + n ELSE r + n - BUFFER_SIZE
      BY <2>3, <1>1
    <3> QED BY <3>1, <2>1
  <2>5. kbd'.write_ptr = (r + (n + 1)) % BUFFER_SIZE
    <3>1. w \in Nat /\ w < BUFFER_SIZE
      BY <1>1 DEF Offsets
    <3>2. (w + 1) % BUFFER_SIZE = IF w + 1 < BUFFER_SIZE THEN w + 1 ELSE w + 1 - BUFFER_SIZE
      BY <3>1, <2>3, <1>1
    <3>3. (r + (n + 1)) % BUFFER_SIZE
            = IF r + (n + 1) < BUFFER_SIZE THEN r + (n + 1) ELSE r + (n + 1) - BUFFER_SIZE
      BY <2>3, <1>1
    <3> QED BY <3>1, <3>2, <3>3, <1>1, <1>5, <2>3, <2>4
  <2>6. ASSUME NEW i \in 1 .. n + 1
        PROVE  due'[i] = kbd'.buffer[(r + i - 1) % BUFFER_SIZE]
    <3> DEFINE e == r + i - 1
               x == e % BUFFER_SIZE
    <3>1. e \in Nat /\ e < BUFFER_SIZE + BUFFER_SIZE /\ e - r = i - 1
      BY <1>1, <2>3
    <3>2. SUFFICES due'[i] = kbd'.buffer[x]
      OBVIOUS
    <3> HIDE DEF e
    <3>3. x = IF e < BUFFER_SIZE THEN e ELSE e - BUFFER_SIZE
      BY <3>1, <1>1
    <3>4. x \in Offsets
      BY <3>1, <3>3, <1>1 DEF Offsets
    <3> HIDE DEF x
    <3>5. CASE i = n + 1
      <4>1. x = w
        BY <3>1, <3>3, <3>5, <1>1, <2>3, <2>4
      <4> QED BY <4>1, <3>5, <1>1, <1>5, <2>2
    <3>6. CASE i # n + 1
      <4>1. i \in 1 .. n /\ x # w
        BY <3>1, <3>3, <3>6, <1>1, <2>3, <2>4
      <4>2. kbd'.buffer[x] = kbd.buffer[x]
        BY <4>1, <3>4, <1>1, <1>5
      <4>3. due[i] = kbd.buffer[x]
        BY <4>1, <2>1 DEF x, e
      <4> QED BY <4>1, <4>2, <4>3, <2>2
    <3> QED BY <3>5, <3>6
  <2>7. n + 1 <= BUFFER_SIZE
    BY <1>1
  <2> QED BY <1>5, <1>6, <2>1, <2>2, <2>5, <2>6, <2>7 DEF Agrees
<1> QED BY <1>4, <1>6, <1>7 DEF KeyInv, KeyTaken

(* A character is taken from the buffer.                                   *)
LEMMA ExtractKeeps ==
  ASSUME KeyInv, extract_char
  PROVE  kbd' \in Kbd
<1>1. (kbd.read_ptr + 1) % BUFFER_SIZE \in Offsets
  BY BufferAssumption DEF KeyInv, Kbd, Offsets
<1>2. (kbd.count + CountValues - 1) % CountValues \in 0 .. CountValues - 1
  BY BufferAssumption DEF KeyInv, Kbd
<1> QED BY <1>1, <1>2 DEF KeyInv, Kbd, extract_char

LEMMA ReadKeeps ==
  ASSUME KeyInv, NEW p \in Readers, getCharBlocking(p)
  PROVE  KeyInv'
<1> DEFINE n == kbd.count
           r == kbd.read_ptr
<1>1. /\ r \in Nat /\ r < BUFFER_SIZE /\ n \in Nat /\ n < CountValues
      /\ kbd.buffer \in [Offsets -> Chars] /\ kbd \in Kbd
      /\ BUFFER_SIZE \in Nat \ {0} /\ CountValues > BUFFER_SIZE /\ CountValues \in Nat
  BY BufferAssumption DEF KeyInv, Kbd, Offsets
<1>2. /\ kbd'.buffer = kbd.buffer /\ kbd'.write_ptr = kbd.write_ptr
      /\ kbd'.read_ptr = (r + 1) % BUFFER_SIZE
      /\ kbd'.count = (n + CountValues - 1) % CountValues
      /\ kbd' \in Kbd
  BY <1>1, ExtractKeeps DEF getCharBlocking, extract_char, Kbd
<1>3. /\ keyValue > 0 /\ keyValue \in Nat /\ keyValue' = keyValue - 1
      /\ due' = IF due = << >> THEN due ELSE Tail(due)
      /\ spoilt' = spoilt
  BY DEF getCharBlocking, KeyInv
<1>4. ASSUME ~ KeyTaken PROVE Agrees'
  <2>1. /\ n <= BUFFER_SIZE /\ keyValue = n
        /\ due \in Seq(Chars) /\ Len(due) = n
        /\ kbd.write_ptr = (r + n) % BUFFER_SIZE
        /\ \A i \in 1 .. n : due[i] = kbd.buffer[(r + i - 1) % BUFFER_SIZE]
        /\ ~ astray
    BY <1>4 DEF KeyInv, Agrees
  <2>2. astray' <=> (due = << >> \/ First # Head(due))
    BY <1>4, <2>1 DEF getCharBlocking
  <2>3. First = kbd.buffer[r]
    BY DEF First
  <2> HIDE DEF n, r
  <2>4. /\ n >= 1 /\ due # << >> /\ due' = Tail(due)
        /\ Tail(due) \in Seq(Chars) /\ Len(Tail(due)) = n - 1
        /\ \A i \in 1 .. n - 1 : Tail(due)[i] = due[i + 1]
        /\ Head(due) = due[1]
    BY <1>1, <1>3, <2>1
  <2>5. (n + CountValues - 1) % CountValues = n - 1
    <3>1. n + CountValues - 1 \in Nat /\ n + CountValues - 1 < CountValues + CountValues
      BY <1>1, <2>4
    <3>2. (n + CountValues - 1) % CountValues
            = IF n + CountValues - 1 < CountValues THEN n + CountValues - 1
              ELSE n + CountValues - 1 - CountValues
      BY <3>1, <1>1
    <3> QED BY <3>2, <1>1, <2>4
  <2>6. ~ astray'
    <3>1. (r + 1 - 1) % BUFFER_SIZE = r
      BY <1>1
    <3>2. 1 \in 1 .. n
      BY <1>1, <2>4
    <3> QED BY <3>1, <3>2, <2>1, <2>2, <2>3, <2>4
  <2> DEFINE r2 == (r + 1) % BUFFER_SIZE
  <2>7. r2 = IF r + 1 < BUFFER_SIZE THEN r + 1 ELSE r + 1 - BUFFER_SIZE
    BY <1>1
  <2>8. r2 \in Nat /\ r2 < BUFFER_SIZE
    BY <2>7, <1>1
  <2> HIDE DEF r2
  <2>9. ASSUME NEW k \in Nat, k < BUFFER_SIZE
        PROVE  (r2 + k) % BUFFER_SIZE = (r + (k + 1)) % BUFFER_SIZE
    <3>1. (r2 + k) % BUFFER_SIZE = IF r2 + k < BUFFER_SIZE THEN r2 + k ELSE r2 + k - BUFFER_SIZE
      BY <2>8, <2>9, <1>1
    <3>2. (r + (k + 1)) % BUFFER_SIZE
            = IF r + (k + 1) < BUFFER_SIZE THEN r + (k + 1) ELSE r + (k + 1) - BUFFER_SIZE
      BY <2>9, <1>1
    <3>3. r + 1 >= BUFFER_SIZE => r2 = 0 /\ r + 1 = BUFFER_SIZE
      BY <1>1, <2>7
    <3> QED BY <3>1, <3>2, <3>3, <2>7, <2>9, <1>1
  <2>10. kbd'.write_ptr = (r2 + (n - 1)) % BUFFER_SIZE
    <3>1. n - 1 \in Nat /\ n - 1 < BUFFER_SIZE /\ r + ((n - 1) + 1) = r + n
      BY <1>1, <2>1, <2>4
    <3> QED BY <3>1, <2>1, <2>9, <1>2
  <2>11. ASSUME NEW i \in 1 .. n - 1
         PROVE  due'[i] = kbd.buffer[(r2 + i - 1) % BUFFER_SIZE]
    <3>1. /\ i - 1 \in Nat /\ i - 1 < BUFFER_SIZE /\ i + 1 \in 1 .. n
          /\ r + ((i - 1) + 1) = r + (i + 1) - 1
          /\ r2 + (i - 1) = r2 + i - 1
      BY <1>1, <2>1, <2>4, <2>8
    <3>2. (r2 + i - 1) % BUFFER_SIZE = (r + (i + 1) - 1) % BUFFER_SIZE
      BY <3>1, <2>9
    <3> QED BY <3>1, <3>2, <2>1, <2>4
  <2>12. /\ kbd'.count = n - 1 /\ kbd'.read_ptr = r2 /\ n - 1 <= BUFFER_SIZE
    BY <1>1, <1>2, <2>1, <2>4, <2>5 DEF r2
  <2> QED BY <1>2, <1>3, <2>1, <2>4, <2>6, <2>10, <2>11, <2>12 DEF Agrees
<1> QED BY <1>2, <1>3, <1>4 DEF KeyInv, KeyTaken

LEMMA KeyboardKeeps == KeyInv /\ KeyboardNext => KeyInv'
<1> SUFFICES ASSUME KeyInv, KeyboardNext PROVE KeyInv'
  OBVIOUS
<1>1. CASE Ctrl \/ Shift \/ CapsLock
  <2>1. /\ UNCHANGED << keyValue, due, astray, spoilt >>
        /\ kbd' \in Kbd
        /\ kbd'.buffer = kbd.buffer /\ kbd'.write_ptr = kbd.write_ptr
        /\ kbd'.read_ptr = kbd.read_ptr /\ kbd'.count = kbd.count
    BY <1>1 DEF Ctrl, Shift, CapsLock, Modifies, KeyInv, Kbd
  <2> QED BY <2>1 DEF KeyInv, Agrees, KeyTaken
<1>2. CASE CtrlC
  BY <1>2 DEF CtrlC, KeyInv, Agrees, KeyTaken
<1>3. CASE CtrlD
  BY <1>3, InsertKeeps DEF CtrlD, Chars
<1>4. ASSUME NEW key \in Letters, Letter(key) PROVE KeyInv'
  <2>1. << key, kbd.caps \/ kbd.shift >> \in Chars
    BY DEF Chars
  <2> QED BY <1>4, <2>1, InsertKeeps DEF Letter
<1>5. ASSUME NEW p \in Readers, sys_read(p) \/ sys_read_woken(p) PROVE KeyInv'
  BY <1>5, ReadKeeps DEF sys_read, sys_read_woken
<1>6. ASSUME NEW p \in Readers, sys_read_sleeps(p) \/ Exception(p) PROVE KeyInv'
  BY <1>6 DEF sys_read_sleeps, Exception, KeyInv, Agrees, KeyTaken
<1>7. ASSUME NEW p \in Readers, KillReader(p) PROVE KeyInv'
  BY <1>7 DEF KillReader, KeyInv, Agrees, KeyTaken
<1>8. CASE HandlerTakesKey
  <2>1. KeyTaken' /\ keyValue' = keyValue
    BY <1>8 DEF HandlerTakesKey, KeyTaken
  <2>2. kbd' \in Kbd
    BY <1>8, ExtractKeeps DEF HandlerTakesKey
  <2> QED BY <2>1, <2>2 DEF KeyInv
<1> QED BY <1>1, <1>2, <1>3, <1>4, <1>5, <1>6, <1>7, <1>8 DEF KeyboardNext, Types

(* Whatever is typed, in whatever case, and whoever reads or is killed     *)
(* while it reads: until an exception takes a key, every character is read *)
(* once and in order, and the semaphore counts what the ring holds.        *)
THEOREM KeysStayInOrder == DeviceSpec => []KeysInOrder
<1>1. DeviceInit => KeyInv
  BY KeysInit DEF DeviceInit
<1>2. KeyInv /\ [DeviceNext]_deviceVars => KeyInv'
  <2>1. KeyInv /\ UNCHANGED keyboardVars => KeyInv'
    BY DEF KeyInv, keyboardVars, Agrees, KeyTaken
  <2> QED BY <2>1, KeyboardKeeps DEF DeviceNext, deviceVars, Keys, Shown, Timed
<1>3. KeyInv => KeysInOrder
  <2> SUFFICES ASSUME KeyInv, ~ KeyTaken PROVE Ring = due /\ keyValue = kbd.count /\ ~ astray
    BY DEF KeysInOrder
  <2>1. Agrees
    BY DEF KeyInv
  <2>2. kbd.count \in Nat
    BY DEF KeyInv, Kbd
  <2>3. due = [i \in 1 .. kbd.count |-> due[i]]
    BY <2>1, <2>2 DEF Agrees
  <2>4. Ring = due
    BY <2>1, <2>3 DEF Agrees, Ring
  <2> QED BY <2>1, <2>4 DEF Agrees
<1> QED BY <1>1, <1>2, <1>3, PTL DEF DeviceSpec

-----------------------------------------------------------------------------
(* The clock: quotients and remainders.                                    *)
LEMMA DivMod ==
  ASSUME NEW n \in Nat \ {0}, NEW x \in Nat
  PROVE  /\ x \div n \in Nat /\ x % n \in Nat /\ x % n < n
         /\ x = n * (x \div n) + (x % n)
<1>1. x \div n \in Nat
  OBVIOUS
<1>2. x % n \in Nat /\ x % n < n
  OBVIOUS
<1>3. x = n * (x \div n) + (x % n)
  OBVIOUS
<1> QED BY <1>1, <1>2, <1>3

Divides(x, n, a, y) ==
  n \in Nat \ {0} /\ a \in Nat /\ y \in Nat /\ y < n /\ x = n * a + y

LEMMA DivModUnique ==
  ASSUME NEW x, NEW n, NEW a, NEW y, Divides(x, n, a, y)
  PROVE  x \div n = a /\ x % n = y
<1> USE DEF Divides
<1>1. x \in Nat
  OBVIOUS
<1> DEFINE q == x \div n
           r == x % n
<1>2. q \in Nat /\ r \in Nat /\ r < n /\ x = n * q + r
  BY <1>1
<1> HIDE DEF q, r
<1>3. ~ q < a
  <2> SUFFICES ASSUME q < a PROVE FALSE
    OBVIOUS
  <2>1. PICK k \in Nat : a = q + 1 + k
    <3>1. a - q - 1 \in Nat /\ a = q + 1 + (a - q - 1)
      BY <1>2
    <3> QED BY <3>1
  <2>2. n * a = n * q + n + n * k
    BY <1>2, <2>1
  <2>3. n * k \in Nat /\ n * q \in Nat
    BY <1>2
  <2> QED BY <1>2, <2>2, <2>3
<1>4. ~ a < q
  <2> SUFFICES ASSUME a < q PROVE FALSE
    OBVIOUS
  <2>1. PICK k \in Nat : q = a + 1 + k
    <3>1. q - a - 1 \in Nat /\ q = a + 1 + (q - a - 1)
      BY <1>2
    <3> QED BY <3>1
  <2>2. n * q = n * a + n + n * k
    BY <1>2, <2>1
  <2>3. n * k \in Nat /\ n * a \in Nat
    BY <1>2
  <2> QED BY <1>2, <2>2, <2>3
<1>5. q = a
  BY <1>2, <1>3, <1>4
<1>6. r = y
  BY <1>2, <1>5
<1> QED BY <1>5, <1>6 DEF q, r

LEMMA BCDInverse == ASSUME NEW n \in Nat PROVE bcd_to_binary(BCD(n)) = n
BY DEF bcd_to_binary, BCD

LEMMA DayType ==
  /\ SecondsPerHour \in Nat \ {0} /\ Day \in Nat \ {0}
  /\ Day % SecondsPerMinute = 0
<1>1. SecondsPerHour \in Nat \ {0}
  BY ClockAssumption DEF SecondsPerHour
<1>2. Day \in Nat \ {0}
  BY <1>1, ClockAssumption DEF Day
<1> DEFINE a == MinutesPerHour * HoursPerDay
<1>3. a \in Nat
  BY ClockAssumption
<1>4. Day = SecondsPerMinute * a + 0
  BY ClockAssumption DEF Day, SecondsPerHour
<1> HIDE DEF a
<1>5. Day % SecondsPerMinute = 0
  <2>1. Divides(Day, SecondsPerMinute, a, 0)
    BY <1>3, <1>4, ClockAssumption DEF Divides
  <2> QED BY <2>1, DivModUnique
<1> QED BY <1>1, <1>2, <1>5

(* Within a minute the seconds count up.                                   *)
LEMMA NextSecond ==
  ASSUME NEW c \in Nat, NEW n \in Nat \ {0}, (c + 1) % n # 0
  PROVE  (c + 1) \div n = c \div n /\ (c + 1) % n = (c % n) + 1
<1> DEFINE a == c \div n
           y == c % n
<1>1. a \in Nat /\ y \in Nat /\ y < n /\ c = n * a + y
  BY DivMod
<1> HIDE DEF a, y
<1>2. y + 1 # n
  <2> SUFFICES ASSUME y + 1 = n PROVE FALSE
    OBVIOUS
  <2>1. n * (a + 1) = n * a + n
    BY <1>1
  <2>2. Divides(c + 1, n, a + 1, 0)
    BY <1>1, <2>1 DEF Divides
  <2> QED BY <2>2, DivModUnique
<1>3. Divides(c + 1, n, a, y + 1)
  BY <1>1, <1>2 DEF Divides
<1>4. (c + 1) \div n = a /\ (c + 1) % n = y + 1
  BY <1>3, DivModUnique
<1> QED BY <1>4 DEF a, y

(* What is left of c below a whole s, in units of s * m and s.             *)
LEMMA WholeUnits ==
  ASSUME NEW c \in Nat, NEW s \in Nat \ {0}, NEW m \in Nat \ {0}, NEW h, h = s * m
  PROVE  ((c \div s) % m) * s + (c \div h) * h = c - (c % s)
<1> DEFINE q == c \div s
           r == c % s
           a == q \div m
           b == q % m
<1>1. q \in Nat /\ r \in Nat /\ r < s /\ c = s * q + r
  BY DivMod
<1>2. a \in Nat /\ b \in Nat /\ b < m /\ q = m * a + b
  <2> HIDE DEF q
  <2> QED BY <1>1, DivMod
<1> HIDE DEF a, b, q, r
<1> DEFINE y == s * b + r
<1>3. h \in Nat \ {0} /\ y \in Nat
  BY <1>1, <1>2
<1>4. y < h
  <2>1. PICK k \in Nat : m = b + 1 + k
    <3>1. m - b - 1 \in Nat /\ m = b + 1 + (m - b - 1)
      BY <1>2
    <3> QED BY <3>1
  <2>2. s * m = s * b + s + s * k /\ s * k \in Nat /\ s * b \in Nat
    BY <1>2, <2>1
  <2> QED BY <2>2, <1>1
<1>5. c = h * a + y
  <2>1. s * q = s * (m * a) + s * b
    BY <1>2
  <2>2. s * (m * a) = h * a
    BY <1>2
  <2>3. s * b \in Nat /\ h * a \in Nat
    BY <1>2, <1>3
  <2> QED BY <1>1, <2>1, <2>2, <2>3
<1>6. c \div h = a
  <2>1. Divides(c, h, a, y)
    BY <1>2, <1>3, <1>4, <1>5 DEF Divides
  <2> QED BY <2>1, DivModUnique
<1>7. b * s = s * b /\ a * h = h * a /\ s * b \in Nat /\ h * a \in Nat
  BY <1>2, <1>3
<1>8. b * s + (c \div h) * h = c - r
  <2>1. (c \div h) * h = a * h
    BY <1>6
  <2> QED BY <2>1, <1>1, <1>5, <1>7
<1>9. b = (c \div s) % m /\ r = c % s
  BY DEF b, q, r
<1> QED BY <1>8, <1>9

(* The hours and minutes of c are its whole minutes.                       *)
LEMMA WholeMinutes ==
  ASSUME NEW c \in Nat
  PROVE  ((c \div SecondsPerMinute) % MinutesPerHour) * SecondsPerMinute
           + (c \div SecondsPerHour) * SecondsPerHour
         = c - (c % SecondsPerMinute)
BY WholeUnits, ClockAssumption DEF SecondsPerHour

-----------------------------------------------------------------------------
(* sleep.                                                                  *)
NapType ==
  /\ nap \in [at : {"awake", "none", "sec", "min"}, why : {"start", "poll", "second"},
              sec : Nat, min : Nat, seconds : 0 .. Day, start : Nat, target : Nat]
  /\ clock \in 0 .. Day - 1
  /\ waited \in Nat

(* When the seconds were read that nap.sec holds, if no minute ended since. *)
Stamp == clock - (clock % SecondsPerMinute) + nap.sec

Halfway == nap.at \in {"sec", "min"}

(* What has been read is still the time, but for the seconds.              *)
Reading ==
  Halfway /\ ~ torn =>
    /\ nap.sec <= clock % SecondsPerMinute
    /\ nap.at = "min" => nap.min = (clock \div SecondsPerMinute) % MinutesPerHour

(* The seconds since start, less than a day.                               *)
Since == IF clock >= nap.start THEN clock - nap.start ELSE clock - nap.start + Day

Sum == nap.start + nap.seconds

(* While the time that was asked for has not passed: since the sleep began *)
(* the clock has gone on by at most the seconds waited, and it has passed  *)
(* midnight when a test says so.                                           *)
Course ==
  nap.at # "awake" /\ ~ torn /\ nap.seconds <= MaxWaited /\ waited < nap.seconds =>
    /\ nap.why = "start" /\ Halfway => clock - Stamp <= waited
    /\ nap.why # "start" =>
         /\ nap.start < Day
         /\ nap.target = IF Sum >= Day THEN Sum - Day ELSE Sum
         /\ Since <= waited
    /\ nap.why = "poll" /\ Halfway => Stamp >= nap.start \/ clock < nap.start
    /\ nap.why = "second" => clock < nap.start

SleepInv == NapType /\ Reading /\ Course /\ NeverEarly

LEMMA ClockFacts ==
  ASSUME NapType
  PROVE  /\ clock \in Nat /\ clock < Day /\ Day \in Nat /\ nap.sec \in Nat
         /\ nap.start \in Nat /\ nap.target \in Nat /\ nap.min \in Nat
         /\ nap.seconds \in Nat /\ nap.seconds <= Day
         /\ waited \in Nat /\ MaxWaited \in Nat
         /\ SecondsPerMinute \in Nat \ {0} /\ SecondsPerHour \in Nat \ {0}
         /\ clock % SecondsPerMinute \in Nat /\ clock % SecondsPerMinute <= clock
<1>1. /\ clock \in Nat /\ clock < Day /\ Day \in Nat
      /\ SecondsPerMinute \in Nat \ {0} /\ SecondsPerHour \in Nat \ {0}
  BY DayType, ClockAssumption DEF NapType
<1>2. clock % SecondsPerMinute \in Nat /\ clock % SecondsPerMinute <= clock
  <2> DEFINE q == clock \div SecondsPerMinute
             r == clock % SecondsPerMinute
  <2>1. q \in Nat /\ r \in Nat /\ clock = SecondsPerMinute * q + r
    BY <1>1, DivMod
  <2> HIDE DEF q, r
  <2>2. SecondsPerMinute * q \in Nat
    BY <1>1, <2>1
  <2>3. r \in Nat /\ r <= clock
    BY <1>1, <2>1, <2>2
  <2> QED BY <2>3 DEF r
<1> QED BY <1>1, <1>2, ClockAssumption DEF NapType

(* The time that the third piece of a read completes.                      *)
LEMMA NowIs ==
  ASSUME NapType
  PROVE  /\ Now \in Nat
         /\ Reading /\ nap.at = "min" /\ ~ torn => Now = Stamp /\ Stamp <= clock
<1> DEFINE hours == clock \div SecondsPerHour
           q     == clock \div SecondsPerMinute
<1>1. hours \in Nat /\ q \in Nat
  BY ClockFacts, DivMod
<1>2. bcd_to_binary(RTC_HOURS) = hours
  BY <1>1, BCDInverse DEF RTC_HOURS
<1>3. Now = nap.sec + nap.min * SecondsPerMinute + hours * SecondsPerHour
  BY <1>2 DEF Now
<1>4. Now \in Nat
  <2> HIDE DEF hours
  <2>1. nap.min * SecondsPerMinute \in Nat /\ hours * SecondsPerHour \in Nat
    BY <1>1, ClockFacts
  <2> QED BY <1>3, <2>1, ClockFacts
<1>5. ASSUME Reading, nap.at = "min", ~ torn PROVE Now = Stamp /\ Stamp <= clock
  <2> DEFINE x == (q % MinutesPerHour) * SecondsPerMinute
             y == hours * SecondsPerHour
             r == clock % SecondsPerMinute
  <2>1. x + y = clock - r
    BY WholeMinutes, ClockFacts
  <2>2. nap.sec <= r /\ nap.min = q % MinutesPerHour
    BY <1>5 DEF Reading, Halfway
  <2>3. Now = nap.sec + x + y
    BY <1>3, <2>2
  <2>4. x \in Nat /\ y \in Nat /\ r \in Nat /\ r <= clock
    <3>1. q % MinutesPerHour \in Nat
      BY <1>1, ClockAssumption
    <3> HIDE DEF hours, q
    <3> QED BY <1>1, <3>1, ClockFacts
  <2>5. Stamp = clock - r + nap.sec
    BY DEF Stamp
  <2> HIDE DEF x, y, r
  <2> QED BY <2>1, <2>2, <2>3, <2>4, <2>5, ClockFacts
<1> QED BY <1>4, <1>5

LEMMA SleepInit == ClockInit => SleepInv
<1> SUFFICES ASSUME ClockInit PROVE SleepInv
  OBVIOUS
<1>1. NapType
  BY DayType DEF ClockInit, NapType, NoNap
<1>2. nap.at = "awake" /\ nap.seconds = 0 /\ waited = 0
  BY DEF ClockInit, NoNap
<1> QED BY <1>1, <1>2 DEF SleepInv, Reading, Halfway, Course, NeverEarly

LEMMA SecondKeeps == ASSUME SleepInv, Second PROVE SleepInv'
<1> DEFINE c2 == (clock + 1) % Day
           n  == SecondsPerMinute
<1>1. /\ nap' = nap /\ clock' = c2
      /\ waited' = IF nap.at # "awake" /\ waited < MaxWaited THEN waited + 1 ELSE waited
      /\ torn' <=> torn \/ (Halfway /\ (clock + 1) % n = 0)
  <2>1. torn' = (torn \/ (Halfway /\ (clock + 1) % n = 0))
    BY DEF Second, Halfway
  <2>2. /\ nap' = nap /\ clock' = c2
        /\ waited' = IF nap.at # "awake" /\ waited < MaxWaited THEN waited + 1 ELSE waited
    BY DEF Second
  <2> QED BY <2>1, <2>2
<1>2. NapType /\ Reading /\ Course /\ NeverEarly
  BY DEF SleepInv
<1>3. c2 = IF clock + 1 = Day THEN 0 ELSE clock + 1
  BY <1>2, ClockFacts
<1>4. NapType'
  BY <1>1, <1>2, <1>3, ClockFacts DEF NapType
<1>5. ASSUME Halfway, ~ torn'
      PROVE  /\ clock' = clock + 1 /\ ~ torn
             /\ (clock + 1) \div n = clock \div n
             /\ (clock + 1) % n = (clock % n) + 1
             /\ Stamp' = Stamp
  <2>1. (clock + 1) % n # 0 /\ ~ torn
    BY <1>1, <1>5
  <2>2. clock + 1 # Day
    BY <2>1, DayType
  <2>3. clock' = clock + 1
    BY <1>1, <1>3, <2>2
  <2>4. (clock + 1) \div n = clock \div n /\ (clock + 1) % n = (clock % n) + 1
    BY <1>2, <2>1, ClockFacts, NextSecond
  <2>5. Stamp' = clock' - (clock' % n) + nap'.sec
    BY DEF Stamp
  <2>6. Stamp' = Stamp
    BY <1>1, <1>2, <2>3, <2>4, <2>5, ClockFacts DEF Stamp
  <2> QED BY <2>1, <2>3, <2>4, <2>6
<1> HIDE DEF c2
<1>6. Reading'
  <2> SUFFICES ASSUME Halfway', ~ torn'
               PROVE  /\ nap.sec <= clock' % n
                      /\ nap.at = "min" => nap.min = (clock' \div n) % MinutesPerHour
    BY <1>1 DEF Reading
  <2>1. Halfway
    BY <1>1 DEF Halfway
  <2>2. nap.sec <= clock % n /\ (nap.at = "min" => nap.min = (clock \div n) % MinutesPerHour)
    BY <1>2, <1>5, <2>1 DEF Reading
  <2>3. clock' % n = (clock % n) + 1 /\ clock' \div n = clock \div n
    BY <1>5, <2>1
  <2>4. nap.sec \in Nat /\ clock % n \in Nat
    BY <1>2, ClockFacts
  <2> HIDE DEF n
  <2> QED BY <2>2, <2>3, <2>4
<1>7. Course'
  <2> SUFFICES ASSUME nap.at # "awake", ~ torn', nap.seconds <= MaxWaited,
                      waited' < nap.seconds
               PROVE  /\ nap.why = "start" /\ Halfway => clock' - Stamp' <= waited'
                      /\ nap.why # "start" =>
                           /\ nap.start < Day
                           /\ nap.target = IF Sum >= Day THEN Sum - Day ELSE Sum
                           /\ Since' <= waited'
                      /\ nap.why = "poll" /\ Halfway =>
                           Stamp' >= nap.start \/ clock' < nap.start
                      /\ nap.why = "second" => clock' < nap.start
    BY <1>1 DEF Course, Halfway, Sum
  <2>1. waited' = waited + 1 /\ waited < nap.seconds
    BY <1>1, <1>2, ClockFacts
  <2>2. ~ torn
    BY <1>1
  <2>3. /\ nap.why = "start" /\ Halfway => clock - Stamp <= waited
        /\ nap.why # "start" =>
             /\ nap.start < Day
             /\ nap.target = IF Sum >= Day THEN Sum - Day ELSE Sum
             /\ Since <= waited
        /\ nap.why = "poll" /\ Halfway => Stamp >= nap.start \/ clock < nap.start
        /\ nap.why = "second" => clock < nap.start
    BY <1>2, <2>1, <2>2 DEF Course
  <2>4. clock' = IF clock + 1 = Day THEN 0 ELSE clock + 1
    BY <1>1, <1>3 DEF c2
  <2>5. Since' = IF clock' >= nap.start THEN clock' - nap.start ELSE clock' - nap.start + Day
    BY <1>1 DEF Since
  <2>6. nap.why # "start" => Since' <= waited' /\ (clock < nap.start => clock' < nap.start)
    BY <1>2, <2>1, <2>3, <2>4, <2>5, ClockFacts DEF Since
  <2>7. Halfway => clock' = clock + 1 /\ Stamp' = Stamp
    BY <1>5
  <2>8. Stamp \in Int
    BY <1>2, ClockFacts DEF Stamp
  <2>9. nap.why = "start" /\ Halfway => clock' - Stamp' <= waited'
    BY <1>2, <2>1, <2>3, <2>7, <2>8, ClockFacts
  <2> QED BY <2>3, <2>6, <2>7, <2>9
<1>8. NeverEarly'
  BY <1>1, <1>2 DEF NeverEarly, Halfway
<1> QED BY <1>4, <1>6, <1>7, <1>8 DEF SleepInv

LEMMA BeginKeeps ==
  ASSUME SleepInv, Naps \subseteq 1 .. Day, \E n \in Naps : Sleep(n)
  PROVE  SleepInv'
<1>1. PICK n \in 1 .. Day : nap' = [NoNap EXCEPT !.at = "none", !.seconds = n]
                            /\ waited' = 0 /\ clock' = clock
  BY DEF Sleep
<1>2. NapType'
  <2>1. n \in Nat /\ n <= Day
    BY <1>1, DayType
  <2>2. nap' = [at |-> "none", why |-> "start", sec |-> 0, min |-> 0,
                seconds |-> n, start |-> 0, target |-> 0]
    BY <1>1 DEF NoNap
  <2> QED BY <1>1, <2>1, <2>2 DEF SleepInv, NapType
<1>3. nap'.at = "none" /\ nap'.why = "start"
  BY <1>1 DEF NoNap
<1> QED BY <1>2, <1>3 DEF SleepInv, Reading, Halfway, Course, NeverEarly

LEMMA PiecesKeep == ASSUME SleepInv, ReadSeconds \/ ReadMinutes PROVE SleepInv'
<1>1. NapType /\ Reading /\ Course
  BY DEF SleepInv
<1>2. UNCHANGED << clock, waited, torn >>
  BY DEF ReadSeconds, ReadMinutes
<1>3. CASE ReadSeconds
  <2> DEFINE r == clock % SecondsPerMinute
  <2>1. nap' = [nap EXCEPT !.at = "sec", !.sec = r] /\ nap.at = "none"
    BY <1>1, <1>3, ClockFacts, BCDInverse DEF ReadSeconds, RTC_SECONDS
  <2>2. r \in Nat
    BY <1>1, ClockFacts
  <2>3. Stamp' = clock' - (clock' % SecondsPerMinute) + nap'.sec
    BY DEF Stamp
  <2>4. clock' % SecondsPerMinute = r
    BY <1>2
  <2> HIDE DEF r
  <2>5. NapType'
    BY <1>1, <1>2, <2>1, <2>2 DEF NapType
  <2>6. /\ nap'.at = "sec" /\ nap'.sec = r /\ nap'.why = nap.why
        /\ nap'.start = nap.start /\ nap'.target = nap.target /\ nap'.seconds = nap.seconds
    BY <1>1, <2>1 DEF NapType
  <2>7. Stamp' = clock
    BY <1>1, <1>2, <2>2, <2>3, <2>4, <2>6, ClockFacts
  <2>8. Reading'
    BY <2>2, <2>4, <2>6 DEF Reading
  <2>9. Course'
    BY <1>1, <1>2, <2>1, <2>6, <2>7, ClockFacts DEF Course, Halfway, Since, Sum
  <2> QED BY <2>5, <2>6, <2>8, <2>9 DEF SleepInv, NeverEarly
<1>4. CASE ReadMinutes
  <2> DEFINE x == (clock \div SecondsPerMinute) % MinutesPerHour
  <2>1. clock \div SecondsPerMinute \in Nat
    BY <1>1, ClockFacts, DivMod
  <2>2. x \in Nat
    BY <2>1, ClockAssumption
  <2>3. nap' = [nap EXCEPT !.at = "min", !.min = x] /\ nap.at = "sec"
    BY <1>4, <2>2, BCDInverse DEF ReadMinutes, RTC_MINUTES
  <2>4. Stamp' = clock' - (clock' % SecondsPerMinute) + nap'.sec
    BY DEF Stamp
  <2>5. (clock' \div SecondsPerMinute) % MinutesPerHour = x
    BY <1>2
  <2> HIDE DEF x
  <2>6. NapType'
    BY <1>1, <1>2, <2>2, <2>3 DEF NapType
  <2>7. /\ nap'.at = "min" /\ nap'.min = x /\ nap'.why = nap.why /\ nap'.sec = nap.sec
        /\ nap'.start = nap.start /\ nap'.target = nap.target /\ nap'.seconds = nap.seconds
    BY <1>1, <2>3 DEF NapType
  <2>8. Stamp' = Stamp
    BY <1>2, <2>4, <2>7 DEF Stamp
  <2>9. Reading'
    BY <1>1, <1>2, <2>3, <2>5, <2>7 DEF Reading, Halfway
  <2>10. Course'
    BY <1>1, <1>2, <2>3, <2>7, <2>8 DEF Course, Halfway, Since, Sum
  <2> QED BY <2>6, <2>7, <2>9, <2>10 DEF SleepInv, NeverEarly
<1> QED BY <1>3, <1>4

LEMMA TestsKeep ==
  ASSUME SleepInv, Begin \/ PollToday \/ PollTomorrow \/ PollTarget
  PROVE  SleepInv'
<1>1. NapType /\ Reading /\ Course
  BY DEF SleepInv
<1>2. nap.at = "min" /\ UNCHANGED << clock, waited, torn >>
  BY DEF Begin, PollToday, PollTomorrow, PollTarget, Reads
<1>3. Now \in Nat /\ (~ torn => Now = Stamp /\ Stamp <= clock)
  BY <1>1, <1>2, NowIs
<1>4. CASE Begin
  <2> DEFINE sum == Now + nap.seconds
             tgt == IF sum >= Day THEN sum - Day ELSE sum
  <2>1. nap' = [at |-> "none", why |-> "poll", sec |-> 0, min |-> 0, seconds |-> nap.seconds,
                start |-> Now, target |-> tgt]
        /\ nap.why = "start"
    BY <1>4 DEF Begin, Reads, NoNap
  <2>2. tgt \in Nat
    BY <1>1, <1>3, ClockFacts
  <2> HIDE DEF tgt
  <2>3. NapType'
    BY <1>1, <1>2, <1>3, <2>1, <2>2 DEF NapType
  <2>4. /\ nap'.at = "none" /\ nap'.why = "poll" /\ nap'.start = Now
        /\ nap'.target = tgt /\ nap'.seconds = nap.seconds
    BY <1>1, <2>1 DEF NapType
  <2>5. Course'
    <3> SUFFICES ASSUME ~ torn, nap.seconds <= MaxWaited, waited < nap.seconds
                 PROVE  /\ Now < Day
                        /\ tgt = IF sum >= Day THEN sum - Day ELSE sum
                        /\ (IF clock >= Now THEN clock - Now ELSE clock - Now + Day) <= waited
      BY <1>2, <2>4 DEF Course, Halfway, Since, Sum
    <3>1. clock - Stamp <= waited
      BY <1>1, <1>2, <2>1 DEF Course, Halfway
    <3> QED BY <1>1, <1>3, <3>1, ClockFacts DEF tgt
  <2> QED BY <2>3, <2>4, <2>5 DEF SleepInv, Reading, Halfway, NeverEarly
<1>5. ASSUME NEW w \in {"poll", "second"}, Again(w), nap.why # "start",
             w = "second" /\ ~ torn /\ nap.seconds <= MaxWaited /\ waited < nap.seconds
               => clock < nap.start
      PROVE  SleepInv'
  <2>1. nap' = [nap EXCEPT !.at = "none", !.why = w, !.sec = 0, !.min = 0]
    BY <1>5 DEF Again
  <2>2. NapType'
    BY <1>1, <1>2, <2>1 DEF NapType
  <2>3. /\ nap'.at = "none" /\ nap'.why = w /\ w # "start"
        /\ nap'.start = nap.start /\ nap'.target = nap.target /\ nap'.seconds = nap.seconds
    BY <1>1, <2>1 DEF NapType
  <2>4. Course'
    BY <1>1, <1>2, <1>5, <2>3 DEF Course, Halfway, Since, Sum
  <2> QED BY <2>2, <2>3, <2>4 DEF SleepInv, Reading, Halfway, NeverEarly
<1>6. ASSUME WakeUp, ~ torn /\ nap.seconds <= MaxWaited => waited >= nap.seconds
      PROVE  SleepInv'
  <2>1. nap' = [at |-> "awake", why |-> "start", sec |-> 0, min |-> 0, seconds |-> nap.seconds,
                start |-> 0, target |-> 0]
    BY <1>6 DEF WakeUp, NoNap
  <2>2. NapType'
    BY <1>1, <1>2, <2>1 DEF NapType
  <2>3. nap'.at = "awake" /\ nap'.seconds = nap.seconds
    BY <1>1, <2>1 DEF NapType
  <2> QED BY <1>2, <1>6, <2>2, <2>3 DEF SleepInv, Reading, Halfway, Course, NeverEarly
<1> DEFINE Early == ~ torn /\ nap.seconds <= MaxWaited /\ waited < nap.seconds
<1>7. ASSUME Early, nap.why # "start"
      PROVE  /\ nap.start < Day
             /\ nap.target = IF Sum >= Day THEN Sum - Day ELSE Sum
             /\ Since <= waited
             /\ nap.why = "poll" => Now >= nap.start \/ clock < nap.start
             /\ nap.why = "second" => clock < nap.start
             /\ Now <= clock
  BY <1>1, <1>2, <1>3, <1>7 DEF Course, Halfway
<1>8. CASE PollToday
  <2>1. nap.why = "poll" /\ ~ (nap.target <= nap.start)
        /\ (IF Now < nap.target THEN Again("poll") ELSE WakeUp)
    BY <1>8 DEF PollToday, Reads, Wraps
  <2>2. Early => Now < nap.target
    BY <1>1, <1>3, <1>7, <2>1, ClockFacts DEF Since, Sum
  <2>3. ~ (Now < nap.target) => (~ torn /\ nap.seconds <= MaxWaited => waited >= nap.seconds)
    BY <1>1, <2>2, ClockFacts
  <2> QED BY <1>5, <1>6, <2>1, <2>3
<1>9. CASE PollTomorrow
  <2>1. nap.why = "poll" /\ (IF Now >= nap.start THEN Again("poll") ELSE Again("second"))
    BY <1>9 DEF PollTomorrow, Reads
  <2>2. ~ (Now >= nap.start) /\ Early => clock < nap.start
    BY <1>7, <2>1
  <2> QED BY <1>5, <2>1, <2>2
<1>10. CASE PollTarget
  <2>1. nap.why = "second" /\ (IF Now < nap.target THEN Again("poll") ELSE WakeUp)
    BY <1>10 DEF PollTarget, Reads
  <2>2. Early => Now < nap.target
    BY <1>1, <1>3, <1>7, <2>1, ClockFacts DEF Since, Sum
  <2>3. ~ (Now < nap.target) => (~ torn /\ nap.seconds <= MaxWaited => waited >= nap.seconds)
    BY <1>1, <2>2, ClockFacts
  <2> QED BY <1>5, <1>6, <2>1, <2>3
<1> QED BY <1>4, <1>8, <1>9, <1>10

(* Whatever the units of time and whenever it begins, sleep does not       *)
(* return before its seconds have passed, if they are at most a day and no *)
(* minute ends between two pieces of a read of the clock.                  *)
THEOREM NeverTooShort ==
  ASSUME Naps \subseteq 1 .. Day
  PROVE  DeviceSpec => []NeverEarly
<1>1. DeviceInit => SleepInv
  BY SleepInit DEF DeviceInit
<1>2. SleepInv /\ [DeviceNext]_deviceVars => SleepInv'
  <2>1. SleepInv /\ UNCHANGED clockVars => SleepInv'
    BY DEF SleepInv, clockVars, NapType, Reading, Halfway, Course, Since, Sum, Stamp, NeverEarly
  <2>2. SleepInv /\ ClockNext => SleepInv'
    BY SecondKeeps, BeginKeeps, PiecesKeep, TestsKeep DEF ClockNext, Naptime
  <2> QED BY <2>1, <2>2 DEF DeviceNext, deviceVars, Keys, Shown, Timed
<1>3. SleepInv => NeverEarly
  BY DEF SleepInv
<1> QED BY <1>1, <1>2, <1>3, PTL DEF DeviceSpec

-----------------------------------------------------------------------------
(* The console.  First, what follows of counting.                          *)

LEMMA LeastOf ==
  ASSUME NEW T, T # {}, T \subseteq Nat
  PROVE  \E x \in T : \A y \in T : x <= y
<1>1. IsWellFoundedOn(OpToRel(<, Nat), Nat)
  BY NatLessThanWellFounded
<1>2. PICK x \in T : \A y \in T : ~ (<< y, x >> \in OpToRel(<, Nat))
  BY <1>1, WFMin, Zenon
<1>3. \A y \in T : ~ (y < x) /\ x \in Nat /\ y \in Nat
  BY <1>2 DEF OpToRel
<1> QED BY <1>3

(* Induction from m up to n: T is the set of what has the property.        *)
LEMMA Climb ==
  ASSUME NEW m \in Nat, NEW n \in Nat, NEW T, m \in T,
         \A k \in m .. n - 1 : k \in T => k + 1 \in T
  PROVE  \A k \in m .. n : k \in T
<1> DEFINE S == {k \in Nat : k >= m /\ k <= n /\ k \notin T}
<1> SUFFICES ASSUME S # {} PROVE FALSE
  OBVIOUS
<1>1. IsWellFoundedOn(OpToRel(<, Nat), Nat) /\ S \subseteq Nat
  BY NatLessThanWellFounded DEF S
<1>2. PICK k \in S : \A j \in S : ~ (<< j, k >> \in OpToRel(<, Nat))
  <2> HIDE DEF S
  <2> QED BY <1>1, WFMin, Zenon
<1>3. \A j \in S : ~ (j < k)
  BY <1>1, <1>2 DEF OpToRel
<1>4. k # m /\ k - 1 \in m .. n - 1 /\ k - 1 \in Nat
  BY DEF S
<1>5. k - 1 \notin S
  BY <1>3, <1>4
<1>6. k - 1 \in T
  BY <1>4, <1>5 DEF S
<1>7. (k - 1) + 1 \in T /\ (k - 1) + 1 = k
  BY <1>4, <1>6
<1> QED BY <1>7 DEF S

(* Where the steps lead from x on: a function defined by recursion over    *)
(* m .. n has a value when this set has.                                   *)
Leads(m, n, X, x, step) ==
  {f \in [m .. n -> X] : f[m] = x /\ \A k \in m + 1 .. n : f[k] = step[k][f[k - 1]]}

LEMMA LeadsExist ==
  ASSUME NEW m \in Nat, NEW n \in Nat, m <= n, NEW X, NEW x \in X, NEW step \in [m + 1 .. n -> [X -> X]]
  PROVE  Leads(m, n, X, x, step) # {}
<1> DEFINE T == {k \in m .. n : Leads(m, k, X, x, step) # {}}
<1>1. m \in T
  <2>1. [k \in m .. m |-> x] \in Leads(m, m, X, x, step)
    BY DEF Leads
  <2> QED BY <2>1
<1>2. ASSUME NEW k \in m .. n - 1, k \in T PROVE k + 1 \in T
  <2>1. PICK f \in [m .. k -> X] : f[m] = x /\ \A i \in m + 1 .. k : f[i] = step[i][f[i - 1]]
    BY <1>2 DEF Leads
  <2> DEFINE g == [i \in m .. k + 1 |-> IF i = k + 1 THEN step[k + 1][f[k]] ELSE f[i]]
  <2>2. step[k + 1] \in [X -> X] /\ f[k] \in X
    OBVIOUS
  <2>3. g \in [m .. k + 1 -> X]
    BY <2>2
  <2>4. g[m] = x
    BY <2>1
  <2>5. ASSUME NEW i \in m + 1 .. k + 1 PROVE g[i] = step[i][g[i - 1]]
    <3>1. i \in m .. k + 1 /\ i - 1 \in m .. k + 1 /\ i - 1 # k + 1
      OBVIOUS
    <3>2. g[i - 1] = f[i - 1]
      BY <3>1
    <3>3. CASE i = k + 1
      BY <3>1, <3>2, <3>3
    <3>4. CASE i # k + 1
      <4>1. i \in m + 1 .. k /\ g[i] = f[i]
        BY <3>1, <3>4
      <4> QED BY <2>1, <3>2, <4>1
    <3> QED BY <3>3, <3>4
  <2> HIDE DEF g
  <2>6. g \in Leads(m, k + 1, X, x, step)
    BY <2>3, <2>4, <2>5 DEF Leads
  <2> QED BY <2>6
<1> HIDE DEF T
<1>3. \A k \in m .. n : k \in T
  BY <1>1, <1>2, Climb
<1>4. n \in m .. n
  OBVIOUS
<1> QED BY <1>3, <1>4 DEF T

(* Where a character can be.                                               *)
Places == [line : Nat, x : Cols]

LEMMA TabStop ==
  ASSUME NEW x \in Nat, NEW n \in Nat, n # 0
  PROVE  (x \div n + 1) * n \in Nat /\ (x \div n + 1) * n > x
OBVIOUS

LEMMA AdvanceMoves ==
  ASSUME NEW p \in Places, NEW c
  PROVE  /\ Advance(p, c) \in Places
         /\ \/ c # NEWLINE /\ Advance(p, c).line = p.line /\ Advance(p, c).x > p.x
            \/ Advance(p, c) = [line |-> p.line + 1, x |-> 0]
         /\ c \notin {NEWLINE, TAB} =>
              \/ Advance(p, c).line = p.line /\ Advance(p, c).x = p.x + 1
              \/ p.x + 1 = Width
<1>1. p.line \in Nat /\ p.x \in Nat /\ p.x < Width /\ TAB_SIZE \in Nat \ {0} /\ Width \in Nat \ {0}
  BY ConsoleAssumption DEF Places, Cols
<1> DEFINE x2 == IF c = TAB THEN (p.x \div TAB_SIZE + 1) * TAB_SIZE ELSE p.x + 1
<1>2. x2 \in Nat /\ x2 > p.x
  BY <1>1, TabStop
<1>3. Advance(p, c) = IF c = NEWLINE \/ x2 >= Width THEN [line |-> p.line + 1, x |-> 0] ELSE [p EXCEPT !.x = x2]
  BY DEF Advance
<1>4. c \notin {NEWLINE, TAB} => x2 = p.x + 1
  OBVIOUS
<1> HIDE DEF x2
<1>5. CASE c = NEWLINE \/ x2 >= Width
  BY <1>1, <1>2, <1>3, <1>4, <1>5 DEF Places, Cols
<1>6. CASE ~ (c = NEWLINE \/ x2 >= Width)
  <2>1. Advance(p, c) = [line |-> p.line, x |-> x2]
    BY <1>3, <1>6 DEF Places
  <2> QED BY <1>1, <1>2, <1>4, <1>6, <2>1 DEF Places, Cols
<1> QED BY <1>5, <1>6

(* The function by which After is defined.                                 *)
Trail(t) == CHOOSE f : f = [i \in 0 .. Len(t) |-> IF i = 0 THEN Home ELSE Advance(f[i - 1], t[i])]

LEMMA AfterSteps ==
  ASSUME NEW S, NEW t \in Seq(S)
  PROVE  /\ After(t, 0) = Home
         /\ \A n \in 1 .. Len(t) : After(t, n) = Advance(After(t, n - 1), t[n])
         /\ \A n \in 0 .. Len(t) : After(t, n) \in Places
<1>1. \A n : After(t, n) = Trail(t)[n]
  BY DEF After, Trail
<1> DEFINE Def(f) == f = [i \in 0 .. Len(t) |-> IF i = 0 THEN Home ELSE Advance(f[i - 1], t[i])]
           step == [i \in 1 .. Len(t) |-> [p \in Places |-> Advance(p, t[i])]]
<1>2. Home \in Places
  BY ConsoleAssumption DEF Home, Places, Cols
<1>3. step \in [0 + 1 .. Len(t) -> [Places -> Places]]
  <2>1. \A i \in 1 .. Len(t) : \A p \in Places : Advance(p, t[i]) \in Places
    BY AdvanceMoves
  <2>2. \A i \in 1 .. Len(t) : [p \in Places |-> Advance(p, t[i])] \in [Places -> Places]
    BY <2>1
  <2>3. 0 + 1 = 1
    OBVIOUS
  <2> QED BY <2>2, <2>3
<1>4. PICK f : f \in Leads(0, Len(t), Places, Home, step)
  <2> HIDE DEF step
  <2>1. Len(t) \in Nat /\ 0 <= Len(t) /\ 0 \in Nat
    OBVIOUS
  <2> QED BY <1>2, <1>3, <2>1, LeadsExist
<1>5. /\ f \in [0 .. Len(t) -> Places] /\ f[0] = Home
      /\ \A k \in 1 .. Len(t) : f[k] = Advance(f[k - 1], t[k])
  <2>1. \A k \in 1 .. Len(t) : \A p \in Places : step[k][p] = Advance(p, t[k])
    OBVIOUS
  <2> HIDE DEF step
  <2>2. /\ f \in [0 .. Len(t) -> Places] /\ f[0] = Home
        /\ \A k \in 1 .. Len(t) : f[k] = step[k][f[k - 1]]
    BY <1>4 DEF Leads
  <2>3. \A k \in 1 .. Len(t) : f[k - 1] \in Places
    BY <2>2
  <2> QED BY <2>1, <2>2, <2>3
<1>6. Def(f)
  <2> DEFINE g == [i \in 0 .. Len(t) |-> IF i = 0 THEN Home ELSE Advance(f[i - 1], t[i])]
  <2>1. \A i \in 0 .. Len(t) : f[i] = g[i]
    BY <1>5
  <2>2. f = [i \in 0 .. Len(t) |-> f[i]] /\ g = [i \in 0 .. Len(t) |-> g[i]]
    BY <1>5
  <2> HIDE DEF g
  <2>3. f = g
    BY <2>1, <2>2
  <2> QED BY <2>3 DEF g
<1>7. Def(Trail(t))
  <2>1. Trail(t) = CHOOSE g : Def(g)
    BY DEF Trail
  <2> HIDE DEF Def
  <2> QED BY <1>6, <2>1, Zenon
<1> DEFINE u == Trail(t)
<1> HIDE DEF u, step
<1>8. u = [i \in 0 .. Len(t) |-> IF i = 0 THEN Home ELSE Advance(u[i - 1], t[i])]
  BY <1>7 DEF u
<1>9. u[0] = Home /\ \A i \in 1 .. Len(t) : u[i] = Advance(u[i - 1], t[i])
  BY <1>8
<1> DEFINE T == {k \in Nat : u[k] \in Places}
<1>10. 0 \in T
  BY <1>2, <1>9
<1>11. ASSUME NEW k \in 0 .. Len(t) - 1, k \in T PROVE k + 1 \in T
  <2>1. u[k + 1] = Advance(u[k], t[k + 1]) /\ u[k] \in Places
    BY <1>9, <1>11
  <2> QED BY <2>1, AdvanceMoves
<1>12. \A k \in 0 .. Len(t) : k \in T
  <2> HIDE DEF T
  <2>1. Len(t) \in Nat
    OBVIOUS
  <2> QED BY <1>10, <1>11, <2>1, Climb
<1> QED BY <1>1, <1>9, <1>12 DEF u

(* The cell lies before place p.                                           *)
Past(p, r, c) == r < p.line \/ (r = p.line /\ c < p.x)

(* The n-th character of v fills the cell.                                 *)
Covers(v, n, r, c) == ~ Past(After(v, n - 1), r, c) /\ Past(After(v, n), r, c)

LEMMA PastMoves ==
  ASSUME NEW p \in Places, NEW ch, NEW r \in Nat, NEW c \in Nat
  PROVE  /\ Past(p, r, c) => Past(Advance(p, ch), r, c)
         /\ Past(Advance(p, ch), p.line, p.x)
         /\ p.line <= Advance(p, ch).line
<1>1. p.line \in Nat /\ p.x \in Nat
  BY DEF Places, Cols
<1>2. /\ Advance(p, ch).line \in Nat /\ Advance(p, ch).x \in Nat
      /\ \/ Advance(p, ch).line = p.line /\ Advance(p, ch).x > p.x
         \/ Advance(p, ch).line = p.line + 1
  BY <1>1, AdvanceMoves DEF Places, Cols
<1> QED BY <1>1, <1>2 DEF Past

LEMMA PastGrows ==
  ASSUME NEW S, NEW t \in Seq(S), NEW m \in 0 .. Len(t), NEW n \in m .. Len(t),
         NEW r \in Nat, NEW c \in Nat, Past(After(t, m), r, c)
  PROVE  Past(After(t, n), r, c)
<1> DEFINE T == {k \in Nat : Past(After(t, k), r, c)}
<1>1. m \in T /\ m \in Nat /\ n \in Nat /\ n \in m .. n
  OBVIOUS
<1>2. ASSUME NEW k \in m .. n - 1, k \in T PROVE k + 1 \in T
  <2>1. k \in 0 .. Len(t) /\ k + 1 \in 1 .. Len(t) /\ (k + 1) - 1 = k
    OBVIOUS
  <2>2. After(t, k + 1) = Advance(After(t, k), t[k + 1]) /\ After(t, k) \in Places
    BY <2>1, AfterSteps
  <2>3. Past(After(t, k + 1), r, c)
    BY <1>2, <2>2, PastMoves
  <2> QED BY <2>1, <2>3
<1> HIDE DEF T
<1>3. \A k \in m .. n : k \in T
  BY <1>1, <1>2, Climb
<1> QED BY <1>1, <1>3 DEF T

LEMMA LinesGrow ==
  ASSUME NEW S, NEW t \in Seq(S), NEW m \in 0 .. Len(t), NEW n \in m .. Len(t)
  PROVE  After(t, m).line <= After(t, n).line
<1> DEFINE T == {k \in Nat : After(t, m).line <= After(t, k).line}
<1>1. m \in T /\ m \in Nat /\ n \in Nat /\ n \in m .. n
  BY AfterSteps DEF Places
<1>2. ASSUME NEW k \in m .. n - 1, k \in T PROVE k + 1 \in T
  <2>1. k \in 0 .. Len(t) /\ k + 1 \in 1 .. Len(t) /\ k + 1 \in 0 .. Len(t) /\ (k + 1) - 1 = k /\ k + 1 \in Nat
    OBVIOUS
  <2>2. /\ After(t, k + 1) = Advance(After(t, k), t[k + 1])
        /\ After(t, k) \in Places /\ After(t, m) \in Places /\ After(t, k + 1) \in Places
    BY <2>1, AfterSteps
  <2>3. After(t, k).line <= After(t, k + 1).line
    BY <2>2, PastMoves, 0 \in Nat
  <2>4. After(t, m).line <= After(t, k).line
    BY <1>2
  <2>5. After(t, k).line \in Nat /\ After(t, m).line \in Nat /\ After(t, k + 1).line \in Nat
    BY <2>2 DEF Places
  <2> QED BY <2>1, <2>3, <2>4, <2>5
<1> HIDE DEF T
<1>3. \A k \in m .. n : k \in T
  BY <1>1, <1>2, Climb
<1> QED BY <1>1, <1>3 DEF T

LEMMA SomeCovers ==
  ASSUME NEW S, NEW t \in Seq(S), NEW n \in 0 .. Len(t), NEW r \in Nat, NEW c \in Nat,
         Past(After(t, n), r, c)
  PROVE  \E k \in 1 .. n : Covers(t, k, r, c)
<1> SUFFICES ASSUME \A k \in 1 .. n : ~ Covers(t, k, r, c) PROVE FALSE
  OBVIOUS
<1> DEFINE T == {k \in Nat : ~ Past(After(t, k), r, c)}
<1>1. 0 \in T /\ 0 \in Nat /\ n \in Nat /\ n \in 0 .. n
  BY AfterSteps DEF Past, Home
<1>2. ASSUME NEW k \in 0 .. n - 1, k \in T PROVE k + 1 \in T
  <2>1. k + 1 \in 1 .. n /\ (k + 1) - 1 = k /\ k + 1 \in Nat
    OBVIOUS
  <2>2. ~ Covers(t, k + 1, r, c)
    BY <2>1
  <2> QED BY <1>2, <2>1, <2>2 DEF Covers
<1> HIDE DEF T
<1>3. \A k \in 0 .. n : k \in T
  BY <1>1, <1>2, Climb
<1> QED BY <1>1, <1>3 DEF T

LEMMA OneCovers ==
  ASSUME NEW S, NEW t \in Seq(S), NEW m \in 1 .. Len(t), NEW n \in 1 .. Len(t),
         NEW r \in Nat, NEW c \in Nat, Covers(t, m, r, c), Covers(t, n, r, c)
  PROVE  m = n
<1>1. ASSUME NEW i \in 1 .. Len(t), NEW j \in 1 .. Len(t), i < j, Covers(t, i, r, c) PROVE ~ Covers(t, j, r, c)
  <2>1. i \in 0 .. Len(t) /\ j - 1 \in i .. Len(t)
    BY <1>1
  <2> QED BY <1>1, <2>1, PastGrows DEF Covers
<1>2. ~ (m < n) /\ ~ (n < m)
  BY <1>1
<1> QED BY <1>2

(* Where a character goes does not depend on what follows it.              *)
LEMMA SameAfter ==
  ASSUME NEW S, NEW t \in Seq(S), NEW u \in Seq(S), NEW n \in 0 .. Len(t), n <= Len(u),
         \A i \in 1 .. n : t[i] = u[i]
  PROVE  After(t, n) = After(u, n)
<1> DEFINE T == {k \in Nat : After(t, k) = After(u, k)}
<1>1. 0 \in T /\ 0 \in Nat /\ n \in Nat /\ n \in 0 .. n
  BY AfterSteps
<1>2. ASSUME NEW k \in 0 .. n - 1, k \in T PROVE k + 1 \in T
  <2>1. k + 1 \in 1 .. n /\ k + 1 \in 1 .. Len(t) /\ k + 1 \in 1 .. Len(u) /\ (k + 1) - 1 = k /\ k + 1 \in Nat
    OBVIOUS
  <2>2. After(t, k + 1) = Advance(After(t, k), t[k + 1]) /\ After(u, k + 1) = Advance(After(u, k), u[k + 1])
    BY <2>1, AfterSteps
  <2>3. t[k + 1] = u[k + 1] /\ After(t, k) = After(u, k)
    BY <1>2, <2>1
  <2> QED BY <2>1, <2>2, <2>3
<1> HIDE DEF T
<1>3. \A k \in 0 .. n : k \in T
  BY <1>1, <1>2, Climb
<1> QED BY <1>1, <1>3 DEF T

LEMMA AdvanceShifts ==
  ASSUME NEW p \in Places, NEW q \in Places, NEW d \in Nat, NEW ch, q.x = p.x, q.line = p.line + d
  PROVE  Advance(q, ch).x = Advance(p, ch).x /\ Advance(q, ch).line = Advance(p, ch).line + d
<1> DEFINE y(a) == IF ch = TAB THEN (a.x \div TAB_SIZE + 1) * TAB_SIZE ELSE a.x + 1
<1>1. y(p) = y(q)
  OBVIOUS
<1>2. \A a : Advance(a, ch) = IF ch = NEWLINE \/ y(a) >= Width THEN [line |-> a.line + 1, x |-> 0] ELSE [a EXCEPT !.x = y(a)]
  BY DEF Advance
<1> HIDE DEF y
<1>3. CASE ch = NEWLINE \/ y(p) >= Width
  <2>1. Advance(p, ch) = [line |-> p.line + 1, x |-> 0] /\ Advance(q, ch) = [line |-> q.line + 1, x |-> 0]
    BY <1>1, <1>2, <1>3
  <2> QED BY <2>1 DEF Places
<1>4. CASE ~ (ch = NEWLINE \/ y(p) >= Width)
  <2>1. Advance(p, ch) = [p EXCEPT !.x = y(p)] /\ Advance(q, ch) = [q EXCEPT !.x = y(p)]
    BY <1>1, <1>2, <1>4
  <2>2. [p EXCEPT !.x = y(p)] = [line |-> p.line, x |-> y(p)] /\ [q EXCEPT !.x = y(p)] = [line |-> q.line, x |-> y(p)]
    BY DEF Places
  <2> QED BY <2>1, <2>2
<1> QED BY <1>3, <1>4

LEMMA RestOfText ==
  ASSUME NEW S, NEW t \in Seq(S), NEW s \in 0 .. Len(t)
  PROVE  LET v == SubSeq(t, s + 1, Len(t))
         IN  v \in Seq(S) /\ Len(v) = Len(t) - s /\ \A i \in 1 .. Len(t) - s : v[i] = t[s + i]
OBVIOUS

(* The rest of the text is laid out as in the text, if it begins a line.   *)
LEMMA RestAfter ==
  ASSUME NEW S, NEW t \in Seq(S), NEW s \in 0 .. Len(t), After(t, s).x = 0,
         NEW n \in 0 .. Len(t) - s
  PROVE  LET v == SubSeq(t, s + 1, Len(t))
         IN  /\ v \in Seq(S) /\ Len(v) = Len(t) - s
             /\ After(t, s + n).x = After(v, n).x
             /\ After(t, s + n).line = After(v, n).line + After(t, s).line
<1> DEFINE v == SubSeq(t, s + 1, Len(t))
           d == After(t, s).line
           T == {k \in Nat : After(t, s + k).x = After(v, k).x /\ After(t, s + k).line = After(v, k).line + d}
<1>1. v \in Seq(S) /\ Len(v) = Len(t) - s /\ \A i \in 1 .. Len(t) - s : v[i] = t[s + i]
  OBVIOUS
<1> HIDE DEF v
<1>2. 0 \in Nat /\ n \in Nat /\ n \in 0 .. n /\ After(t, s) \in Places /\ s + 0 = s
  BY AfterSteps
<1>3. 0 \in T
  <2>1. After(v, 0) = Home /\ d \in Nat
    BY <1>1, <1>2, AfterSteps DEF Places
  <2> QED BY <1>2, <2>1 DEF Home
<1>4. ASSUME NEW k \in 0 .. n - 1, k \in T PROVE k + 1 \in T
  <2>1. /\ k + 1 \in 1 .. Len(v) /\ k \in 0 .. Len(v) /\ (k + 1) - 1 = k /\ k + 1 \in Nat
        /\ s + (k + 1) \in 1 .. Len(t) /\ s + k \in 0 .. Len(t) /\ (s + (k + 1)) - 1 = s + k
    BY <1>1
  <2>2. After(v, k + 1) = Advance(After(v, k), v[k + 1]) /\ After(v, k) \in Places
    BY <1>1, <2>1, AfterSteps
  <2>3. After(t, s + (k + 1)) = Advance(After(t, s + k), t[s + (k + 1)]) /\ After(t, s + k) \in Places
    BY <2>1, AfterSteps
  <2>4. v[k + 1] = t[s + (k + 1)]
    BY <1>1, <2>1
  <2>5. After(t, s + k).x = After(v, k).x /\ After(t, s + k).line = After(v, k).line + d /\ d \in Nat
    BY <1>2, <1>4 DEF Places
  <2> HIDE DEF d
  <2>6. /\ After(t, s + (k + 1)).x = After(v, k + 1).x
        /\ After(t, s + (k + 1)).line = After(v, k + 1).line + d
    BY <2>2, <2>3, <2>4, <2>5, AdvanceShifts
  <2> QED BY <2>1, <2>6
<1> HIDE DEF T, d
<1>5. \A k \in 0 .. n : k \in T
  BY <1>2, <1>3, <1>4, Climb
<1>6. n \in T
  BY <1>2, <1>5
<1> QED BY <1>1, <1>6 DEF T, d, v

(* The visible text begins a line, and fits the screen; if it is not all of*)
(* the text, it reaches the last line.                                     *)
LEMMA VisibleStart ==
  ASSUME NEW S, NEW t \in Seq(S)
  PROVE  LET s == console_calculate_visible_start(t)
         IN  /\ s \in 0 .. Len(t) /\ After(t, s).x = 0
             /\ After(t, Len(t)).line < After(t, s).line + Lines
             /\ s # 0 => After(t, Len(t)).line + 1 = After(t, s).line + Lines
<1> DEFINE s == console_calculate_visible_start(t)
           l == After(t, Len(t)).line
           top == (l - Lines) + 1
           Begins(n) == (After(t, n).line >= top \/ n = Len(t)) /\ (n = 0 \/ After(t, n - 1).line < top)
<1>1. Lines \in Nat \ {0} /\ Len(t) \in Nat
  BY ConsoleAssumption
<1>2. /\ After(t, 0) = Home /\ \A n \in 1 .. Len(t) : After(t, n) = Advance(After(t, n - 1), t[n])
      /\ \A n \in 0 .. Len(t) : After(t, n) \in Places /\ After(t, n).line \in Nat
  BY AfterSteps DEF Places
<1>3. Home.line = 0 /\ Home.x = 0
  BY DEF Home
<1>4. count_lines_to_position(t, Len(t)) = l
  BY <1>1 DEF count_lines_to_position, Least
<1>5. s = IF l >= Lines THEN find_buffer_position_for_line(t, top) ELSE 0
  BY <1>4 DEF console_calculate_visible_start
<1>6. CASE ~ (l >= Lines)
  <2>1. s = 0 /\ s \in 0 .. Len(t) /\ l \in Nat
    BY <1>1, <1>2, <1>5, <1>6
  <2> QED BY <1>1, <1>2, <1>3, <1>6, <2>1
<1>7. CASE l >= Lines
  <2>1. s = CHOOSE n \in 0 .. Len(t) : Begins(n)
    BY <1>5, <1>7 DEF find_buffer_position_for_line
  <2>2. l \in Nat /\ top \in Nat /\ top >= 1 /\ l >= top /\ l + 1 = top + Lines
    BY <1>1, <1>2, <1>7
  <2> HIDE DEF top
  <2>3. \E n \in 0 .. Len(t) : Begins(n)
    <3> SUFFICES ASSUME \A n \in 0 .. Len(t) : ~ Begins(n) PROVE FALSE
      OBVIOUS
    <3> DEFINE T == {k \in Nat : k = 0 \/ After(t, k - 1).line < top}
    <3>1. 0 \in T /\ Len(t) \in 0 .. Len(t)
      BY <1>1
    <3>2. ASSUME NEW k \in 0 .. Len(t) - 1, k \in T PROVE k + 1 \in T
      <4>1. k \in 0 .. Len(t) /\ k + 1 \in Nat /\ (k + 1) - 1 = k
        BY <1>1
      <4>2. ~ Begins(k) /\ After(t, k).line \in Nat
        BY <1>2, <4>1
      <4>3. After(t, k).line < top
        BY <2>2, <3>2, <4>2
      <4> QED BY <4>1, <4>3
    <3> HIDE DEF T
    <3>3. \A k \in 0 .. Len(t) : k \in T
      BY <1>1, <3>1, <3>2, Climb
    <3>4. Len(t) \in T
      BY <3>1, <3>3
    <3>5. Begins(Len(t))
      BY <3>4 DEF T
    <3> QED BY <3>1, <3>5
  <2> HIDE DEF Begins
  <2>4. s \in 0 .. Len(t) /\ Begins(s)
    <3> HIDE DEF s
    <3> QED BY <2>1, <2>3, Zenon
  <2> USE DEF Begins
  <2>5. After(t, s).line \in Nat /\ After(t, s).line >= top
    BY <1>2, <2>2, <2>4
  <2>6. s # 0
    BY <1>2, <1>3, <2>2, <2>5
  <2>7. s \in 1 .. Len(t) /\ s - 1 \in 0 .. Len(t) /\ After(t, s - 1).line < top
    BY <1>1, <2>4, <2>6
  <2>8. /\ After(t, s) = Advance(After(t, s - 1), t[s])
        /\ After(t, s - 1) \in Places /\ After(t, s - 1).line \in Nat
    BY <1>2, <2>7
  <2>9. After(t, s).line = top /\ After(t, s).x = 0
    <3> HIDE DEF s
    <3>1. \/ After(t, s).line = After(t, s - 1).line
          \/ After(t, s) = [line |-> After(t, s - 1).line + 1, x |-> 0]
      BY <2>8, AdvanceMoves
    <3> QED BY <2>2, <2>5, <2>7, <2>8, <3>1
  <2> QED BY <1>1, <2>2, <2>4, <2>9
<1> QED BY <1>6, <1>7

-----------------------------------------------------------------------------
(* What a screen has to show.                                              *)
ShowsOn(scr, v, r, c) ==
  LET Here == {n \in DOMAIN v : PlaceOf(v, n) = [line |-> r, x |-> c]}
  IN  IF \E n \in Here : v[n] \notin {NEWLINE, TAB}
        THEN scr[r][c] = v[CHOOSE n \in Here : TRUE]
        ELSE \/ scr[r][c] = SPACE
             \/ \E n \in DOMAIN v : v[n] = TAB /\ Skips(v, n, r, c)

(* The cell, which the n-th character covers, shows it.                    *)
Right(scr, v, n, r, c) ==
  IF v[n] \notin {NEWLINE, TAB} THEN scr[r][c] = v[n]
  ELSE scr[r][c] = SPACE \/ (v[n] = TAB /\ Skips(v, n, r, c))

(* The first n characters are on the screen.                               *)
Drawn(scr, v, n) ==
  \A r \in Rows : \A c \in Cols : \A k \in 1 .. n : Covers(v, k, r, c) => Right(scr, v, k, r, c)

Clear(scr, p) == \A r \in Rows : \A c \in Cols : Past(p, r, c) \/ scr[r][c] = SPACE

(* A character covers its place, and a tab what it skips; and a character  *)
(* that is neither tab nor newline covers nothing else.                    *)
LEMMA PlaceCovered ==
  ASSUME NEW S, NEW v \in Seq(S), NEW n \in 1 .. Len(v), NEW r \in Nat, NEW c \in Cols
  PROVE  /\ After(v, n - 1) = [line |-> r, x |-> c] => Covers(v, n, r, c)
         /\ Skips(v, n, r, c) => Covers(v, n, r, c)
         /\ Covers(v, n, r, c) => /\ r = After(v, n - 1).line /\ c >= After(v, n - 1).x
                                  /\ v[n] \notin {NEWLINE, TAB} => c = After(v, n - 1).x
                                  /\ v[n] \in {NEWLINE, TAB} /\ c # After(v, n - 1).x => Skips(v, n, r, c)
<1> DEFINE p == After(v, n - 1)
           q == After(v, n)
<1>1. q = Advance(p, v[n]) /\ p \in Places /\ q \in Places
  BY AfterSteps
<1>2. /\ \/ q.line = p.line /\ q.x > p.x
         \/ q = [line |-> p.line + 1, x |-> 0]
      /\ v[n] \notin {NEWLINE, TAB} => \/ q.line = p.line /\ q.x = p.x + 1
                                       \/ p.x + 1 = Width
  BY <1>1, AdvanceMoves
<1>3. p.line \in Nat /\ q.line \in Nat /\ p.x \in Nat /\ q.x \in Nat /\ c \in Nat /\ c < Width /\ Width \in Nat
  BY <1>1, ConsoleAssumption DEF Places, Cols
<1>4. p = [line |-> r, x |-> c] => p.line = r /\ p.x = c
  OBVIOUS
<1>5. Covers(v, n, r, c) <=> ~ Past(p, r, c) /\ Past(q, r, c)
  BY DEF Covers
<1>6. Skips(v, n, r, c) <=> p.line = r /\ p.x < c /\ (q.line = r => c < q.x)
  BY DEF Skips, PlaceOf
<1> HIDE DEF p, q
<1>7. \/ q.line = p.line /\ q.x > p.x
      \/ q.line = p.line + 1 /\ q.x = 0
  BY <1>2
<1>8. p.line = r /\ p.x = c => Covers(v, n, r, c)
  BY <1>3, <1>5, <1>7 DEF Past
<1>9. Skips(v, n, r, c) => Covers(v, n, r, c)
  BY <1>3, <1>5, <1>6, <1>7 DEF Past
<1>10. ASSUME Covers(v, n, r, c)
       PROVE  /\ r = p.line /\ c >= p.x
              /\ v[n] \notin {NEWLINE, TAB} => c = p.x
              /\ c # p.x => Skips(v, n, r, c)
  <2>1. r = p.line /\ c >= p.x
    BY <1>3, <1>5, <1>7, <1>10 DEF Past
  <2>2. q.line = r => c < q.x
    BY <1>3, <1>5, <1>10 DEF Past
  <2>3. (q.line = p.line /\ q.x = p.x + 1) \/ p.x + 1 = Width => c = p.x
    BY <1>3, <2>1, <2>2
  <2> QED BY <1>2, <1>3, <1>6, <2>1, <2>2, <2>3
<1> QED BY <1>4, <1>8, <1>9, <1>10 DEF p, q

LEMMA ShowsCovered ==
  ASSUME NEW S, NEW v \in Seq(S), NEW n \in 1 .. Len(v), NEW r \in Nat, NEW c \in Cols,
         Covers(v, n, r, c), NEW scr
  PROVE  ShowsOn(scr, v, r, c) <=> Right(scr, v, n, r, c)
<1> DEFINE Here == {m \in DOMAIN v : PlaceOf(v, m) = [line |-> r, x |-> c]}
<1>1. DOMAIN v = 1 .. Len(v) /\ c \in Nat
  BY ConsoleAssumption DEF Cols
<1>2. \A m \in Here : m = n
  <2>1. ASSUME NEW m \in 1 .. Len(v), After(v, m - 1) = [line |-> r, x |-> c] PROVE m = n
    <3>1. Covers(v, m, r, c)
      BY <2>1, PlaceCovered
    <3> QED BY <1>1, <3>1, OneCovers
  <2> QED BY <1>1, <2>1 DEF PlaceOf
<1>3. \A m \in DOMAIN v : Skips(v, m, r, c) => m = n
  <2>1. ASSUME NEW m \in 1 .. Len(v), Skips(v, m, r, c) PROVE m = n
    <3>1. Covers(v, m, r, c)
      BY <2>1, PlaceCovered
    <3> QED BY <1>1, <3>1, OneCovers
  <2> QED BY <1>1, <2>1
<1>4. CASE v[n] \notin {NEWLINE, TAB}
  <2>1. After(v, n - 1) \in Places /\ After(v, n - 1).line = r /\ After(v, n - 1).x = c
    <3>1. n - 1 \in 0 .. Len(v)
      OBVIOUS
    <3> QED BY <1>4, <3>1, AfterSteps, PlaceCovered
  <2>2. After(v, n - 1) = [line |-> r, x |-> c]
    BY <2>1 DEF Places
  <2>3. n \in Here
    BY <1>1, <2>2 DEF PlaceOf
  <2>4. (CHOOSE m \in Here : TRUE) = n
    <3> HIDE DEF Here
    <3> QED BY <1>2, <2>3
  <2>5. ShowsOn(scr, v, r, c) <=> scr[r][c] = v[n]
    BY <1>4, <2>3, <2>4 DEF ShowsOn
  <2> QED BY <1>4, <2>5 DEF Right
<1>5. CASE v[n] \in {NEWLINE, TAB}
  <2>1. ~ \E m \in Here : v[m] \notin {NEWLINE, TAB}
    BY <1>2, <1>5
  <2>2. ShowsOn(scr, v, r, c) <=> \/ scr[r][c] = SPACE
                                  \/ \E m \in DOMAIN v : v[m] = TAB /\ Skips(v, m, r, c)
    BY <2>1 DEF ShowsOn
  <2>3. (\E m \in DOMAIN v : v[m] = TAB /\ Skips(v, m, r, c)) <=> v[n] = TAB /\ Skips(v, n, r, c)
    BY <1>1, <1>3
  <2> QED BY <1>5, <2>2, <2>3 DEF Right
<1> QED BY <1>4, <1>5

LEMMA ShowsBehind ==
  ASSUME NEW S, NEW v \in Seq(S), NEW r \in Nat, NEW c \in Cols,
         ~ Past(After(v, Len(v)), r, c), NEW scr
  PROVE  ShowsOn(scr, v, r, c) <=> scr[r][c] = SPACE
<1>1. DOMAIN v = 1 .. Len(v) /\ c \in Nat
  BY ConsoleAssumption DEF Cols
<1>2. \A m \in 1 .. Len(v) : ~ Covers(v, m, r, c)
  <2> SUFFICES ASSUME NEW m \in 1 .. Len(v), Past(After(v, m), r, c) PROVE FALSE
    BY DEF Covers
  <2>1. m \in 0 .. Len(v) /\ Len(v) \in m .. Len(v)
    OBVIOUS
  <2> QED BY <1>1, <2>1, PastGrows
<1>3. \A m \in DOMAIN v : PlaceOf(v, m) # [line |-> r, x |-> c] /\ ~ Skips(v, m, r, c)
  BY <1>1, <1>2, PlaceCovered DEF PlaceOf
<1> QED BY <1>3 DEF ShowsOn

LEMMA ShowsAll ==
  ASSUME NEW S, NEW v \in Seq(S), NEW scr
  PROVE  (\A r \in Rows : \A c \in Cols : ShowsOn(scr, v, r, c))
           <=> Drawn(scr, v, Len(v)) /\ Clear(scr, After(v, Len(v)))
<1>1. Rows \subseteq Nat /\ Cols \subseteq Nat /\ Len(v) \in 0 .. Len(v)
  BY ConsoleAssumption DEF Rows, Cols
<1>2. ASSUME \A r \in Rows : \A c \in Cols : ShowsOn(scr, v, r, c)
      PROVE  Drawn(scr, v, Len(v)) /\ Clear(scr, After(v, Len(v)))
  <2>1. Drawn(scr, v, Len(v))
    BY <1>1, <1>2, ShowsCovered DEF Drawn
  <2>2. Clear(scr, After(v, Len(v)))
    BY <1>1, <1>2, ShowsBehind DEF Clear
  <2> QED BY <2>1, <2>2
<1>3. ASSUME Drawn(scr, v, Len(v)), Clear(scr, After(v, Len(v))), NEW r \in Rows, NEW c \in Cols
      PROVE  ShowsOn(scr, v, r, c)
  <2>1. CASE Past(After(v, Len(v)), r, c)
    <3>1. PICK k \in 1 .. Len(v) : Covers(v, k, r, c)
      BY <1>1, <2>1, SomeCovers
    <3>2. Right(scr, v, k, r, c)
      BY <1>3, <3>1 DEF Drawn
    <3> QED BY <1>1, <3>1, <3>2, ShowsCovered
  <2>2. CASE ~ Past(After(v, Len(v)), r, c)
    BY <1>1, <1>3, <2>2, ShowsBehind DEF Clear
  <2> QED BY <2>1, <2>2
<1> QED BY <1>2, <1>3

-----------------------------------------------------------------------------
(* Drawing.                                                                *)
Screens(S) == [Rows -> [Cols -> S]]

(* What Visible is for the text t.                                         *)
VisibleOf(t) == SubSeq(t, console_calculate_visible_start(t) + 1, Len(t))

LEMMA DrawsCell ==
  ASSUME NEW S, SPACE \in S, NEW scr \in Screens(S), NEW p \in Places, p.line < Lines, NEW ch \in S
  PROVE  /\ Draws(scr, p, ch) \in Screens(S)
         /\ \A r \in Rows : \A c \in Cols :
              Draws(scr, p, ch)[r][c] =
                IF r # p.line \/ c < p.x THEN scr[r][c]
                ELSE IF ch = NEWLINE THEN SPACE
                ELSE IF c # p.x THEN scr[r][c]
                ELSE IF ch = TAB THEN SPACE ELSE ch
<1> DEFINE row == [x \in Cols |-> CASE ch = NEWLINE /\ x >= p.x -> SPACE
                                    [] ch = TAB /\ x = p.x      -> SPACE
                                    [] ch \notin {NEWLINE, TAB} /\ x = p.x -> ch
                                    [] OTHER -> scr[p.line][x]]
<1>1. p.line \in Rows /\ Lines \in Nat
  BY ConsoleAssumption DEF Places, Rows
<1>2. Draws(scr, p, ch) = [scr EXCEPT ![p.line] = row]
  BY DEF Draws
<1>3. \A x \in Cols : x \in Nat /\ scr[p.line][x] \in S /\ p.x \in Nat
  BY <1>1, ConsoleAssumption DEF Screens, Cols, Places
<1>4. NEWLINE # TAB
  BY DEF NEWLINE, TAB
<1>5. \A x \in Cols : row[x] = IF x < p.x THEN scr[p.line][x]
                               ELSE IF ch = NEWLINE THEN SPACE
                               ELSE IF x # p.x THEN scr[p.line][x]
                               ELSE IF ch = TAB THEN SPACE ELSE ch
  <2> SUFFICES ASSUME NEW x \in Cols
               PROVE  row[x] = IF x < p.x THEN scr[p.line][x]
                               ELSE IF ch = NEWLINE THEN SPACE
                               ELSE IF x # p.x THEN scr[p.line][x]
                               ELSE IF ch = TAB THEN SPACE ELSE ch
    OBVIOUS
  <2>1. x \in Nat /\ p.x \in Nat
    BY <1>3
  <2>2. CASE x < p.x
    BY <2>1, <2>2
  <2>3. CASE x = p.x
    BY <1>4, <2>1, <2>3
  <2>4. CASE x > p.x
    BY <1>4, <2>1, <2>4
  <2> QED BY <2>1, <2>2, <2>3, <2>4
<1>6. row \in [Cols -> S]
  <2>1. \A x \in Cols : row[x] \in S
    BY <1>3, <1>5
  <2>2. row = [x \in Cols |-> row[x]]
    OBVIOUS
  <2> HIDE DEF row
  <2> QED BY <2>1, <2>2
<1> HIDE DEF row
<1>7. Draws(scr, p, ch) \in Screens(S)
  BY <1>1, <1>2, <1>6 DEF Screens
<1>8. ASSUME NEW r \in Rows, NEW c \in Cols
      PROVE  Draws(scr, p, ch)[r][c] =
                IF r # p.line \/ c < p.x THEN scr[r][c]
                ELSE IF ch = NEWLINE THEN SPACE
                ELSE IF c # p.x THEN scr[r][c]
                ELSE IF ch = TAB THEN SPACE ELSE ch
  <2>1. Draws(scr, p, ch)[r] = IF r = p.line THEN row ELSE scr[r]
    BY <1>1, <1>2 DEF Screens
  <2>2. CASE r = p.line
    BY <1>5, <2>1, <2>2
  <2>3. CASE r # p.line
    BY <2>1, <2>3
  <2> QED BY <2>2, <2>3
<1> QED BY <1>7, <1>8

LEMMA DrawsNext ==
  ASSUME NEW S, SPACE \in S, NEW v \in Seq(S), NEW k \in 0 .. Len(v) - 1,
         NEW scr \in Screens(S), After(v, k).line < Lines,
         Drawn(scr, v, k), Clear(scr, After(v, Len(v)))
  PROVE  LET scr2 == Draws(scr, After(v, k), v[k + 1])
         IN  /\ scr2 \in Screens(S)
             /\ Drawn(scr2, v, k + 1) /\ Clear(scr2, After(v, Len(v)))
<1> DEFINE p == After(v, k)
           q == After(v, k + 1)
           ch == v[k + 1]
           scr2 == Draws(scr, p, ch)
<1>1. /\ k \in 0 .. Len(v) /\ k + 1 \in 1 .. Len(v) /\ (k + 1) - 1 = k
      /\ k + 1 \in 0 .. Len(v) /\ Len(v) \in k + 1 .. Len(v) /\ ch \in S
  OBVIOUS
<1>2. p \in Places /\ q = Advance(p, ch) /\ q \in Places /\ p.line \in Nat /\ p.x \in Nat
  BY <1>1, AfterSteps DEF Places, Cols
<1>3. /\ scr2 \in Screens(S)
      /\ \A r \in Rows : \A c \in Cols :
              scr2[r][c] =
                IF r # p.line \/ c < p.x THEN scr[r][c]
                ELSE IF ch = NEWLINE THEN SPACE
                ELSE IF c # p.x THEN scr[r][c]
                ELSE IF ch = TAB THEN SPACE ELSE ch
  BY <1>1, <1>2, DrawsCell
<1>4. Rows \subseteq Nat /\ Cols \subseteq Nat
  BY ConsoleAssumption DEF Rows, Cols
<1>5. ASSUME NEW r \in Rows, NEW c \in Cols, NEW j \in 1 .. k + 1, Covers(v, j, r, c)
      PROVE  Right(scr2, v, j, r, c)
  <2>1. r \in Nat /\ c \in Nat /\ j \in 1 .. Len(v) /\ j \in 0 .. Len(v)
    BY <1>1, <1>4
  <2>2. CASE j # k + 1
    <3>1. j \in 1 .. k /\ k \in j .. Len(v)
      BY <1>1, <2>2
    <3>2. Past(p, r, c)
      BY <1>1, <1>5, <2>1, <3>1, PastGrows DEF Covers
    <3>3. scr2[r][c] = scr[r][c]
      BY <1>2, <1>3, <2>1, <3>2 DEF Past
    <3>4. Right(scr, v, j, r, c)
      BY <1>5, <3>1 DEF Drawn
    <3> QED BY <3>3, <3>4 DEF Right
  <2>3. CASE j = k + 1
    <3>1. /\ r = p.line /\ c >= p.x
          /\ ch \notin {NEWLINE, TAB} => c = p.x
          /\ ch \in {NEWLINE, TAB} /\ c # p.x => Skips(v, j, r, c)
      <4>1. /\ r = After(v, j - 1).line /\ c >= After(v, j - 1).x
            /\ v[j] \notin {NEWLINE, TAB} => c = After(v, j - 1).x
            /\ v[j] \in {NEWLINE, TAB} /\ c # After(v, j - 1).x => Skips(v, j, r, c)
        BY <1>5, <2>1, PlaceCovered
      <4>2. j - 1 = k /\ v[j] = ch
        BY <1>1, <2>3
      <4> QED BY <4>1, <4>2
    <3>2. ~ (c < p.x)
      BY <1>2, <2>1, <3>1
    <3> HIDE DEF scr2, p, ch
    <3>3. scr2[r][c] =
                IF ch = NEWLINE THEN SPACE
                ELSE IF c # p.x THEN scr[r][c]
                ELSE IF ch = TAB THEN SPACE ELSE ch
      BY <1>3, <3>1, <3>2
    <3>4. ch = v[j]
      BY <2>3 DEF ch
    <3> QED BY <3>1, <3>3, <3>4 DEF Right
  <2> QED BY <2>2, <2>3
<1>6. ASSUME NEW r \in Rows, NEW c \in Cols, ~ Past(After(v, Len(v)), r, c)
      PROVE  scr2[r][c] = SPACE
  <2>1. r \in Nat /\ c \in Nat
    BY <1>4
  <2>2. ~ Past(q, r, c)
    BY <1>1, <1>6, <2>1, PastGrows
  <2>3. Past(q, p.line, p.x)
    BY <1>2, PastMoves
  <2>4. ~ (r = p.line /\ c = p.x)
    BY <2>2, <2>3
  <2>5. scr[r][c] = SPACE
    BY <1>6 DEF Clear
  <2> QED BY <1>3, <2>4, <2>5
<1>7. Drawn(scr2, v, k + 1)
  BY <1>5 DEF Drawn
<1>8. Clear(scr2, After(v, Len(v)))
  BY <1>6 DEF Clear
<1> QED BY <1>3, <1>7, <1>8

(* The function by which console_render_range is defined.                  *)
Drawing(scr, t, from, place) ==
  CHOOSE f : f = [n \in from .. Len(t) |->
                    IF n = from THEN [scr |-> scr, place |-> place] ELSE DrawChar(f[n - 1], t[n])]

LEMMA DrawCharType ==
  ASSUME NEW S, SPACE \in S, NEW s \in [scr : Screens(S), place : Places], NEW ch \in S
  PROVE  DrawChar(s, ch) \in [scr : Screens(S), place : Places]
<1>1. s.scr \in Screens(S) /\ s.place \in Places /\ s.place.line \in Nat /\ Lines \in Nat
  BY ConsoleAssumption DEF Places
<1>2. CASE s.place.line >= Lines
  BY <1>2 DEF DrawChar
<1>3. CASE ~ (s.place.line >= Lines)
  <2>1. s.place.line < Lines
    BY <1>1, <1>3
  <2>2. Draws(s.scr, s.place, ch) \in Screens(S) /\ Advance(s.place, ch) \in Places
    BY <1>1, <2>1, DrawsCell, AdvanceMoves
  <2>3. DrawChar(s, ch) = [scr |-> Draws(s.scr, s.place, ch), place |-> Advance(s.place, ch)]
    BY <1>3 DEF DrawChar
  <2> QED BY <2>2, <2>3
<1> QED BY <1>2, <1>3

LEMMA DrawingSteps ==
  ASSUME NEW S, SPACE \in S, NEW t \in Seq(S), NEW from \in 0 .. Len(t),
         NEW scr \in Screens(S), NEW place \in Places
  PROVE  LET d == Drawing(scr, t, from, place)
         IN  /\ d[from] = [scr |-> scr, place |-> place]
             /\ \A n \in from + 1 .. Len(t) : d[n] = DrawChar(d[n - 1], t[n])
<1> DEFINE X == [scr : Screens(S), place : Places]
           x == [scr |-> scr, place |-> place]
           Def(f) == f = [n \in from .. Len(t) |-> IF n = from THEN x ELSE DrawChar(f[n - 1], t[n])]
           step == [n \in from + 1 .. Len(t) |-> [s \in X |-> DrawChar(s, t[n])]]
<1>1. x \in X /\ from \in Nat /\ Len(t) \in Nat /\ from <= Len(t)
  OBVIOUS
<1>2. \A n \in from + 1 .. Len(t) : t[n] \in S
  OBVIOUS
<1>3. \A n \in from + 1 .. Len(t) : \A s \in X : DrawChar(s, t[n]) \in X
  BY <1>2, DrawCharType
<1> HIDE DEF X, x
<1>4. \A n \in from + 1 .. Len(t) : [s \in X |-> DrawChar(s, t[n])] \in [X -> X]
  BY <1>3
<1>5. step \in [from + 1 .. Len(t) -> [X -> X]]
  BY <1>4
<1>6. \A n \in from + 1 .. Len(t) : \A s \in X : step[n][s] = DrawChar(s, t[n])
  OBVIOUS
<1> HIDE DEF step
<1>7. PICK f : f \in Leads(from, Len(t), X, x, step)
  BY <1>1, <1>5, LeadsExist
<1>8. f \in [from .. Len(t) -> X] /\ f[from] = x /\ \A n \in from + 1 .. Len(t) : f[n] = step[n][f[n - 1]]
  BY <1>7 DEF Leads
<1>9. \A n \in from + 1 .. Len(t) : n - 1 \in from .. Len(t) /\ n # from
  BY <1>1
<1>10. \A n \in from + 1 .. Len(t) : f[n] = DrawChar(f[n - 1], t[n])
  BY <1>6, <1>8, <1>9
<1>11. Def(f)
  <2> DEFINE g == [n \in from .. Len(t) |-> IF n = from THEN x ELSE DrawChar(f[n - 1], t[n])]
  <2>1. \A n \in from .. Len(t) : n = from \/ n \in from + 1 .. Len(t)
    BY <1>1
  <2>2. \A n \in from .. Len(t) : f[n] = g[n]
    BY <1>8, <1>10, <2>1
  <2>3. f = [n \in from .. Len(t) |-> f[n]] /\ g = [n \in from .. Len(t) |-> g[n]]
    BY <1>8
  <2> HIDE DEF g
  <2>4. f = g
    BY <2>2, <2>3
  <2> QED BY <2>4 DEF g
<1> DEFINE d == Drawing(scr, t, from, place)
<1>12. Def(d)
  <2>1. d = CHOOSE g : Def(g)
    BY DEF Drawing, x
  <2> HIDE DEF Def, d
  <2> QED BY <1>11, <2>1, Zenon
<1> HIDE DEF d
<1>13. d[from] = x /\ \A n \in from + 1 .. Len(t) : d[n] = DrawChar(d[n - 1], t[n])
  BY <1>1, <1>9, <1>12
<1> QED BY <1>13 DEF d, x

(* The end of the text is on the screen, and in its last line if the       *)
(* visible text is not all of it.                                          *)
LEMMA VisibleText ==
  ASSUME NEW S, NEW t \in Seq(S)
  PROVE  LET first == console_calculate_visible_start(t)
             v == VisibleOf(t)
             end == After(v, Len(v))
         IN  /\ first \in 0 .. Len(t) /\ v \in Seq(S) /\ Len(v) = Len(t) - first
             /\ \A i \in 1 .. Len(t) - first : v[i] = t[first + i]
             /\ end \in Places /\ end.line < Lines
             /\ first # 0 => end.line + 1 = Lines
<1> DEFINE first == console_calculate_visible_start(t)
           v == VisibleOf(t)
           end == After(v, Len(v))
<1>1. /\ first \in 0 .. Len(t) /\ After(t, first).x = 0
      /\ After(t, Len(t)).line < After(t, first).line + Lines
      /\ first # 0 => After(t, Len(t)).line + 1 = After(t, first).line + Lines
  BY VisibleStart
<1> HIDE DEF first
<1>2. first \in Nat /\ Len(t) \in Nat /\ Len(t) - first \in Nat /\ first + (Len(t) - first) = Len(t) /\ Lines \in Nat
  BY <1>1, ConsoleAssumption
<1>3. /\ v \in Seq(S) /\ Len(v) = Len(t) - first
      /\ \A i \in 1 .. Len(t) - first : v[i] = t[first + i]
  BY <1>1, RestOfText DEF VisibleOf, first
<1>4. After(t, first + (Len(t) - first)).line = After(v, Len(t) - first).line + After(t, first).line
  <2>1. Len(t) - first \in 0 .. Len(t) - first
    BY <1>2
  <2> QED BY <1>1, <2>1, RestAfter DEF VisibleOf, first
<1> HIDE DEF v
<1>5. end \in Places /\ end.line \in Nat /\ After(t, first).line \in Nat
  <2>1. Len(v) \in 0 .. Len(v)
    BY <1>2, <1>3
  <2>2. end \in Places /\ After(t, first) \in Places
    BY <1>1, <1>3, <2>1, AfterSteps
  <2> QED BY <2>2 DEF Places
<1>6. After(t, Len(t)).line = end.line + After(t, first).line
  BY <1>2, <1>3, <1>4
<1> HIDE DEF end
<1>7. end.line < Lines /\ (first # 0 => end.line + 1 = Lines)
  BY <1>1, <1>2, <1>5, <1>6
<1> QED BY <1>1, <1>3, <1>5, <1>7 DEF first, v, end

(* Drawing from a position on adds to what is drawn, up to the end.        *)
LEMMA RenderDraws ==
  ASSUME NEW S, SPACE \in S, NEW t \in Seq(S), NEW scr \in Screens(S),
         NEW from \in console_calculate_visible_start(t) .. Len(t),
         Drawn(scr, VisibleOf(t), from - console_calculate_visible_start(t)),
         Clear(scr, After(VisibleOf(t), Len(VisibleOf(t))))
  PROVE  LET R == console_render_range(scr, t, from)
             v == VisibleOf(t)
         IN  R \in Screens(S) /\ Drawn(R, v, Len(v)) /\ Clear(R, After(v, Len(v)))
<1> DEFINE first == console_calculate_visible_start(t)
           v == VisibleOf(t)
           end == After(v, Len(v))
           place == After(SubSeq(t, first + 1, from), IF from > first THEN from - first ELSE 0)
           d == Drawing(scr, t, from, place)
<1>1. /\ first \in 0 .. Len(t) /\ v \in Seq(S) /\ Len(v) = Len(t) - first
      /\ \A i \in 1 .. Len(t) - first : v[i] = t[first + i]
      /\ end.line < Lines
  BY VisibleText
<1>2. console_render_range(scr, t, from) = d[Len(t)].scr
  BY DEF console_render_range, Drawing
<1> HIDE DEF first
<1>3. first \in Nat /\ from \in Nat /\ from \in 0 .. Len(t) /\ Len(t) \in Nat /\ from - first \in Nat
  BY <1>1 DEF first
<1>4. /\ v \in Seq(S) /\ Len(v) = Len(t) - first
      /\ \A i \in 1 .. Len(t) - first : v[i] = t[first + i]
  BY <1>1
<1>5. place = After(v, from - first)
  <2> DEFINE u == SubSeq(t, first + 1, from)
  <2>1. /\ u \in Seq(S) /\ Len(u) = from - first /\ from - first >= 0
        /\ \A i \in 1 .. from - first : u[i] = t[first + i]
    BY <1>1, <1>3 DEF first
  <2>2. (IF from > first THEN from - first ELSE 0) = from - first
    BY <1>3, <2>1
  <2>3. from - first \in 0 .. Len(u) /\ from - first <= Len(v) /\ \A i \in 1 .. from - first : u[i] = v[i]
    BY <1>3, <1>4, <2>1
  <2> HIDE DEF u
  <2>4. After(u, from - first) = After(v, from - first)
    BY <1>4, <2>1, <2>3, SameAfter
  <2> QED BY <2>2, <2>4 DEF u
<1>6. end.line < Lines
  BY <1>1
<1> HIDE DEF place
<1>7. place \in Places
  <2>1. from - first \in 0 .. Len(v)
    BY <1>3, <1>4
  <2> QED BY <1>4, <1>5, <2>1, AfterSteps
<1>8. d[from] = [scr |-> scr, place |-> place] /\ \A n \in from + 1 .. Len(t) : d[n] = DrawChar(d[n - 1], t[n])
  BY <1>3, <1>7, DrawingSteps
<1> HIDE DEF d
<1> DEFINE T == {n \in Nat : /\ d[n].scr \in Screens(S) /\ d[n].place = After(v, n - first)
                             /\ Drawn(d[n].scr, v, n - first) /\ Clear(d[n].scr, end)}
<1>9. from \in T
  BY <1>3, <1>5, <1>8 DEF first
<1>10. ASSUME NEW n \in from .. Len(t) - 1, n \in T PROVE n + 1 \in T
  <2> DEFINE k == n - first
             s == d[n]
             p == After(v, k)
  <2>1. /\ n + 1 \in from + 1 .. Len(t) /\ (n + 1) - 1 = n /\ k \in 0 .. Len(v) - 1 /\ k \in 0 .. Len(v)
        /\ k + 1 \in 1 .. Len(v) /\ (k + 1) - 1 = k /\ first + (k + 1) = n + 1 /\ (n + 1) - first = k + 1
        /\ Len(v) \in k .. Len(v) /\ n + 1 \in Nat /\ k + 1 \in 1 .. Len(t) - first
    <3> DEFINE a == Len(v)
               b == Len(t)
    <3>1. a \in Nat /\ a = b - first /\ b \in Nat /\ first <= from
      BY <1>3, <1>4
    <3>2. n \in from .. b - 1
      OBVIOUS
    <3> HIDE DEF a, b
    <3>3. /\ n + 1 \in from + 1 .. b /\ (n + 1) - 1 = n /\ k \in 0 .. a - 1 /\ k \in 0 .. a
          /\ k + 1 \in 1 .. a /\ (k + 1) - 1 = k /\ first + (k + 1) = n + 1 /\ (n + 1) - first = k + 1
          /\ a \in k .. a /\ n + 1 \in Nat /\ k + 1 \in 1 .. b - first
      BY <1>3, <3>1, <3>2
    <3> QED BY <3>3 DEF a, b
  <2>2. d[n + 1] = DrawChar(s, t[n + 1]) /\ t[n + 1] = v[k + 1]
    BY <1>4, <1>8, <2>1
  <2>3. s.scr \in Screens(S) /\ s.place = p /\ Drawn(s.scr, v, k) /\ Clear(s.scr, end)
    BY <1>10
  <2> HIDE DEF v, s, T, k
  <2>4. p \in Places /\ p.line <= end.line /\ After(v, k + 1) = Advance(p, v[k + 1]) /\ end \in Places
    <3>1. Len(v) \in 0 .. Len(v)
      BY <2>1
    <3> QED BY <1>4, <2>1, <3>1, LinesGrow, AfterSteps
  <2>5. p.line < Lines /\ ~ (p.line >= Lines)
    BY <1>6, <2>4, ConsoleAssumption DEF Places
  <2>6. d[n + 1] = [scr |-> Draws(s.scr, p, v[k + 1]), place |-> After(v, k + 1)]
    BY <2>2, <2>3, <2>4, <2>5 DEF DrawChar
  <2>7. /\ Draws(s.scr, p, v[k + 1]) \in Screens(S)
        /\ Drawn(Draws(s.scr, p, v[k + 1]), v, k + 1) /\ Clear(Draws(s.scr, p, v[k + 1]), end)
    BY <1>4, <2>1, <2>3, <2>5, DrawsNext
  <2>8. /\ d[n + 1].scr \in Screens(S) /\ d[n + 1].place = After(v, (n + 1) - first)
        /\ Drawn(d[n + 1].scr, v, (n + 1) - first) /\ Clear(d[n + 1].scr, end)
    BY <2>1, <2>6, <2>7
  <2> QED BY <2>1, <2>8 DEF T
<1> HIDE DEF T
<1>11. \A n \in from .. Len(t) : n \in T
  BY <1>3, <1>9, <1>10, Climb
<1>12. Len(t) \in T
  <2>1. Len(t) \in from .. Len(t)
    BY <1>3
  <2> QED BY <1>11, <2>1
<1> QED BY <1>2, <1>4, <1>12 DEF T

LEMMA RenderAllDraws ==
  ASSUME NEW S, SPACE \in S, NEW t \in Seq(S)
  PROVE  LET R == console_render_all(t)
             v == VisibleOf(t)
         IN  R \in Screens(S) /\ Drawn(R, v, Len(v)) /\ Clear(R, After(v, Len(v)))
<1> DEFINE first == console_calculate_visible_start(t)
           v == VisibleOf(t)
<1>1. first \in first .. Len(t) /\ first - first = 0
  BY VisibleStart
<1>2. Blank \in Screens(S)
  BY DEF Blank, Screens
<1>3. Drawn(Blank, v, first - first)
  BY <1>1 DEF Drawn
<1>4. Clear(Blank, After(v, Len(v)))
  BY DEF Clear, Blank
<1> QED BY <1>1, <1>2, <1>3, <1>4, RenderDraws DEF console_render_all

(* Wherever drawing begins, what it gives is a screen.                     *)
LEMMA RenderType ==
  ASSUME NEW S, SPACE \in S, NEW t \in Seq(S), NEW scr \in Screens(S), NEW from \in 0 .. Len(t)
  PROVE  console_render_range(scr, t, from) \in Screens(S)
<1> DEFINE first == console_calculate_visible_start(t)
           u == SubSeq(t, first + 1, from)
           k == IF from > first THEN from - first ELSE 0
           place == After(u, k)
           d == Drawing(scr, t, from, place)
           X == [scr : Screens(S), place : Places]
<1>1. first \in 0 .. Len(t)
  BY VisibleStart
<1>2. console_render_range(scr, t, from) = d[Len(t)].scr
  BY DEF console_render_range, Drawing
<1> HIDE DEF first
<1>3. u \in Seq(S) /\ k \in 0 .. Len(u)
  <2>1. first \in Nat /\ from \in Nat /\ from <= Len(t) /\ Len(t) \in Nat
    BY <1>1
  <2>2. CASE from > first
    <3>1. u \in Seq(S) /\ Len(u) = from - first
      BY <2>1, <2>2
    <3> QED BY <2>1, <2>2, <3>1
  <2>3. CASE ~ (from > first)
    <3>1. u = << >>
      BY <2>1, <2>3, SubSeqEmpty
    <3>2. << >> \in Seq(S) /\ Len(<< >>) = 0
      OBVIOUS
    <3>3. u \in Seq(S) /\ Len(u) = 0 /\ k = 0
      BY <2>3, <3>1, <3>2
    <3> HIDE DEF u, k
    <3> QED BY <3>3
  <2> QED BY <2>2, <2>3
<1> HIDE DEF u, k
<1>4. place \in Places
  BY <1>3, AfterSteps
<1> HIDE DEF place
<1>5. d[from] = [scr |-> scr, place |-> place] /\ \A n \in from + 1 .. Len(t) : d[n] = DrawChar(d[n - 1], t[n])
  BY <1>4, DrawingSteps
<1> HIDE DEF d
<1> DEFINE T == {n \in Nat : d[n] \in X}
<1>6. from \in T /\ from \in Nat /\ Len(t) \in Nat /\ Len(t) \in from .. Len(t)
  BY <1>4, <1>5
<1>7. ASSUME NEW n \in from .. Len(t) - 1, n \in T PROVE n + 1 \in T
  <2>1. n + 1 \in from + 1 .. Len(t) /\ (n + 1) - 1 = n /\ t[n + 1] \in S /\ n + 1 \in Nat
    BY <1>6
  <2>2. d[n + 1] = DrawChar(d[n], t[n + 1]) /\ d[n] \in X
    BY <1>5, <1>7, <2>1
  <2>3. d[n + 1] \in X
    BY <2>1, <2>2, DrawCharType
  <2> HIDE DEF X
  <2> QED BY <2>1, <2>3
<1> HIDE DEF T
<1>8. \A n \in from .. Len(t) : n \in T
  BY <1>6, <1>7, Climb
<1>9. Len(t) \in T
  BY <1>6, <1>8
<1> QED BY <1>2, <1>9 DEF T

(* Scrolling shows the visible text, whatever was on the screen.           *)
LEMMA ScrollDraws ==
  ASSUME NEW S, SPACE \in S, NEW t \in Seq(S), NEW scr \in Screens(S),
         NEW old \in Nat, old # console_calculate_visible_start(t)
  PROVE  LET R == console_scroll_fast(scr, t, old, console_calculate_visible_start(t))
             v == VisibleOf(t)
         IN  R \in Screens(S) /\ Drawn(R, v, Len(v)) /\ Clear(R, After(v, Len(v)))
<1> DEFINE new == console_calculate_visible_start(t)
           n == LinesScrolled(t, old, new)
           All == n = 0 \/ n > 10 \/ 2 * n >= Lines
           v == VisibleOf(t)
           end == After(v, Len(v))
           R == console_scroll_fast(scr, t, old, new)
<1>1. new \in 0 .. Len(t) /\ end \in Places /\ (new # 0 => end.line + 1 = Lines)
  BY VisibleText
<1>2. CASE All
  <2>1. R = console_render_all(t)
    BY <1>2 DEF console_scroll_fast
  <2> QED BY <2>1, RenderAllDraws
<1>3. CASE ~ All
  <2> DEFINE M == MovedUp(scr, n)
  <2>1. R = console_render_range(M, t, new)
    BY <1>3 DEF console_scroll_fast
  <2>2. new # 0
    <3> SUFFICES ASSUME new = 0 PROVE n = 0
      BY <1>3
    <3> DEFINE a == Least(0 + 1, Len(t))
               b == Least(old + 1, Len(t))
    <3>1. a \in 0 .. Len(t) /\ b \in a .. Len(t) /\ b \in 0 .. Len(t)
      <4>1. Len(t) \in Nat
        OBVIOUS
      <4> QED BY <4>1 DEF Least
    <3>2. After(t, a).line <= After(t, b).line
      BY <3>1, LinesGrow
    <3>3. After(t, a).line \in Nat /\ After(t, b).line \in Nat
      BY <3>1, AfterSteps DEF Places
    <3>4. n = IF After(t, a).line > After(t, b).line THEN After(t, a).line - After(t, b).line ELSE 0
      BY DEF LinesScrolled, count_lines_to_position
    <3> HIDE DEF a, b, n, new
    <3> QED BY <3>2, <3>3, <3>4
  <2>3. n \in Nat /\ n > 0
    <3> DEFINE l1 == count_lines_to_position(t, old)
               l2 == count_lines_to_position(t, new)
    <3>1. Least(old + 1, Len(t)) \in 0 .. Len(t) /\ Least(new + 1, Len(t)) \in 0 .. Len(t)
      <4>1. Len(t) \in Nat /\ new \in Nat
        BY <1>1
      <4> HIDE DEF new
      <4> QED BY <4>1 DEF Least
    <3>2. l1 \in Nat /\ l2 \in Nat
      BY <3>1, AfterSteps DEF count_lines_to_position, Places
    <3>3. n = IF l2 > l1 THEN l2 - l1 ELSE 0
      BY DEF LinesScrolled
    <3>4. n # 0
      BY <1>3
    <3> HIDE DEF l1, l2, n
    <3> QED BY <3>2, <3>3, <3>4
  <2> HIDE DEF n
  <2>4. \A r \in Rows : M[r] = IF r + n < Lines THEN scr[r + n] ELSE Blank[r]
    BY DEF MovedUp
  <2>5. \A r \in Rows : r \in Nat /\ (r + n < Lines => r + n \in Rows)
    BY <2>3, ConsoleAssumption DEF Rows
  <2>6. M \in Screens(S)
    BY <2>5 DEF MovedUp, Screens, Blank
  <2>7. Clear(M, end)
    <3> SUFFICES ASSUME NEW r \in Rows, NEW c \in Cols, ~ Past(end, r, c) PROVE M[r][c] = SPACE
      BY DEF Clear
    <3>1. end.line \in Nat /\ end.line + 1 = Lines /\ ~ (r < end.line)
      BY <1>1, <2>2 DEF Places, Past
    <3> HIDE DEF end
    <3>2. ~ (r + n < Lines)
      BY <2>3, <2>5, <3>1
    <3> QED BY <2>4, <3>2 DEF Blank
  <2>8. new \in new .. Len(t) /\ Drawn(M, v, new - new)
    <3>1. new - new = 0 /\ new \in new .. Len(t)
      BY <1>1
    <3> QED BY <3>1 DEF Drawn
  <2> HIDE DEF M
  <2>9. /\ console_render_range(M, t, new) \in Screens(S)
        /\ Drawn(console_render_range(M, t, new), v, Len(v)) /\ Clear(console_render_range(M, t, new), end)
    BY <2>6, <2>7, <2>8, RenderDraws
  <2> QED BY <2>1, <2>9
<1> QED BY <1>2, <1>3

(* Text that grows leaves what is drawn, and the room behind its end.      *)
LEMMA MoreText ==
  ASSUME NEW S, NEW v \in Seq(S), NEW w \in Seq(S), Len(v) <= Len(w),
         \A i \in 1 .. Len(v) : v[i] = w[i], NEW scr
  PROVE  /\ Drawn(scr, v, Len(v)) => Drawn(scr, w, Len(v))
         /\ Clear(scr, After(v, Len(v))) => Clear(scr, After(w, Len(w)))
<1>1. Len(v) \in Nat /\ Len(w) \in Nat /\ Len(v) \in 0 .. Len(v) /\ Len(v) \in 0 .. Len(w) /\ Len(w) \in Len(v) .. Len(w)
  OBVIOUS
<1>2. \A n \in 0 .. Len(v) : After(v, n) = After(w, n)
  <2> SUFFICES ASSUME NEW n \in 0 .. Len(v) PROVE After(v, n) = After(w, n)
    OBVIOUS
  <2>1. n <= Len(w) /\ \A i \in 1 .. n : v[i] = w[i]
    BY <1>1
  <2> QED BY <2>1, SameAfter
<1>3. Rows \subseteq Nat /\ Cols \subseteq Nat
  BY ConsoleAssumption DEF Rows, Cols
<1>4. ASSUME Drawn(scr, v, Len(v)), NEW r \in Rows, NEW c \in Cols, NEW k \in 1 .. Len(v), Covers(w, k, r, c)
      PROVE  Right(scr, w, k, r, c)
  <2>1. k \in 0 .. Len(v) /\ k - 1 \in 0 .. Len(v)
    BY <1>1
  <2>2. After(v, k) = After(w, k) /\ After(v, k - 1) = After(w, k - 1) /\ v[k] = w[k]
    BY <1>2, <2>1
  <2>3. Covers(v, k, r, c)
    BY <1>4, <2>2 DEF Covers
  <2>4. Right(scr, v, k, r, c)
    BY <1>4, <2>3 DEF Drawn
  <2>5. Skips(v, k, r, c) <=> Skips(w, k, r, c)
    BY <2>2 DEF Skips, PlaceOf
  <2> QED BY <2>2, <2>4, <2>5 DEF Right
<1>5. ASSUME Clear(scr, After(v, Len(v))), NEW r \in Rows, NEW c \in Cols, ~ Past(After(w, Len(w)), r, c)
      PROVE  scr[r][c] = SPACE
  <2>1. ~ Past(After(w, Len(v)), r, c)
    BY <1>1, <1>3, <1>5, PastGrows
  <2>2. ~ Past(After(v, Len(v)), r, c)
    BY <1>1, <1>2, <2>1
  <2> QED BY <1>5, <2>2 DEF Clear
<1>6. Drawn(scr, v, Len(v)) => Drawn(scr, w, Len(v))
  BY <1>4 DEF Drawn
<1>7. Clear(scr, After(v, Len(v))) => Clear(scr, After(w, Len(w)))
  BY <1>5 DEF Clear
<1> QED BY <1>6, <1>7

-----------------------------------------------------------------------------
(* Writing.                                                                *)
(* The function by which Added is defined.                                 *)
Adding(data) ==
  CHOOSE f : f = [n \in 0 .. Len(data) |-> IF n = 0 THEN text ELSE console_add_char(f[n - 1], data[n])]

(* A character makes the buffer one longer, or shorter where it drops.     *)
LEMMA AddCharType ==
  ASSUME NEW S, NEW t \in Seq(S), NEW ch \in S
  PROVE  LET u == console_add_char(t, ch)
         IN  /\ u \in Seq(S) /\ Len(u) <= Len(t) + 1
             /\ Len(u) = Len(t) + 1 => \A i \in 1 .. Len(t) : u[i] = t[i]
<1> DEFINE shift == CONSOLE_BUFFER_SIZE \div 4
           rest == SubSeq(t, shift + 1, Len(t))
           u == console_add_char(t, ch)
<1>1. shift \in Nat /\ shift >= 1 /\ shift <= CONSOLE_BUFFER_SIZE - 1 /\ CONSOLE_BUFFER_SIZE \in Nat
  BY ConsoleAssumption
<1> HIDE DEF shift
<1>2. CASE Len(t) >= CONSOLE_BUFFER_SIZE - 1
  <2>1. shift \in 0 .. Len(t)
    BY <1>1, <1>2
  <2>2. rest \in Seq(S) /\ Len(rest) = Len(t) - shift
    BY <2>1, RestOfText
  <2>3. u = Append(rest, ch)
    BY <1>2 DEF console_add_char, shift
  <2> HIDE DEF rest, u
  <2>4. u \in Seq(S) /\ Len(u) = Len(rest) + 1
    BY <2>2, <2>3
  <2>5. Len(u) <= Len(t) + 1 /\ Len(u) # Len(t) + 1
    <3> DEFINE a == Len(u)
               b == Len(t)
    <3>1. b \in Nat /\ a = (b - shift) + 1
      BY <2>2, <2>4
    <3> HIDE DEF a, b
    <3>2. a <= b + 1 /\ a # b + 1
      BY <1>1, <3>1
    <3> QED BY <3>2 DEF a, b
  <2>6. u \in Seq(S) /\ Len(u) <= Len(t) + 1 /\ (Len(u) = Len(t) + 1 => \A i \in 1 .. Len(t) : u[i] = t[i])
    BY <2>4, <2>5
  <2> QED BY <2>6 DEF u
<1>3. CASE ~ (Len(t) >= CONSOLE_BUFFER_SIZE - 1)
  <2>1. u = Append(t, ch)
    BY <1>3 DEF console_add_char
  <2> HIDE DEF u
  <2>2. u \in Seq(S) /\ Len(u) <= Len(t) + 1 /\ (Len(u) = Len(t) + 1 => \A i \in 1 .. Len(t) : u[i] = t[i])
    BY <2>1
  <2> QED BY <2>2 DEF u
<1> QED BY <1>2, <1>3

LEMMA AddedText ==
  ASSUME NEW S, text \in Seq(S), NEW data \in Seq(S)
  PROVE  LET t == Added(data)
         IN  /\ t \in Seq(S) /\ Len(t) <= Len(text) + Len(data)
             /\ Len(t) = Len(text) + Len(data) => \A i \in 1 .. Len(text) : t[i] = text[i]
<1> DEFINE Def(f) == f = [n \in 0 .. Len(data) |-> IF n = 0 THEN text ELSE console_add_char(f[n - 1], data[n])]
           X == Seq(S)
           step == [n \in 0 + 1 .. Len(data) |-> [u \in X |-> console_add_char(u, data[n])]]
           d == Adding(data)
<1>1. Added(data) = d[Len(data)]
  BY DEF Added, Adding
<1>2. Len(data) \in Nat /\ 0 <= Len(data) /\ 0 \in Nat /\ 0 + 1 = 1 /\ text \in X
  OBVIOUS
<1>3. \A n \in 0 + 1 .. Len(data) : data[n] \in S
  OBVIOUS
<1>4. \A n \in 0 + 1 .. Len(data) : \A u \in X : console_add_char(u, data[n]) \in X
  BY <1>3, AddCharType
<1> HIDE DEF X
<1>5. \A n \in 0 + 1 .. Len(data) : [u \in X |-> console_add_char(u, data[n])] \in [X -> X]
  BY <1>4
<1>6. step \in [0 + 1 .. Len(data) -> [X -> X]]
  BY <1>5
<1>7. \A n \in 0 + 1 .. Len(data) : \A u \in X : step[n][u] = console_add_char(u, data[n])
  OBVIOUS
<1> HIDE DEF step
<1>8. PICK f : f \in Leads(0, Len(data), X, text, step)
  BY <1>2, <1>6, LeadsExist
<1>9. f \in [0 .. Len(data) -> X] /\ f[0] = text /\ \A n \in 0 + 1 .. Len(data) : f[n] = step[n][f[n - 1]]
  BY <1>8 DEF Leads
<1>10. \A n \in 0 + 1 .. Len(data) : n - 1 \in 0 .. Len(data) /\ n # 0
  BY <1>2
<1>11. \A n \in 0 + 1 .. Len(data) : f[n] = console_add_char(f[n - 1], data[n])
  BY <1>7, <1>9, <1>10
<1>12. Def(f)
  <2> DEFINE g == [n \in 0 .. Len(data) |-> IF n = 0 THEN text ELSE console_add_char(f[n - 1], data[n])]
  <2>1. \A n \in 0 .. Len(data) : n = 0 \/ n \in 0 + 1 .. Len(data)
    BY <1>2
  <2>2. \A n \in 0 .. Len(data) : f[n] = g[n]
    BY <1>9, <1>11, <2>1
  <2>3. f = [n \in 0 .. Len(data) |-> f[n]] /\ g = [n \in 0 .. Len(data) |-> g[n]]
    BY <1>9
  <2> HIDE DEF g
  <2>4. f = g
    BY <2>2, <2>3
  <2> QED BY <2>4 DEF g
<1>13. Def(d)
  <2>1. d = CHOOSE g : Def(g)
    BY DEF Adding
  <2> HIDE DEF Def, d
  <2> QED BY <1>12, <2>1, Zenon
<1> HIDE DEF d
<1>14. d[0] = text /\ \A n \in 1 .. Len(data) : d[n] = console_add_char(d[n - 1], data[n])
  BY <1>2, <1>10, <1>13
<1> USE DEF X
<1> DEFINE T == {n \in Nat : /\ d[n] \in Seq(S) /\ Len(d[n]) <= Len(text) + n
                             /\ Len(d[n]) = Len(text) + n => \A i \in 1 .. Len(text) : d[n][i] = text[i]}
<1>15. 0 \in T
  BY <1>2, <1>14
<1>16. ASSUME NEW n \in 0 .. Len(data) - 1, n \in T PROVE n + 1 \in T
  <2> DEFINE t == d[n]
             u == d[n + 1]
             ch == data[n + 1]
  <2>1. n + 1 \in 1 .. Len(data) /\ (n + 1) - 1 = n /\ n + 1 \in Nat /\ n \in Nat /\ ch \in S
    BY <1>2
  <2>2. u = console_add_char(t, ch)
    BY <1>14, <2>1
  <2>3. /\ t \in Seq(S) /\ Len(t) <= Len(text) + n
        /\ Len(t) = Len(text) + n => \A i \in 1 .. Len(text) : t[i] = text[i]
    BY <1>16
  <2> HIDE DEF t, u, ch
  <2>4. /\ u \in Seq(S) /\ Len(u) <= Len(t) + 1
        /\ Len(u) = Len(t) + 1 => \A i \in 1 .. Len(t) : u[i] = t[i]
    BY <2>1, <2>2, <2>3, AddCharType
  <2>5. Len(t) \in Nat /\ Len(u) \in Nat /\ Len(text) \in Nat
    BY <2>3, <2>4
  <2>6. Len(u) <= Len(text) + (n + 1)
    BY <2>1, <2>3, <2>4, <2>5
  <2>7. ASSUME Len(u) = Len(text) + (n + 1), NEW i \in 1 .. Len(text) PROVE u[i] = text[i]
    <3>1. Len(t) = Len(text) + n /\ Len(u) = Len(t) + 1
      <4> DEFINE a == Len(t)
                 b == Len(u)
                 m == Len(text)
      <4>1. a \in Nat /\ b \in Nat /\ m \in Nat /\ a <= m + n /\ b <= a + 1 /\ b = m + (n + 1)
        BY <2>3, <2>4, <2>5, <2>7
      <4> HIDE DEF a, b, m
      <4>2. a = m + n /\ b = a + 1
        BY <2>1, <4>1
      <4> QED BY <4>2 DEF a, b, m
    <3>2. i \in 1 .. Len(t)
      BY <2>1, <2>5, <3>1
    <3> QED BY <2>3, <2>4, <3>1, <3>2
  <2> HIDE DEF T
  <2>8. /\ d[n + 1] \in Seq(S) /\ Len(d[n + 1]) <= Len(text) + (n + 1)
        /\ Len(d[n + 1]) = Len(text) + (n + 1) => \A i \in 1 .. Len(text) : d[n + 1][i] = text[i]
    BY <2>4, <2>6, <2>7 DEF u
  <2> QED BY <2>1, <2>8 DEF T
<1> HIDE DEF T
<1>17. \A n \in 0 .. Len(data) : n \in T
  BY <1>2, <1>15, <1>16, Climb
<1>18. Len(data) \in T
  BY <1>2, <1>17
<1> QED BY <1>1, <1>18 DEF T

(* What is written, and so what a cell of the screen shows.                *)
Glyphs == {SPACE} \cup UNION {Range(data) : data \in Writes}

(* A screen that is not stale shows the text.                              *)
ScreenInv ==
  /\ text \in Seq(Glyphs) /\ screen \in Screens(Glyphs) /\ stale \in BOOLEAN
  /\ last = console_calculate_visible_start(text)
  /\ ~ stale => LET v == VisibleOf(text)
                IN  Drawn(screen, v, Len(v)) /\ Clear(screen, After(v, Len(v)))

(* t and scr are shown as the invariant asks.                              *)
Good(t, scr) ==
  /\ t \in Seq(Glyphs) /\ scr \in Screens(Glyphs)
  /\ LET v == VisibleOf(t) IN Drawn(scr, v, Len(v)) /\ Clear(scr, After(v, Len(v)))

LEMMA GlyphsWritten ==
  /\ SPACE \in Glyphs
  /\ \A data \in Writes : data \in Seq(Glyphs)
<1>1. ASSUME NEW data \in Writes PROVE data \in Seq(Glyphs)
  <2>1. data \in Seq(Range(data)) /\ Range(data) \subseteq Glyphs
    BY <1>1, ConsoleAssumption DEF Glyphs
  <2> QED BY <2>1
<1> QED BY <1>1 DEF Glyphs

LEMMA BlankGood == Good(<< >>, Blank) /\ console_calculate_visible_start(<< >>) = 0
<1> DEFINE t == << >>
           v == VisibleOf(t)
<1>1. t \in Seq(Glyphs) /\ Len(t) = 0
  OBVIOUS
<1>2. SPACE \in Glyphs
  BY GlyphsWritten
<1> HIDE DEF t
<1>3. console_calculate_visible_start(t) = 0 /\ Len(v) = 0
  <2>1. /\ console_calculate_visible_start(t) \in 0 .. Len(t)
        /\ Len(v) = Len(t) - console_calculate_visible_start(t)
    BY <1>1, VisibleText
  <2> HIDE DEF v
  <2> QED BY <1>1, <2>1
<1>4. Blank \in Screens(Glyphs) /\ Clear(Blank, After(v, Len(v)))
  BY <1>2 DEF Blank, Screens, Clear
<1>5. Drawn(Blank, v, Len(v))
  BY <1>3 DEF Drawn
<1>6. Good(t, Blank)
  BY <1>1, <1>4, <1>5 DEF Good
<1> QED BY <1>3, <1>6 DEF t

LEMMA AllGood == ASSUME NEW t \in Seq(Glyphs) PROVE Good(t, console_render_all(t))
BY RenderAllDraws, GlyphsWritten DEF Good

LEMMA ScreenInit == ConsoleInit => ScreenInv
BY BlankGood DEF ConsoleInit, ScreenInv, Good

LEMMA WriteTextKeeps ==
  ASSUME ScreenInv, NEW data \in Writes, WriteText(data)
  PROVE  ScreenInv'
<1> DEFINE start == console_calculate_visible_start(text)
           new == console_calculate_visible_start(text')
           v == VisibleOf(text)
           w == VisibleOf(text')
<1>1. /\ text \in Seq(Glyphs) /\ screen \in Screens(Glyphs) /\ stale \in BOOLEAN /\ last = start
      /\ ~ stale => Drawn(screen, v, Len(v)) /\ Clear(screen, After(v, Len(v)))
  BY DEF ScreenInv
<1>2. /\ text' = Added(data)
      /\ screen' = IF new # start THEN console_scroll_fast(screen, text', last, new)
                   ELSE IF Len(text) >= Len(text') THEN screen
                   ELSE console_render_range(screen, text', Len(text))
      /\ last' = IF new # start THEN new ELSE last
      /\ stale' = (new = start /\ (stale \/ Len(text') < Len(text) + Len(data)))
  BY DEF WriteText
<1>3. data \in Seq(Glyphs) /\ SPACE \in Glyphs
  BY GlyphsWritten
<1>4. /\ text' \in Seq(Glyphs) /\ Len(text') <= Len(text) + Len(data)
      /\ Len(text') = Len(text) + Len(data) => \A i \in 1 .. Len(text) : text'[i] = text[i]
  BY <1>1, <1>2, <1>3, AddedText
<1>5. last' = new /\ stale' \in BOOLEAN
  BY <1>1, <1>2
<1>6. start \in 0 .. Len(text) /\ new \in 0 .. Len(text') /\ Len(text) \in Nat /\ Len(text') \in Nat /\ Len(data) \in Nat
  BY <1>1, <1>3, <1>4, VisibleStart
<1>7. SUFFICES /\ screen' \in Screens(Glyphs)
               /\ ~ stale' => Drawn(screen', w, Len(w)) /\ Clear(screen', After(w, Len(w)))
  BY <1>4, <1>5 DEF ScreenInv
<1>8. CASE new # start
  <2>1. screen' = console_scroll_fast(screen, text', last, new)
    BY <1>2, <1>8
  <2>2. last \in Nat /\ last # new
    BY <1>1, <1>6, <1>8
  <2> QED BY <1>1, <1>3, <1>4, <2>1, <2>2, ScrollDraws
<1>9. CASE new = start
  <2>1. screen' = IF Len(text) >= Len(text') THEN screen ELSE console_render_range(screen, text', Len(text))
    BY <1>2, <1>9
  <2>2. screen' \in Screens(Glyphs)
    <3>1. CASE Len(text) >= Len(text')
      BY <1>1, <2>1, <3>1
    <3>2. CASE ~ (Len(text) >= Len(text'))
      <4>1. Len(text) \in 0 .. Len(text')
        BY <1>6, <3>2
      <4> QED BY <1>1, <1>3, <1>4, <2>1, <3>2, <4>1, RenderType
    <3> QED BY <3>1, <3>2
  <2>3. ASSUME ~ stale' PROVE Drawn(screen', w, Len(w)) /\ Clear(screen', After(w, Len(w)))
    <3>1. /\ ~ stale /\ Len(text') = Len(text) + Len(data)
          /\ \A i \in 1 .. Len(text) : text'[i] = text[i]
      <4> DEFINE a == Len(text)
                 b == Len(text')
                 k == Len(data)
      <4>1. ~ stale /\ ~ (b < a + k)
        BY <1>2, <1>9, <2>3
      <4>2. a \in Nat /\ b \in Nat /\ k \in Nat /\ b <= a + k
        BY <1>4, <1>6
      <4> HIDE DEF a, b, k
      <4>3. b = a + k
        BY <4>1, <4>2
      <4> QED BY <1>4, <4>1, <4>3 DEF a, b, k
    <3>2. /\ v \in Seq(Glyphs) /\ Len(v) = Len(text) - start
          /\ \A i \in 1 .. Len(text) - start : v[i] = text[start + i]
      BY <1>1, VisibleText
    <3>3. /\ w \in Seq(Glyphs) /\ Len(w) = Len(text') - start
          /\ \A i \in 1 .. Len(text') - start : w[i] = text'[start + i]
      BY <1>4, <1>9, VisibleText
    <3> DEFINE n == Len(text)
               n2 == Len(text')
    <3> HIDE DEF v, w, start, n, n2
    <3>4. n \in Nat /\ n2 \in Nat /\ n <= n2 /\ start \in 0 .. n /\ Len(v) = n - start /\ Len(w) = n2 - start
      BY <1>6, <3>1, <3>2, <3>3 DEF n, n2
    <3>5. Len(v) <= Len(w) /\ \A i \in 1 .. n - start : start + i \in 1 .. n /\ i \in 1 .. n2 - start
      BY <3>4
    <3>6. \A i \in 1 .. Len(v) : v[i] = w[i]
      BY <3>1, <3>2, <3>3, <3>4, <3>5 DEF n, n2
    <3>7. Drawn(screen, w, Len(v)) /\ Clear(screen, After(w, Len(w)))
      BY <1>1, <3>1, <3>2, <3>3, <3>5, <3>6, MoreText
    <3>8. CASE Len(text) >= Len(text')
      <4>1. screen' = screen
        BY <2>1, <3>8
      <4>2. Len(v) = Len(w)
        BY <3>4, <3>8 DEF n, n2
      <4> QED BY <3>7, <4>1, <4>2
    <3>9. CASE ~ (Len(text) >= Len(text'))
      <4>1. screen' = console_render_range(screen, text', n)
        BY <2>1, <3>9 DEF n
      <4>2. n \in start .. n2 /\ n - start = Len(v)
        BY <3>4
      <4>3. n \in new .. Len(text') /\ Drawn(screen, w, n - new)
        BY <1>9, <3>7, <4>2 DEF n2
      <4> HIDE DEF new
      <4> QED BY <1>1, <1>3, <1>4, <3>7, <4>1, <4>3, RenderDraws DEF w, new
    <3> QED BY <3>8, <3>9
  <2> QED BY <2>2, <2>3
<1> QED BY <1>8, <1>9

LEMMA WriteErasesKeeps ==
  ASSUME ScreenInv, NEW data \in Writes, WriteErases(data)
  PROVE  ScreenInv'
<1> DEFINE I == {i \in 1 .. Len(data) : data[i] = BACKSPACE}
           m == SelectInSeq(data, LAMBDA c : c = BACKSPACE)
           u == Added(SubSeq(data, 1, m - 1))
<1>1. data \in Seq(Glyphs) /\ SPACE \in Glyphs /\ text \in Seq(Glyphs)
  BY GlyphsWritten DEF ScreenInv
<1>2. I # {}
  BY <1>1 DEF WriteErases, Range
<1>3. m = CHOOSE x \in I : \A y \in I : x <= y
  BY <1>2 DEF SelectInSeq, Min
<1>4. m \in 1 .. Len(data)
  <2>1. \E x \in I : \A y \in I : x <= y
    <3>1. I \subseteq Nat
      OBVIOUS
    <3> HIDE DEF I
    <3> QED BY <1>2, <3>1, LeastOf
  <2>2. m \in I
    <3> HIDE DEF I, m
    <3> QED BY <1>3, <2>1
  <2> QED BY <2>2
<1>5. SubSeq(data, 1, m - 1) \in Seq(Glyphs)
  <2> HIDE DEF m
  <2> QED BY <1>1, <1>4
<1>6. u \in Seq(Glyphs)
  BY <1>1, <1>5, AddedText
<1>7. text' = console_backspace(u)
  BY DEF WriteErases
<1>8. text' \in Seq(Glyphs)
  <2> HIDE DEF u
  <2>1. CASE u = << >>
    BY <1>6, <1>7, <2>1 DEF console_backspace
  <2>2. CASE u # << >>
    <3>1. text' = SubSeq(u, 1, Len(u) - 1)
      BY <1>7, <2>2 DEF console_backspace, Front
    <3> QED BY <1>6, <3>1
  <2> QED BY <2>1, <2>2
<1>9. Good(text', screen')
  BY <1>8, AllGood DEF WriteErases
<1> QED BY <1>9 DEF WriteErases, ScreenInv, Good

(* Whatever the sizes and whatever is written, the screen shows the end of *)
(* the text, every character at its place and nothing else, unless the     *)
(* buffer dropped text in a write that left the visible start where it was.*)
THEOREM ScreenIsRight == DeviceSpec => []ScreenShowsText
<1>1. DeviceInit => ScreenInv
  BY ScreenInit DEF DeviceInit
<1>2. ScreenInv /\ [DeviceNext]_deviceVars => ScreenInv'
  <2>1. ScreenInv /\ UNCHANGED consoleVars => ScreenInv'
    BY DEF ScreenInv, consoleVars
  <2>2. ScreenInv /\ ConsoleNext => ScreenInv'
    <3>1. ScreenInv /\ console_clear => ScreenInv'
      BY BlankGood DEF console_clear, ScreenInv, Good
    <3> QED BY <3>1, WriteTextKeeps, WriteErasesKeeps DEF ConsoleNext
  <2> QED BY <2>1, <2>2 DEF DeviceNext, deviceVars, Keys, Shown, Timed
<1>3. ScreenInv => ScreenShowsText
  <2> SUFFICES ASSUME ScreenInv PROVE ScreenShowsText
    OBVIOUS
  <2> DEFINE v == VisibleOf(text)
  <2>1. Visible = v /\ v \in Seq(Glyphs) /\ After(v, Len(v)).line < Lines
    BY VisibleText DEF Visible, VisibleOf, ScreenInv
  <2>2. ~ stale => \A r \in Rows : \A c \in Cols : ShowsOn(screen, v, r, c)
    BY <2>1, ShowsAll DEF ScreenInv
  <2>3. \A r, c : Shows(v, r, c) <=> ShowsOn(screen, v, r, c)
    BY DEF Shows, ShowsOn
  <2> HIDE DEF v
  <2> QED BY <2>1, <2>2, <2>3, Zenon DEF ScreenShowsText
<1> QED BY <1>1, <1>2, <1>3, PTL DEF DeviceSpec
=============================================================================
