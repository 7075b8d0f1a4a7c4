----------------------------- MODULE EventProofs ------------------------------
(***************************************************************************)
(* Proofs about what passes between tasks, interrupt handlers and          *)
(* foreground code.  The decoder of module Keyboard follows the keys, for  *)
(* every set of keys.  A snapshot of the counters of module Irq is         *)
(* consistent although IRQ0 counts between the loads.  The endpoints of    *)
(* module Ipc, for every number of endpoints, every depth, payload size    *)
(* and width of the sequence numbers, implement the bounded FIFOs of       *)
(* MessageFifo.  So does the ring of module Keyboard, for every capacity,  *)
(* although IRQ1 pushes between the loads of keyboard_pop_char, without a  *)
(* lock.                                                                   *)
(***************************************************************************)
EXTENDS Keyboard, Irq, Ipc, TLAPS

-----------------------------------------------------------------------------
(* The decoder.  While bytes wait in the controller its state lags behind  *)
(* the keyboard, so what is invariant is stated of the bytes to come: they *)
(* lead the decoder, each giving the character its key event meant, to the *)
(* shift and lock state the keyboard has now.                              *)
Decoder == [left_shift_down : BOOLEAN, right_shift_down : BOOLEAN,
            caps_lock_enabled : BOOLEAN, extended_prefix_pending : BOOLEAN]
Stored == Characters \cup {NoChar}
Codes == {"E0"} \cup {key.code : key \in Keys}
WireByte == [code : Codes, released : BOOLEAN, want : Stored]

Result(d, ch) == [dec |-> d, char |-> ch]

Decodes(d, wired, e) ==
  \E ds \in [1 .. Len(wired) + 1 -> Decoder] :
    /\ ds[1] = d /\ ds[Len(wired) + 1] = e
    /\ \A i \in 1 .. Len(wired) :
         keyboard_feed_scancode(ds[i], wired[i]) = Result(ds[i + 1], wired[i].want)

Physical == [left_shift_down |-> Down("left_shift"),
             right_shift_down |-> Down("right_shift"),
             caps_lock_enabled |-> caps, extended_prefix_pending |-> FALSE]

DecoderOK == /\ wire \in Seq(WireByte) /\ held \subseteq Keys /\ caps \in BOOLEAN
             /\ Decodes(dec, wire, Physical)
             /\ at = "init" => dec = DecoderReset

LEMMA DecodesNothing ==
  ASSUME NEW d \in Decoder
  PROVE  Decodes(d, << >>, d)
  <1> DEFINE ds == [i \in 1 .. Len(<< >>) + 1 |-> d]
  <1>1. Len(<< >>) = 0
    BY Zenon
  <1>2. ds \in [1 .. Len(<< >>) + 1 -> Decoder] /\ ds[1] = d /\ ds[Len(<< >>) + 1] = d
    BY <1>1
  <1>3. 1 .. Len(<< >>) = {}
    BY <1>1, SMTT(20)
  <1> HIDE DEF ds
  <1> QED  BY <1>2, <1>3, Zenon DEF Decodes

(* IRQ1 takes the first byte. *)
LEMMA DecodesFirst ==
  ASSUME NEW d, NEW e, NEW wired \in Seq(WireByte), wired # << >>, Decodes(d, wired, e)
  PROVE  /\ keyboard_feed_scancode(d, Head(wired)).char = Head(wired).want
         /\ Decodes(keyboard_feed_scancode(d, Head(wired)).dec, Tail(wired), e)
  <1> DEFINE n == Len(wired)
  <1>1. PICK ds \in [1 .. n + 1 -> Decoder] :
          /\ ds[1] = d /\ ds[n + 1] = e
          /\ \A i \in 1 .. n :
               keyboard_feed_scancode(ds[i], wired[i]) = Result(ds[i + 1], wired[i].want)
    BY Zenon DEF Decodes
  <1>2. n \in Nat /\ n >= 1 /\ Head(wired) = wired[1]
    OBVIOUS
  <1>3. Len(Tail(wired)) = n - 1 /\ \A i \in 1 .. n - 1 : Tail(wired)[i] = wired[i + 1]
    BY <1>2
  <1>4. keyboard_feed_scancode(d, Head(wired)) = Result(ds[2], Head(wired).want)
    <2>1. 1 \in 1 .. n /\ 1 + 1 = 2
      BY <1>2
    <2> QED  BY <1>1, <1>2, <2>1, Zenon
  <1> DEFINE rest == [i \in 1 .. n |-> ds[i + 1]]
  <1>5. rest \in [1 .. (n - 1) + 1 -> Decoder] /\ rest[1] = ds[2] /\ rest[(n - 1) + 1] = e
    BY <1>1, <1>2
  <1>6. ASSUME NEW i \in 1 .. n - 1
        PROVE  keyboard_feed_scancode(rest[i], Tail(wired)[i])
                 = Result(rest[i + 1], Tail(wired)[i].want)
    <2>1. i + 1 \in 1 .. n /\ Tail(wired)[i] = wired[i + 1]
          /\ rest[i] = ds[i + 1] /\ rest[i + 1] = ds[(i + 1) + 1]
      BY <1>2, <1>3
    <2> HIDE DEF rest, n
    <2> QED  BY <1>1, <2>1, Zenon
  <1>7. Decodes(ds[2], Tail(wired), e)
    <2> HIDE DEF rest, n
    <2> QED  BY <1>3, <1>5, <1>6, Zenon DEF Decodes
  <1> QED  BY <1>4, <1>7 DEF Result

(* The controller receives one more byte. *)
LEMMA DecodesOneMore ==
  ASSUME NEW d, NEW e, NEW wired \in Seq(WireByte), Decodes(d, wired, e),
         NEW byte \in WireByte, NEW f \in Decoder,
         keyboard_feed_scancode(e, byte) = Result(f, byte.want)
  PROVE  Decodes(d, Append(wired, byte), f)
  <1> DEFINE n == Len(wired)
             more == Append(wired, byte)
  <1>1. PICK ds \in [1 .. n + 1 -> Decoder] :
          /\ ds[1] = d /\ ds[n + 1] = e
          /\ \A i \in 1 .. n :
               keyboard_feed_scancode(ds[i], wired[i]) = Result(ds[i + 1], wired[i].want)
    BY Zenon DEF Decodes
  <1>2. n \in Nat /\ Len(more) = n + 1 /\ more[n + 1] = byte
        /\ \A i \in 1 .. n : more[i] = wired[i]
    OBVIOUS
  <1> DEFINE es == [i \in 1 .. (n + 1) + 1 |-> IF i = (n + 1) + 1 THEN f ELSE ds[i]]
  <1>3. es \in [1 .. (n + 1) + 1 -> Decoder] /\ es[(n + 1) + 1] = f /\ es[n + 1] = e
        /\ es[1] = d /\ \A i \in 1 .. n : es[i] = ds[i] /\ es[i + 1] = ds[i + 1]
    BY <1>1, <1>2
  <1>4. ASSUME NEW i \in 1 .. n + 1
        PROVE  keyboard_feed_scancode(es[i], more[i]) = Result(es[i + 1], more[i].want)
    <2>1. CASE i \in 1 .. n
      <3> HIDE DEF es, more, n
      <3> QED  BY <1>1, <1>2, <1>3, <2>1, Zenon
    <2>2. CASE i = n + 1
      <3> HIDE DEF es, more, n
      <3> QED  BY <1>2, <1>3, <2>2, Zenon
    <2> QED  BY <1>2, <2>1, <2>2
  <1> HIDE DEF es, more, n
  <1>5. Decodes(d, more, f)
    BY <1>2, <1>3, <1>4, Zenon DEF Decodes
  <1> QED  BY <1>5, Zenon DEF more

LEMMA DecoderInit == Init => DecoderOK
  <1> SUFFICES ASSUME Init PROVE DecoderOK
    BY Zenon
  <1>0. Down("left_shift") = FALSE /\ Down("right_shift") = FALSE /\ caps = FALSE
    BY DEF Init, Down
  <1>1. DecoderReset \in Decoder /\ Physical = DecoderReset
    BY <1>0, Zenon DEF DecoderReset, Decoder, Physical
  <1>2. Decodes(dec, wire, Physical)
    BY <1>1, DecodesNothing, Zenon DEF Init
  <1>3. wire \in Seq(WireByte)
    BY DEF Init
  <1>4. held \subseteq Keys /\ caps \in BOOLEAN
    BY Zenon DEF Init
  <1> QED  BY <1>2, <1>3, <1>4, Zenon DEF Init, DecoderOK

LEMMA PhysicalType ==
  ASSUME caps \in BOOLEAN
  PROVE  Physical \in Decoder
  BY DEF Physical, Decoder, Down

(* A key without prefix: one byte takes the decoder from the keyboard's    *)
(* state before the event to its state after it.                           *)
LEMMA PlainKey ==
  ASSUME DecoderOK, NEW key \in Keys, ~ key.extended, NEW released \in BOOLEAN, NEW want,
         \/ /\ ~ released /\ want = Meaning(key) /\ held' = held \cup {key}
            /\ caps' = IF key.code = "caps_lock" /\ ~ key.extended THEN ~ caps ELSE caps
         \/ released /\ want = NoChar /\ held' = held \ {key} /\ caps' = caps
  PROVE  keyboard_feed_scancode(Physical, ScanByte(key.code, released, want))
           = Result(Physical', want)
  <1> DEFINE L == [code |-> "left_shift", extended |-> FALSE]
             R == [code |-> "right_shift", extended |-> FALSE]
  <1>1. key \in [code : STRING, extended : BOOLEAN] /\ key.code # "E0"
    BY KeyboardAssumption, Zenon
  <1>2. key.extended = FALSE
    BY <1>1, Zenon
  <1>3. (key = L <=> key.code = "left_shift") /\ (key = R <=> key.code = "right_shift")
    BY <1>1, <1>2
  <1>5. caps \in BOOLEAN
    BY Zenon DEF DecoderOK
  <1> DEFINE l == Down("left_shift")
             r == Down("right_shift")
  <1>6. l \in BOOLEAN /\ r \in BOOLEAN
    BY DEF Down
  <1>7. CASE released
    <2>1. want = NoChar /\ caps' = caps /\ held' = held \ {key}
      BY <1>7, Zenon
    <2>2. l' = IF key.code = "left_shift" THEN FALSE ELSE l
      <3>1. L \in held' <=> L \in held /\ key.code # "left_shift"
        BY <1>3, <2>1, Zenon
      <3>2. CASE key.code = "left_shift"
        <4>1. (L \in held') = FALSE
          BY <3>1, <3>2
        <4> QED  BY <3>2, <4>1, Zenon DEF Down
      <3>3. CASE key.code # "left_shift"
        BY <3>1, <3>3 DEF Down
      <3> QED  BY <3>2, <3>3, Zenon
    <2>3. r' = IF key.code = "right_shift" THEN FALSE ELSE r
      <3>1. R \in held' <=> R \in held /\ key.code # "right_shift"
        BY <1>3, <2>1, Zenon
      <3>2. CASE key.code = "right_shift"
        <4>1. (R \in held') = FALSE
          BY <3>1, <3>2
        <4> QED  BY <3>2, <4>1, Zenon DEF Down
      <3>3. CASE key.code # "right_shift"
        BY <3>1, <3>3 DEF Down
      <3> QED  BY <3>2, <3>3, Zenon
    <2> HIDE DEF l, r
    <2> QED
      BY <1>1, <1>5, <1>6, <1>7, <2>1, <2>2, <2>3, Zenon
      DEF keyboard_feed_scancode, Physical, ScanByte, Result, l, r, NoChar
  <1>8. CASE ~ released
    <2>1. want = Meaning(key) /\ held' = held \cup {key}
          /\ caps' = IF key.code = "caps_lock" THEN ~ caps ELSE caps
      BY <1>2, <1>8, Zenon
    <2>2. l' = IF key.code = "left_shift" THEN TRUE ELSE l
      <3>1. L \in held' <=> L \in held \/ key.code = "left_shift"
        BY <1>3, <2>1, Zenon
      <3>2. CASE key.code = "left_shift"
        BY <3>1, <3>2, Zenon DEF Down
      <3>3. CASE key.code # "left_shift"
        BY <3>1, <3>3 DEF Down
      <3> QED  BY <3>2, <3>3, Zenon
    <2>3. r' = IF key.code = "right_shift" THEN TRUE ELSE r
      <3>1. R \in held' <=> R \in held \/ key.code = "right_shift"
        BY <1>3, <2>1, Zenon
      <3>2. CASE key.code = "right_shift"
        BY <3>1, <3>2, Zenon DEF Down
      <3>3. CASE key.code # "right_shift"
        BY <3>1, <3>3 DEF Down
      <3> QED  BY <3>2, <3>3, Zenon
    <2> QED
      BY <1>1, <1>2, <1>5, <1>6, <1>8, <2>1, <2>2, <2>3, Zenon
      DEF keyboard_feed_scancode, Physical, ScanByte, Result, NoChar, Meaning, Uppercase,
          letter_for_scancode, digit_for_scancode
  <1> QED  BY <1>7, <1>8, Zenon

(* A key with the E0 prefix: two bytes leave shift and lock as they are.   *)
LEMMA PrefixedKey ==
  ASSUME DecoderOK, NEW key \in Keys, key.extended, NEW released \in BOOLEAN,
         held' = held \cup {key} \/ held' = held \ {key}, caps' = caps
  PROVE  /\ Physical' = Physical
         /\ \E mid \in Decoder :
              /\ keyboard_feed_scancode(Physical, ScanByte("E0", TRUE, NoChar))
                   = Result(mid, NoChar)
              /\ keyboard_feed_scancode(mid, ScanByte(key.code, released, NoChar))
                   = Result(Physical, NoChar)
  <1> DEFINE mid == [Physical EXCEPT !.extended_prefix_pending = TRUE]
  <1>1. key \in [code : STRING, extended : BOOLEAN] /\ key.code # "E0"
    BY KeyboardAssumption, Zenon
  <1>2. ASSUME NEW c PROVE Down(c)' = Down(c)
    <2>1. [code |-> c, extended |-> FALSE] # key
      BY <1>1
    <2> QED  BY <2>1, SMTT(20) DEF Down
  <1>3. Physical' = Physical
    BY <1>2, Zenon DEF Physical
  <1>4. Physical \in Decoder /\ Physical.extended_prefix_pending = FALSE
    BY PhysicalType, Zenon DEF DecoderOK, Physical
  <1> HIDE DEF Physical
  <1>5. mid \in Decoder /\ mid.extended_prefix_pending = TRUE
        /\ [mid EXCEPT !.extended_prefix_pending = FALSE] = Physical
    BY <1>4, Zenon DEF Decoder
  <1>6. keyboard_feed_scancode(Physical, ScanByte("E0", TRUE, NoChar)) = Result(mid, NoChar)
    BY Zenon DEF keyboard_feed_scancode, ScanByte, Result
  <1> HIDE DEF mid
  <1>7. keyboard_feed_scancode(mid, ScanByte(key.code, released, NoChar)) = Result(Physical, NoChar)
    BY <1>1, <1>5, Zenon DEF keyboard_feed_scancode, ScanByte, Result
  <1> QED  BY <1>3, <1>5, <1>6, <1>7, Zenon

(* What a key event puts on the wire leads the decoder to the keyboard's   *)
(* state after the event.                                                  *)
LEMMA EventStep ==
  ASSUME DecoderOK, NEW key \in Keys, at # "init", press(key) \/ release(key)
  PROVE  DecoderOK'
  <1>1. PICK released \in BOOLEAN, want \in Stored :
          /\ wire' = wire \o Bytes(key, released, want)
          /\ \/ /\ ~ released /\ want = Meaning(key) /\ held' = held \cup {key}
                /\ caps' = IF key.code = "caps_lock" /\ ~ key.extended THEN ~ caps ELSE caps
             \/ released /\ want = NoChar /\ held' = held \ {key} /\ caps' = caps
    <2>1. CASE press(key)
      <3>1. Meaning(key) \in Stored
        BY Zenon DEF Meaning, Stored, Characters, NoChar
      <3> QED  BY <2>1, <3>1, Zenon DEF press, KeyEvent
    <2>2. CASE release(key)
      <3>1. NoChar \in Stored
        BY Zenon DEF Stored
      <3> QED  BY <2>2, <3>1, Zenon DEF release, KeyEvent
    <2> QED  BY <2>1, <2>2, Zenon
  <1>2. at' = at /\ dec' = dec
    BY Zenon DEF press, release, KeyEvent, loopVars
  <1>3. key \in [code : STRING, extended : BOOLEAN] /\ key.code # "E0"
    BY KeyboardAssumption, Zenon
  <1>4. wire \in Seq(WireByte) /\ held' \subseteq Keys /\ caps' \in BOOLEAN
        /\ Decodes(dec, wire, Physical)
    BY <1>1, Zenon DEF DecoderOK
  <1>5. Physical' \in Decoder
    BY <1>4 DEF Physical, Decoder, Down
  <1> DEFINE last == ScanByte(key.code, released, want)
  <1>6. last \in WireByte /\ last.want = want
    <2>1. key.code \in Codes
      BY Zenon DEF Codes
    <2> QED  BY <2>1, Zenon DEF WireByte, ScanByte
  <1>7. wire' \in Seq(WireByte) /\ Decodes(dec, wire', Physical')
    <2>1. CASE ~ key.extended
      <3>1. wire' = Append(wire, last)
        BY <1>1, <1>4, <1>6, <2>1, SMTT(20) DEF Bytes
      <3>2. keyboard_feed_scancode(Physical, last) = Result(Physical', last.want)
        BY <1>1, <1>6, <2>1, PlainKey, ZenonT(40)
      <3> HIDE DEF last
      <3>3. Append(wire, last) \in Seq(WireByte)
        BY <1>4, <1>6
      <3>4. Decodes(dec, Append(wire, last), Physical')
        BY <1>4, <1>5, <1>6, <3>2, DecodesOneMore, Zenon
      <3> QED  BY <3>1, <3>3, <3>4, Zenon
    <2>2. CASE key.extended
      <3> DEFINE first == ScanByte("E0", TRUE, NoChar)
      <3>1. want = NoChar /\ (held' = held \cup {key} \/ held' = held \ {key}) /\ caps' = caps
        BY <1>1, <2>2, Zenon DEF Meaning
      <3>2. first \in WireByte /\ first.want = NoChar
        <4>1. NoChar \in Stored
          BY Zenon DEF Stored
        <4>2. "E0" \in Codes
          BY Zenon DEF Codes
        <4> QED  BY <4>1, <4>2, Zenon DEF WireByte, ScanByte
      <3>3. Physical' = Physical
            /\ \E mid \in Decoder :
                 /\ keyboard_feed_scancode(Physical, first) = Result(mid, NoChar)
                 /\ keyboard_feed_scancode(mid, last) = Result(Physical, NoChar)
        BY <2>2, <3>1, PrefixedKey, Zenon
      <3>4. PICK mid \in Decoder :
              /\ keyboard_feed_scancode(Physical, first) = Result(mid, NoChar)
              /\ keyboard_feed_scancode(mid, last) = Result(Physical, NoChar)
        BY <3>3, Zenon
      <3>5. wire' = wire \o <<first, last>>
        BY <1>1, <2>2, Zenon DEF Bytes
      <3> HIDE DEF first, last
      <3>6. wire' = Append(Append(wire, first), last)
        BY <1>4, <1>6, <3>2, <3>5
      <3>7. Append(wire, first) \in Seq(WireByte)
        BY <1>4, <3>2
      <3>8. Append(Append(wire, first), last) \in Seq(WireByte)
        BY <1>6, <3>7
      <3>9. Decodes(dec, Append(wire, first), mid)
        BY <1>4, <3>2, <3>4, DecodesOneMore, Zenon
      <3>10. Decodes(dec, Append(Append(wire, first), last), Physical')
        <4>1. keyboard_feed_scancode(mid, last) = Result(Physical', last.want)
          BY <1>6, <3>1, <3>3, <3>4, Zenon
        <4> QED  BY <1>5, <1>6, <3>7, <3>9, <4>1, DecodesOneMore, Zenon
      <3> QED  BY <3>6, <3>8, <3>10, Zenon
    <2> QED  BY <2>1, <2>2, Zenon
  <1>8. Decodes(dec, wire, Physical)'
    BY <1>2, <1>7, Zenon
  <1> QED  BY <1>2, <1>4, <1>7, <1>8, Zenon DEF DecoderOK

LEMMA DecoderSame ==
  ASSUME DecoderOK, UNCHANGED <<dec, wire, held, caps>>, at' = "init" => at = "init"
  PROVE  DecoderOK'
  <1>1. Physical' = Physical
    BY Zenon DEF Physical, Down
  <1>2. Decodes(dec, wire, Physical)'
    BY <1>1, Zenon DEF DecoderOK
  <1> QED  BY <1>2, Zenon DEF DecoderOK

LEMMA DecoderStep == DecoderOK /\ [Next]_vars => DecoderOK'
  <1> SUFFICES ASSUME DecoderOK, [Next]_vars PROVE DecoderOK'
    BY Zenon
  <1>1. CASE UNCHANGED vars
    BY <1>1, DecoderSame, Zenon DEF vars, loopVars
  <1>2. CASE keyboard_handle_irq
    <2>1. wire # << >> /\ wire' = Tail(wire) /\ held' = held /\ caps' = caps /\ at' # "init"
          /\ dec' = keyboard_feed_scancode(dec, Head(wire)).dec
      BY <1>2, Zenon DEF keyboard_handle_irq, InterruptsOn, Wake
    <2>2. Physical' = Physical
      BY <2>1, Zenon DEF Physical, Down
    <2>3. wire \in Seq(WireByte) /\ Decodes(dec, wire, Physical)
      BY Zenon DEF DecoderOK
    <2>4. Decodes(keyboard_feed_scancode(dec, Head(wire)).dec, Tail(wire), Physical)
      BY <2>1, <2>3, DecodesFirst, Zenon
    <2>5. Decodes(dec, wire, Physical)'
      BY <2>1, <2>2, <2>4, Zenon
    <2>6. Tail(wire) \in Seq(WireByte)
      BY <2>1, <2>3
    <2> QED  BY <2>1, <2>5, <2>6, Zenon DEF DecoderOK
  <1>3. CASE irq0
    BY <1>3, DecoderSame, Zenon DEF irq0, Wake
  <1>4. CASE keyboard_init
    <2>1. dec' = dec
      BY <1>4, Zenon DEF keyboard_init, DecoderOK
    <2> QED  BY <1>4, <2>1, DecoderSame, Zenon DEF keyboard_init
  <1>5. CASE boot_status_check \/ main_hlt \/ pop_read \/ pop_write \/ pop_load
             \/ pop_advance \/ main_handle
    BY <1>5, DecoderSame, Zenon
    DEF boot_status_check, main_hlt, pop_read, pop_write, pop_load, pop_advance,
        main_handle, Foreground
  <1>6. CASE failed
    BY <1>6, DecoderSame, Zenon DEF failed, vars, loopVars
  <1>7. ASSUME NEW key \in Keys, at # "init" /\ (press(key) \/ release(key))
        PROVE  DecoderOK'
    BY <1>7, EventStep, Zenon
  <1> QED
    BY <1>1, <1>2, <1>3, <1>4, <1>5, <1>6, <1>7, Zenon DEF Next, foreground

LEMMA DecoderExact == DecoderOK => DecodedAsTyped
  BY DecodesFirst, Zenon DEF DecoderOK, DecodedAsTyped

(* Every byte is decoded as its key event was meant, for every set of keys *)
(* and however many bytes wait in the controller: E0 prefixes, repeats and *)
(* overlapping shifts never leave keyboard_feed_scancode with a shift, lock *)
(* or prefix state other than the one of that key event.                   *)
THEOREM DecoderFollowsKeys == Spec => []DecodedAsTyped
  BY DecoderInit, DecoderStep, DecoderExact, PTL DEF Spec

-----------------------------------------------------------------------------
(* Rings addressed by free-running sequence numbers, as the IPC endpoints  *)
(* (ipc.c) and the keyboard queue (keyboard.c) use them: the numbers are   *)
(* taken modulo M, a slot is a number modulo the depth D, and D divides M. *)

(* The number of the sequence numbers from r on before w. *)
Apart(w, r, M) == (w + M - r) % M

(* Quotient and remainder. *)
LEMMA DivMod ==
  ASSUME NEW n \in Nat \ {0}, NEW a \in Nat
  PROVE  /\ a \div n \in Nat /\ a % n \in 0 .. n - 1
         /\ a = n * (a \div n) + (a % n)
  OBVIOUS

(* The remainder is unique. *)
LEMMA ModUnique ==
  ASSUME NEW n \in Nat \ {0}, NEW a \in Nat, NEW q \in Nat, NEW r \in 0 .. n - 1,
         a = n * q + r
  PROVE  a % n = r
  <1> DEFINE p == a \div n
             s == a % n
  <1>1. p \in Nat /\ s \in 0 .. n - 1 /\ a = n * p + s
    BY DivMod, Zenon
  <1> HIDE DEF p, s
  <1>2. n * (p - q) = r - s
    BY <1>1
  <1>3. p - q >= 1 => n * (p - q) >= n
    BY <1>1
  <1>4. p - q <= -1 => n * (p - q) <= -n
    BY <1>1
  <1>5. p = q
    BY <1>1, <1>2, <1>3, <1>4
  <1> QED  BY <1>1, <1>5 DEF s

(* A sequence number below the modulus, and the one after it. *)
LEMMA Successor ==
  ASSUME NEW M \in Nat \ {0}, NEW x \in 0 .. M - 1
  PROVE  (x + 1) % M = IF x + 1 = M THEN 0 ELSE x + 1
  OBVIOUS

(* The subtraction of unsigned numbers, without the remainder. *)
LEMMA ApartCases ==
  ASSUME NEW M \in Nat \ {0}, NEW w \in 0 .. M - 1, NEW r \in 0 .. M - 1
  PROVE  /\ Apart(w, r, M) = IF w >= r THEN w - r ELSE w - r + M
         /\ Apart(w, r, M) \in 0 .. M - 1
  <1>1. CASE w >= r
    <2>1. w + M - r = M * 1 + (w - r)
      OBVIOUS
    <2> QED  BY <1>1, <2>1, ModUnique DEF Apart
  <1>2. CASE w < r
    <2>1. w + M - r = M * 0 + (w - r + M)
      OBVIOUS
    <2> QED  BY <1>2, <2>1, ModUnique DEF Apart
  <1> QED  BY <1>1, <1>2

LEMMA ApartZero ==
  ASSUME NEW M \in Nat \ {0}, NEW r \in 0 .. M - 1
  PROVE  Apart(r, r, M) = 0
  <1>1. Apart(r, r, M) = IF r >= r THEN r - r ELSE r - r + M
    BY ApartCases, Zenon
  <1> QED  BY <1>1

(* The slot does not notice that the sequence number wrapped around. *)
LEMMA SlotWrap ==
  ASSUME NEW D \in Nat \ {0}, NEW M \in Nat \ {0}, M % D = 0, NEW x \in Nat
  PROVE  (x + M) % D = x % D
  <1> DEFINE p == x \div D
             k == M \div D
             s == x % D
  <1>1. p \in Nat /\ s \in 0 .. D - 1 /\ x = D * p + s
    BY DivMod, Zenon
  <1>2. k \in Nat /\ M = D * k
    BY DivMod
  <1> HIDE DEF p, k, s
  <1>3. p + k \in Nat /\ x + M \in Nat /\ x + M = D * (p + k) + s
    BY <1>1, <1>2
  <1>4. (x + M) % D = s
    BY <1>1, <1>3, ModUnique, Zenon
  <1> QED  BY <1>4, Zenon DEF s

(* Numbers less than D apart use different slots. *)
LEMMA SlotsDiffer ==
  ASSUME NEW D \in Nat \ {0}, NEW x \in Nat, NEW y \in Nat, x < y, y < x + D
  PROVE  x % D # y % D
  <1> DEFINE p == x \div D
             q == y \div D
             s == x % D
  <1>1. p \in Nat /\ x = D * p + s /\ s \in Nat
    BY DivMod
  <1>2. q \in Nat /\ y = D * q + (y % D)
    BY DivMod, Zenon
  <1> HIDE DEF p, q
  <1> SUFFICES ASSUME y % D = s PROVE FALSE
    BY Zenon DEF s
  <1> HIDE DEF s
  <1>3. D * (q - p) > 0 /\ D * (q - p) < D
    BY <1>1, <1>2
  <1>4. q - p <= 0 => D * (q - p) <= 0
    BY <1>1, <1>2
  <1>5. q - p >= 1 => D * (q - p) >= D
    BY <1>1, <1>2
  <1> QED  BY <1>1, <1>2, <1>3, <1>4, <1>5

(* The distance shrinks when an element is read, *)
LEMMA AdvanceApart ==
  ASSUME NEW M \in Nat \ {0}, NEW w \in 0 .. M - 1, NEW r \in 0 .. M - 1, w # r
  PROVE  /\ (r + 1) % M \in 0 .. M - 1
         /\ Apart(w, (r + 1) % M, M) = Apart(w, r, M) - 1
         /\ Apart(w, r, M) >= 1
  <1> DEFINE n == (r + 1) % M
  <1>1. n = IF r + 1 = M THEN 0 ELSE r + 1
    BY Successor, Zenon
  <1> HIDE DEF n
  <1>2. n \in 0 .. M - 1
    BY <1>1
  <1>3. Apart(w, n, M) = IF w >= n THEN w - n ELSE w - n + M
    BY <1>2, ApartCases, Zenon
  <1>4. Apart(w, r, M) = IF w >= r THEN w - r ELSE w - r + M
    BY ApartCases, Zenon
  <1> QED  BY <1>1, <1>2, <1>3, <1>4 DEF n

(* and grows when one is added. *)
LEMMA ExtendApart ==
  ASSUME NEW M \in Nat \ {0}, NEW w \in 0 .. M - 1, NEW r \in 0 .. M - 1,
         Apart(w, r, M) + 1 < M
  PROVE  /\ (w + 1) % M \in 0 .. M - 1
         /\ Apart((w + 1) % M, r, M) = Apart(w, r, M) + 1
  <1> DEFINE n == (w + 1) % M
  <1>1. n = IF w + 1 = M THEN 0 ELSE w + 1
    BY Successor, Zenon
  <1> HIDE DEF n
  <1>2. n \in 0 .. M - 1
    BY <1>1
  <1>3. Apart(n, r, M) = IF n >= r THEN n - r ELSE n - r + M
    BY <1>2, ApartCases, Zenon
  <1>4. Apart(w, r, M) = IF w >= r THEN w - r ELSE w - r + M
    BY ApartCases, Zenon
  <1> QED  BY <1>1, <1>2, <1>3, <1>4 DEF n

(* Reading from s on goes to the slots behind r. *)
SlotsBehind(s, r, D) == \A i \in Nat : (s + i) % D = (r + 1 + i) % D

(* After an element was read the others keep their slots. *)
LEMMA AdvanceSlots ==
  ASSUME NEW D \in Nat \ {0}, NEW M \in Nat \ {0}, M % D = 0,
         NEW r \in 0 .. M - 1, NEW n, n = (r + 1) % M
  PROVE  SlotsBehind(n, r, D)
  <1> SUFFICES ASSUME NEW i \in Nat PROVE (n + i) % D = (r + 1 + i) % D
    BY Zenon DEF SlotsBehind
  <1>1. n = IF r + 1 = M THEN 0 ELSE r + 1
    BY Successor, ZenonT(40)
  <1>2. CASE r + 1 = M
    <2>1. n + i = i /\ r + 1 + i = i + M
      BY <1>1, <1>2
    <2>2. (i + M) % D = i % D
      BY SlotWrap, Zenon
    <2> QED  BY <2>1, <2>2, Zenon
  <1>3. CASE r + 1 # M
    <2>1. n + i = r + 1 + i
      BY <1>1, <1>3, Zenon
    <2> QED  BY <2>1, Zenon
  <1> QED  BY <1>2, <1>3, Zenon

(* From r on, the distance leads to w, possibly once around. *)
LEMMA ApartReaches ==
  ASSUME NEW M \in Nat \ {0}, NEW w \in 0 .. M - 1, NEW r \in 0 .. M - 1
  PROVE  /\ w \in Nat
         /\ r + Apart(w, r, M) = w \/ r + Apart(w, r, M) = w + M
  <1>1. Apart(w, r, M) = IF w >= r THEN w - r ELSE w - r + M
    BY ApartCases, Zenon
  <1> QED  BY <1>1

(* The slot of a new element is the one behind the elements there are. *)
LEMMA ExtendSlot ==
  ASSUME NEW D \in Nat \ {0}, NEW M \in Nat \ {0}, M % D = 0,
         NEW w \in 0 .. M - 1, NEW r \in 0 .. M - 1
  PROVE  w % D = (r + Apart(w, r, M)) % D
  <1>1. /\ w \in Nat
        /\ r + Apart(w, r, M) = w \/ r + Apart(w, r, M) = w + M
    BY ApartReaches, Zenon
  <1>2. (w + M) % D = w % D
    BY <1>1, SlotWrap, Zenon
  <1> QED  BY <1>1, <1>2, Zenon

-----------------------------------------------------------------------------
(* The n elements of the ring q of depth D from sequence number r on. *)
Window(q, r, n, D) == [i \in 1 .. n |-> q[(r + i - 1) % D]]

(* Sequences with the same elements are equal. *)
LEMMA SameSequence ==
  ASSUME NEW S, NEW s \in Seq(S), NEW t \in Seq(S), Len(s) = Len(t),
         \A i \in 1 .. Len(s) : s[i] = t[i]
  PROVE  s = t
  <1>1. s \in [1 .. Len(s) -> S] /\ t \in [1 .. Len(s) -> S]
    OBVIOUS
  <1> QED  BY <1>1

(* There are n of them, *)
LEMMA WindowLen ==
  ASSUME NEW q, NEW r, NEW D, NEW n \in Nat
  PROVE  Len(Window(q, r, n, D)) = n
  BY DEF Window

(* and they are a sequence. *)
LEMMA WindowSeq ==
  ASSUME NEW S, NEW D \in Nat \ {0}, NEW q \in [0 .. D - 1 -> S],
         NEW r \in Nat, NEW n \in Nat
  PROVE  Window(q, r, n, D) \in Seq(S)
  <1>1. \A i \in 1 .. n : (r + i - 1) % D \in 0 .. D - 1
    <2> SUFFICES ASSUME NEW i \in 1 .. n PROVE (r + i - 1) % D \in 0 .. D - 1
      BY Zenon
    <2>1. r + i - 1 \in Nat
      OBVIOUS
    <2> QED  BY <2>1, DivMod, Zenon
  <1>2. \A i \in 1 .. n : q[(r + i - 1) % D] \in S
    BY <1>1, Zenon
  <1>3. Window(q, r, n, D) \in [1 .. n -> S]
    BY <1>2, Zenon DEF Window
  <1> QED  BY <1>3

(* A ring is a function on the slots, that is, one into its own elements. *)
IsRing(q, D) == q = [k \in 0 .. D - 1 |-> q[k]]
Elements(q, D) == {q[k] : k \in 0 .. D - 1}

LEMMA RingElements ==
  ASSUME NEW q, NEW D, IsRing(q, D)
  PROVE  \A x : x \in Elements(q, D) \cup {x} /\ q \in [0 .. D - 1 -> Elements(q, D) \cup {x}]
  <1> SUFFICES ASSUME NEW x
               PROVE  /\ x \in Elements(q, D) \cup {x}
                      /\ q \in [0 .. D - 1 -> Elements(q, D) \cup {x}]
    BY Zenon
  <1>1. \A j \in 0 .. D - 1 : q[j] \in Elements(q, D) \cup {x}
    BY Zenon DEF Elements
  <1> QED  BY <1>1, Zenon DEF IsRing

(* Storing x in slot k appends it; going on from s removes the first one. *)
Appends(q, r, n, k, x, D) ==
  Window([q EXCEPT ![k] = x], r, n + 1, D) = Append(Window(q, r, n, D), x)
Removes(q, r, n, s, D) ==
  /\ Window(q, r, n, D) # << >>
  /\ Head(Window(q, r, n, D)) = q[r % D]
  /\ Tail(Window(q, r, n, D)) = Window(q, s, n - 1, D)

(* A new element in the slot behind them is appended. *)
LEMMA WindowAppend ==
  ASSUME NEW D \in Nat \ {0}, NEW q, IsRing(q, D),
         NEW r \in Nat, NEW n \in Nat, n < D, NEW x, NEW k, k = (r + n) % D
  PROVE  Appends(q, r, n, k, x, D)
  <1> DEFINE p == [q EXCEPT ![k] = x]
             old == Window(q, r, n, D)
             new == Window(p, r, n + 1, D)
             S == Elements(q, D) \cup {x}
  <1>0. q \in [0 .. D - 1 -> S] /\ x \in S
    BY RingElements, Zenon
  <1> HIDE DEF S
  <1>1. r + n \in Nat /\ n + 1 \in Nat
    OBVIOUS
  <1>2. k \in 0 .. D - 1
    BY <1>1, DivMod, Zenon
  <1>3. /\ p \in [0 .. D - 1 -> S] /\ p[k] = x
        /\ \A j \in 0 .. D - 1 : j # k => p[j] = q[j]
    BY <1>0, <1>2, Zenon
  <1>4. /\ old \in Seq(S) /\ Len(old) = n
        /\ \A i \in 1 .. n : old[i] = q[(r + i - 1) % D]
    <2>1. old \in Seq(S)
      BY <1>0, WindowSeq, Zenon
    <2>2. Len(old) = n
      BY WindowLen
    <2>3. \A i \in 1 .. n : old[i] = q[(r + i - 1) % D]
      BY Zenon DEF Window
    <2> QED  BY <2>1, <2>2, <2>3, Zenon
  <1> HIDE DEF p
  <1>5. /\ new \in Seq(S) /\ Len(new) = n + 1
        /\ \A i \in 1 .. n + 1 : new[i] = p[(r + i - 1) % D]
    <2>1. new \in Seq(S)
      BY <1>1, <1>3, WindowSeq, Zenon
    <2>2. Len(new) = n + 1
      BY <1>1, <1>3, WindowLen
    <2>3. \A i \in 1 .. n + 1 : new[i] = p[(r + i - 1) % D]
      BY Zenon DEF Window
    <2> QED  BY <2>1, <2>2, <2>3, Zenon
  <1> HIDE DEF old, new
  <1>6. ASSUME NEW i \in 1 .. n PROVE new[i] = old[i]
    <2> DEFINE y == r + i - 1
    <2>1. y \in Nat /\ y < r + n /\ r + n < y + D /\ i \in 1 .. n + 1
      OBVIOUS
    <2>2. y % D # k /\ y % D \in 0 .. D - 1
      BY <1>1, <2>1, SlotsDiffer, DivMod, Zenon
    <2>3. new[i] = p[y % D] /\ old[i] = q[y % D]
      BY <1>4, <1>5, <2>1, Zenon
    <2> QED  BY <1>3, <2>2, <2>3, Zenon
  <1>7. new[n + 1] = x
    <2>1. n + 1 \in 1 .. n + 1 /\ r + (n + 1) - 1 = r + n
      OBVIOUS
    <2> QED  BY <1>3, <1>5, <2>1, Zenon
  <1>8. /\ Append(old, x) \in Seq(S) /\ Len(Append(old, x)) = n + 1
        /\ \A i \in 1 .. n : Append(old, x)[i] = old[i]
        /\ Append(old, x)[n + 1] = x
    BY <1>0, <1>4
  <1>9. \A i \in 1 .. n + 1 : i \in 1 .. n \/ i = n + 1
    OBVIOUS
  <1>10. \A i \in 1 .. Len(new) : new[i] = Append(old, x)[i]
    BY <1>5, <1>6, <1>7, <1>8, <1>9, Zenon
  <1>11. new = Append(old, x)
    BY <1>5, <1>8, <1>10, SameSequence, Zenon
  <1> QED  BY <1>11, Zenon DEF new, old, p, Appends

(* The first element is at r; the others are what the ring holds from the  *)
(* next sequence number on.                                                *)
LEMMA WindowTail ==
  ASSUME NEW D \in Nat \ {0}, NEW M \in Nat \ {0}, M % D = 0, NEW q, IsRing(q, D),
         NEW r \in 0 .. M - 1, NEW n \in Nat, n > 0, NEW s, s = (r + 1) % M
  PROVE  Removes(q, r, n, s, D)
  <1> DEFINE old == Window(q, r, n, D)
             new == Window(q, s, n - 1, D)
             S == Elements(q, D) \cup {0}
  <1>0. /\ q \in [0 .. D - 1 -> S] /\ r \in Nat /\ s \in Nat
        /\ SlotsBehind(s, r, D)
    <2>1. q \in [0 .. D - 1 -> S]
      BY RingElements, Zenon
    <2>2. r + 1 \in Nat /\ r \in Nat
      OBVIOUS
    <2>3. s \in 0 .. M - 1
      BY <2>2, DivMod, Zenon
    <2>4. s \in Nat
      BY <2>3
    <2>5. SlotsBehind(s, r, D)
      BY AdvanceSlots, Zenon
    <2> QED  BY <2>1, <2>2, <2>4, <2>5, Zenon
  <1> HIDE DEF S
  <1>1. /\ old \in Seq(S) /\ Len(old) = n
        /\ \A i \in 1 .. n : old[i] = q[(r + i - 1) % D]
    <2>1. old \in Seq(S)
      BY <1>0, WindowSeq, Zenon
    <2>2. Len(old) = n
      BY WindowLen
    <2>3. \A i \in 1 .. n : old[i] = q[(r + i - 1) % D]
      BY Zenon DEF Window
    <2> QED  BY <2>1, <2>2, <2>3, Zenon
  <1>2. n - 1 \in Nat /\ 1 \in 1 .. n /\ r + 1 - 1 = r
    BY <1>0
  <1>3. /\ new \in Seq(S) /\ Len(new) = n - 1
        /\ \A i \in 1 .. n - 1 : new[i] = q[(s + i - 1) % D]
    <2>1. new \in Seq(S)
      BY <1>0, <1>2, WindowSeq, Zenon
    <2>2. Len(new) = n - 1
      BY <1>2, WindowLen
    <2>3. \A i \in 1 .. n - 1 : new[i] = q[(s + i - 1) % D]
      BY Zenon DEF Window
    <2> QED  BY <2>1, <2>2, <2>3, Zenon
  <1> HIDE DEF old, new
  <1>4. old # << >>
    BY <1>1
  <1>5. Head(old) = q[r % D]
    <2>1. Head(old) = old[1]
      BY <1>1, <1>4
    <2> QED  BY <1>1, <1>2, <2>1, Zenon
  <1>6. /\ Tail(old) \in Seq(S) /\ Len(Tail(old)) = n - 1
        /\ \A i \in 1 .. n - 1 : Tail(old)[i] = old[i + 1]
    BY <1>1, <1>4
  <1>7. ASSUME NEW i \in 1 .. n - 1 PROVE Tail(old)[i] = new[i]
    <2>1. /\ i + 1 \in 1 .. n /\ i - 1 \in Nat /\ s + i - 1 = s + (i - 1)
          /\ r + (i + 1) - 1 = r + 1 + (i - 1)
      BY <1>0
    <2>2. (s + (i - 1)) % D = (r + 1 + (i - 1)) % D
      BY <1>0, <2>1, Zenon DEF SlotsBehind
    <2>3. new[i] = q[(s + (i - 1)) % D]
      BY <1>3, <2>1, Zenon
    <2>4. old[i + 1] = q[(r + 1 + (i - 1)) % D]
      BY <1>1, <2>1, Zenon
    <2> QED  BY <1>6, <2>2, <2>3, <2>4, Zenon
  <1>8. Tail(old) = new
    BY <1>3, <1>6, <1>7, SameSequence, Zenon
  <1> QED  BY <1>4, <1>5, <1>8, Zenon DEF old, new, Removes

(* Nothing is the empty sequence. *)
LEMMA WindowEmpty ==
  ASSUME NEW q, NEW r, NEW D
  PROVE  Window(q, r, 0, D) = << >>
  BY DEF Window

-----------------------------------------------------------------------------
(* The interrupt dispatcher and the status snapshot (module Irq). *)

Counter == 0 .. CounterMod - 1
InLoop == {"loop", "halted", "first", "second", "return"}
Handlers == {NoHandler, "pit_handle_irq", "keyboard_handle_irq"}
Reading == {"first", "second", "return"}

(* The timer is counted and served from the moment its handler and its     *)
(* line are in place; until interrupts are enabled the counters are zero.  *)
TimerSetUp ==
  /\ IF_flag <=> stage \in InLoop
  /\ stage \in {"register_keyboard", "enable_timer", "enable_keyboard", "check_mask",
                "sti"} \cup InLoop => handlers[0] = "pit_handle_irq"
  /\ stage \in {"enable_keyboard", "check_mask", "sti"} \cup InLoop =>
       0 \notin master_mask /\ 0 \notin imr
  /\ \A i \in Irqs \ {0} : handlers[i] # "pit_handle_irq"
  /\ ~ IF_flag => tick_count = 0 /\ \A i \in Irqs : counts[i] = 0

(* While a snapshot is taken no more interrupts have been counted than     *)
(* edges came, the one still latched included, and what was read so far    *)
(* lies behind.                                                            *)
SnapshotInv ==
  /\ stage \in Reading =>
       Since(counts[0]) + (IF 0 \in irr THEN 1 ELSE 0) <= burst
  /\ stage \in {"second", "return"} => Since(snapshot.pit_ticks) <= Since(counts[0])
  /\ stage = "return" =>
       /\ Since(snapshot.pit_ticks) <= Since(snapshot.irq0_count)
       /\ Since(snapshot.irq0_count) <= Since(counts[0])

IrqInv ==
  /\ handlers \in [Irqs -> Handlers] /\ counts \in [Irqs -> Counter]
  /\ tick_count \in Counter /\ since \in Counter
  /\ snapshot \in [pit_ticks : Counter, irq0_count : Counter]
  /\ burst \in 0 .. MaxBurst /\ IF_flag \in BOOLEAN
  /\ isr = {}
  /\ tick_count = counts[0]
  /\ TimerSetUp /\ SnapshotInv

LEMMA Lines == /\ 0 \in Irqs /\ 1 \in Irqs /\ 7 \in Irqs /\ Irqs \subseteq Nat
               /\ Irqs = Master \cup Slave /\ Master \cap Slave = {}
               /\ Cascade \in Master /\ 0 \notin Slave /\ 0 \in Master
               /\ \A i \in Slave : i >= PIC_SLAVE_IRQ_BASE
               /\ \A i \in Master : ~ (i >= PIC_SLAVE_IRQ_BASE)
  BY DEF Irqs, IRQ_COUNT, Master, Slave, Cascade, PIC_SLAVE_IRQ_BASE

LEMMA Moduli == /\ CounterMod \in Nat \ {0} /\ MaxBurst \in Nat /\ MaxBurst < CounterMod
                /\ 0 \in Counter /\ Counter \subseteq Nat
  BY IrqAssumption DEF Counter

(* The request that is served is the only one in service, and ending the   *)
(* highest one on each chip involved ends it.                              *)
LEMMA NothingInService ==
  ASSUME isr = {}, NEW irq \in Acceptable, NEW service,
         service = isr \cup (IF ~ (irq \in Deliverable) THEN {}
                            ELSE IF irq \in Slave THEN {irq, Cascade} ELSE {irq})
  PROVE  pic_send_eoi(service, irq) = {}
  <1>1. irq \in Irqs
    BY Lines, Zenon DEF Acceptable, Deliverable, Spurious
  <1>2. \A x \in Nat : Highest({x}) = {x}
    BY DEF Highest
  <1>3. CASE irq \notin Deliverable
    BY <1>3, Zenon DEF pic_send_eoi
  <1>4. CASE irq \in Deliverable /\ irq \in Slave
    <2>1. service \cap Master = {Cascade} /\ service \cap Slave = {irq}
      BY <1>4, Lines, Zenon
    <2>2. Highest({Cascade}) = {Cascade} /\ Highest({irq}) = {irq}
      BY <1>1, <1>2, Lines, Zenon
    <2>3. irq >= PIC_SLAVE_IRQ_BASE
      BY <1>4, Lines, Zenon
    <2> QED  BY <1>4, <2>1, <2>2, <2>3, Zenon DEF pic_send_eoi
  <1>5. CASE irq \in Deliverable /\ irq \notin Slave
    <2>1. service \cap Master = {irq} /\ ~ (irq >= PIC_SLAVE_IRQ_BASE)
      BY <1>1, <1>5, Lines, Zenon
    <2>2. Highest({irq}) = {irq}
      BY <1>1, <1>2, Lines, Zenon
    <2> QED  BY <1>5, <2>1, <2>2, Zenon DEF pic_send_eoi
  <1> QED  BY <1>3, <1>4, <1>5, Zenon

(* A latched request of the enabled timer line stops the foreground. *)
LEMMA TimerFirst ==
  ASSUME isr = {}, 0 \notin imr, Acceptable = {}
  PROVE  0 \notin irr
  <1> SUFFICES ASSUME 0 \in irr PROVE FALSE
    BY Zenon
  <1>1. \A j \in Irqs : 0 <= j
    BY Lines
  <1>2. 0 \in Deliverable
    BY <1>1, Lines, Zenon DEF Deliverable
  <1> QED  BY <1>2, Zenon DEF Acceptable

(* The distance grows by one with each counted interrupt. *)
LEMMA SinceGrows ==
  ASSUME since \in Counter, NEW n \in Counter, NEW b \in 0 .. MaxBurst, Since(n) < b
  PROVE  (n + 1) % CounterMod \in Counter /\ Since((n + 1) % CounterMod) = Since(n) + 1
  <1>1. Since(n) = Apart(n, since, CounterMod)
        /\ Since((n + 1) % CounterMod) = Apart((n + 1) % CounterMod, since, CounterMod)
    BY Zenon DEF Since, Apart
  <1>2. Apart(n, since, CounterMod) \in 0 .. CounterMod - 1
    BY Moduli, ApartCases, Zenon DEF Counter
  <1>3. Apart(n, since, CounterMod) + 1 < CounterMod
    BY <1>1, <1>2, Moduli
  <1>4. /\ (n + 1) % CounterMod \in Counter
        /\ Apart((n + 1) % CounterMod, since, CounterMod) = Apart(n, since, CounterMod) + 1
    BY <1>3, Moduli, ExtendApart, Zenon DEF Counter
  <1> QED  BY <1>1, <1>4, Zenon

LEMMA SinceNat ==
  ASSUME since \in Counter, NEW n \in Counter
  PROVE  Since(n) \in Nat /\ Since(since) = 0 /\ (n + 1) % CounterMod \in Counter
  <1>1. Since(n) = Apart(n, since, CounterMod) /\ Since(since) = Apart(since, since, CounterMod)
    BY Zenon DEF Since, Apart
  <1>2. Apart(n, since, CounterMod) \in 0 .. CounterMod - 1 /\ Apart(since, since, CounterMod) = 0
    BY Moduli, ApartCases, ApartZero, Zenon DEF Counter
  <1>3. (n + 1) % CounterMod \in Counter
    BY Moduli DEF Counter
  <1> QED  BY <1>1, <1>2, <1>3, Moduli

LEMMA InitIrqInv == IrqInit => IrqInv
  <1> SUFFICES ASSUME IrqInit PROVE IrqInv
    BY Zenon
  <1>1. /\ counts \in [Irqs -> Counter]
        /\ snapshot \in [pit_ticks : Counter, irq0_count : Counter]
        /\ tick_count = counts[0] /\ \A i \in Irqs : counts[i] = 0
    BY Lines, Moduli, Zenon DEF IrqInit
  <1>a. handlers \in [Irqs -> Handlers] /\ \A i \in Irqs : handlers[i] # "pit_handle_irq"
    BY Zenon DEF IrqInit, NoHandler, Handlers
  <1>2. TimerSetUp
    BY <1>1, <1>a, Zenon DEF IrqInit, TimerSetUp, InLoop
  <1>3. SnapshotInv
    BY Zenon DEF IrqInit, SnapshotInv, Reading
  <1>4. burst \in 0 .. MaxBurst
    BY Moduli DEF IrqInit
  <1> QED  BY <1>1, <1>a, <1>2, <1>3, <1>4, Moduli, Zenon DEF IrqInit, IrqInv

(* irq_dispatch counts the timer interrupt and calls its handler together. *)
LEMMA InterruptStep == IrqInv /\ interrupt => IrqInv'
  <1> SUFFICES ASSUME IrqInv, interrupt PROVE IrqInv'
    BY Zenon
  <1>1. PICK irq \in Acceptable :
          LET real == irq \in Deliverable
              service == isr \cup (IF ~ real THEN {}
                                   ELSE IF irq \in Slave THEN {irq, Cascade} ELSE {irq})
          IN  /\ IF_flag
              /\ irq_dispatch(irq, service)
              /\ irr' = (irr \ (IF real THEN {irq} ELSE {}))
                          \cup (IF bytes' \in 1 .. bytes - 1 THEN {1} ELSE {})
              /\ stage' = IF stage = "halted" THEN "loop" ELSE stage
              /\ UNCHANGED <<handlers, master_mask, imr, burst, IF_flag, statusVars>>
    BY Zenon DEF interrupt
  <1>2. irq \in Irqs /\ (irq = 0 => irq \in Deliverable /\ 0 \in irr)
    <2>1. irq \in Deliverable => irq \in Irqs /\ irq \in irr
      BY Zenon DEF Deliverable
    <2>2. irq \notin Deliverable => irq = 7
      BY <1>1, Zenon DEF Acceptable, Spurious
    <2>3. 0 # 7
      OBVIOUS
    <2> QED  BY <2>1, <2>2, <2>3, Lines, Zenon
  <1>3. isr' = {}
    BY <1>1, NothingInService, Zenon DEF irq_dispatch, IrqInv
  <1>4. /\ handlers \in [Irqs -> Handlers] /\ counts \in [Irqs -> Counter]
        /\ tick_count = counts[0] /\ tick_count \in Counter /\ since \in Counter
        /\ snapshot \in [pit_ticks : Counter, irq0_count : Counter]
        /\ burst \in 0 .. MaxBurst /\ IF_flag /\ stage \in InLoop
        /\ handlers[0] = "pit_handle_irq"
        /\ \A i \in Irqs \ {0} : handlers[i] # "pit_handle_irq"
    BY <1>1, Zenon DEF IrqInv, TimerSetUp
  <1>5. /\ counts' = [counts EXCEPT ![irq] = (@ + 1) % CounterMod]
        /\ irq = 0 => tick_count' = (tick_count + 1) % CounterMod
        /\ irq # 0 => tick_count' = tick_count
    BY <1>1, <1>2, <1>4, Zenon DEF irq_dispatch, pit_handle_irq
  <1>6. /\ counts' \in [Irqs -> Counter] /\ tick_count' \in Counter /\ tick_count' = counts'[0]
        /\ irq = 0 => counts'[0] = (counts[0] + 1) % CounterMod
        /\ irq # 0 => counts'[0] = counts[0]
    <2>1. counts[irq] \in Counter
      BY <1>2, <1>4, Zenon
    <2>2. (counts[irq] + 1) % CounterMod \in Counter
      BY <1>4, <2>1, SinceNat, Zenon
    <2> QED  BY <1>2, <1>4, <1>5, <2>2, Lines, Zenon
  <1>7. 0 \in irr' <=> 0 \in irr /\ irq # 0
    <2>1. 0 # 1
      OBVIOUS
    <2> QED  BY <1>1, <1>2, <2>1, Zenon
  <1>8. stage' \in InLoop /\ (stage' \in Reading => stage' = stage)
    BY <1>1, <1>4, Zenon DEF InLoop, Reading
  <1>9. TimerSetUp'
    BY <1>1, <1>4, <1>8, Zenon DEF IrqInv, TimerSetUp, InLoop
  <1>10. SnapshotInv'
    <2> SUFFICES ASSUME stage' \in Reading PROVE SnapshotInv'
      BY Zenon DEF SnapshotInv, Reading
    <2>1. stage' = stage /\ snapshot' = snapshot /\ since' = since /\ burst' = burst
      BY <1>1, <1>8, Zenon DEF statusVars
    <2>2. Since(counts[0]) + (IF 0 \in irr THEN 1 ELSE 0) <= burst
      BY <2>1, Zenon DEF IrqInv, SnapshotInv
    <2>3. counts[0] \in Counter /\ counts'[0] \in Counter
      BY <1>4, <1>6, Lines, Zenon
    <2>4. Since(counts[0]) \in Nat /\ Since(counts'[0]) \in Nat
      BY <1>4, <2>3, SinceNat, Zenon
    <2>5. /\ irq = 0 => Since(counts'[0]) = Since(counts[0]) + 1
          /\ irq # 0 => Since(counts'[0]) = Since(counts[0])
      <3>1. CASE irq = 0
        <4>1. Since(counts[0]) < burst
          BY <1>2, <1>4, <2>2, <2>4, <3>1
        <4> QED  BY <1>4, <1>6, <2>3, <3>1, <4>1, SinceGrows, Zenon
      <3>2. CASE irq # 0
        BY <1>6, <3>2, Zenon
      <3> QED  BY <3>1, <3>2, Zenon
    <2>6. /\ Since(counts[0])' = Since(counts'[0])
          /\ Since(snapshot.pit_ticks)' = Since(snapshot.pit_ticks)
          /\ Since(snapshot.irq0_count)' = Since(snapshot.irq0_count)
      BY <2>1, Zenon DEF Since
    <2>7. Since(snapshot.pit_ticks) \in Nat /\ Since(snapshot.irq0_count) \in Nat
      BY <1>4, SinceNat, ZenonT(40)
    <2>8. Since(counts'[0]) + (IF 0 \in irr' THEN 1 ELSE 0) <= burst
      BY <1>2, <1>4, <1>7, <2>2, <2>4, <2>5
    <2>9. Since(counts[0]) <= Since(counts'[0])
      BY <2>4, <2>5, SMTT(20)
    <2>10. stage \in {"second", "return"} => Since(snapshot.pit_ticks) <= Since(counts'[0])
      <3>1. stage \in {"second", "return"} => Since(snapshot.pit_ticks) <= Since(counts[0])
        BY Zenon DEF IrqInv, SnapshotInv
      <3> QED  BY <2>4, <2>7, <2>9, <3>1
    <2>11. stage = "return" =>
             /\ Since(snapshot.pit_ticks) <= Since(snapshot.irq0_count)
             /\ Since(snapshot.irq0_count) <= Since(counts'[0])
      <3>1. stage = "return" =>
              /\ Since(snapshot.pit_ticks) <= Since(snapshot.irq0_count)
              /\ Since(snapshot.irq0_count) <= Since(counts[0])
        BY Zenon DEF IrqInv, SnapshotInv
      <3> QED  BY <2>4, <2>7, <2>9, <3>1
    <2> QED  BY <2>1, <2>6, <2>8, <2>10, <2>11, Zenon DEF SnapshotInv
  <1> QED  BY <1>1, <1>3, <1>4, <1>6, <1>9, <1>10, Zenon DEF IrqInv, statusVars

(* kernel_main sets the dispatcher up with interrupts off. *)
LEMMA BootStep == IrqInv /\ boot => IrqInv'
  <1> SUFFICES ASSUME IrqInv, boot PROVE IrqInv'
    BY Zenon
  <1>1. UNCHANGED <<isr, since, snapshot, burst>>
    BY Zenon DEF boot, boot_int3, irq_init, pit_configure, irq_register_handler,
         irq_set_enabled, boot_check_mask, boot_sti, ForegroundStep, statusVars
  <1> SUFFICES /\ handlers' \in [Irqs -> Handlers] /\ counts' \in [Irqs -> Counter]
               /\ tick_count' \in Counter /\ tick_count' = counts'[0] /\ IF_flag' \in BOOLEAN
               /\ TimerSetUp' /\ stage' \notin Reading
    BY <1>1, Zenon DEF IrqInv, SnapshotInv, Reading
  <1>2. /\ handlers \in [Irqs -> Handlers] /\ counts \in [Irqs -> Counter]
        /\ tick_count \in Counter /\ tick_count = counts[0] /\ TimerSetUp
        /\ IF_flag \in BOOLEAN
    BY Zenon DEF IrqInv
  <1>3. CASE boot_int3 \/ boot_check_mask
    <2>1. /\ UNCHANGED <<handlers, counts, tick_count, IF_flag, master_mask, imr>>
          /\ \/ stage = "int3" /\ stage' = "irq_init"
             \/ stage = "check_mask" /\ stage' \in {"sti", "failed"}
      BY <1>3, Zenon DEF boot_int3, boot_check_mask, ForegroundStep, Check, softVars
    <2> QED  BY <1>2, <2>1, Zenon DEF TimerSetUp, InLoop, Reading
  <1>4. CASE irq_init
    <2>1. /\ handlers' = [i \in Irqs |-> NoHandler] /\ counts' = [i \in Irqs |-> 0]
          /\ UNCHANGED <<tick_count, IF_flag>>
          /\ stage = "irq_init" /\ stage' \in {"pit", "failed"}
      BY <1>4, Zenon DEF irq_init, ForegroundStep, Check
    <2>2. handlers' \in [Irqs -> Handlers] /\ \A i \in Irqs : handlers'[i] # "pit_handle_irq"
      BY <2>1, Zenon DEF Handlers, NoHandler
    <2> QED  BY <1>2, <2>1, <2>2, Lines, Moduli, Zenon DEF TimerSetUp, InLoop, Reading
  <1>5. CASE pit_configure(100)
    <2>1. /\ tick_count' \in {0, tick_count}
          /\ UNCHANGED <<handlers, counts, IF_flag, master_mask, imr>>
          /\ stage = "pit" /\ stage' \in {"register_timer", "failed"}
      BY <1>5, Zenon DEF pit_configure, ForegroundStep, Check
    <2> QED  BY <1>2, <2>1, Lines, Moduli, Zenon DEF TimerSetUp, InLoop, Reading
  <1>6. ASSUME NEW irq \in Irqs, NEW handler \in Handlers, NEW here, NEW there,
               irq_register_handler(irq, handler, here, there),
               \/ irq = 0 /\ handler = "pit_handle_irq" /\ here = "register_timer"
                  /\ there = "register_keyboard"
               \/ irq # 0 /\ handler # "pit_handle_irq" /\ here = "register_keyboard"
                  /\ there = "enable_timer"
        PROVE  /\ handlers' \in [Irqs -> Handlers] /\ counts' \in [Irqs -> Counter]
               /\ tick_count' \in Counter /\ tick_count' = counts'[0] /\ IF_flag' \in BOOLEAN
               /\ TimerSetUp' /\ stage' \notin Reading
    <2>1. /\ UNCHANGED <<counts, tick_count, IF_flag, master_mask, imr>>
          /\ stage = here
          /\ \/ stage' = "failed" /\ handlers' = handlers
             \/ stage' = there /\ handlers' = [handlers EXCEPT ![irq] = handler]
      BY <1>6, Zenon DEF irq_register_handler, ForegroundStep, Check
    <2>2. /\ handlers' \in [Irqs -> Handlers]
          /\ stage' = there => handlers'[0] = "pit_handle_irq"
          /\ \A i \in Irqs \ {0} : handlers'[i] # "pit_handle_irq"
      <3>1. CASE handlers' = handlers /\ stage' = "failed"
        BY <1>2, <1>6, <3>1, Zenon DEF TimerSetUp
      <3>2. CASE handlers' = [handlers EXCEPT ![irq] = handler]
        <4>1. irq # 0 => handlers[0] = "pit_handle_irq"
          BY <1>2, <1>6, <2>1, Zenon DEF TimerSetUp
        <4> QED  BY <1>2, <1>6, <3>2, <4>1, Lines, Zenon DEF TimerSetUp
      <3> QED  BY <2>1, <3>1, <3>2, Zenon
    <2> QED  BY <1>2, <1>6, <2>1, <2>2, Zenon DEF TimerSetUp, InLoop, Reading
  <1>7. CASE irq_register_handler(0, "pit_handle_irq", "register_timer", "register_keyboard")
    BY <1>6, <1>7, Lines, Zenon DEF Handlers
  <1>8. CASE irq_register_handler(1, "keyboard_handle_irq", "register_keyboard",
                                  "enable_timer")
    <2>1. 1 # 0 /\ "keyboard_handle_irq" # "pit_handle_irq"
      OBVIOUS
    <2> QED  BY <1>6, <1>8, <2>1, Lines, Zenon DEF Handlers
  <1>9. ASSUME NEW irq \in {0, 1}, NEW here, NEW there,
               irq_set_enabled(irq, here, there),
               \/ irq = 0 /\ here = "enable_timer" /\ there = "enable_keyboard"
               \/ irq # 0 /\ here = "enable_keyboard" /\ there = "check_mask"
        PROVE  /\ handlers' \in [Irqs -> Handlers] /\ counts' \in [Irqs -> Counter]
               /\ tick_count' \in Counter /\ tick_count' = counts'[0] /\ IF_flag' \in BOOLEAN
               /\ TimerSetUp' /\ stage' \notin Reading
    <2>1. irq < PIC_SLAVE_IRQ_BASE
      BY DEF PIC_SLAVE_IRQ_BASE
    <2>2. /\ UNCHANGED <<handlers, counts, tick_count, IF_flag>>
          /\ stage = here /\ stage' = there
          /\ master_mask' = master_mask \ {irq}
          /\ imr' = (imr \cap Slave) \cup master_mask'
      BY <1>9, <2>1, Lines, Zenon DEF irq_set_enabled, ForegroundStep, Check
    <2>3. 0 \notin master_mask' /\ 0 \notin imr'
      <3>1. irq # 0 => 0 \notin master_mask
        BY <1>2, <1>9, <2>2, Zenon DEF TimerSetUp
      <3> QED  BY <2>2, <3>1, Lines, Zenon
    <2> QED  BY <1>2, <1>9, <2>2, <2>3, Zenon DEF TimerSetUp, InLoop, Reading
  <1>10. CASE \/ irq_set_enabled(0, "enable_timer", "enable_keyboard")
              \/ irq_set_enabled(1, "enable_keyboard", "check_mask")
    <2>1. 1 # 0
      OBVIOUS
    <2> QED  BY <1>9, <1>10, <2>1, Zenon
  <1>11. CASE boot_sti
    <2>1. /\ UNCHANGED <<handlers, counts, tick_count, master_mask, imr>>
          /\ stage = "sti" /\ stage' = "loop" /\ IF_flag' = TRUE
      BY <1>11, Zenon DEF boot_sti, ForegroundStep, softVars
    <2> QED  BY <1>2, <2>1, Zenon DEF TimerSetUp, InLoop, Reading
  <1> QED  BY <1>3, <1>4, <1>5, <1>7, <1>8, <1>10, <1>11, Zenon DEF boot

(* The loads of system_status_read, and the hlt of the main loop. *)
LEMMA ReadStep == IrqInv /\ (main_loop_hlt \/ system_status_read) => IrqInv'
  <1> SUFFICES ASSUME IrqInv, main_loop_hlt \/ system_status_read PROVE IrqInv'
    BY Zenon
  <1>1. /\ UNCHANGED <<isr, handlers, counts, tick_count, master_mask, imr, irr, IF_flag>>
        /\ stage \in InLoop /\ stage' \in InLoop
        /\ ~ IF_flag \/ Acceptable = {}
    BY Zenon DEF main_loop_hlt, system_status_read, status_begin, status_read,
         status_return, ForegroundStep, softVars, InLoop
  <1>2. IrqInv /\ TimerSetUp /\ SnapshotInv /\ IF_flag
    BY <1>1, Zenon DEF IrqInv, TimerSetUp
  <1>3. TimerSetUp'
    BY <1>1, <1>2, Zenon DEF TimerSetUp, InLoop
  <1> SUFFICES /\ snapshot' \in [pit_ticks : Counter, irq0_count : Counter]
               /\ since' \in Counter /\ burst' \in 0 .. MaxBurst /\ SnapshotInv'
    BY <1>1, <1>2, <1>3, Zenon DEF IrqInv
  <1>4. /\ snapshot \in [pit_ticks : Counter, irq0_count : Counter]
        /\ since \in Counter /\ burst \in 0 .. MaxBurst
        /\ tick_count = counts[0] /\ tick_count \in Counter /\ counts[0] \in Counter
    BY Lines, Zenon DEF IrqInv
  <1>5. CASE main_loop_hlt
    <2>1. burst' = 0 /\ stage' = "halted" /\ UNCHANGED <<snapshot, since>>
      BY <1>5, Zenon DEF main_loop_hlt, ForegroundStep, statusVars
    <2>2. 0 \in 0 .. MaxBurst
      BY Moduli
    <2> QED  BY <1>4, <2>1, <2>2, Zenon DEF SnapshotInv, Reading
  <1>6. CASE status_begin
    <2>1. burst' = 0 /\ stage' = "first" /\ snapshot' = snapshot /\ since' = tick_count
      BY <1>6, Zenon DEF status_begin, ForegroundStep
    <2>2. 0 \in 0 .. MaxBurst
      BY Moduli
    <2>3. 0 \notin irr'
      BY <1>1, <1>2, TimerFirst, Zenon DEF IrqInv, TimerSetUp
    <2>4. Since(counts[0])' = 0
      <3>1. Since(counts[0])' = Apart(tick_count, tick_count, CounterMod)
        BY <1>1, <1>4, <2>1, Zenon DEF Since, Apart
      <3> QED  BY <1>4, <3>1, Moduli, ApartZero, Zenon DEF Counter
    <2>5. Since(counts[0])' + (IF 0 \in irr' THEN 1 ELSE 0) <= burst'
      BY <2>1, <2>3, <2>4
    <2> QED  BY <1>4, <2>1, <2>2, <2>5, Zenon DEF SnapshotInv, Reading
  <1>7. CASE status_read(1, "first", "second")
    <2>1. /\ UNCHANGED <<burst, since>> /\ stage = "first" /\ stage' = "second"
          /\ snapshot' = [snapshot EXCEPT !["pit_ticks"] = tick_count]
      BY <1>7, Zenon DEF status_read, ForegroundStep, StatusOrder
    <2>2. /\ snapshot' \in [pit_ticks : Counter, irq0_count : Counter]
          /\ snapshot'.pit_ticks = counts[0]
      BY <1>4, <2>1, Zenon
    <2>3. Since(counts[0])' = Since(counts[0]) /\ Since(snapshot.pit_ticks)' = Since(counts[0])
      BY <1>1, <2>1, <2>2, Zenon DEF Since
    <2>4. Since(counts[0]) <= Since(counts[0])
      BY <1>4, SinceNat
    <2>5. Since(counts[0]) + (IF 0 \in irr THEN 1 ELSE 0) <= burst
      BY <1>2, <2>1, Zenon DEF SnapshotInv, Reading
    <2> QED  BY <1>1, <1>4, <2>1, <2>2, <2>3, <2>4, <2>5, Zenon DEF SnapshotInv, Reading
  <1>8. CASE status_read(2, "second", "return")
    <2>1. /\ UNCHANGED <<burst, since>> /\ stage = "second" /\ stage' = "return"
          /\ snapshot' = [snapshot EXCEPT !["irq0_count"] = counts[0]]
      BY <1>8, Zenon DEF status_read, ForegroundStep, StatusOrder
    <2>2. /\ snapshot' \in [pit_ticks : Counter, irq0_count : Counter]
          /\ snapshot'.pit_ticks = snapshot.pit_ticks /\ snapshot'.irq0_count = counts[0]
      BY <1>4, <2>1, Zenon
    <2>3. /\ Since(counts[0])' = Since(counts[0]) /\ Since(snapshot.irq0_count)' = Since(counts[0])
          /\ Since(snapshot.pit_ticks)' = Since(snapshot.pit_ticks)
      BY <1>1, <2>1, <2>2, Zenon DEF Since
    <2>4. Since(counts[0]) <= Since(counts[0])
      BY <1>4, SinceNat
    <2>5. /\ Since(counts[0]) + (IF 0 \in irr THEN 1 ELSE 0) <= burst
          /\ Since(snapshot.pit_ticks) <= Since(counts[0])
      BY <1>2, <2>1, Zenon DEF SnapshotInv, Reading
    <2> QED  BY <1>1, <1>4, <2>1, <2>2, <2>3, <2>4, <2>5, Zenon DEF SnapshotInv, Reading
  <1>9. CASE status_return
    <2>1. /\ snapshot' = [pit_ticks |-> 0, irq0_count |-> 0] /\ since' = 0
          /\ burst' = burst /\ stage' = "loop"
      BY <1>9, Zenon DEF status_return, ForegroundStep
    <2> QED  BY <1>4, <2>1, Moduli, Zenon DEF SnapshotInv, Reading
  <1> QED  BY <1>5, <1>6, <1>7, <1>8, <1>9, Zenon DEF system_status_read

(* The devices raise and drop lines. *)
LEMMA DeviceStep ==
  ASSUME IrqInv, timer_edge \/ timer_drop \/ key_byte \/ disk_edge \/ UNCHANGED irqVars
  PROVE  IrqInv'
  <1>1. UNCHANGED <<softVars, imr, isr, IF_flag, stage, statusVars>>
    BY Zenon DEF timer_edge, timer_drop, key_byte, disk_edge, Device, irqVars, picVars
  <1>2. UNCHANGED <<isr, handlers, counts, tick_count, master_mask, imr, IF_flag, stage,
                    snapshot, since>>
    BY <1>1, Zenon DEF softVars, statusVars
  <1>3. /\ Since(counts[0])' = Since(counts[0])
        /\ Since(snapshot.pit_ticks)' = Since(snapshot.pit_ticks)
        /\ Since(snapshot.irq0_count)' = Since(snapshot.irq0_count)
    BY <1>2, Zenon DEF Since
  <1>4. TimerSetUp'
    BY <1>2, Zenon DEF IrqInv, TimerSetUp
  <1>5. /\ burst' \in 0 .. MaxBurst
        /\ \/ burst' = burst + 1
           \/ burst' = burst /\ (0 \in irr' => 0 \in irr)
    <2>1. \/ burst < MaxBurst /\ burst' = burst + 1
          \/ burst' = burst /\ (0 \in irr' => 0 \in irr)
      BY DEF timer_edge, timer_drop, key_byte, disk_edge, irqVars, picVars
    <2>2. burst \in 0 .. MaxBurst
      BY Zenon DEF IrqInv
    <2> QED  BY <2>1, <2>2, Moduli
  <1>6. stage \in Reading => Since(counts[0]) + (IF 0 \in irr' THEN 1 ELSE 0) <= burst'
    <2> SUFFICES ASSUME stage \in Reading
                 PROVE  Since(counts[0]) + (IF 0 \in irr' THEN 1 ELSE 0) <= burst'
      BY Zenon
    <2>1. Since(counts[0]) + (IF 0 \in irr THEN 1 ELSE 0) <= burst /\ burst \in 0 .. MaxBurst
      BY Zenon DEF IrqInv, SnapshotInv
    <2>2. Since(counts[0]) \in Nat
      BY Lines, SinceNat, Zenon DEF IrqInv
    <2> QED  BY <1>5, <2>1, <2>2, Moduli
  <1>7. SnapshotInv'
    BY <1>2, <1>3, <1>6, Zenon DEF IrqInv, SnapshotInv
  <1> QED  BY <1>2, <1>4, <1>5, <1>7, Zenon DEF IrqInv

(* The invariant of the dispatcher's set-up and of the status snapshot. *)
THEOREM IrqInvariance == IrqSpec => []IrqInv
  <1>1. IrqInv /\ [IrqNext]_irqVars => IrqInv'
    BY InterruptStep, BootStep, ReadStep, DeviceStep, Zenon DEF IrqNext, cpu
  <1> QED  BY <1>1, InitIrqInv, PTL DEF IrqSpec

(* A snapshot of system_status_read is consistent, for every counter width *)
(* and however many timer interrupts come between its loads, as long as    *)
(* they are fewer than the counters can tell apart.                        *)
THEOREM SnapshotIsConsistent == IrqSpec => []SnapshotConsistent
  <1>1. IrqInv => SnapshotConsistent
    <2> SUFFICES ASSUME IrqInv, stage = "return" PROVE SnapshotConsistent
      BY Zenon DEF SnapshotConsistent
    <2>1. Since(counts[0]) + (IF 0 \in irr THEN 1 ELSE 0) <= burst /\ burst \in 0 .. MaxBurst
      BY Zenon DEF IrqInv, SnapshotInv, Reading
    <2>2. Since(counts[0]) \in Nat
      BY Lines, SinceNat, Zenon DEF IrqInv
    <2>3. Since(counts[0]) <= burst
      BY <2>1, <2>2
    <2> QED  BY <2>3, Zenon DEF IrqInv, SnapshotInv, SnapshotConsistent
  <1> QED  BY <1>1, IrqInvariance, PTL

-----------------------------------------------------------------------------
(* The endpoints of ipc.c. *)

D == IPC_QUEUE_DEPTH

(* The type of an endpoint. *)
Endpoint == [allocated : BOOLEAN,
             read_sequence : 0 .. SeqMod - 1, write_sequence : 0 .. SeqMod - 1,
             rejected_messages : 0 .. SeqMod - 1, queue : [Slots -> Message]]

(* No byte beyond the length of the message. *)
Clean(m) == \A i \in Indices : i >= m.length => m.payload[i] = 0

(* The inductive invariant: types, the bound that keeps full and empty     *)
(* apart, and clean messages in every slot, used or not.                   *)
IpcInv == /\ IpcTypeOK
          /\ PendingBounded
          /\ Clean(out)
          /\ \A e \in Endpoints : \A k \in Slots : Clean(endpoints[e].queue[k])

-----------------------------------------------------------------------------
(* The depth and the modulus as the lemmas about rings need them. *)
LEMMA RingSizes ==
  /\ D \in Nat \ {0} /\ SeqMod \in Nat \ {0} /\ SeqMod % D = 0
  /\ D < SeqMod /\ Slots = 0 .. D - 1
  BY IpcAssumption DEF D, Slots

(* message_clear and the copy of ipc_send make clean messages. *)
LEMMA ClearedClean == Cleared \in Message /\ Clean(Cleared)
  <1>1. (CHOOSE s \in Senders : TRUE) \in Senders
    BY IpcAssumption, Zenon
  <1> QED
    BY <1>1, IpcAssumption DEF Cleared, message_clear, Message, MessagesUpTo,
       Payloads, Indices, Clean

LEMMA CopyClean ==
  ASSUME NEW m \in CallerMessage, ~ TooLong(m)
  PROVE  Copy(m) \in Message /\ Clean(Copy(m))
  BY IpcAssumption, SMTT(30) DEF CallerMessage, MessagesUpTo, TooLong, Copy, Message,
     Payloads, Indices, Clean

(* The difference of the sequence numbers as the ring lemmas write it. *)
LEMMA PendingIsApart ==
  \A s : Pending(s) = Apart(s.write_sequence, s.read_sequence, SeqMod)
  BY Zenon DEF Pending, Apart

(* It is a number, *)
LEMMA PendingType == \A s \in Endpoint : Pending(s) \in 0 .. SeqMod - 1 /\ Pending(s) \in Nat
  <1> SUFFICES ASSUME NEW s \in Endpoint
               PROVE  Pending(s) \in 0 .. SeqMod - 1 /\ Pending(s) \in Nat
    BY Zenon
  <1>1. s.write_sequence \in 0 .. SeqMod - 1 /\ s.read_sequence \in 0 .. SeqMod - 1
    BY Zenon DEF Endpoint
  <1>2. Apart(s.write_sequence, s.read_sequence, SeqMod) \in 0 .. SeqMod - 1
    BY <1>1, RingSizes, ApartCases, Zenon
  <1>3. Pending(s) \in 0 .. SeqMod - 1
    BY <1>2, PendingIsApart, Zenon
  <1> QED  BY <1>3

(* A fresh endpoint. *)
LEMMA FreshEndpoint ==
  /\ Fresh \in Endpoint
  /\ Pending(Fresh) = 0
  /\ \A k \in Slots : Clean(Fresh.queue[k])
  <1>1. 0 \in 0 .. SeqMod - 1
    BY RingSizes
  <1>2. Fresh \in Endpoint /\ \A k \in Slots : Clean(Fresh.queue[k])
    BY <1>1, ClearedClean, Zenon DEF Fresh, Endpoint
  <1>3. Pending(Fresh) = Apart(0, 0, SeqMod)
    BY PendingIsApart, Zenon DEF Fresh
  <1>4. Apart(0, 0, SeqMod) = 0
    BY <1>1, RingSizes, ApartZero, Zenon
  <1> QED  BY <1>2, <1>3, <1>4, Zenon

(* TypeOK says that every endpoint has its type. *)
LEMMA TypeOKEndpoint ==
  IpcTypeOK <=> /\ endpoints \in [Endpoints -> Endpoint]
             /\ out \in Message /\ ok \in BOOLEAN
  BY Zenon DEF IpcTypeOK, Endpoint

(* The endpoint ipc_endpoint_create opens. *)
Opened(s) == [s EXCEPT !.allocated = TRUE, !.read_sequence = 0,
                       !.write_sequence = 0, !.rejected_messages = 0]

(* An endpoint after a successful send, a rejected send and a receive. *)
Sent(s, m) == [s EXCEPT !.queue[s.write_sequence % D] = m,
                        !.write_sequence = (@ + 1) % SeqMod]
Rejected(s) == [s EXCEPT !.rejected_messages = (@ + 1) % SeqMod]
Received(s) == [s EXCEPT !.read_sequence = (@ + 1) % SeqMod]

(* What a stored message does to a ring that is not full. *)
LEMMA SentEndpoint ==
  ASSUME NEW s \in Endpoint, Pending(s) < D, NEW m \in Message,
         NEW t, t = Sent(s, m)
  PROVE  /\ t \in Endpoint
         /\ Pending(t) = Pending(s) + 1
         /\ s.write_sequence % D \in Slots
         /\ t.queue = [s.queue EXCEPT ![s.write_sequence % D] = m]
         /\ t.read_sequence = s.read_sequence
         /\ t.write_sequence = (s.write_sequence + 1) % SeqMod
         /\ t.allocated = s.allocated /\ t.rejected_messages = s.rejected_messages
  <1> DEFINE w == s.write_sequence
             r == s.read_sequence
  <1>1. w \in 0 .. SeqMod - 1 /\ r \in 0 .. SeqMod - 1 /\ s.queue \in [Slots -> Message]
    BY Zenon DEF Endpoint
  <1>2. /\ (w + 1) % SeqMod \in 0 .. SeqMod - 1
        /\ Apart((w + 1) % SeqMod, r, SeqMod) = Apart(w, r, SeqMod) + 1
    <2>1. Apart(w, r, SeqMod) + 1 < SeqMod
      <3>1. Apart(w, r, SeqMod) < D
        BY PendingIsApart, Zenon
      <3>2. D \in Nat /\ SeqMod \in Nat \ {0} /\ D < SeqMod
        BY RingSizes, Zenon
      <3>3. Apart(w, r, SeqMod) \in 0 .. SeqMod - 1
        BY <1>1, <3>2, ApartCases, Zenon
      <3> QED  BY <3>1, <3>2, <3>3
    <2> QED  BY <1>1, <2>1, RingSizes, ExtendApart, Zenon
  <1>3. w % D \in Slots
    <2>1. w \in Nat
      BY <1>1
    <2> QED  BY <2>1, RingSizes, DivMod, Zenon
  <1>4. /\ t.queue = [s.queue EXCEPT ![w % D] = m]
        /\ t.read_sequence = r /\ t.write_sequence = (w + 1) % SeqMod
        /\ t.allocated = s.allocated /\ t.rejected_messages = s.rejected_messages
    BY Zenon DEF Endpoint, Sent
  <1>5. t \in Endpoint
    BY <1>1, <1>2, <1>3, Zenon DEF Endpoint, Sent
  <1>6. Pending(t) = Pending(s) + 1
    BY <1>2, <1>4, PendingIsApart, Zenon
  <1> QED  BY <1>3, <1>4, <1>5, <1>6, Zenon

(* What reading a message does to a ring that is not empty. *)
LEMMA ReceivedEndpoint ==
  ASSUME NEW s \in Endpoint, s.read_sequence # s.write_sequence,
         NEW t, t = Received(s)
  PROVE  /\ t \in Endpoint
         /\ Pending(t) = Pending(s) - 1 /\ Pending(s) \in Nat /\ Pending(s) > 0
         /\ s.read_sequence % D \in Slots
         /\ t.queue = s.queue
         /\ t.read_sequence = (s.read_sequence + 1) % SeqMod
         /\ t.allocated = s.allocated /\ t.rejected_messages = s.rejected_messages
  <1> DEFINE w == s.write_sequence
             r == s.read_sequence
  <1>1. w \in 0 .. SeqMod - 1 /\ r \in 0 .. SeqMod - 1
    BY Zenon DEF Endpoint
  <1>2. /\ (r + 1) % SeqMod \in 0 .. SeqMod - 1
        /\ Apart(w, (r + 1) % SeqMod, SeqMod) = Apart(w, r, SeqMod) - 1
        /\ Apart(w, r, SeqMod) >= 1
    BY <1>1, RingSizes, AdvanceApart, Zenon
  <1>3. Apart(w, r, SeqMod) \in Nat /\ Apart(w, r, SeqMod) > 0
    <2>1. Apart(w, r, SeqMod) \in 0 .. SeqMod - 1
      BY <1>1, RingSizes, ApartCases, Zenon
    <2> QED  BY <1>2, <2>1
  <1>4. r % D \in Slots
    <2>1. r \in Nat
      BY <1>1
    <2> QED  BY <2>1, RingSizes, DivMod, Zenon
  <1>5. /\ t.queue = s.queue /\ t.write_sequence = w
        /\ t.read_sequence = (r + 1) % SeqMod
        /\ t.allocated = s.allocated /\ t.rejected_messages = s.rejected_messages
    BY Zenon DEF Endpoint, Received
  <1>6. t \in Endpoint
    BY <1>2, Zenon DEF Endpoint, Received
  <1>7. Pending(t) = Pending(s) - 1 /\ Pending(s) \in Nat /\ Pending(s) > 0
    BY <1>2, <1>3, <1>5, PendingIsApart, Zenon
  <1> QED  BY <1>4, <1>5, <1>6, <1>7, Zenon

-----------------------------------------------------------------------------
(* A step that gives one endpoint a good new state keeps the invariant. *)
LEMMA EndpointStep ==
  ASSUME IpcInv, NEW e \in Endpoints, NEW t \in Endpoint, Pending(t) <= D,
         \A k \in Slots : Clean(t.queue[k]),
         endpoints' = [endpoints EXCEPT ![e] = t],
         out' \in Message, Clean(out'), ok' \in BOOLEAN
  PROVE  IpcInv'
  <1>1. endpoints \in [Endpoints -> Endpoint]
    BY TypeOKEndpoint, Zenon DEF IpcInv
  <1>2. endpoints' \in [Endpoints -> Endpoint]
    BY <1>1, Zenon
  <1>3. IpcTypeOK'
    BY <1>2, Zenon DEF IpcTypeOK, Endpoint
  <1>4. \A x \in Endpoints : endpoints'[x] = IF x = e THEN t ELSE endpoints[x]
    BY <1>1, Zenon
  <1>5. PendingBounded'
    BY <1>4, Zenon DEF IpcInv, PendingBounded, D, Pending
  <1>6. \A x \in Endpoints : \A k \in Slots : Clean(endpoints'[x].queue[k])
    BY <1>4, Zenon DEF IpcInv
  <1>7. Clean(out)' /\ (\A x \in Endpoints : \A k \in Slots : Clean(endpoints[x].queue[k]))'
    BY <1>6, Zenon DEF Clean
  <1> QED  BY <1>3, <1>5, <1>7, Zenon DEF IpcInv

(* The states of endpoints the table holds. *)
LEMMA EndpointFacts ==
  ASSUME IpcInv, NEW e \in Endpoints
  PROVE  /\ endpoints[e] \in Endpoint /\ Pending(endpoints[e]) <= D
         /\ \A k \in Slots : Clean(endpoints[e].queue[k]) /\ endpoints[e].queue[k] \in Message
         /\ out \in Message /\ Clean(out)
  <1>1. endpoints[e] \in Endpoint /\ out \in Message
    BY TypeOKEndpoint, Zenon DEF IpcInv
  <1> QED  BY <1>1, Zenon DEF IpcInv, PendingBounded, D, Endpoint

(* ipc_init and the initial state: all endpoints are fresh. *)
LEMMA FreshTable ==
  ASSUME NEW table, table = [e \in Endpoints |-> Fresh]
  PROVE  /\ table \in [Endpoints -> Endpoint]
         /\ \A e \in Endpoints : table[e] = Fresh
  BY FreshEndpoint, Zenon

LEMMA IpcInitStep == IpcInit => IpcInv
  <1> SUFFICES ASSUME IpcInit PROVE IpcInv
    BY Zenon
  <1>1. endpoints \in [Endpoints -> Endpoint] /\ \A e \in Endpoints : endpoints[e] = Fresh
    BY FreshTable, Zenon DEF IpcInit
  <1>2. IpcTypeOK
    BY <1>1, ClearedClean, TypeOKEndpoint, Zenon DEF IpcInit
  <1>3. PendingBounded
    BY <1>1, FreshEndpoint, RingSizes DEF PendingBounded, D
  <1> QED  BY <1>1, <1>2, <1>3, ClearedClean, FreshEndpoint, Zenon DEF IpcInit, IpcInv

-----------------------------------------------------------------------------
(* The calls that change something, endpoint by endpoint. *)
LEMMA NextCases ==
  ASSUME IpcInv, IpcNext
  PROVE  \/ ipc_init
         \/ fail
         \/ \E e \in Endpoints :
              /\ ~ endpoints[e].allocated
              /\ endpoints' = [endpoints EXCEPT ![e] = Opened(endpoints[e])]
              /\ ok' = TRUE /\ out' = out
         \/ \E e \in Endpoints :
              /\ endpoints[e].allocated
              /\ \/ \E m \in CallerMessage :
                      /\ ~ TooLong(m) /\ ~ IsFull(endpoints[e])
                      /\ endpoints' = [endpoints EXCEPT ![e] = Sent(endpoints[e], Copy(m))]
                      /\ ok' = TRUE /\ out' = out
                 \/ /\ IsFull(endpoints[e])
                    /\ endpoints' = [endpoints EXCEPT ![e] = Rejected(endpoints[e])]
                    /\ ok' = FALSE /\ out' = out
                 \/ /\ endpoints[e].read_sequence # endpoints[e].write_sequence
                    /\ out' = endpoints[e].queue[endpoints[e].read_sequence % D]
                    /\ endpoints' = [endpoints EXCEPT ![e] = Received(endpoints[e])]
                    /\ ok' = TRUE
  <1>1. endpoints \in [Endpoints -> Endpoint]
    BY TypeOKEndpoint, Zenon DEF IpcInv
  <1>2. CASE ipc_init
    BY <1>2, Zenon
  <1>3. CASE ipc_endpoint_create
    <2> DEFINE free == {x \in Endpoints : ~ endpoints[x].allocated}
    <2>1. CASE free = {}
      BY <1>3, <2>1, Zenon DEF ipc_endpoint_create
    <2>2. CASE free # {}
      <3>1. PICK e \in free :
               /\ endpoints' = [endpoints EXCEPT ![e] =
                     [@ EXCEPT !.allocated = TRUE, !.read_sequence = 0,
                               !.write_sequence = 0, !.rejected_messages = 0]]
               /\ ok' = TRUE /\ UNCHANGED out
        BY <1>3, <2>2, Zenon DEF ipc_endpoint_create
      <3>2. /\ endpoints' = [endpoints EXCEPT ![e] = Opened(endpoints[e])]
            /\ ok' = TRUE /\ out' = out
        BY <1>1, <3>1, Zenon DEF Opened
      <3> QED  BY <3>1, <3>2, Zenon
    <2> QED  BY <2>1, <2>2, ZenonT(40)
  <1>4. ASSUME NEW e \in Endpoints \cup {IPC_INVALID_ENDPOINT},
               NEW m \in CallerMessage \cup {NULL}, ipc_send(e, m), ~ fail
        PROVE  /\ e \in Endpoints /\ endpoints[e].allocated
               /\ \/ /\ m \in CallerMessage /\ ~ TooLong(m) /\ ~ IsFull(endpoints[e])
                     /\ endpoints' = [endpoints EXCEPT ![e] = Sent(endpoints[e], Copy(m))]
                     /\ ok' = TRUE /\ out' = out
                  \/ /\ IsFull(endpoints[e])
                     /\ endpoints' = [endpoints EXCEPT ![e] = Rejected(endpoints[e])]
                     /\ ok' = FALSE /\ out' = out
    <2>1. /\ endpoint_is_valid(e) /\ m # NULL /\ ~ TooLong(m)
      BY <1>4, Zenon DEF ipc_send
    <2>2. e \in Endpoints /\ endpoints[e].allocated /\ m \in CallerMessage
      BY <2>1, Zenon DEF endpoint_is_valid
    <2>3. CASE IsFull(endpoints[e])
      <3>1. /\ endpoints' = [endpoints EXCEPT ![e].rejected_messages = (@ + 1) % SeqMod]
            /\ ok' = FALSE /\ out' = out
        BY <1>4, <2>1, <2>3, Zenon DEF ipc_send
      <3> QED  BY <1>1, <2>2, <2>3, <3>1, Zenon DEF Rejected
    <2>4. CASE ~ IsFull(endpoints[e])
      <3>1. /\ endpoints' = [endpoints EXCEPT
                 ![e].queue[endpoints[e].write_sequence % IPC_QUEUE_DEPTH] = Copy(m),
                 ![e].write_sequence = (@ + 1) % SeqMod]
            /\ ok' = TRUE /\ out' = out
        BY <1>4, <2>1, <2>4, Zenon DEF ipc_send
      <3>2. endpoints' = [endpoints EXCEPT ![e] = Sent(endpoints[e], Copy(m))]
        BY <1>1, <2>2, <3>1, Zenon DEF Sent, D, Endpoint
      <3> QED  BY <2>1, <2>2, <2>4, <3>1, <3>2, Zenon
    <2> QED  BY <2>3, <2>4, Zenon
  <1>5. ASSUME NEW e \in Endpoints \cup {IPC_INVALID_ENDPOINT},
               NEW outIsNull \in BOOLEAN, ipc_receive(e, outIsNull), ~ fail
        PROVE  /\ e \in Endpoints /\ endpoints[e].allocated
               /\ endpoints[e].read_sequence # endpoints[e].write_sequence
               /\ out' = endpoints[e].queue[endpoints[e].read_sequence % D]
               /\ endpoints' = [endpoints EXCEPT ![e] = Received(endpoints[e])]
               /\ ok' = TRUE
    <2>1. endpoint_is_valid(e) /\ endpoints[e].read_sequence # endpoints[e].write_sequence
      BY <1>5, Zenon DEF ipc_receive
    <2>2. e \in Endpoints /\ endpoints[e].allocated
      BY <2>1, Zenon DEF endpoint_is_valid
    <2>3. /\ out' = endpoints[e].queue[endpoints[e].read_sequence % D]
          /\ endpoints' = [endpoints EXCEPT ![e].read_sequence = (@ + 1) % SeqMod]
          /\ ok' = TRUE
      BY <1>5, <2>1, Zenon DEF ipc_receive, fail, D
    <2> QED  BY <1>1, <2>1, <2>2, <2>3, Zenon DEF Received
  <1> QED  BY <1>2, <1>3, <1>4, <1>5, Zenon DEF IpcNext

(* The endpoint ipc_endpoint_create opens is empty. *)
LEMMA OpenedEndpoint ==
  ASSUME NEW s \in Endpoint
  PROVE  /\ Opened(s) \in Endpoint /\ Pending(Opened(s)) = 0
         /\ Opened(s).queue = s.queue /\ Opened(s).allocated = TRUE
         /\ Opened(s).rejected_messages = 0
  <1>1. 0 \in 0 .. SeqMod - 1 /\ SeqMod \in Nat \ {0}
    BY RingSizes
  <1>2. /\ Opened(s) \in Endpoint /\ Opened(s).queue = s.queue
        /\ Opened(s).allocated = TRUE /\ Opened(s).rejected_messages = 0
        /\ Opened(s).read_sequence = 0 /\ Opened(s).write_sequence = 0
    BY <1>1, Zenon DEF Opened, Endpoint
  <1>3. Apart(0, 0, SeqMod) = 0
    BY <1>1, ApartZero, Zenon
  <1> QED  BY <1>2, <1>3, PendingIsApart, Zenon

(* A rejected send touches the counter only. *)
LEMMA RejectedEndpoint ==
  ASSUME NEW s \in Endpoint
  PROVE  /\ Rejected(s) \in Endpoint /\ Pending(Rejected(s)) = Pending(s)
         /\ Rejected(s).queue = s.queue /\ Rejected(s).allocated = s.allocated
         /\ Rejected(s).read_sequence = s.read_sequence
         /\ Rejected(s).rejected_messages = (s.rejected_messages + 1) % SeqMod
  <1>1. (s.rejected_messages + 1) % SeqMod \in 0 .. SeqMod - 1
    <2>1. s.rejected_messages + 1 \in Nat
      BY DEF Endpoint
    <2> QED  BY <2>1, RingSizes, DivMod, Zenon
  <1>2. /\ Rejected(s).queue = s.queue /\ Rejected(s).allocated = s.allocated
        /\ Rejected(s).read_sequence = s.read_sequence
        /\ Rejected(s).write_sequence = s.write_sequence
        /\ Rejected(s).rejected_messages = (s.rejected_messages + 1) % SeqMod
    BY Zenon DEF Rejected, Endpoint
  <1>3. Rejected(s) \in Endpoint
    BY <1>1, Zenon DEF Rejected, Endpoint
  <1>4. Pending(Rejected(s)) = Pending(s)
    BY <1>2, PendingIsApart, Zenon
  <1> QED  BY <1>2, <1>3, <1>4, Zenon

-----------------------------------------------------------------------------
(* Every step keeps the inductive invariant. *)
LEMMA IpcNextStep == IpcInv /\ [IpcNext]_ipcVars => IpcInv'
  <1> SUFFICES ASSUME IpcInv, [IpcNext]_ipcVars PROVE IpcInv'
    BY Zenon
  <1>1. ASSUME endpoints' = endpoints, out' = out, ok' \in BOOLEAN PROVE IpcInv'
    BY <1>1, Zenon DEF IpcInv, IpcTypeOK, PendingBounded, Pending, Clean
  <1>2. CASE UNCHANGED ipcVars
    BY <1>1, <1>2, Zenon DEF ipcVars, IpcInv, IpcTypeOK
  <1>3. CASE fail
    BY <1>1, <1>3, Zenon DEF fail
  <1>4. CASE ipc_init
    <2>1. /\ endpoints' \in [Endpoints -> Endpoint]
          /\ \A e \in Endpoints : endpoints'[e] = Fresh
      BY <1>4, FreshTable, Zenon DEF ipc_init
    <2>2. IpcTypeOK'
      BY <1>4, <2>1, Zenon DEF ipc_init, IpcInv, IpcTypeOK, Endpoint
    <2>3. \A e \in Endpoints : Pending(endpoints'[e]) <= D
      BY <2>1, FreshEndpoint, RingSizes
    <2>4. PendingBounded'
      BY <2>3, Zenon DEF PendingBounded, Pending, D
    <2>5. \A e \in Endpoints : \A k \in Slots : Clean(endpoints'[e].queue[k])
      BY <2>1, FreshEndpoint, Zenon
    <2>6. Clean(out')
      BY <1>4, Zenon DEF ipc_init, IpcInv
    <2> QED  BY <2>2, <2>4, <2>5, <2>6, Zenon DEF IpcInv, Clean
  <1>5. ASSUME NEW e \in Endpoints,
               endpoints' = [endpoints EXCEPT ![e] = Opened(endpoints[e])],
               ok' = TRUE, out' = out
        PROVE  IpcInv'
    <2> DEFINE t == Opened(endpoints[e])
    <2>1. 0 <= D
      BY RingSizes
    <2>2. t \in Endpoint /\ Pending(t) = 0 /\ t.queue = endpoints[e].queue
      BY EndpointFacts, OpenedEndpoint, Zenon
    <2>3. /\ Pending(t) <= D /\ \A k \in Slots : Clean(t.queue[k])
          /\ out' \in Message /\ Clean(out') /\ ok' \in BOOLEAN
      BY <1>5, <2>1, <2>2, EndpointFacts, Zenon
    <2> QED  BY <1>5, <2>2, <2>3, EndpointStep, Zenon
  <1>6. ASSUME NEW e \in Endpoints, NEW m \in CallerMessage,
               ~ TooLong(m), ~ IsFull(endpoints[e]),
               endpoints' = [endpoints EXCEPT ![e] = Sent(endpoints[e], Copy(m))],
               ok' = TRUE, out' = out
        PROVE  IpcInv'
    <2> DEFINE s == endpoints[e]
               t == Sent(s, Copy(m))
    <2>1. s \in Endpoint /\ out \in Message /\ Clean(out)
      BY EndpointFacts, Zenon
    <2>2. Pending(s) < D /\ Pending(s) + 1 <= D
      BY <1>6, <2>1, PendingType, RingSizes DEF IsFull, D
    <2>3. Copy(m) \in Message /\ Clean(Copy(m))
      BY <1>6, CopyClean, Zenon
    <2>4. /\ t \in Endpoint /\ Pending(t) = Pending(s) + 1
          /\ t.queue = [s.queue EXCEPT ![s.write_sequence % D] = Copy(m)]
      <3> DEFINE c == Copy(m)
      <3>1. t = Sent(s, c) /\ c \in Message
        BY <2>3, Zenon
      <3> HIDE DEF s, t, c
      <3>2. /\ t \in Endpoint /\ Pending(t) = Pending(s) + 1
            /\ t.queue = [s.queue EXCEPT ![s.write_sequence % D] = c]
        BY <2>1, <2>2, <3>1, SentEndpoint, ZenonT(40)
      <3> QED  BY <3>2, Zenon DEF c
    <2>5. \A k \in Slots : Clean(t.queue[k])
      <3>1. s.queue \in [Slots -> Message]
        BY <2>1, Zenon DEF Endpoint
      <3>2. \A k \in Slots : t.queue[k] = Copy(m) \/ t.queue[k] = s.queue[k]
        BY <2>4, <3>1, Zenon
      <3> QED  BY <2>3, <3>2, EndpointFacts, Zenon
    <2>6. Pending(t) <= D
      BY <2>2, <2>4, Zenon
    <2> QED  BY <1>6, <2>1, <2>4, <2>5, <2>6, EndpointStep, Zenon
  <1>7. ASSUME NEW e \in Endpoints,
               endpoints' = [endpoints EXCEPT ![e] = Rejected(endpoints[e])],
               ok' = FALSE, out' = out
        PROVE  IpcInv'
    <2> DEFINE t == Rejected(endpoints[e])
    <2>1. /\ t \in Endpoint /\ Pending(t) = Pending(endpoints[e])
          /\ t.queue = endpoints[e].queue
      BY EndpointFacts, RejectedEndpoint, Zenon
    <2>2. /\ Pending(t) <= D /\ \A k \in Slots : Clean(t.queue[k])
          /\ out' \in Message /\ Clean(out') /\ ok' \in BOOLEAN
      BY <1>7, <2>1, EndpointFacts, ZenonT(40)
    <2> QED  BY <1>7, <2>1, <2>2, EndpointStep, Zenon
  <1>8. ASSUME NEW e \in Endpoints,
               endpoints[e].read_sequence # endpoints[e].write_sequence,
               out' = endpoints[e].queue[endpoints[e].read_sequence % D],
               endpoints' = [endpoints EXCEPT ![e] = Received(endpoints[e])],
               ok' = TRUE
        PROVE  IpcInv'
    <2> DEFINE s == endpoints[e]
               t == Received(s)
    <2>1. s \in Endpoint /\ Pending(s) <= D
      BY EndpointFacts, Zenon
    <2>2. /\ t \in Endpoint /\ s.read_sequence % D \in Slots /\ t.queue = s.queue
          /\ Pending(t) = Pending(s) - 1 /\ Pending(s) \in Nat
      BY <1>8, <2>1, ReceivedEndpoint, Zenon
    <2>3. Pending(t) <= D
      BY <2>1, <2>2, RingSizes
    <2>4. out' \in Message /\ Clean(out')
      BY <1>8, <2>2, EndpointFacts, Zenon
    <2> QED  BY <1>8, <2>2, <2>3, <2>4, EndpointFacts, EndpointStep, Zenon
  <1> QED
    BY <1>2, <1>3, <1>4, <1>5, <1>6, <1>7, <1>8, NextCases, ZenonT(40)

(* However often the sequence numbers have wrapped around, no endpoint of  *)
(* any depth ever reports more messages than it has slots (ipc_pending).   *)
THEOREM PendingIsBounded == IpcSpec => []PendingBounded
  <1>1. IpcInv => PendingBounded
    BY Zenon DEF IpcInv
  <1> QED  BY <1>1, IpcInitStep, IpcNextStep, PTL DEF IpcSpec

(* For every payload size and depth, a received message carries no byte    *)
(* beyond its length, from its sender or from an earlier use of the slot.  *)
THEOREM NoStaleMessageBytes == IpcSpec => []NoStaleBytes
  <1>1. IpcInv => NoStaleBytes
    BY Zenon DEF IpcInv, Clean, NoStaleBytes
  <1> QED  BY <1>1, IpcInitStep, IpcNextStep, PTL DEF IpcSpec

-----------------------------------------------------------------------------
(* The refinement: the ring of an endpoint, read as message contents. *)
RingOf(s) == [k \in Slots |-> Content(s.queue[k])]

LEMMA RingType ==
  ASSUME NEW s \in Endpoint
  PROVE  /\ IsRing(RingOf(s), D)
         /\ s.read_sequence \in 0 .. SeqMod - 1 /\ s.read_sequence \in Nat
         /\ s.write_sequence \in 0 .. SeqMod - 1
         /\ Pending(s) \in Nat
  <1>1. IsRing(RingOf(s), D)
    BY RingSizes, Zenon DEF RingOf, IsRing
  <1>2. s.read_sequence \in 0 .. SeqMod - 1 /\ s.write_sequence \in 0 .. SeqMod - 1
    BY Zenon DEF Endpoint
  <1>3. s.read_sequence \in Nat
    BY <1>2
  <1> QED  BY <1>1, <1>2, <1>3, PendingType, Zenon

(* The messages in transit are a window of that ring. *)
LEMMA InTransitWindow ==
  ASSUME NEW s \in Endpoint
  PROVE  InTransit(s) = Window(RingOf(s), s.read_sequence, Pending(s), D)
  <1>1. \A i \in 1 .. Pending(s) : (s.read_sequence + i - 1) % D \in Slots
    <2> SUFFICES ASSUME NEW i \in 1 .. Pending(s)
                 PROVE  (s.read_sequence + i - 1) % D \in Slots
      BY Zenon
    <2>1. s.read_sequence + i - 1 \in Nat
      BY RingType
    <2> QED  BY <2>1, RingSizes, DivMod, Zenon
  <1>2. \A i \in 1 .. Pending(s) :
           RingOf(s)[(s.read_sequence + i - 1) % D]
             = Content(s.queue[(s.read_sequence + i - 1) % D])
    BY <1>1, Zenon DEF RingOf
  <1> QED  BY <1>2, Zenon DEF InTransit, Window, D

LEMMA InTransitLen ==
  ASSUME NEW s \in Endpoint
  PROVE  Len(InTransit(s)) = Pending(s)
  <1>1. Pending(s) \in Nat
    BY RingType, Zenon
  <1> QED  BY <1>1 DEF InTransit

(* A stored message is the newest in transit. *)
LEMMA SentChannel ==
  ASSUME NEW s \in Endpoint, Pending(s) < D, NEW m \in Message, NEW t, t = Sent(s, m)
  PROVE  InTransit(t) = Append(InTransit(s), Content(m))
  <1> DEFINE q == RingOf(s)
             r == s.read_sequence
             n == Pending(s)
             k == s.write_sequence % D
             x == Content(m)
  <1>1. /\ t \in Endpoint /\ Pending(t) = n + 1 /\ k \in Slots
        /\ t.queue = [s.queue EXCEPT ![k] = m] /\ t.read_sequence = r
    BY SentEndpoint, ZenonT(40)
  <1>2. RingOf(t) = [q EXCEPT ![k] = x]
    <2>1. s.queue \in [Slots -> Message]
      BY Zenon DEF Endpoint
    <2>2. \A j \in Slots : t.queue[j] = IF j = k THEN m ELSE s.queue[j]
      BY <1>1, <2>1, Zenon
    <2> QED  BY <2>2, Zenon DEF RingOf
  <1>3. k = (r + n) % D
    <2> DEFINE w == s.write_sequence
    <2>1. /\ w \in 0 .. SeqMod - 1 /\ r \in 0 .. SeqMod - 1
          /\ D \in Nat \ {0} /\ SeqMod \in Nat \ {0} /\ SeqMod % D = 0
      BY RingType, RingSizes, Zenon
    <2> HIDE DEF w, r
    <2>2. w % D = (r + Apart(w, r, SeqMod)) % D
      BY <2>1, ExtendSlot
    <2> QED  BY <2>2, PendingIsApart, Zenon DEF w, r
  <1>4. IsRing(q, D) /\ r \in Nat /\ n \in Nat /\ n < D /\ D \in Nat \ {0}
    BY RingType, RingSizes, Zenon
  <1>5. InTransit(s) = Window(q, r, n, D) /\ InTransit(t) = Window(RingOf(t), r, n + 1, D)
    BY <1>1, InTransitWindow, Zenon
  <1> HIDE DEF q, r, n, k, x
  <1>6. Appends(q, r, n, k, x, D)
    BY <1>3, <1>4, WindowAppend, Zenon
  <1> QED  BY <1>2, <1>5, <1>6, Zenon DEF x, Appends

(* A received message is the oldest in transit. *)
LEMMA ReceivedChannel ==
  ASSUME NEW s \in Endpoint, s.read_sequence # s.write_sequence, NEW t, t = Received(s)
  PROVE  /\ InTransit(s) # << >>
         /\ Head(InTransit(s)) = Content(s.queue[s.read_sequence % D])
         /\ InTransit(t) = Tail(InTransit(s))
  <1> DEFINE q == RingOf(s)
             r == s.read_sequence
             n == Pending(s)
             u == t.read_sequence
  <1>1. /\ t \in Endpoint /\ Pending(t) = n - 1 /\ n > 0 /\ r % D \in Slots
        /\ t.queue = s.queue /\ u = (r + 1) % SeqMod
    BY ReceivedEndpoint, Zenon
  <1>2. RingOf(t) = q /\ q[r % D] = Content(s.queue[r % D])
    BY <1>1, Zenon DEF RingOf
  <1>3. /\ IsRing(q, D) /\ r \in 0 .. SeqMod - 1 /\ n \in Nat
        /\ D \in Nat \ {0} /\ SeqMod \in Nat \ {0} /\ SeqMod % D = 0
    BY RingType, RingSizes, Zenon
  <1>4. InTransit(s) = Window(q, r, n, D) /\ InTransit(t) = Window(q, u, n - 1, D)
    BY <1>1, <1>2, InTransitWindow, Zenon
  <1> HIDE DEF q, r, n, u
  <1>5. Removes(q, r, n, u, D)
    BY <1>1, <1>3, WindowTail, Zenon
  <1> QED  BY <1>2, <1>4, <1>5, Zenon DEF r, Removes

(* Fresh and newly opened endpoints have nothing in transit. *)
LEMMA EmptyChannel ==
  ASSUME NEW s \in Endpoint, Pending(s) = 0
  PROVE  InTransit(s) = << >>
  BY InTransitWindow, WindowEmpty, Zenon

(* A rejected send leaves what is in transit alone. *)
LEMMA RejectedChannel ==
  ASSUME NEW s \in Endpoint
  PROVE  InTransit(Rejected(s)) = InTransit(s)
  <1>1. /\ Rejected(s) \in Endpoint /\ Pending(Rejected(s)) = Pending(s)
        /\ Rejected(s).queue = s.queue /\ Rejected(s).read_sequence = s.read_sequence
    BY RejectedEndpoint, Zenon
  <1> QED  BY <1>1, Zenon DEF InTransit

-----------------------------------------------------------------------------
(* The variables of MessageFifo as the refinement mapping gives them. *)
open == {e \in Endpoints : endpoints[e].allocated}
channel == [e \in Endpoints |-> InTransit(endpoints[e])]
refused == [e \in Endpoints |-> endpoints[e].rejected_messages]

(* A step that gives an endpoint the state t, seen through the mapping. *)
LEMMA MappedStep ==
  ASSUME IpcInv, NEW e \in Endpoints, NEW t, t.allocated,
         endpoints' = [endpoints EXCEPT ![e] = t]
  PROVE  /\ channel' = [channel EXCEPT ![e] = InTransit(t)]
         /\ refused' = [refused EXCEPT ![e] = t.rejected_messages]
         /\ open' = open \cup {e}
         /\ channel[e] = InTransit(endpoints[e])
         /\ refused[e] = endpoints[e].rejected_messages
  <1>1. endpoints \in [Endpoints -> Endpoint]
    BY TypeOKEndpoint, Zenon DEF IpcInv
  <1>2. endpoints'[e] = t /\ \A x \in Endpoints \ {e} : endpoints'[x] = endpoints[x]
    BY <1>1, Zenon
  <1>3. channel' = [x \in Endpoints |-> InTransit(endpoints'[x])]
    BY Zenon DEF channel, InTransit, Pending
  <1>4. channel' = [channel EXCEPT ![e] = InTransit(t)]
    <2>1. [channel EXCEPT ![e] = InTransit(t)]
            = [x \in Endpoints |-> IF x = e THEN InTransit(t) ELSE InTransit(endpoints[x])]
      BY Zenon DEF channel
    <2>2. \A x \in Endpoints :
             InTransit(endpoints'[x]) = IF x = e THEN InTransit(t) ELSE InTransit(endpoints[x])
      BY <1>2
    <2> QED  BY <1>3, <2>1, <2>2, Zenon
  <1>5. refused' = [refused EXCEPT ![e] = t.rejected_messages]
    <2>1. [refused EXCEPT ![e] = t.rejected_messages]
            = [x \in Endpoints |-> IF x = e THEN t.rejected_messages
                                   ELSE endpoints[x].rejected_messages]
      BY Zenon DEF refused
    <2>2. \A x \in Endpoints :
             endpoints'[x].rejected_messages = IF x = e THEN t.rejected_messages
                                               ELSE endpoints[x].rejected_messages
      BY <1>2
    <2> QED  BY <2>1, <2>2, Zenon DEF refused
  <1>6. open' = open \cup {e}
    BY <1>2, Zenon DEF open
  <1> QED  BY <1>4, <1>5, <1>6, Zenon DEF channel, refused

(* Fresh endpoints map to the initial state of MessageFifo. *)
LEMMA FreshMapped ==
  /\ Fresh \in Endpoint /\ InTransit(Fresh) = << >>
  /\ Fresh.allocated = FALSE /\ Fresh.rejected_messages = 0
  BY FreshEndpoint, EmptyChannel, Zenon DEF Fresh

LEMMA FifoInit == IpcInit => Fifo!Init
  <1> SUFFICES ASSUME IpcInit PROVE Fifo!Init
    BY Zenon
  <1>1. \A e \in Endpoints : endpoints[e] = Fresh
    BY FreshTable, Zenon DEF IpcInit
  <1>2. open = {} /\ channel = [e \in Endpoints |-> << >>]
    BY <1>1, FreshMapped, Zenon DEF open, channel
  <1>3. refused = [e \in Endpoints |-> 0]
    BY <1>1, FreshMapped, Zenon DEF refused
  <1>4. Content(out) \in {Content(m) : m \in Message}
    BY ClearedClean, Zenon DEF IpcInit
  <1> QED  BY <1>2, <1>3, <1>4, Zenon DEF Fifo!Init, Fifo!Closed, open, channel, refused

(* Every call is a step of MessageFifo, or changes nothing it shows, and   *)
(* reports which of the two it was.                                        *)
LEMMA FifoStep ==
  IpcInv /\ [IpcNext]_ipcVars => [Fifo!Next]_(Fifo!fifoVars) /\ [Reported]_ipcVars
  <1> DEFINE delivered == Content(out)
             AllContents == {Content(m) : m \in Message}
  <1> SUFFICES ASSUME IpcInv, [IpcNext]_ipcVars
               PROVE  [Fifo!Next]_(Fifo!fifoVars) /\ [Reported]_ipcVars
    BY Zenon
  <1>1. ASSUME endpoints' = endpoints, out' = out PROVE UNCHANGED Fifo!fifoVars
    BY <1>1, ZenonT(40) DEF Fifo!fifoVars, InTransit, Pending, Content
  <1>2. CASE UNCHANGED ipcVars
    BY <1>1, <1>2, Zenon DEF ipcVars
  <1>3. ASSUME fail PROVE Reported
    BY <1>1, <1>3, Zenon DEF fail, Reported
  <1>4. ASSUME ipc_init PROVE Reported
    <2>1. \A e \in Endpoints : endpoints'[e] = Fresh
      BY <1>4, FreshTable, Zenon DEF ipc_init
    <2>2. channel' = [e \in Endpoints |-> InTransit(endpoints'[e])]
      BY Zenon DEF channel, InTransit, Pending
    <2>3. open' = {} /\ channel' = [e \in Endpoints |-> << >>]
      BY <2>1, <2>2, FreshMapped, Zenon DEF open
    <2>4. refused' = [e \in Endpoints |-> 0]
      BY <2>1, FreshMapped, Zenon DEF refused
    <2>5. delivered' = delivered
      BY <1>4, Zenon DEF ipc_init, Content
    <2>6. Fifo!Reset
      BY <2>3, <2>4, <2>5, Zenon DEF Fifo!Reset, Fifo!Closed, open, channel, refused
    <2>7. ok'
      BY <1>4, Zenon DEF ipc_init
    <2> QED  BY <2>6, <2>7, Zenon DEF Reported, Fifo!Succeeds
  <1>5. ASSUME NEW e \in Endpoints, ~ endpoints[e].allocated,
               endpoints' = [endpoints EXCEPT ![e] = Opened(endpoints[e])], out' = out
        PROVE  Fifo!Open(e)
    <2> DEFINE t == Opened(endpoints[e])
    <2>1. t.allocated /\ t.rejected_messages = 0 /\ InTransit(t) = << >>
      BY EndpointFacts, OpenedEndpoint, EmptyChannel, Zenon
    <2>2. /\ channel' = [channel EXCEPT ![e] = << >>]
          /\ refused' = [refused EXCEPT ![e] = 0]
          /\ open' = open \cup {e}
      <3>1. /\ channel' = [channel EXCEPT ![e] = InTransit(t)]
            /\ refused' = [refused EXCEPT ![e] = t.rejected_messages]
            /\ open' = open \cup {e}
        BY <1>5, <2>1, MappedStep, Zenon
      <3> QED  BY <2>1, <3>1, Zenon
    <2>3. delivered' = delivered /\ e \notin open
      BY <1>5, Zenon DEF Content, open
    <2> QED  BY <2>2, <2>3, Zenon DEF Fifo!Open, open, channel, refused
  <1>6. ASSUME NEW e \in Endpoints, endpoints[e].allocated, NEW m \in CallerMessage,
               ~ TooLong(m), ~ IsFull(endpoints[e]),
               endpoints' = [endpoints EXCEPT ![e] = Sent(endpoints[e], Copy(m))],
               out' = out
        PROVE  \E c \in AllContents : Fifo!Send(e, c)
    <2> DEFINE s == endpoints[e]
               c == Copy(m)
               t == Sent(s, c)
    <2>1. s \in Endpoint /\ c \in Message
      BY <1>6, EndpointFacts, CopyClean, Zenon
    <2>2. Pending(s) < D /\ Len(InTransit(s)) < D
      BY <1>6, <2>1, PendingType, InTransitLen, RingSizes DEF IsFull, D
    <2>3. InTransit(t) = Append(InTransit(s), Content(c))
      <3> HIDE DEF s, c
      <3> QED  BY <2>1, <2>2, SentChannel, Zenon
    <2>4. t.allocated /\ t.rejected_messages = s.rejected_messages
      BY <1>6, <2>1, Zenon DEF Sent, Endpoint
    <2>5. /\ channel' = [channel EXCEPT ![e] = Append(channel[e], Content(c))]
          /\ refused' = refused /\ open' = open
      <3>1. /\ channel' = [channel EXCEPT ![e] = InTransit(t)]
            /\ refused' = [refused EXCEPT ![e] = t.rejected_messages]
            /\ open' = open \cup {e}
            /\ channel[e] = InTransit(s) /\ refused[e] = s.rejected_messages
        BY <1>6, <2>4, MappedStep, Zenon
      <3>2. [refused EXCEPT ![e] = refused[e]] = refused
        BY Zenon DEF refused
      <3>3. open \cup {e} = open
        BY <1>6, Zenon DEF open
      <3> QED  BY <2>3, <2>4, <3>1, <3>2, <3>3, Zenon
    <2>6. delivered' = delivered /\ e \in open /\ Len(channel[e]) < IPC_QUEUE_DEPTH
      BY <1>6, <2>2, Zenon DEF Content, open, channel, D
    <2>7. Fifo!Send(e, Content(c))
      BY <2>5, <2>6, Zenon DEF Fifo!Send, open, channel, refused
    <2> QED  BY <2>1, <2>7, Zenon
  <1>7. ASSUME NEW e \in Endpoints, endpoints[e].allocated, IsFull(endpoints[e]),
               endpoints' = [endpoints EXCEPT ![e] = Rejected(endpoints[e])], out' = out
        PROVE  Fifo!Refuse(e)
    <2> DEFINE s == endpoints[e]
               t == Rejected(s)
    <2>1. s \in Endpoint
      BY EndpointFacts, Zenon
    <2>2. Len(InTransit(s)) = D
      BY <1>7, <2>1, EndpointFacts, PendingType, InTransitLen, RingSizes DEF IsFull, D
    <2>3. /\ t.allocated /\ t.rejected_messages = (s.rejected_messages + 1) % SeqMod
          /\ InTransit(t) = InTransit(s)
      BY <1>7, <2>1, RejectedEndpoint, RejectedChannel, Zenon
    <2>4. /\ refused' = [refused EXCEPT ![e] = (refused[e] + 1) % SeqMod]
          /\ channel' = channel /\ open' = open
      <3>1. /\ channel' = [channel EXCEPT ![e] = InTransit(t)]
            /\ refused' = [refused EXCEPT ![e] = t.rejected_messages]
            /\ open' = open \cup {e}
            /\ channel[e] = InTransit(s) /\ refused[e] = s.rejected_messages
        BY <1>7, <2>3, MappedStep, Zenon
      <3>2. [channel EXCEPT ![e] = channel[e]] = channel
        BY Zenon DEF channel
      <3>3. open \cup {e} = open
        BY <1>7, Zenon DEF open
      <3> QED  BY <2>3, <3>1, <3>2, <3>3, Zenon
    <2>5. delivered' = delivered /\ e \in open /\ Len(channel[e]) = IPC_QUEUE_DEPTH
      BY <1>7, <2>2, Zenon DEF Content, open, channel, D
    <2> QED  BY <2>4, <2>5, Zenon DEF Fifo!Refuse, open, channel, refused
  <1>8. ASSUME NEW e \in Endpoints, endpoints[e].allocated,
               endpoints[e].read_sequence # endpoints[e].write_sequence,
               out' = endpoints[e].queue[endpoints[e].read_sequence % D],
               endpoints' = [endpoints EXCEPT ![e] = Received(endpoints[e])]
        PROVE  Fifo!Receive(e)
    <2> DEFINE s == endpoints[e]
               t == Received(s)
    <2>1. s \in Endpoint
      BY EndpointFacts, Zenon
    <2>2. /\ InTransit(s) # << >>
          /\ Head(InTransit(s)) = Content(s.queue[s.read_sequence % D])
          /\ InTransit(t) = Tail(InTransit(s))
      <3> HIDE DEF s
      <3>1. s.read_sequence # s.write_sequence
        BY <1>8, Zenon DEF s
      <3> QED  BY <2>1, <3>1, ReceivedChannel, Zenon
    <2>3. t.allocated /\ t.rejected_messages = s.rejected_messages
      BY <1>8, <2>1, Zenon DEF Received, Endpoint
    <2>4. /\ channel' = [channel EXCEPT ![e] = Tail(channel[e])]
          /\ refused' = refused /\ open' = open
          /\ channel[e] = InTransit(s)
      <3>1. /\ channel' = [channel EXCEPT ![e] = InTransit(t)]
            /\ refused' = [refused EXCEPT ![e] = t.rejected_messages]
            /\ open' = open \cup {e}
            /\ channel[e] = InTransit(s) /\ refused[e] = s.rejected_messages
        BY <1>8, <2>3, MappedStep, Zenon
      <3>2. [refused EXCEPT ![e] = refused[e]] = refused
        BY Zenon DEF refused
      <3>3. open \cup {e} = open
        BY <1>8, Zenon DEF open
      <3> QED  BY <2>2, <2>3, <3>1, <3>2, <3>3, Zenon
    <2>5. delivered' = Content(s.queue[s.read_sequence % D]) /\ e \in open
      BY <1>8, Zenon DEF Content, open
    <2>6. delivered' = Head(channel[e]) /\ channel[e] # << >>
      BY <2>2, <2>4, <2>5, Zenon
    <2> QED  BY <2>4, <2>5, <2>6, Zenon DEF Fifo!Receive, open, channel, refused
  <1>9. ASSUME IpcNext PROVE Reported
    BY <1>3, <1>4, <1>5, <1>6, <1>7, <1>8, <1>9, NextCases, Zenon
    DEF Reported, Fifo!Succeeds, Fifo!Fails
  <1>10. Reported => [Fifo!Next]_(Fifo!fifoVars)
    BY Zenon DEF Reported, Fifo!Next
  <1> QED  BY <1>2, <1>9, <1>10, Zenon

(* The endpoints of ipc.c are bounded FIFOs, for every number of them,     *)
(* every depth that divides the modulus of the sequence numbers, every     *)
(* payload size and however often the numbers wrap around: no message is   *)
(* lost, duplicated, reordered or delivered to another endpoint, and a     *)
(* call returns true exactly when it did what it was asked for.            *)
THEOREM RingsAreFifos == IpcSpec => ImplementsFifo
  BY IpcInitStep, IpcNextStep, FifoInit, FifoStep, PTL DEF IpcSpec, ImplementsFifo, Fifo!Spec

-----------------------------------------------------------------------------
(* The driver of keyboard.c. *)

CAP == KEYBOARD_QUEUE_CAPACITY
Sequence == 0 .. SequenceMod - 1
Fill == Distance(write_sequence, read_sequence)

(* The inductive invariant.  What an interrupted keyboard_pop_char relies  *)
(* on is stated of the buffered characters: only it removes them, so the   *)
(* first one stays first, and the one it loaded is still the first.        *)
RingOK == /\ write_sequence \in Sequence /\ read_sequence \in Sequence
          /\ character_queue \in [QueueSlots -> Stored]
          /\ Fill <= CAP
PopOK == /\ at = "init" => write_sequence = 0 /\ read_sequence = 0 /\ dropped_characters = 0
         /\ at \in {"pop_write", "pop_load", "pop_advance"} => read = read_sequence
         /\ at \in {"pop_load", "pop_advance"} => write_sequence # read_sequence
         /\ at = "pop_advance" => character = Head(Buffered)
IInv == RingOK /\ PopOK

-----------------------------------------------------------------------------
LEMMA QueueSizes ==
  /\ CAP \in Nat \ {0} /\ SequenceMod \in Nat \ {0} /\ SequenceMod % CAP = 0
  /\ CAP < SequenceMod /\ QueueSlots = 0 .. CAP - 1 /\ 0 \in Sequence
  BY KeyboardAssumption DEF CAP, QueueSlots, Sequence

(* The ring as the lemmas about rings see it. *)
LEMMA RingView ==
  ASSUME RingOK
  PROVE  /\ IsRing(character_queue, CAP)
         /\ Fill = Apart(write_sequence, read_sequence, SequenceMod)
         /\ Fill \in Sequence /\ Fill \in Nat
         /\ read_sequence \in Nat /\ write_sequence \in Nat
         /\ Buffered = Window(character_queue, read_sequence, Fill, CAP)
         /\ Len(Buffered) = Fill
  <1>1. IsRing(character_queue, CAP)
    BY QueueSizes, Zenon DEF RingOK, IsRing
  <1>2. Fill = Apart(write_sequence, read_sequence, SequenceMod)
    BY Zenon DEF Fill, Distance, Apart
  <1>3. Fill \in Sequence
    BY <1>2, QueueSizes, ApartCases, Zenon DEF RingOK, Sequence
  <1>4. Fill \in Nat /\ read_sequence \in Nat /\ write_sequence \in Nat
    BY <1>3, QueueSizes DEF RingOK, Sequence
  <1>5. Buffered = Window(character_queue, read_sequence, Fill, CAP)
    BY Zenon DEF Buffered, Window, Fill, CAP
  <1>6. Len(Buffered) = Fill
    BY <1>4, <1>5, WindowLen
  <1> QED  BY <1>1, <1>2, <1>3, <1>4, <1>5, <1>6, Zenon

(* What the decoder hands to the ring is a character. *)
LEMMA Decoded ==
  ASSUME NEW d, NEW byte
  PROVE  keyboard_feed_scancode(d, byte).char \in Stored
  BY Zenon DEF keyboard_feed_scancode, letter_for_scancode, digit_for_scancode,
     Stored, Characters, NoChar

(* A push into a ring that is not full appends the character. *)
LEMMA Pushed ==
  ASSUME RingOK, NEW ch \in Stored, ~ QueueFull, queue_push(ch)
  PROVE  /\ RingOK' /\ Buffered' = Append(Buffered, ch) /\ Fill < CAP
         /\ write_sequence' # read_sequence' /\ read_sequence' = read_sequence
         /\ dropped_characters' = dropped_characters
  <1> DEFINE w == write_sequence
             r == read_sequence
             n == Fill
             k == w % CAP
  <1>1. /\ character_queue' = [character_queue EXCEPT ![k] = ch]
        /\ write_sequence' = (w + 1) % SequenceMod /\ read_sequence' = r
        /\ dropped_characters' = dropped_characters
    BY Zenon DEF queue_push, CAP
  <1>2. w \in Sequence /\ r \in Sequence /\ character_queue \in [QueueSlots -> Stored]
    BY Zenon DEF RingOK
  <1>3. n < CAP /\ n + 1 < SequenceMod /\ n + 1 <= CAP
    BY RingView, QueueSizes DEF QueueFull, Fill, CAP
  <1>4. /\ (w + 1) % SequenceMod \in Sequence
        /\ Apart((w + 1) % SequenceMod, r, SequenceMod) = n + 1
    <2>1. Apart(w, r, SequenceMod) + 1 < SequenceMod
      BY <1>3, RingView, Zenon
    <2>2. /\ (w + 1) % SequenceMod \in Sequence
          /\ Apart((w + 1) % SequenceMod, r, SequenceMod) = Apart(w, r, SequenceMod) + 1
      BY <1>2, <2>1, QueueSizes, ExtendApart, ZenonT(40) DEF Sequence
    <2> QED  BY <2>2, RingView, Zenon
  <1>5. k \in QueueSlots
    BY RingView, QueueSizes, DivMod, Zenon
  <1>6. Fill' = n + 1
    BY <1>1, <1>4, Zenon DEF Fill, Distance, Apart
  <1>7. RingOK'
    <2>1. character_queue' \in [QueueSlots -> Stored]
      BY <1>1, <1>2, <1>5, Zenon
    <2>2. write_sequence' \in Sequence /\ read_sequence' \in Sequence
      BY <1>1, <1>2, <1>4, Zenon
    <2>3. Fill' <= CAP
      BY <1>3, <1>6, Zenon
    <2> QED  BY <2>1, <2>2, <2>3, Zenon DEF RingOK, QueueSlots, Sequence, Stored, CAP
  <1>8. Buffered' = Append(Buffered, ch)
    <2>1. Buffered' = Window(character_queue', read_sequence', Fill', CAP)
      BY Zenon DEF Buffered, Window, Fill, CAP
    <2>2. k = (r + n) % CAP
      <3>1. w % CAP = (r + Apart(w, r, SequenceMod)) % CAP
        <4> HIDE DEF w, r
        <4> QED  BY <1>2, QueueSizes, ExtendSlot DEF Sequence
      <3> QED  BY <3>1, RingView, Zenon
    <2>3. Appends(character_queue, r, n, k, ch, CAP)
      <3>1. IsRing(character_queue, CAP) /\ r \in Nat /\ n \in Nat /\ CAP \in Nat \ {0}
        BY RingView, QueueSizes, Zenon
      <3> HIDE DEF r, n, k
      <3> QED  BY <1>3, <2>2, <3>1, WindowAppend, Zenon
    <2> QED  BY <1>1, <1>6, <2>1, <2>3, RingView, Zenon DEF Appends
  <1>9. write_sequence' # read_sequence'
    <2>1. n + 1 # 0
      BY RingView
    <2>2. Apart(r, r, SequenceMod) = 0
      BY <1>2, QueueSizes, ApartZero, Zenon DEF Sequence
    <2> QED  BY <1>1, <1>4, <2>1, <2>2, Zenon
  <1> QED  BY <1>1, <1>3, <1>7, <1>8, <1>9, Zenon

(* The first buffered character, and the ring without it. *)
LEMMA FirstRemoved ==
  ASSUME RingOK, Fill >= 1
  PROVE  Removes(character_queue, read_sequence, Fill, (read_sequence + 1) % SequenceMod, CAP)
  <1> DEFINE r == read_sequence
             n == Fill
             u == (r + 1) % SequenceMod
  <1>1. /\ IsRing(character_queue, CAP) /\ r \in 0 .. SequenceMod - 1 /\ n \in Nat
        /\ CAP \in Nat \ {0} /\ SequenceMod \in Nat \ {0} /\ SequenceMod % CAP = 0
    BY RingView, QueueSizes, Zenon DEF RingOK, Sequence
  <1>2. n > 0 /\ u = (r + 1) % SequenceMod
    BY <1>1
  <1> HIDE DEF r, n, u
  <1>3. Removes(character_queue, r, n, u, CAP)
    BY <1>1, <1>2, WindowTail, Zenon
  <1> QED  BY <1>3, Zenon DEF r, n, u

(* keyboard_pop_char's last store removes the first character. *)
LEMMA Popped ==
  ASSUME RingOK, write_sequence # read_sequence,
         read_sequence' = (read_sequence + 1) % SequenceMod,
         write_sequence' = write_sequence, character_queue' = character_queue
  PROVE  /\ RingOK' /\ Buffered # << >> /\ Buffered' = Tail(Buffered)
  <1> DEFINE w == write_sequence
             r == read_sequence
             n == Fill
             u == (r + 1) % SequenceMod
  <1>1. w \in Sequence /\ r \in Sequence
    BY Zenon DEF RingOK
  <1>2. u \in Sequence /\ Apart(w, u, SequenceMod) = n - 1 /\ n >= 1
    <2>1. /\ u \in Sequence /\ Apart(w, u, SequenceMod) = Apart(w, r, SequenceMod) - 1
          /\ Apart(w, r, SequenceMod) >= 1
      <3>1. w # r /\ SequenceMod \in Nat \ {0}
        BY QueueSizes, Zenon
      <3> HIDE DEF w, r
      <3> QED  BY <1>1, <3>1, AdvanceApart, Zenon DEF Sequence
    <2> QED  BY <2>1, RingView, Zenon
  <1>3. Fill' = n - 1
    BY <1>2, Zenon DEF Fill, Distance, Apart
  <1>4. RingOK'
    <2>1. Fill' <= CAP
      BY <1>3, RingView, QueueSizes, SMTT(30) DEF RingOK
    <2> QED  BY <1>1, <1>2, <2>1, Zenon DEF RingOK, QueueSlots, Sequence, Stored, CAP
  <1>5. Buffered' = Window(character_queue, u, n - 1, CAP)
    <2>1. Buffered' = Window(character_queue', read_sequence', Fill', CAP)
      BY Zenon DEF Buffered, Window, Fill, CAP
    <2> QED  BY <1>3, <2>1, Zenon
  <1>6. Removes(character_queue, r, n, u, CAP)
    BY <1>1, <1>2, FirstRemoved, Zenon
  <1> QED  BY <1>4, <1>5, <1>6, RingView, Zenon DEF Removes

-----------------------------------------------------------------------------
(* The buffered characters while the ring is left alone. *)
LEMMA RingSame ==
  ASSUME RingOK, UNCHANGED <<character_queue, write_sequence, read_sequence>>
  PROVE  RingOK' /\ Buffered' = Buffered
  BY Zenon DEF RingOK, Fill, Buffered, Distance, QueueSlots, Sequence, Stored, CAP

(* A ring whose sequence numbers differ is not empty. *)
LEMMA FilledOnce ==
  ASSUME RingOK, write_sequence # read_sequence
  PROVE  Fill >= 1
  <1> DEFINE w == write_sequence
             r == read_sequence
  <1>1. w \in Sequence /\ r \in Sequence /\ w # r /\ SequenceMod \in Nat \ {0}
    BY QueueSizes, Zenon DEF RingOK
  <1> HIDE DEF w, r
  <1>2. Apart(w, r, SequenceMod) >= 1
    BY <1>1, AdvanceApart, Zenon DEF Sequence
  <1> QED  BY <1>2, RingView, Zenon DEF w, r

(* The first of them stays the first when one is added. *)
LEMMA FirstStays ==
  ASSUME RingOK, NEW ch \in Stored, write_sequence # read_sequence
  PROVE  Buffered # << >> /\ Head(Append(Buffered, ch)) = Head(Buffered)
  <1>1. Fill >= 1
    BY FilledOnce, Zenon
  <1>2. Buffered # << >>
    BY <1>1, FirstRemoved, RingView, Zenon DEF Removes
  <1>3. Buffered \in Seq(Stored)
    <2> DEFINE q == character_queue
               r == read_sequence
               n == Fill
    <2>1. q \in [0 .. CAP - 1 -> Stored] /\ r \in Nat /\ n \in Nat /\ CAP \in Nat \ {0}
      BY QueueSizes, RingView, Zenon DEF RingOK
    <2> HIDE DEF q, r, n
    <2>2. Window(q, r, n, CAP) \in Seq(Stored)
      BY <2>1, WindowSeq, Zenon
    <2> QED  BY <2>2, RingView, Zenon DEF q, r, n
  <1> HIDE DEF Buffered
  <1> QED  BY <1>2, <1>3

(* The load of keyboard_pop_char reads that one. *)
LEMMA FirstLoaded ==
  ASSUME RingOK, write_sequence # read_sequence
  PROVE  Head(Buffered) = character_queue[read_sequence % CAP]
  BY FilledOnce, FirstRemoved, RingView, Zenon DEF Removes

LEMMA InitStep == Init => IInv
  <1> SUFFICES ASSUME Init PROVE IInv
    BY Zenon
  <1>1. character_queue \in [QueueSlots -> Stored]
    BY Zenon DEF Init, Stored
  <1>2. Fill = 0
    BY QueueSizes, ApartZero, Zenon DEF Init, Fill, Distance, Apart, Sequence
  <1>3. RingOK
    BY <1>1, <1>2, QueueSizes DEF Init, RingOK
  <1> QED  BY <1>3, Zenon DEF Init, IInv, PopOK

(* What the interrupt handler can do to the ring. *)
LEMMA IrqCases ==
  ASSUME IInv, keyboard_handle_irq
  PROVE  /\ at # "init" /\ Wake
         /\ \/ UNCHANGED ringVars
            \/ \E ch \in Stored : queue_push(ch)
  <1> DEFINE ch == keyboard_feed_scancode(dec, Head(wire)).char
  <1>1. at # "init" /\ Wake
    BY Zenon DEF keyboard_handle_irq, InterruptsOn
  <1>2. ch \in Stored
    BY Decoded, Zenon
  <1>3. UNCHANGED ringVars \/ queue_push(ch)
    BY Zenon DEF keyboard_handle_irq
  <1> QED  BY <1>1, <1>2, <1>3, Zenon

(* A handler that runs inside keyboard_pop_char leaves its view intact. *)
LEMMA IrqStep ==
  ASSUME IInv, keyboard_handle_irq
  PROVE  IInv'
  <1>1. at # "init" /\ Wake
    BY IrqCases, Zenon
  <1>2. /\ at' = at \/ at' = "pop_read"
        /\ read' = read /\ character' = character
    BY <1>1, Zenon DEF Wake
  <1>3. ASSUME UNCHANGED <<character_queue, write_sequence, read_sequence>>
        PROVE  IInv'
    BY <1>1, <1>2, <1>3, RingSame, Zenon DEF IInv, PopOK
  <1>4. CASE UNCHANGED ringVars
    BY <1>3, <1>4, Zenon DEF ringVars
  <1>5. ASSUME NEW ch \in Stored, queue_push(ch) PROVE IInv'
    <2>1. CASE QueueFull
      BY <1>3, <1>5, <2>1, Zenon DEF queue_push
    <2>2. CASE ~ QueueFull
      <3>1. /\ RingOK' /\ Buffered' = Append(Buffered, ch)
            /\ write_sequence' # read_sequence' /\ read_sequence' = read_sequence
        BY <1>5, <2>2, Pushed, Zenon DEF IInv
      <3>2. at = "pop_advance" => Head(Append(Buffered, ch)) = Head(Buffered)
        BY FirstStays, Zenon DEF IInv, PopOK
      <3>3. PopOK'
        BY <1>1, <1>2, <3>1, <3>2, Zenon DEF IInv, PopOK
      <3> QED  BY <3>1, <3>3, Zenon DEF IInv
    <2> QED  BY <2>1, <2>2, Zenon
  <1> QED  BY <1>4, <1>5, IrqCases, Zenon

(* Every step keeps the inductive invariant. *)
LEMMA NextStep == IInv /\ [Next]_vars => IInv'
  <1> SUFFICES ASSUME IInv, [Next]_vars PROVE IInv'
    BY Zenon
  <1> USE DEF IInv
  <1>1. ASSUME UNCHANGED <<ringVars, at, read, character>> PROVE IInv'
    BY <1>1, RingSame, Zenon DEF ringVars, PopOK
  <1>2. CASE UNCHANGED vars
    BY <1>1, <1>2, Zenon DEF vars, loopVars
  <1>3. CASE keyboard_handle_irq
    BY <1>3, IrqStep, Zenon
  <1>4. CASE irq0
    BY <1>4, RingSame, Zenon DEF irq0, Wake, ringVars, PopOK
  <1>5. CASE keyboard_init
    <2>1. character_queue \in [QueueSlots -> Stored]
      BY Zenon DEF RingOK
    <2>2. Fill' = 0
      BY <1>5, QueueSizes, ApartZero, Zenon DEF keyboard_init, Fill, Distance, Apart, Sequence
    <2>3. RingOK'
      BY <1>5, <2>1, <2>2, QueueSizes, SMTT(20)
      DEF keyboard_init, RingOK, QueueSlots, Stored, Sequence, CAP
    <2> QED  BY <1>5, <2>3, Zenon DEF keyboard_init, PopOK
  <1>6. CASE boot_status_check
    BY <1>6, RingSame, Zenon DEF boot_status_check, Foreground, PopOK
  <1>7. CASE main_hlt
    BY <1>7, RingSame, Zenon DEF main_hlt, Foreground, PopOK
  <1>8. CASE pop_read
    BY <1>8, RingSame, Zenon DEF pop_read, Foreground, PopOK
  <1>9. CASE pop_write
    BY <1>9, RingSame, Zenon DEF pop_write, Foreground, PopOK
  <1>10. CASE pop_load
    <2>1. /\ at = "pop_load" /\ at' = "pop_advance" /\ read' = read
          /\ UNCHANGED <<character_queue, write_sequence, read_sequence>>
          /\ character' = character_queue[read % CAP]
      BY <1>10, Zenon DEF pop_load, Foreground, CAP
    <2>2. read = read_sequence /\ write_sequence # read_sequence
      BY <2>1, Zenon DEF PopOK
    <2>3. Head(Buffered) = character_queue[read_sequence % CAP]
      BY <2>2, FirstLoaded, Zenon
    <2>4. RingOK' /\ Buffered' = Buffered
      BY <2>1, RingSame, Zenon
    <2> QED  BY <2>1, <2>2, <2>3, <2>4, Zenon DEF PopOK
  <1>11. CASE pop_advance
    <2>1. /\ at = "pop_advance" /\ at' = "handle"
          /\ UNCHANGED <<character_queue, write_sequence>>
          /\ read_sequence' = (read + 1) % SequenceMod
      BY <1>11, Zenon DEF pop_advance, Foreground
    <2>2. read = read_sequence /\ write_sequence # read_sequence
      BY <2>1, Zenon DEF PopOK
    <2>3. RingOK'
      BY <2>1, <2>2, Popped, Zenon
    <2> QED  BY <2>1, <2>3, Zenon DEF PopOK
  <1>12. CASE main_handle
    BY <1>12, RingSame, Zenon DEF main_handle, Foreground, PopOK
  <1>13. CASE failed
    BY <1>2, <1>13, Zenon DEF failed
  <1>14. ASSUME NEW key \in Keys, press(key) \/ release(key) PROVE IInv'
    BY <1>1, <1>14, Zenon DEF press, release, KeyEvent, loopVars
  <1> QED
    BY <1>2, <1>3, <1>4, <1>5, <1>6, <1>7, <1>8, <1>9, <1>10, <1>11, <1>12, <1>13,
       <1>14, ZenonT(40) DEF Next, foreground

-----------------------------------------------------------------------------
(* The variables of MessageFifo as the refinement mapping gives them. *)
charOpen == IF at = "init" THEN {} ELSE {"keyboard"}
charChannel == [e \in {"keyboard"} |-> Buffered]
charRefused == [e \in {"keyboard"} |-> dropped_characters]

LEMMA CharFifoInit == Init => CharFifo!Init
  <1> SUFFICES ASSUME Init PROVE CharFifo!Init
    BY Zenon
  <1>1. RingOK
    BY InitStep, Zenon DEF IInv
  <1>2. Fill = 0
    BY QueueSizes, ApartZero, Zenon DEF Init, Fill, Distance, Apart, Sequence
  <1>3. Buffered = << >>
    BY <1>1, <1>2, RingView, WindowEmpty, Zenon
  <1> QED  BY <1>3, Zenon DEF Init, CharFifo!Init, CharFifo!Closed

(* A step that moves neither the ring nor the caller's character and opens *)
(* nothing shows nothing of itself.                                        *)
LEMMA Silent ==
  ASSUME RingOK, UNCHANGED <<ringVars, taken>>, charOpen' = charOpen
  PROVE  UNCHANGED CharFifo!fifoVars
  <1>1. Buffered' = Buffered
    BY RingSame, Zenon DEF ringVars
  <1> QED  BY <1>1, Zenon DEF CharFifo!fifoVars, ringVars, charOpen

(* Every push of the handler is a send or a refusal. *)
LEMMA PushStep ==
  ASSUME RingOK, NEW ch \in Stored, queue_push(ch), at # "init", at' # "init",
         taken' = taken
  PROVE  CharFifo!Send("keyboard", ch) \/ CharFifo!Refuse("keyboard")
  <1>1. charOpen = {"keyboard"} /\ charOpen' = charOpen
    BY Zenon DEF charOpen
  <1>2. charChannel["keyboard"] = Buffered /\ charRefused["keyboard"] = dropped_characters
    BY Zenon DEF charChannel, charRefused
  <1>3. CASE QueueFull
    <2>1. /\ UNCHANGED <<character_queue, write_sequence, read_sequence>>
          /\ dropped_characters' = (dropped_characters + 1) % SequenceMod
      BY <1>3, Zenon DEF queue_push
    <2>2. charChannel' = charChannel
      BY <2>1, RingSame, Zenon DEF charChannel
    <2>3. Len(Buffered) = CAP
      <3>1. Len(Buffered) = Fill /\ Fill \in Nat
        BY RingView, Zenon
      <3> QED  BY <1>3, <3>1, QueueSizes DEF QueueFull, Fill, CAP, RingOK
    <2>4. charRefused' = [charRefused EXCEPT !["keyboard"] =
                            (charRefused["keyboard"] + 1) % SequenceMod]
      BY <2>1, <1>2, Zenon DEF charRefused
    <2>5. CharFifo!Refuse("keyboard")
      BY <1>1, <1>2, <2>2, <2>3, <2>4, Zenon
      DEF CharFifo!Refuse, charOpen, charChannel, charRefused, CAP
    <2> QED  BY <2>5, Zenon
  <1>4. CASE ~ QueueFull
    <2>1. /\ Buffered' = Append(Buffered, ch) /\ Fill < CAP
          /\ dropped_characters' = dropped_characters
      BY <1>4, Pushed, Zenon
    <2>2. Len(Buffered) < CAP
      BY <2>1, RingView, Zenon
    <2>3. charChannel' = [charChannel EXCEPT !["keyboard"] = Append(charChannel["keyboard"], ch)]
      BY <2>1, <1>2, Zenon DEF charChannel
    <2>4. charRefused' = charRefused
      BY <2>1, Zenon DEF charRefused
    <2>5. CharFifo!Send("keyboard", ch)
      BY <1>1, <1>2, <2>2, <2>3, <2>4, Zenon
      DEF CharFifo!Send, charOpen, charChannel, charRefused, CAP
    <2> QED  BY <2>5, Zenon
  <1> QED  BY <1>3, <1>4, Zenon

(* The last store of keyboard_pop_char delivers the first character. *)
LEMMA PopStep ==
  ASSUME IInv, pop_advance
  PROVE  CharFifo!Receive("keyboard")
  <1>1. /\ at = "pop_advance" /\ at' = "handle"
        /\ UNCHANGED <<character_queue, write_sequence, dropped_characters>>
        /\ read_sequence' = (read + 1) % SequenceMod /\ taken' = character
    BY Zenon DEF pop_advance, Foreground
  <1>2. read = read_sequence /\ write_sequence # read_sequence /\ RingOK
    BY <1>1, Zenon DEF IInv, PopOK
  <1>3. Buffered # << >> /\ Buffered' = Tail(Buffered)
    BY <1>1, <1>2, Popped, Zenon
  <1>4. taken' = Head(Buffered)
    BY <1>1, Zenon DEF IInv, PopOK
  <1>5. charOpen = {"keyboard"} /\ charOpen' = charOpen
    BY <1>1, Zenon DEF charOpen
  <1>6. charChannel["keyboard"] = Buffered
    BY Zenon DEF charChannel
  <1>7. charChannel' = [charChannel EXCEPT !["keyboard"] = Tail(charChannel["keyboard"])]
    BY <1>3, <1>6, Zenon DEF charChannel
  <1>8. charRefused' = charRefused
    BY <1>1, Zenon DEF charRefused
  <1> QED  BY <1>3, <1>4, <1>5, <1>6, <1>7, <1>8, Zenon
       DEF CharFifo!Receive, charOpen, charChannel, charRefused

(* Every step of the driver and of the main loop is one of MessageFifo, or *)
(* changes nothing it shows.                                               *)
LEMMA CharFifoStep == IInv /\ [Next]_vars => [CharFifo!Next]_(CharFifo!fifoVars)
  <1> SUFFICES ASSUME IInv, [Next]_vars PROVE [CharFifo!Next]_(CharFifo!fifoVars)
    BY Zenon
  <1>0. RingOK
    BY Zenon DEF IInv
  <1>1. CASE UNCHANGED vars
    BY <1>0, <1>1, Silent, Zenon DEF vars, loopVars, charOpen
  <1>2. CASE keyboard_handle_irq
    <2>1. at # "init" /\ at' # "init" /\ taken' = taken
      BY <1>2, IrqCases, Zenon DEF Wake
    <2>2. CASE UNCHANGED ringVars
      BY <1>0, <2>1, <2>2, Silent, Zenon DEF charOpen
    <2>3. ASSUME NEW ch \in Stored, queue_push(ch) PROVE CharFifo!Next
      <3>1. CharFifo!Send("keyboard", ch) \/ CharFifo!Refuse("keyboard")
        BY <1>0, <2>1, <2>3, PushStep, Zenon
      <3> QED  BY <3>1, Zenon DEF CharFifo!Next, CharFifo!Succeeds, CharFifo!Fails, Stored
    <2> QED  BY <1>2, <2>2, <2>3, IrqCases, Zenon
  <1>3. CASE irq0
    BY <1>0, <1>3, Silent, Zenon DEF irq0, Wake, charOpen
  <1>4. CASE keyboard_init
    <2>1. RingOK' /\ at = "init" /\ at' = "boot" /\ taken' = taken
      BY <1>4, NextStep, Zenon DEF IInv, keyboard_init
    <2>2. Buffered' = << >>
      <3>1. Fill' = 0
        BY <1>4, QueueSizes, ApartZero, Zenon
        DEF keyboard_init, Fill, Distance, Apart, Sequence
      <3>2. Buffered' = Window(character_queue', read_sequence', Fill', CAP)
        BY Zenon DEF Buffered, Window, Fill, CAP
      <3> QED  BY <3>1, <3>2, WindowEmpty, Zenon
    <2>3. charOpen = {} /\ charOpen' = {"keyboard"}
      BY <2>1, Zenon DEF charOpen
    <2>4. charChannel' = [charChannel EXCEPT !["keyboard"] = << >>]
      BY <2>2, Zenon DEF charChannel
    <2>5. charRefused' = [charRefused EXCEPT !["keyboard"] = 0]
      BY <1>4, Zenon DEF charRefused, keyboard_init
    <2>6. CharFifo!Open("keyboard")
      BY <2>1, <2>3, <2>4, <2>5, Zenon DEF CharFifo!Open, charOpen, charChannel, charRefused
    <2> QED  BY <2>6, Zenon DEF CharFifo!Next, CharFifo!Succeeds
  <1>5. CASE boot_status_check
    BY <1>0, <1>5, Silent, Zenon DEF boot_status_check, Foreground, ringVars, charOpen
  <1>6. CASE main_hlt
    BY <1>0, <1>6, Silent, Zenon DEF main_hlt, Foreground, ringVars, charOpen
  <1>7. CASE pop_read
    BY <1>0, <1>7, Silent, Zenon DEF pop_read, Foreground, ringVars, charOpen
  <1>8. CASE pop_write
    BY <1>0, <1>8, Silent, Zenon DEF pop_write, Foreground, ringVars, charOpen
  <1>9. CASE pop_load
    BY <1>0, <1>9, Silent, Zenon DEF pop_load, Foreground, ringVars, charOpen
  <1>10. CASE pop_advance
    BY <1>10, PopStep, Zenon DEF CharFifo!Next, CharFifo!Succeeds
  <1>11. CASE main_handle
    BY <1>0, <1>11, Silent, Zenon DEF main_handle, Foreground, ringVars, charOpen
  <1>12. CASE failed
    BY <1>1, <1>12, Zenon DEF failed
  <1>13. ASSUME NEW key \in Keys, press(key) \/ release(key)
         PROVE  UNCHANGED CharFifo!fifoVars
    BY <1>0, <1>13, Silent, Zenon DEF press, release, KeyEvent, loopVars, charOpen
  <1> QED
    BY <1>1, <1>2, <1>3, <1>4, <1>5, <1>6, <1>7, <1>8, <1>9, <1>10, <1>11, <1>12,
       <1>13, ZenonT(40) DEF Next, foreground

(* The keyboard ring is a bounded FIFO for every capacity that divides the *)
(* modulus of the sequence numbers, wherever IRQ1 interrupts               *)
(* keyboard_pop_char and however often the numbers wrap around: every      *)
(* character is popped once and in order, and exactly the characters that  *)
(* meet a full ring are counted as dropped.                                *)
THEOREM RingIsFifo == Spec => ImplementsCharFifo
  BY InitStep, NextStep, CharFifoInit, CharFifoStep, PTL DEF Spec, ImplementsCharFifo, CharFifo!Spec
===============================================================================
