----------------------- MODULE RegisterFields_proofs -----------------------
(***************************************************************************)
(* Theorems about RegisterFields, for every layout of fields without       *)
(* overlap, every choice of arguments and any number of calls.             *)
(***************************************************************************)
EXTENDS RegisterFields, TLAPS

\* What LayoutAssumption says of one field.
Sane(l) ==
    /\ l \in FieldRecords
    /\ l.lsb + l.width <= 32
    /\ l.set \in {"flag", "inverted"} => l.width = 1
    /\ l.set = "four bits" => l.width >= 4
    /\ l.set = "inverted" <=> l.get = "inverted"

\* The fields of the layout are such fields.
LEMMA SaneFields ==
    ASSUME NEW f \in Field
    PROVE  Sane(Layout[f]) /\ Layout[f].word \in Words /\ Layout[f].word \in Nat
  BY LayoutAssumption DEF Sane, Words, FieldRecords

\* smile_fee_sync_hk_regs makes at least one read.
LEMMA HkReadsExist ==
    Len(HkReads) \in Nat \ {0} /\ DOMAIN HkReads = 1 .. Len(HkReads)
BY LayoutAssumption

\* A setter writes no more bits than the field has.
LEMMA WrittenFits ==
    ASSUME NEW l, Sane(l), NEW arg \in SUBSET Bit
    PROVE  Written(l, arg) \subseteq LowBits(l.width)
<1>1. l.width \in 1 .. 32
  BY DEF Sane, FieldRecords
<1>2. CASE l.set \in {"flag", "inverted"}
  <2>1. l.width = 1 /\ Written(l, arg) \subseteq {0}
    BY <1>2 DEF Written, One, Sane
  <2>. QED
    BY <2>1 DEF LowBits
<1>3. CASE l.set = "four bits"
  <2>1. Written(l, arg) \subseteq LowBits(4)
    BY <1>3 DEF Written
  <2>2. PICK w \in 1 .. 32 : l.width = w /\ w >= 4
    BY <1>1, <1>3 DEF Sane
  <2>3. LowBits(4) \subseteq LowBits(w)
    BY <2>2 DEF LowBits
  <2>. QED
    BY <2>1, <2>2, <2>3
<1>4. CASE l.set \notin {"flag", "inverted", "four bits"}
  BY <1>4 DEF Written
<1>. QED
  BY <1>2, <1>3, <1>4

\* Which bits are set after a setter has cleared and set its field.
LEMMA SetBitsElements ==
    ASSUME NEW l, Sane(l), NEW arg \in SUBSET Bit, NEW word \in SUBSET Bit
    PROVE  /\ SetBits(l, arg, word) \in SUBSET Bit
           /\ SetBits(l, arg, word) \subseteq word \cup Mask(l)
           /\ \A b \in Bit \ Mask(l) : b \in SetBits(l, arg, word) <=> b \in word
           /\ \A b \in Mask(l) : b \in SetBits(l, arg, word) <=> b - l.lsb \in Written(l, arg)
<1>1. PICK n \in Bit, w \in 1 .. 32 : l.lsb = n /\ l.width = w /\ n + w <= 32
  BY DEF Sane, FieldRecords
<1>2. PICK W \in SUBSET LowBits(w) : Written(l, arg) = W
  BY WrittenFits, <1>1
<1>3. Mask(l) = n .. n + w - 1
  BY <1>1 DEF Mask
<1>4. SetBits(l, arg, word) = (word \ (n .. n + w - 1)) \cup {c + n : c \in W}
  BY <1>1, <1>2, <1>3 DEF SetBits, ShiftLeft
<1>5. \A c \in W : c \in 0 .. w - 1 /\ c + n \in n .. n + w - 1 /\ c + n \in Bit
  BY <1>1 DEF LowBits, Bit
<1>6. ASSUME NEW b \in n .. n + w - 1
      PROVE  b \in {c + n : c \in W} <=> b - n \in W
  <2>1. \A c \in W : b = c + n => c = b - n
    BY <1>5, <1>6 DEF Bit
  <2>2. b = (b - n) + n
    BY <1>6 DEF Bit
  <2>. QED
    BY <2>1, <2>2
<1>7. {c + n : c \in W} \subseteq Bit /\ {c + n : c \in W} \subseteq n .. n + w - 1
  BY <1>5
<1>. QED
  BY <1>1, <1>2, <1>3, <1>4, <1>6, <1>7

\* What shifting a register right gives.
LEMMA ShiftedBits ==
    ASSUME NEW word \in SUBSET Bit, NEW n \in Bit
    PROVE  /\ ShiftRight(word, n) \subseteq Bit
           /\ \A i \in Bit : i \in ShiftRight(word, n) <=> i + n \in word
<1>1. ASSUME NEW b \in word \cap (n .. 31)
      PROVE  b - n \in Bit /\ (b - n) + n = b
  BY DEF Bit
<1>2. ShiftRight(word, n) \subseteq Bit
  BY <1>1 DEF ShiftRight
<1>3. ASSUME NEW i \in Bit, i + n \in word
      PROVE  i \in ShiftRight(word, n)
  <2>1. i + n \in word \cap (n .. 31) /\ i = (i + n) - n
    BY <1>3 DEF Bit
  <2>. QED
    BY <2>1 DEF ShiftRight
<1>4. ASSUME NEW i \in Bit, i \in ShiftRight(word, n)
      PROVE  i + n \in word
  <2>1. PICK b \in word \cap (n .. 31) : i = b - n
    BY <1>4 DEF ShiftRight
  <2>. QED
    BY <2>1, <1>1
<1>. QED
  BY <1>2, <1>3, <1>4

\* The bits of a value that fits a field, where the field is.
LEMMA PlacedBits ==
    ASSUME NEW l, Sane(l)
    PROVE  \A i \in LowBits(l.width) : i + l.lsb \in Mask(l) /\ (i + l.lsb) - l.lsb = i
<1>1. PICK n \in Bit, w \in 1 .. 32 : l.lsb = n /\ l.width = w /\ n + w <= 32
  BY DEF Sane, FieldRecords
<1>2. Mask(l) = n .. n + w - 1
  BY <1>1 DEF Mask
<1>3. \A i \in LowBits(w) : i + n \in n .. n + w - 1 /\ (i + n) - n = i
  BY DEF LowBits, Bit
<1>. QED
  BY <1>1, <1>2, <1>3

\* The bits of a field, shifted down.
LEMMA FieldBits ==
    ASSUME NEW l, Sane(l), NEW word \in SUBSET Bit
    PROVE  /\ ShiftRight(word \cap Mask(l), l.lsb) \subseteq LowBits(l.width)
           /\ \A i \in LowBits(l.width) :
                 i \in ShiftRight(word \cap Mask(l), l.lsb) <=> i + l.lsb \in word
           /\ ShiftRight(word, l.lsb) \cap LowBits(l.width)
                  = ShiftRight(word \cap Mask(l), l.lsb)
<1>1. PICK n \in Bit, w \in 1 .. 32 : l.lsb = n /\ l.width = w /\ n + w <= 32
  BY DEF Sane, FieldRecords
<1>2. Mask(l) = n .. n + w - 1
  BY <1>1 DEF Mask
<1>3. /\ ShiftRight(word \cap Mask(l), n) \subseteq Bit
      /\ \A i \in Bit : i \in ShiftRight(word \cap Mask(l), n) <=> i + n \in word \cap Mask(l)
  <2>1. word \cap Mask(l) \in SUBSET Bit
    OBVIOUS
  <2>. QED
    BY <2>1, ShiftedBits
<1>4. /\ ShiftRight(word, n) \subseteq Bit
      /\ \A i \in Bit : i \in ShiftRight(word, n) <=> i + n \in word
  BY ShiftedBits
<1>5. \A i \in Bit : i + n \in Mask(l) <=> i \in LowBits(w)
  BY <1>1, <1>2 DEF Bit, LowBits
<1>6. LowBits(w) \subseteq Bit
  BY <1>1 DEF Bit, LowBits
<1>. QED
  BY <1>1, <1>3, <1>4, <1>5, <1>6

\* The setter of a field makes its register hold what it is meant to hold.
LEMMA SetterOwn ==
    ASSUME NEW l, Sane(l), l.set # "four bits",
           NEW arg \in SUBSET Bit, NEW word \in SUBSET Bit
    PROVE  Held(l, Setter(l, arg, word)) = Kept(l, arg, Held(l, word))
<1>. DEFINE new == SetBits(l, arg, word)
            bits == ShiftRight(new \cap Mask(l), l.lsb)
<1>1. CASE l.set = "not zero" /\ arg = {}
  BY <1>1 DEF Setter, Kept
<1>2. CASE ~(l.set = "not zero" /\ arg = {})
  <2>1. PICK n \in Bit, w \in 1 .. 32 : l.lsb = n /\ l.width = w /\ n + w <= 32
    BY DEF Sane, FieldRecords
  <2>2. Setter(l, arg, word) = new
    BY <1>2 DEF Setter
  <2>3. new \in SUBSET Bit /\ \A b \in Mask(l) : b \in new <=> b - n \in Written(l, arg)
    BY SetBitsElements, <2>1
  <2>4. /\ bits \subseteq LowBits(w)
        /\ \A i \in LowBits(w) : i \in bits <=> i + n \in new
    BY FieldBits, <2>1, <2>3
  <2>5. \A i \in LowBits(w) : i + n \in Mask(l) /\ (i + n) - n = i
    BY <2>1, PlacedBits
  <2>6. Written(l, arg) \subseteq LowBits(w)
    BY WrittenFits, <2>1
  <2>7. bits = Written(l, arg)
    BY <2>3, <2>4, <2>5, <2>6
  <2>8. CASE l.set = "inverted"
    BY <1>2, <2>2, <2>7, <2>8 DEF Held, Kept, Written, One
  <2>9. CASE l.set = "flag"
    BY <1>2, <2>2, <2>7, <2>9 DEF Held, Kept, Written, One
  <2>10. CASE l.set \notin {"inverted", "flag"}
    BY <1>2, <2>2, <2>7, <2>10 DEF Held, Kept, Written
  <2>. QED
    BY <2>8, <2>9, <2>10
<1>. QED
  BY <1>1, <1>2

\* ... and leaves the fields alone that it shares no bit with.
LEMMA SetterOthers ==
    ASSUME NEW l, Sane(l), NEW k, Sane(k), Mask(l) \cap Mask(k) = {},
           NEW arg \in SUBSET Bit, NEW word \in SUBSET Bit
    PROVE  Held(k, Setter(l, arg, word)) = Held(k, word)
<1>1. /\ SetBits(l, arg, word) \in SUBSET Bit
      /\ \A b \in Bit \ Mask(l) : b \in SetBits(l, arg, word) <=> b \in word
  BY SetBitsElements
<1>2. SetBits(l, arg, word) \cap Mask(k) = word \cap Mask(k)
  BY <1>1
<1>3. Setter(l, arg, word) \cap Mask(k) = word \cap Mask(k)
  BY <1>2 DEF Setter
<1>. QED
  BY <1>3 DEF Held

\* What a setter does to a register as a whole.
LEMMA SetterWord ==
    ASSUME NEW l, Sane(l), NEW arg \in SUBSET Bit, NEW word \in SUBSET Bit
    PROVE  /\ Setter(l, arg, word) \in SUBSET Bit
           /\ Setter(l, arg, word) \subseteq word \cup Mask(l)
BY SetBitsElements DEF Setter

\* What a field holds, and what it is set to, are bits.
LEMMA HeldBits ==
    ASSUME NEW l, Sane(l), NEW word \in SUBSET Bit
    PROVE  Held(l, word) \in SUBSET Bit
<1>1. PICK n \in Bit : l.lsb = n
  BY DEF Sane, FieldRecords
<1>2. word \cap Mask(l) \in SUBSET Bit
  OBVIOUS
<1>3. ShiftRight(word \cap Mask(l), l.lsb) \subseteq Bit
  BY <1>1, <1>2, ShiftedBits
<1>4. {0} \subseteq Bit
  BY DEF Bit
<1>. QED
  BY <1>3, <1>4 DEF Held

LEMMA KeptBits ==
    ASSUME NEW l, NEW arg \in SUBSET Bit, NEW old \in SUBSET Bit
    PROVE  Kept(l, arg, old) \in SUBSET Bit
<1>1. {0} \subseteq Bit
  BY DEF Bit
<1>. QED
  BY <1>1 DEF Kept, One

\* A getter that reads where the setter writes returns what the field holds, if
\* nothing is set above an inverted flag.
LEMMA GetterHeld ==
    ASSUME NEW l, Sane(l), l.get \in {"masked", "inverted"}, NEW word \in SUBSET Bit,
           l.get = "inverted" => \A b \in word : b <= l.lsb
    PROVE  Getter(l, word) = Held(l, word)
<1>1. CASE l.get = "masked"
  <2>1. l.set # "inverted"
    BY <1>1 DEF Sane
  <2>2. Getter(l, word) = ShiftRight(word, l.lsb) \cap LowBits(l.width)
    BY <1>1 DEF Getter, Loaded, GetMask
  <2>. QED
    BY <2>1, <2>2, FieldBits DEF Held
<1>2. CASE l.get = "inverted"
  <2>1. PICK n \in Bit : l.lsb = n /\ l.width = 1 /\ l.set = "inverted"
    BY <1>2 DEF Sane, FieldRecords
  <2>2. /\ ShiftRight(word, n) \subseteq Bit
        /\ \A i \in Bit : i \in ShiftRight(word, n) <=> i + n \in word
    BY ShiftedBits
  <2>3. \A i \in Bit : i + n \in word => i = 0
    BY <1>2, <2>1 DEF Bit
  <2>4. 0 \in Bit /\ 0 + n = n
    BY <2>1 DEF Bit
  <2>5. ShiftRight(word, n) \subseteq {0} /\ (0 \in ShiftRight(word, n) <=> n \in word)
    BY <2>2, <2>3, <2>4
  <2>6. LowBits(1) = {0}
    BY DEF LowBits
  <2>7. ShiftRight(word \cap Mask(l), n) = ShiftRight(word, n)
    BY <2>1, <2>5, <2>6, FieldBits, ZenonT(60)
  <2>8. Getter(l, word) = One(ShiftRight(word, n) = {})
    BY <1>2, <2>1 DEF Getter
  <2>9. Held(l, word) = {0} \ ShiftRight(word, n)
    BY <2>1, <2>7 DEF Held
  <2>. QED
    BY <2>5, <2>8, <2>9 DEF One
<1>. QED
  BY <1>1, <1>2

----------------------------------------------------------------------------
(* The inductive invariant.  FieldsIntact is inductive but for the types;  *)
(* GettersAgree follows from it together with ReservedBitsClear.           *)

IInv == TypeOK /\ ReservedBitsClear /\ FieldsIntact

LEMMA InitIInv == Init => IInv
<1>. SUFFICES ASSUME Init PROVE IInv
  OBVIOUS
<1>1. \A f \in Field : Held(Layout[f], {}) \in SUBSET Bit
  BY SaneFields, HeldBits
<1>2. TypeOK
  <2>1. mem \in [Sides -> [Words -> SUBSET Bit]]
    BY DEF Init
  <2>2. store \in [Sides -> [Field -> SUBSET Bit]]
    BY <1>1 DEF Init
  <2>3. hk_next \in 0 .. Len(HkReads) /\ calls \in 0 .. MaxCalls /\ touched \subseteq Words
    BY HkReadsExist, RegisterFieldsAssumption DEF Init
  <2>. QED
    BY <2>1, <2>2, <2>3 DEF TypeOK
<1>3. ReservedBitsClear
  BY DEF Init, ReservedBitsClear
<1>4. FieldsIntact
  BY SaneFields DEF Init, FieldsIntact, Writable
<1>. QED
  BY <1>2, <1>3, <1>4 DEF IInv

\* The bounds on the calls.
LEMMA CallTypes ==
    ASSUME TypeOK, NEW words \in SUBSET Words, Call(words)
    PROVE  calls' \in 0 .. MaxCalls /\ touched' \subseteq Words
BY RegisterFieldsAssumption DEF TypeOK, Call

\* A setter keeps the invariant.
LEMMA SetFieldIInv ==
    ASSUME IInv, NEW side \in Sides, NEW f \in Field, NEW arg \in Args,
           SetField(side, f, arg)
    PROVE  IInv'
<1>. DEFINE l == Layout[f]
            w == Layout[f].word
<1>1. Sane(l) /\ w \in Words /\ arg \in SUBSET Bit
  BY SaneFields, RegisterFieldsAssumption
<1>2. TypeOK /\ mem[side][w] \in SUBSET Bit /\ store[side][f] \in SUBSET Bit
  BY <1>1 DEF IInv, TypeOK
<1>3. /\ mem' = [mem EXCEPT ![side][w] = Setter(l, arg, mem[side][w])]
      /\ store' = [store EXCEPT ![side][f] = Kept(l, arg, store[side][f])]
      /\ hk_next' = hk_next
      /\ Call({w})
  BY DEF SetField
<1>4. /\ Setter(l, arg, mem[side][w]) \in SUBSET Bit
      /\ Setter(l, arg, mem[side][w]) \subseteq mem[side][w] \cup Mask(l)
  BY <1>1, <1>2, SetterWord
<1>5. \A s \in Sides, v \in Words :
         mem'[s][v] = IF s = side /\ v = w THEN Setter(l, arg, mem[side][w]) ELSE mem[s][v]
  BY <1>1, <1>2, <1>3 DEF TypeOK
<1>6. \A s \in Sides, g \in Field :
         store'[s][g] = IF s = side /\ g = f THEN Kept(l, arg, store[side][f]) ELSE store[s][g]
  BY <1>1, <1>2, <1>3 DEF TypeOK
<1>7. TypeOK'
  <2>1. mem' \in [Sides -> [Words -> SUBSET Bit]]
    BY <1>2, <1>3, <1>4 DEF TypeOK
  <2>2. Kept(l, arg, store[side][f]) \in SUBSET Bit
    BY <1>1, <1>2, KeptBits
  <2>3. store' \in [Sides -> [Field -> SUBSET Bit]]
    BY <1>2, <1>3, <2>2 DEF TypeOK
  <2>4. calls' \in 0 .. MaxCalls /\ touched' \subseteq Words
    BY <1>1, <1>2, <1>3, CallTypes
  <2>. QED
    BY <1>2, <1>3, <2>1, <2>3, <2>4 DEF TypeOK
<1>8. ReservedBitsClear'
  <2>1. Mask(l) \subseteq Used[w]
    BY <1>1 DEF Used
  <2>. QED
    BY <1>1, <1>4, <1>5, <2>1 DEF IInv, ReservedBitsClear
<1>9. FieldsIntact'
  <2>. SUFFICES ASSUME NEW s \in Sides, NEW g \in Writable
                PROVE  Held(Layout[g], mem'[s][Layout[g].word]) = store'[s][g]
    BY DEF FieldsIntact
  <2>1. g \in Field /\ Layout[g].set # "four bits" /\ Sane(Layout[g]) /\ Layout[g].word \in Words
    BY SaneFields DEF Writable
  <2>2. Held(Layout[g], mem[s][Layout[g].word]) = store[s][g]
    BY DEF IInv, FieldsIntact
  <2>3. CASE s = side /\ g = f
    <3>1. Held(l, Setter(l, arg, mem[side][w])) = Kept(l, arg, Held(l, mem[side][w]))
      BY <1>1, <1>2, <2>1, <2>3, SetterOwn
    <3>2. Held(l, mem[side][w]) = store[side][f]
      BY <2>2, <2>3
    <3>3. /\ mem'[s][Layout[g].word] = Setter(l, arg, mem[side][w])
          /\ store'[s][g] = Kept(l, arg, store[side][f])
      BY <1>1, <1>5, <1>6, <2>3
    <3>. QED
      BY <2>3, <3>1, <3>2, <3>3
  <2>4. CASE s = side /\ g # f /\ Layout[g].word = w
    <3>1. Mask(l) \cap Mask(Layout[g]) = {}
      BY <2>1, <2>4, LayoutAssumption
    <3>2. Held(Layout[g], Setter(l, arg, mem[side][w])) = Held(Layout[g], mem[side][w])
      BY <1>1, <1>2, <2>1, <3>1, SetterOthers, ZenonT(60)
    <3>. QED
      BY <1>1, <1>5, <1>6, <2>1, <2>2, <2>4, <3>2
  <2>5. CASE ~(s = side /\ Layout[g].word = w)
    BY <1>5, <1>6, <2>1, <2>2, <2>5
  <2>. QED
    BY <2>3, <2>4, <2>5
<1>. QED
  BY <1>7, <1>8, <1>9 DEF IInv

\* What the invariant says of the registers is kept when one of them is copied,
\* together with its fields, to where it belongs.
LEMMA CopyKeeps ==
    ASSUME IInv, NEW side \in Sides, NEW other \in Sides, NEW w \in Words,
           Copy(side, w, other, w), CopyFields(side, other, w)
    PROVE  /\ mem' \in [Sides -> [Words -> SUBSET Bit]]
           /\ store' \in [Sides -> [Field -> SUBSET Bit]]
           /\ ReservedBitsClear'
           /\ FieldsIntact'
<1>1. TypeOK /\ mem[side][w] \in SUBSET Bit
  BY DEF IInv, TypeOK
<1>2. mem' = [mem EXCEPT ![other][w] = mem[side][w]]
  BY DEF Copy
<1>3. \A s \in Sides, v \in Words :
         mem'[s][v] = IF s = other /\ v = w THEN mem[side][w] ELSE mem[s][v]
  BY <1>1, <1>2 DEF TypeOK
<1>4. \A s \in Sides, g \in Field :
         store'[s][g] = IF s = other /\ Layout[g].word = w THEN store[side][g] ELSE store[s][g]
  BY <1>1 DEF CopyFields, TypeOK
<1>5. mem' \in [Sides -> [Words -> SUBSET Bit]]
  BY <1>1, <1>2 DEF TypeOK
<1>6. store' \in [Sides -> [Field -> SUBSET Bit]]
  <2>1. [f \in Field |-> IF Layout[f].word = w THEN store[side][f] ELSE store[other][f]]
           \in [Field -> SUBSET Bit]
    BY <1>1 DEF TypeOK
  <2>. QED
    BY <1>1, <2>1 DEF CopyFields, TypeOK
<1>7. ReservedBitsClear'
  BY <1>3 DEF IInv, ReservedBitsClear
<1>8. FieldsIntact'
  <2>. SUFFICES ASSUME NEW s \in Sides, NEW g \in Writable
                PROVE  Held(Layout[g], mem'[s][Layout[g].word]) = store'[s][g]
    BY DEF FieldsIntact
  <2>1. g \in Field /\ Layout[g].word \in Words
    BY SaneFields DEF Writable
  <2>2. \A t \in Sides : Held(Layout[g], mem[t][Layout[g].word]) = store[t][g]
    BY DEF IInv, FieldsIntact
  <2>3. CASE s = other /\ Layout[g].word = w
    BY <1>3, <1>4, <2>1, <2>2, <2>3
  <2>4. CASE ~(s = other /\ Layout[g].word = w)
    BY <1>3, <1>4, <2>1, <2>2, <2>4
  <2>. QED
    BY <2>3, <2>4
<1>. QED
  BY <1>5, <1>6, <1>7, <1>8

\* An address leads back to the register it was made from.
LEMMA HomeAddress ==
    ASSUME NEW addr, NEW local, GoesHome(addr, local)
    PROVE  local \in Words /\ addr \div 4 = local
<1>1. local \in Words /\ addr = 4 * local
  BY DEF GoesHome
<1>2. PICK f \in Field : local = Layout[f].word
  BY <1>1 DEF Words
<1>3. local \in Nat
  BY <1>2, SaneFields
<1>. QED
  BY <1>1, <1>3

\* The sync call of a register keeps the invariant, in both directions.
LEMMA SyncRegIInv ==
    ASSUME IInv, NEW n \in DOMAIN RegSyncs, NEW dir \in Dirs, SyncReg(n, dir)
    PROVE  IInv'
<1>. DEFINE w == RegSyncs[n].local
<1>1. w \in Words /\ RegSyncs[n].read \div 4 = w /\ RegSyncs[n].write \div 4 = w
  BY LayoutAssumption, HomeAddress
<1>2. hk_next' = hk_next /\ Call({w})
  BY DEF SyncReg
<1>3. \/ Copy("fee", w, "dpu", w) /\ CopyFields("fee", "dpu", w)
      \/ Copy("dpu", w, "fee", w) /\ CopyFields("dpu", "fee", w)
  BY <1>1 DEF SyncReg
<1>4. /\ mem' \in [Sides -> [Words -> SUBSET Bit]]
      /\ store' \in [Sides -> [Field -> SUBSET Bit]]
      /\ ReservedBitsClear' /\ FieldsIntact'
  BY <1>1, <1>3, CopyKeeps DEF Sides
<1>5. calls' \in 0 .. MaxCalls /\ touched' \subseteq Words
  BY <1>1, <1>2, CallTypes DEF IInv
<1>. QED
  BY <1>2, <1>4, <1>5 DEF IInv, TypeOK

\* A read of smile_fee_sync_hk_regs keeps the invariant.
LEMMA ReadHkIInv ==
    ASSUME IInv, ReadHk
    PROVE  IInv'
<1>. DEFINE read == HkReads[hk_next]
            w == read.local
<1>1. hk_next \in DOMAIN HkReads /\ Len(HkReads) \in Nat
  <2>1. hk_next \in 0 .. Len(HkReads) /\ hk_next # 0
    BY DEF IInv, TypeOK, ReadHk
  <2>2. PICK len \in Nat : Len(HkReads) = len /\ DOMAIN HkReads = 1 .. len
    BY HkReadsExist
  <2>3. hk_next \in 1 .. len
    BY <2>1, <2>2
  <2>. QED
    BY <2>2, <2>3
<1>2. w \in Words /\ read.read \div 4 = w
  BY <1>1, LayoutAssumption, HomeAddress
<1>3. Copy("fee", w, "dpu", w) /\ CopyFields("fee", "dpu", w)
  BY <1>2 DEF ReadHk
<1>4. /\ mem' \in [Sides -> [Words -> SUBSET Bit]]
      /\ store' \in [Sides -> [Field -> SUBSET Bit]]
      /\ ReservedBitsClear' /\ FieldsIntact'
  BY <1>2, <1>3, CopyKeeps DEF Sides
<1>5. hk_next' \in 0 .. Len(HkReads)
  BY <1>1, HkReadsExist DEF ReadHk
<1>. QED
  BY <1>4, <1>5 DEF IInv, TypeOK, ReadHk

LEMMA NextIInv == IInv /\ [Next]_vars => IInv'
<1>. SUFFICES ASSUME IInv, [Next]_vars PROVE IInv'
  OBVIOUS
<1>1. ASSUME NEW side \in Sides, NEW f \in Field, NEW arg \in Args, SetField(side, f, arg)
      PROVE  IInv'
  BY <1>1, SetFieldIInv
<1>2. ASSUME NEW n \in DOMAIN RegSyncs, NEW dir \in Dirs, SyncReg(n, dir)
      PROVE  IInv'
  BY <1>2, SyncRegIInv
<1>3. ASSUME NEW f \in CfgField, NEW dir \in Dirs, SyncField(f, dir)
      PROVE  IInv'
  <2>1. FieldRegs[f] \in DOMAIN RegSyncs
    BY LayoutAssumption
  <2>. QED
    BY <1>3, <2>1, SyncRegIInv DEF SyncField
<1>4. CASE SyncHkRegs
  <2>1. mem' = mem /\ store' = store /\ hk_next' = 1 /\ Call({})
    BY <1>4 DEF SyncHkRegs
  <2>2. calls' \in 0 .. MaxCalls /\ touched' \subseteq Words
    BY <2>1, CallTypes DEF IInv
  <2>3. hk_next' \in 0 .. Len(HkReads)
    BY <2>1, HkReadsExist
  <2>. QED
    BY <2>1, <2>2, <2>3 DEF IInv, TypeOK, ReservedBitsClear, FieldsIntact
<1>5. CASE ReadHk
  BY <1>5, ReadHkIInv
<1>6. CASE UNCHANGED vars
  BY <1>6 DEF vars, IInv, TypeOK, ReservedBitsClear, FieldsIntact
<1>. QED
  BY <1>1, <1>2, <1>3, <1>4, <1>5, <1>6 DEF Next

\* The invariant holds in every reachable state.
THEOREM FieldInvariant == Spec => []IInv
<1>. QED
  BY InitIInv, NextIInv, PTL DEF Spec

\* Registers have 32 bits, fields no more than their own: the type invariant.
THEOREM TypeCorrect == Spec => []TypeOK
<1>1. IInv => TypeOK
  BY DEF IInv
<1>. QED
  BY <1>1, FieldInvariant, PTL

\* No call sets a bit that belongs to no field.
THEOREM ReservedBitsCorrect == Spec => []ReservedBitsClear
<1>1. IInv => ReservedBitsClear
  BY DEF IInv
<1>. QED
  BY <1>1, FieldInvariant, PTL

\* Fields that share registers behave as variables of their own.
THEOREM FieldsCorrect == Spec => []FieldsIntact
<1>1. IInv => FieldsIntact
  BY DEF IInv
<1>. QED
  BY <1>1, FieldInvariant, PTL

\* A getter that reads where its setter writes returns what was last set or
\* synced.
THEOREM GettersCorrect == Spec => []GettersAgree
<1>1. IInv => GettersAgree
  <2>. SUFFICES ASSUME IInv, NEW s \in Sides, NEW f \in Readable
                PROVE  Getter(Layout[f], mem[s][Layout[f].word]) = store[s][f]
    BY DEF GettersAgree
  <2>. DEFINE l == Layout[f]
              word == mem[s][l.word]
  <2>1. /\ f \in Field /\ f \in Writable /\ l.get \in {"masked", "inverted"}
        /\ Sane(l) /\ l.word \in Words
    BY SaneFields DEF Readable, Writable
  <2>2. word \in SUBSET Bit /\ word \subseteq Used[l.word]
    BY <2>1 DEF IInv, TypeOK, ReservedBitsClear
  <2>3. ASSUME l.get = "inverted", NEW b \in word
        PROVE  b <= l.lsb
    <3>1. PICK g \in Field : Layout[g].word = l.word /\ b \in Mask(Layout[g])
      BY <2>1, <2>2, <2>3 DEF Used
    <3>2. PICK n \in Bit : l.lsb = n /\ l.width = 1 /\ l.set = "inverted"
      BY <2>1, <2>3 DEF Sane, FieldRecords
    <3>3. PICK m \in Bit, v \in 1 .. 32 : Layout[g].lsb = m /\ Layout[g].width = v
      BY SaneFields DEF Sane, FieldRecords
    <3>4. b \in m .. m + v - 1
      BY <3>1, <3>3 DEF Mask
    <3>5. CASE g = f
      BY <3>2, <3>3, <3>4, <3>5 DEF Bit
    <3>6. CASE g # f
      <4>1. m < n /\ Mask(Layout[g]) \cap Mask(l) = {}
        BY <2>1, <3>1, <3>2, <3>3, <3>6, LayoutAssumption
      <4>2. n \in Mask(l) /\ Mask(Layout[g]) = m .. m + v - 1
        BY <3>2, <3>3 DEF Mask, Bit
      <4>3. n \notin m .. m + v - 1
        BY <4>1, <4>2
      <4>. QED
        BY <3>2, <3>4, <4>1, <4>3 DEF Bit
    <3>. QED
      BY <3>5, <3>6
  <2>4. Getter(l, word) = Held(l, word)
    BY <2>1, <2>2, <2>3, GetterHeld
  <2>5. Held(l, word) = store[s][f]
    BY <2>1 DEF IInv, FieldsIntact
  <2>. QED
    BY <2>4, <2>5
<1>. QED
  BY <1>1, FieldInvariant, PTL
=============================================================================
