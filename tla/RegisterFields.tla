--------------------------- MODULE RegisterFields ---------------------------
(***************************************************************************)
(* The fields of the registers, as a client of FEE/smile_fee_ctrl.c sees   *)
(* them: a setter is a read-modify-write of a register that several fields *)
(* share, a sync call moves a whole register, a getter picks its bits out. *)
(* The same functions serve the DPU's mirror and, in the simulator, the    *)
(* memory of the FEE.  The history variable "store" is what it is meant to *)
(* look like: a variable per field and side.                               *)
(*                                                                         *)
(* The content of a register, or of an argument, is the set of the bits    *)
(* that are 1, in the byte order of the CPU.  A transfer is one step: the  *)
(* client waits for it, as the USAGE comment asks, and RmapSync shows what *)
(* it may rely on then.  The layout is a parameter; RegisterMap has the    *)
(* code's.                                                                 *)
(***************************************************************************)
EXTENDS Integers, Sequences, FiniteSets

CONSTANTS
    Layout,       \* for each field the register, the bits, how it is accessed
    RegSyncs,     \* for each configuration register its sync call
    FieldRegs,    \* for each configuration field the register it is synced with
    HkReads,      \* the reads of smile_fee_sync_hk_regs
    LittleEndian, \* the byte order of the CPU
    Args,         \* what setters are called with
    MaxCalls,     \* bound on the calls
    MaxTouched    \* bound on the registers the calls are about

Bit == 0 .. 31
Field == DOMAIN Layout
Words == {Layout[f].word : f \in Field}
Sides == {"dpu", "fee"}
CfgField == DOMAIN FieldRegs

\* The bits of a register that belong to a field.
Mask(l) == l.lsb .. l.lsb + l.width - 1

FieldRecords ==
    [word : Nat, lsb : Bit, width : 1 .. 32,
     set : {"masked", "flag", "inverted", "not zero", "four bits"},
     get : {"masked", "inverted", "uint16_t", "shifted first", "unswapped"}]

\* A transfer goes to the place in the FEE that the mirror has the register at.
GoesHome(addr, local) == local \in Words /\ addr = 4 * local

\* The bits of a register that belong to some field.
Used == [w \in Words |-> UNION {Mask(Layout[f]) : f \in {g \in Field : Layout[g].word = w}}]

\* No two fields share a bit, what a setter turns into 0 or 1 has one bit,
\* nothing lies above an inverted flag, a field is synced with its register.
ASSUME LayoutAssumption ==
    /\ \A f \in Field :
          /\ Layout[f] \in FieldRecords
          /\ Layout[f].lsb + Layout[f].width <= 32
          /\ Layout[f].set \in {"flag", "inverted"} => Layout[f].width = 1
          /\ Layout[f].set = "four bits" => Layout[f].width >= 4
          /\ Layout[f].set = "inverted" <=> Layout[f].get = "inverted"
    /\ \A f, g \in Field : f # g /\ Layout[f].word = Layout[g].word =>
          /\ Mask(Layout[f]) \cap Mask(Layout[g]) = {}
          /\ Layout[f].set = "inverted" => Layout[g].lsb < Layout[f].lsb
    /\ \A n \in DOMAIN RegSyncs : /\ GoesHome(RegSyncs[n].read, RegSyncs[n].local)
                                  /\ GoesHome(RegSyncs[n].write, RegSyncs[n].local)
    /\ CfgField \subseteq Field
    /\ \A f \in CfgField : /\ FieldRegs[f] \in DOMAIN RegSyncs
                           /\ RegSyncs[FieldRegs[f]].local = Layout[f].word
    /\ Len(HkReads) \in Nat \ {0} /\ DOMAIN HkReads = 1 .. Len(HkReads)
    /\ \A i \in DOMAIN HkReads : GoesHome(HkReads[i].read, HkReads[i].local)

ASSUME RegisterFieldsAssumption ==
    /\ LittleEndian \in BOOLEAN
    /\ Args \subseteq SUBSET Bit
    /\ MaxCalls \in Nat
    /\ MaxTouched \in Nat

VARIABLES
    mem,        \* the registers of both sides
    hk_next,    \* the read of smile_fee_sync_hk_regs that comes next, 0 if none
    store,      \* history: the fields of both sides, each on its own
    calls,      \* history: number of calls
    touched     \* history: registers the calls were about

vars == <<mem, hk_next, store, calls, touched>>

----------------------------------------------------------------------------
ShiftLeft(bits, n) == {b + n : b \in bits}
ShiftRight(bits, n) == {b - n : b \in bits \cap (n .. 31)}
LowBits(width) == 0 .. width - 1

\* be32_to_cpu of what was in memory, cpu_to_be32 of what goes there
Swap(bits) == {8 * (3 - (b \div 8)) + (b % 8) : b \in bits}
Swapped(bits) == IF LittleEndian THEN Swap(bits) ELSE bits

\* 1 if the condition holds
One(condition) == {x \in {0} : condition}

\* What a setter makes of its argument.
Written(l, arg) ==
    IF l.set = "flag" THEN One(arg # {})
    ELSE IF l.set = "inverted" THEN One(arg = {})
    ELSE arg \cap LowBits(IF l.set = "four bits" THEN 4 ELSE l.width)

\* Mutant: the mask is not shifted to where the field is.
MutMaskUnshifted(l, arg, word) ==
    (word \ LowBits(l.width)) \cup ShiftLeft(Written(l, arg), l.lsb)

\* Mutant: the argument is not masked.
MutArgUnmasked(l, arg, word) ==
    (word \ Mask(l)) \cup (ShiftLeft(arg, l.lsb) \cap Bit)

\* Mutant: the argument is neither masked nor cut to the width of a register.
MutArgWide(l, arg, word) ==
    (word \ Mask(l)) \cup ShiftLeft(arg, l.lsb)

\* The field's bits are cleared and set anew, the others stay.
SetBits(l, arg, word) ==
    (word \ Mask(l)) \cup ShiftLeft(Written(l, arg), l.lsb)

\* smile_fee_set_...
Setter(l, arg, word) ==
    IF l.set = "not zero" /\ arg = {} THEN word ELSE SetBits(l, arg, word)

\* What a getter masks.
Loaded(l, word) ==
    IF l.get = "shifted first" THEN Swapped(ShiftRight(Swapped(word), l.lsb))
    ELSE IF l.get = "unswapped" THEN ShiftRight(Swapped(word), l.lsb)
    ELSE ShiftRight(word, l.lsb)

\* Mutant: one bit too many is read.
MutGetMaskWide(l) == 0 .. l.width

\* The mask of a getter, and its cast.
GetMask(l) ==
    IF l.get = "shifted first" THEN LowBits(16)
    ELSE IF l.get = "uint16_t" THEN LowBits(l.width) \cap LowBits(16)
    ELSE LowBits(l.width)

\* smile_fee_get_...; that of an inverted flag tests all the bits above it too.
Getter(l, word) ==
    IF l.get = "inverted" THEN One(ShiftRight(word, l.lsb) = {})
    ELSE Loaded(l, word) \cap GetMask(l)

\* What a field holds after its setter was called.
Kept(l, arg, old) ==
    IF l.set \in {"flag", "inverted"} THEN One(arg # {})
    ELSE IF l.set = "not zero" /\ arg = {} THEN old
    ELSE arg \cap LowBits(l.width)

\* What a field holds, read off its bits.
Held(l, word) ==
    LET bits == ShiftRight(word \cap Mask(l), l.lsb)
    IN  IF l.set = "inverted" THEN {0} \ bits ELSE bits

----------------------------------------------------------------------------
\* smile_fee_ctrl_init: the mirror is cleared; the memory of the simulator is
\* static.
Init ==
    /\ mem = [s \in Sides |-> [w \in Words |-> {}]]
    /\ hk_next = 0
    /\ store = [s \in Sides |-> [f \in Field |-> Held(Layout[f], {})]]
    /\ calls = 0
    /\ touched = {}

\* The bounds: how many calls, about how many registers.
Call(words) ==
    /\ calls < MaxCalls
    /\ Cardinality(touched \cup words) <= MaxTouched
    /\ calls' = calls + 1
    /\ touched' = touched \cup words

\* Only the simulator has setters for HK fields.
SetField(side, f, arg) ==
    /\ side = "dpu" => f \in CfgField /\ hk_next = 0
    /\ Call({Layout[f].word})
    /\ mem' = [mem EXCEPT ![side][Layout[f].word] = Setter(Layout[f], arg, @)]
    /\ store' = [store EXCEPT ![side][f] = Kept(Layout[f], arg, @)]
    /\ UNCHANGED hk_next

\* Register "from" of one side goes to place "to" of the other.
Copy(side, from, other, to) ==
    mem' = [mem EXCEPT ![other][to] = mem[side][from]]

\* With a register go all its fields.
CopyFields(side, other, word) ==
    store' = [store EXCEPT ![other] =
                 [f \in Field |-> IF Layout[f].word = word THEN store[side][f]
                                  ELSE store[other][f]]]

\* smile_fee_sync_cfg_reg_...
SyncReg(n, dir) ==
    /\ hk_next = 0
    /\ Call({RegSyncs[n].local})
    /\ \/ /\ dir = "FEE2DPU"
          /\ Copy("fee", RegSyncs[n].read \div 4, "dpu", RegSyncs[n].local)
          /\ CopyFields("fee", "dpu", RegSyncs[n].local)
       \/ /\ dir = "DPU2FEE"
          /\ Copy("dpu", RegSyncs[n].local, "fee", RegSyncs[n].write \div 4)
          /\ CopyFields("dpu", "fee", RegSyncs[n].local)
    /\ UNCHANGED hk_next

\* smile_fee_sync_..., the sync call of a field
SyncField(f, dir) == SyncReg(FieldRegs[f], dir)

\* smile_fee_sync_hk_regs asks for one register after the other; the FEE goes
\* on in between.
SyncHkRegs ==
    /\ hk_next = 0
    /\ Call({})
    /\ hk_next' = 1
    /\ UNCHANGED <<mem, store>>

ReadHk ==
    /\ hk_next # 0
    /\ LET read == HkReads[hk_next] IN
       /\ Copy("fee", read.read \div 4, "dpu", read.local)
       /\ CopyFields("fee", "dpu", read.local)
    /\ hk_next' = IF hk_next = Len(HkReads) THEN 0 ELSE hk_next + 1
    /\ UNCHANGED <<calls, touched>>

Dirs == {"FEE2DPU", "DPU2FEE"}

Next ==
    \/ \E side \in Sides, f \in Field, arg \in Args : SetField(side, f, arg)
    \/ \E n \in DOMAIN RegSyncs, dir \in Dirs : SyncReg(n, dir)
    \/ \E f \in CfgField, dir \in Dirs : SyncField(f, dir)
    \/ SyncHkRegs
    \/ ReadHk

Spec == Init /\ [][Next]_vars

----------------------------------------------------------------------------
\* Each register has 32 bits; each field holds no more than its bits.
TypeOK ==
    /\ mem \in [Sides -> [Words -> SUBSET Bit]]
    /\ hk_next \in 0 .. Len(HkReads)
    /\ store \in [Sides -> [Field -> SUBSET Bit]]
    /\ calls \in 0 .. MaxCalls
    /\ touched \subseteq Words

\* Fields whose setter writes all the bits it clears (not hk_fpga_op_mode).
Writable == {f \in Field : Layout[f].set # "four bits"}

\* Fields whose getter looks at the bits the setter writes.
Readable == {f \in Writable : Layout[f].get \in {"masked", "inverted"}}

\* Whatever is set and synced in whatever order on both sides, the bits of a
\* field are what a variable of its own would hold: a setter leaves the other
\* fields of its register alone, and a sync call brings the register to its
\* place (smile_fee_ctrl.c 93-4988, smile_fee_cmd.c).
FieldsIntact ==
    \A s \in Sides, f \in Writable :
        Held(Layout[f], mem[s][Layout[f].word]) = store[s][f]

\* So a client that sets, syncs and gets (USAGE, smile_fee_ctrl.c 19-42) reads
\* what was last set or synced, whatever else was done to the register; but for
\* four fields whose getter does not match the setter, whatever is done (973,
\* 1050, 1354, 3230).
GettersAgree ==
    \A s \in Sides, f \in Readable :
        Getter(Layout[f], mem[s][Layout[f].word]) = store[s][f]

\* No call ever sets a bit that belongs to no field: the FEE keeps what it has
\* there, and smile_fee_get_adc_pwrdn_en (552), which tests four bits for one,
\* gives the right answer.
ReservedBitsClear ==
    \A s \in Sides, w \in Words : mem[s][w] \subseteq Used[w]
=============================================================================
