-------------------------- MODULE M68kDisassembler --------------------------
(***************************************************************************)
(* m68kdasm.c, for the number of extension words it reads: m68k_disassemble*)
(* returns the size of the instruction, and what it lists next begins      *)
(* there.  It decodes on its own; nothing is shared with the handlers.     *)
(* The text it writes is left out.                                         *)
(*                                                                         *)
(* A definition stands for the d68000_ functions that follow each other in *)
(* the file, and says which words they read by the instruction's name.     *)
(***************************************************************************)
EXTENDS Naturals

\* get_imm_str_s and get_imm_str_u: a byte comes in a word.
ImmStr(z) == IF z = 4 THEN 2 ELSE 1

\* get_ea_mode_str.  Bit 8 of an index word makes it a full extension word with
\* displacements behind it, o.more of them, whatever the type of the CPU.
EaModeStr(z, o) ==
  CASE o.mode \in {"d", "a", "ai", "pi", "pd"} -> 0
    [] o.mode \in {"di", "aw", "pcdi"} -> 1
    [] o.mode \in {"ix", "pcix"} -> 1 + o.more
    [] o.mode = "al" -> 2
    [] o.mode = "i" -> ImmStr(z)

Ea1(i)   == EaModeStr(i.z, i.ea)
ImmEa(i) == ImmStr(i.z) + Ea1(i)

DasmAdd(i) ==  \* abcd_rr ... addx_mm_32
  CASE i.name \in {"abcd", "addx"} -> 0
    [] i.name \in {"add", "adda", "addq"} -> Ea1(i)
    [] i.name = "addi" -> ImmEa(i)
DasmAnd(i) ==  \* and_er_8 ... andi_to_sr
  CASE i.name = "and" -> Ea1(i)
    [] i.name = "andi" /\ i.form = "toc" -> ImmStr(1)
    [] i.name = "andi" /\ i.form # "toc" -> ImmEa(i)
DasmAs(i) ==  \* asr_s_8 ... asl_ea
  IF i.form = "" THEN EaModeStr(2, i.ea) ELSE 0
DasmBcc(i) ==  \* bcc_8, bcc_16
  IF i.z = 1 THEN 0 ELSE 1
DasmBchg(i) ==  \* bchg_r ... bclr_s: a bit number is a byte
  (IF i.form = "s" THEN ImmStr(1) ELSE 0) + EaModeStr(1, i.ea)
DasmBra(i) ==  \* bra_8 ... btst_s
  IF i.name \in {"bra", "bsr"} THEN DasmBcc(i) ELSE DasmBchg(i)
DasmChk(i) == Ea1(i)
DasmClr(i) ==  \* clr_8 ... cmpi_32, cmpm_32
  CASE i.name \in {"clr", "cmp", "cmpa"} -> Ea1(i)
    [] i.name = "cmpi" -> ImmEa(i)
    [] i.name = "cmpm" -> 0
DasmDbcc(i) ==  \* dbra ... divu
  IF i.name \in {"dbt", "dbf", "dbcc"} THEN 1 ELSE Ea1(i)
DasmEor(i) ==  \* eor_8 ... ext_32
  CASE i.name = "eor" -> Ea1(i)
    [] i.name = "eori" /\ i.form = "toc" -> ImmStr(1)
    [] i.name = "eori" /\ i.form # "toc" -> ImmEa(i)
    [] i.name \in {"exg", "ext"} -> 0
DasmJmp(i) ==  \* jmp ... link_16
  IF i.name = "link" THEN ImmStr(2) ELSE EaModeStr(4, i.ea)
DasmLs(i) ==  \* lsr_s_8 ... lsl_ea
  IF i.form = "" THEN EaModeStr(4, i.ea) ELSE 0
DasmMove(i) ==  \* move_8 ... move_to_ccr
  CASE i.name = "move" /\ i.form = "toc" -> EaModeStr(1, i.ea)
    [] i.name = "move" /\ i.form # "toc" -> Ea1(i) + EaModeStr(i.z, i.to)
    [] i.name = "movea" -> Ea1(i)
DasmMovem(i) == 1 + Ea1(i)  \* movem_pd_16 ... movem_re_32
DasmMovep(i) ==  \* movep_re_16 ... moveq
  IF i.name = "movep" THEN 1 ELSE 0
DasmMul(i) == EaModeStr(2, i.ea)  \* muls, mulu
DasmNeg(i) ==  \* nbcd ... not_32
  IF i.name = "nop" THEN 0 ELSE Ea1(i)
DasmOr(i) ==  \* or_er_8 ... ori_to_sr
  CASE i.name = "or" -> Ea1(i)
    [] i.name = "ori" /\ i.form = "toc" -> ImmStr(1)
    [] i.name = "ori" /\ i.form # "toc" -> ImmEa(i)
DasmPea(i) == EaModeStr(4, i.ea)
DasmRo(i) ==  \* ror_s_8 ... roxl_ea
  IF i.form = "" THEN EaModeStr(4, i.ea) ELSE 0
DasmRtr(i) ==  \* rtr ... scc
  IF i.name \in {"st", "sf", "scc"} THEN EaModeStr(1, i.ea) ELSE 0
DasmSub(i) ==  \* sub_er_8 ... swap
  CASE i.name \in {"sub", "suba", "subq"} -> Ea1(i)
    [] i.name = "subi" -> ImmEa(i)
    [] i.name \in {"subx", "swap"} -> 0
DasmTas(i) == EaModeStr(1, i.ea)
DasmTrapv(i) ==  \* trapv ... unlk
  IF i.name = "tst" THEN Ea1(i) ELSE 0

\* m68k_disassemble: the opcode, and the words its function reads.
Disassembled(i) ==
  2 + 2 *
  CASE i.name \in {"abcd", "add", "adda", "addi", "addq", "addx"} -> DasmAdd(i)
    [] i.name \in {"and", "andi"} -> DasmAnd(i)
    [] i.name \in {"asr", "asl"} -> DasmAs(i)
    [] i.name = "bcc" -> DasmBcc(i)
    [] i.name \in {"bchg", "bclr"} -> DasmBchg(i)
    [] i.name \in {"bra", "bset", "bsr", "btst"} -> DasmBra(i)
    [] i.name = "chk" -> DasmChk(i)
    [] i.name \in {"clr", "cmp", "cmpa", "cmpi", "cmpm"} -> DasmClr(i)
    [] i.name \in {"dbt", "dbf", "dbcc", "divs", "divu"} -> DasmDbcc(i)
    [] i.name \in {"eor", "eori", "exg", "ext"} -> DasmEor(i)
    [] i.name \in {"jmp", "jsr", "lea", "link"} -> DasmJmp(i)
    [] i.name \in {"lsr", "lsl"} -> DasmLs(i)
    [] i.name \in {"move", "movea"} -> DasmMove(i)
    [] i.name = "movem" -> DasmMovem(i)
    [] i.name \in {"movep", "moveq"} -> DasmMovep(i)
    [] i.name \in {"muls", "mulu"} -> DasmMul(i)
    [] i.name \in {"nbcd", "neg", "negx", "nop", "not"} -> DasmNeg(i)
    [] i.name \in {"or", "ori"} -> DasmOr(i)
    [] i.name = "pea" -> DasmPea(i)
    [] i.name \in {"ror", "rol", "roxr", "roxl"} -> DasmRo(i)
    [] i.name \in {"rtr", "rts", "sbcd", "st", "sf", "scc"} -> DasmRtr(i)
    [] i.name \in {"sub", "suba", "subi", "subq", "subx", "swap"} -> DasmSub(i)
    [] i.name = "tas" -> DasmTas(i)
    [] i.name \in {"trapv", "tst", "unlk"} -> DasmTrapv(i)
=============================================================================
