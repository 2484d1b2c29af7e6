------------------------------ MODULE Bytecode ------------------------------
(***************************************************************************)
(* A compiled function as bytes in a snapshot                              *)
(* (src/lib/encode-snapshot-function-body.ts), as the engine on the device *)
(* reads them (src/native-vm/microvium.c), and as decode-snapshot.ts makes *)
(* the instructions of the IL of them again.                               *)
(*                                                                         *)
(* How long a jump is depends on how far it goes, and that depends on how  *)
(* long the others are.  The encoder lays the function out three times: at *)
(* first each instruction has its largest size, and each layout takes the  *)
(* distances from the one before.  Handlers and the points at which an     *)
(* async function resumes are pointed at, and stand at multiples of four   *)
(* with a header before them, which leads back to the function.            *)
(*                                                                         *)
(* A value or a variable that takes a word is that word: its two halves    *)
(* are kept as they are.                                                   *)
(***************************************************************************)
EXTENDS Execution

-----------------------------------------------------------------------------
(***************************************************************************)
(* The instruction set, which the compiler and the engine each have a list *)
(* of.  The place in a list is the number.  What is an instruction of the  *)
(* IL, or an operator, has its name.                                       *)
(***************************************************************************)
vm_TeOpcode ==
    <<"Literal", "LoadVar", "LoadScoped", "LoadArg", "CALL_1", "FIXED_ARRAY_NEW_1", "EXTENDED_1",
      "EXTENDED_2", "EXTENDED_3", "CALL_5", "StoreVar", "StoreScoped", "ARRAY_GET_1",
      "ARRAY_SET_1", "NUM_OP", "BIT_OP">>
vm_TeOpcodeEx1 ==
    <<"Return", "Throw", "ClosureNew", "New", "RESERVED_VIRTUAL_NEW", "ScopeNew", "typeCodeOf",
      "Pop", "typeof", "ObjectNew", "!", "ObjectGet", "+", "===", "!==", "ObjectSet">>
vm_TeOpcodeEx2 ==
    <<"Branch", "STORE_ARG", "StoreScoped", "StoreVar", "ARRAY_GET_2", "ARRAY_SET_2", "Jump",
      "CALL_HOST", "Call", "CALL_6", "LoadScoped", "LoadVar", "LoadArg", "EXTENDED_4",
      "ArrayNew", "FIXED_ARRAY_NEW_2">>
vm_TeOpcodeEx3 ==
    <<"POP_N", "ScopeDiscard", "ScopeClone", "Await", "AwaitCall", "AsyncResume", "RESERVED_3",
      "Jump", "Literal", "LoadGlobal", "LoadScoped", "Branch", "StoreGlobal", "StoreScoped",
      "OBJECT_GET_2", "OBJECT_SET_2">>
vm_TeOpcodeEx4 ==
    <<"StartTry", "EndTry", "ObjectKeys", "Uint8ArrayNew", "ClassCreate", "TypeCodeOf", "LoadReg",
      "ScopePush", "ScopePop", "ScopeSave", "AsyncStart", "AsyncReturn", "EnqueueJob",
      "AsyncComplete">>
vm_TeNumberOp ==
    <<"<", ">", "<=", ">=", "ADD_NUM", "-", "*", "/", "DIVIDE_AND_TRUNC", "%", "**", "NEGATE",
      "UNARY_PLUS">>
vm_TeBitwiseOp == <<">>", ">>>", "<<", "|", "&", "^", "~">>
vm_TeSmallLiteralValue ==
    <<"deleted", "undefined", "null", "false", "true", "-1", "0", "1", "2", "3", "4", "5">>

\* The engine's.
VM_OP ==
    <<"Literal", "LoadVar", "LoadScoped", "LoadArg", "CALL_1", "FIXED_ARRAY_NEW_1", "EXTENDED_1",
      "EXTENDED_2", "EXTENDED_3", "CALL_5", "StoreVar", "StoreScoped", "ARRAY_GET_1",
      "ARRAY_SET_1", "NUM_OP", "BIT_OP">>
VM_OP1 ==
    <<"Return", "Throw", "ClosureNew", "New", "RESERVED_VIRTUAL_NEW", "ScopeNew", "typeCodeOf",
      "Pop", "typeof", "ObjectNew", "!", "ObjectGet", "+", "===", "!==", "ObjectSet">>
VM_OP2 ==
    <<"Branch", "STORE_ARG", "StoreScoped", "StoreVar", "ARRAY_GET_2", "ARRAY_SET_2", "Jump",
      "CALL_HOST", "Call", "CALL_6", "LoadScoped", "LoadVar", "LOAD_ARG_2", "EXTENDED_4",
      "ArrayNew", "FIXED_ARRAY_NEW_2">>
VM_OP3 ==
    <<"POP_N", "ScopeDiscard", "ScopeClone", "Await", "AwaitCall", "AsyncResume", "RESERVED_3",
      "Jump", "Literal", "LoadGlobal", "LoadScoped", "Branch", "StoreGlobal", "StoreScoped",
      "OBJECT_GET_2", "OBJECT_SET_2">>
VM_OP4 ==
    <<"StartTry", "EndTry", "ObjectKeys", "Uint8ArrayNew", "ClassCreate", "TypeCodeOf", "LoadReg",
      "ScopePush", "ScopePop", "ScopeSave", "AsyncStart", "AsyncReturn", "EnqueueJob",
      "AsyncComplete">>
VM_NUM_OP ==
    <<"<", ">", "<=", ">=", "ADD_NUM", "-", "*", "/", "DIVIDE_AND_TRUNC", "%", "**", "NEGATE",
      "UNARY_PLUS">>
VM_BIT_OP == <<">>", ">>>", "<<", "|", "&", "^", "~">>
smallLiterals ==
    <<"deleted", "undefined", "null", "false", "true", "-1", "0", "1", "2", "3", "4", "5">>

Numbers(table) ==
    [name \in ToSet(table) |-> CHOOSE n \in 0 .. Len(table) - 1 : table[n + 1] = name]
Opcode == Numbers(vm_TeOpcode)
OpcodeEx1 == Numbers(vm_TeOpcodeEx1)
OpcodeEx2 == Numbers(vm_TeOpcodeEx2)
OpcodeEx3 == Numbers(vm_TeOpcodeEx3)
OpcodeEx4 == Numbers(vm_TeOpcodeEx4)
NumberOp == Numbers(vm_TeNumberOp)
BitwiseOp == Numbers(vm_TeBitwiseOp)
SmallLiteral == Numbers(vm_TeSmallLiteralValue)

IsSInt8(n) == n \in -128 .. 127
UInt16(n) == <<n % 256, (n \div 256) % 256>>
Word(v) == <<<<"low", v>>, <<"high", v>>>>
Zeros(n) == [i \in 1 .. n |-> 0]

-----------------------------------------------------------------------------
(***************************************************************************)
(* Instructions whose size is known                                        *)
(***************************************************************************)
Nibbles(op, n) == <<16 * Opcode[op] + n>>
Ex1(op) == Nibbles("EXTENDED_1", OpcodeEx1[op])
Ex2(op) == Nibbles("EXTENDED_2", OpcodeEx2[op])
Ex3(op) == Nibbles("EXTENDED_3", OpcodeEx3[op])
Ex4(op) == Append(Ex2("EXTENDED_4"), OpcodeEx4[op])

\* The shortest form that has room for the index.
Indexed(op, n) ==
    IF n < 16 THEN Nibbles(op, n)
    ELSE IF n < 256 THEN Append(Ex2(op), n) ELSE Ex3(op) \o UInt16(n)

ilBinOpCodeToVm(operator) ==
    CASE operator \in DOMAIN NumberOp -> Nibbles("NUM_OP", NumberOp[operator])
      [] operator \in DOMAIN BitwiseOp -> Nibbles("BIT_OP", BitwiseOp[operator])
      [] OTHER -> Ex1(operator)
ilUnOpCodeToVm(operator) ==
    CASE operator = "-" -> Nibbles("NUM_OP", NumberOp["NEGATE"])
      [] operator = "+" -> Nibbles("NUM_OP", NumberOp["UNARY_PLUS"])
      [] operator = "~" -> Nibbles("BIT_OP", BitwiseOp["~"])
      [] OTHER -> Ex1(operator)

\* The instruction is a jump over what makes up the size.
EncodeNop(size) ==
    IF size = 2 THEN Append(Ex2("Jump"), 0)
    ELSE Ex3("Jump") \o UInt16(size - 3) \o Zeros(size - 3)
EncodeLiteral(value) ==
    IF value \in DOMAIN SmallLiteral \ {"deleted"} THEN Nibbles("Literal", SmallLiteral[value])
    ELSE Ex3("Literal") \o Word(value)

\* A count, and a flag in the bit above it.
Flagged(args) == args[1] + (IF args[2] THEN 128 ELSE 0)

\* Variables are numbered from the top of the stack, as it is when a value
\* that is stored has been taken off.
Variable(o) ==
    CASE o.op = "LoadVar" -> Indexed("LoadVar", o.before - o.args[1] - 1)
      [] o.op = "StoreVar" -> Indexed("StoreVar", o.before - 2 - o.args[1])
      [] o.op \in {"LoadArg", "LoadScoped", "StoreScoped"} -> Indexed(o.op, o.args[1])
      [] o.op \in {"LoadGlobal", "StoreGlobal"} -> Ex3(o.op) \o Word(o.args[1])
Counted(o) ==
    CASE o.op = "Call" -> Append(Ex2("Call"), Flagged(o.args))
      [] o.op = "AsyncStart" -> Append(Ex4("AsyncStart"), Flagged(o.args))
      [] o.op \in {"New", "ScopeNew"} -> Append(Ex1(o.op), o.args[1])
      [] o.op = "ArrayNew" -> Append(Ex2("ArrayNew"), o.args[1])
      [] o.op = "AwaitCall" -> Append(Ex3("AwaitCall"), o.args[1])
      [] o.op = "ScopePush" -> Append(Ex4("ScopePush"), o.args[1])
Plain(o) ==
    CASE o.op \in {"Return", "Throw", "ClosureNew", "ObjectNew", "ObjectGet", "ObjectSet"} ->
           Ex1(o.op)
      [] o.op \in {"Await", "ScopeClone", "ScopeDiscard"} -> Ex3(o.op)
      [] o.op \in {"EndTry", "AsyncReturn", "AsyncComplete", "EnqueueJob", "ObjectKeys",
                   "Uint8ArrayNew", "ClassCreate", "TypeCodeOf", "LoadReg", "ScopePop",
                   "ScopeSave"} -> Ex4(o.op)
Instruction(o) ==
    CASE o.op = "Literal" -> EncodeLiteral(o.args[1])
      [] o.op \in {"LoadVar", "StoreVar", "LoadArg", "LoadScoped", "StoreScoped", "LoadGlobal",
                   "StoreGlobal"} -> Variable(o)
      [] o.op \in {"Call", "AsyncStart", "New", "ScopeNew", "ArrayNew", "AwaitCall", "ScopePush"} ->
           Counted(o)
      [] o.op = "BinOp" -> ilBinOpCodeToVm(o.args[1])
      [] o.op = "UnOp" -> ilUnOpCodeToVm(o.args[1])
      [] o.op = "Pop" -> IF o.args[1] > 1 THEN Append(Ex3("POP_N"), o.args[1]) ELSE Ex1("Pop")
      [] o.op = "Nop" -> EncodeNop(o.args[1])
      [] OTHER -> Plain(o)

-----------------------------------------------------------------------------
(***************************************************************************)
(* The layout.  A place is an instruction or the start of a block; a       *)
(* layout says where each place is, from the start of the function, and    *)
(* its size.                                                               *)
(***************************************************************************)
\* An instruction as the encoder gets it.
InIL(o, closureSize) ==
    CASE o.op = "Equals" -> [o EXCEPT !.op = "BinOp", !.args = <<"===">>]
      [] o.op = "AsyncStart" -> [o EXCEPT !.args = <<closureSize, FALSE>>]
      [] o.op = "Literal" -> [o EXCEPT !.args = IF @[1] = Deleted THEN <<"deleted">> ELSE <<@[1][2]>>]
      [] OTHER -> o

\* The blocks in the order in which they are written, from those left: a block
\* that is jumped to is next, unless it has its place.
Prefer(queue, next) ==
    IF next \in ToSet(queue) THEN <<next>> \o SelectSeq(queue, LAMBDA b : b # next) ELSE queue
RECURSIVE OutputOrder(_, _)
OutputOrder(blocks, queue) ==
    LET prefer(rest, o) == CASE o.op = "Jump" -> Prefer(rest, o.args[1])
                             [] o.op = "Branch" -> Prefer(rest, o.args[2])
                             [] OTHER -> rest
    IN  IF queue = <<>> THEN <<>>
        ELSE <<Head(queue)>>
                 \o OutputOrder(blocks, FoldLeft(prefer, Tail(queue), blocks[Head(queue)]))

\* The blocks that are addressable have a header.
findAddressableBlocks(blocks) ==
    {o.args[1] : o \in {i \in UNION {ToSet(blocks[b]) : b \in DOMAIN blocks} : i.op = "StartTry"}}

\* A function to encode: the places, and where in that list each block starts.
ToEncode(c) ==
    LET blocks == [b \in ToSet(c.order) |->
                      [i \in DOMAIN c.code[b].ops |-> InIL(c.code[b].ops[i], c.closureSize)]]
        handlers == findAddressableBlocks(blocks)
        label(b) == [op |-> IF b \in handlers THEN "Header" ELSE "Label", args |-> <<b>>]
        order == OutputOrder(blocks, c.order)
        places == FlattenSeq([k \in DOMAIN order |-> <<label(order[k])>> \o blocks[order[k]]])
        IsStart(p) == places[p].op \in {"Header", "Label"}
        starts == {p \in DOMAIN places : IsStart(p)}
    IN  [places |-> places,
         start |-> [b \in ToSet(order) |-> CHOOSE p \in starts : places[p].args = <<b>>]]

\* What padding, a header and what follows it may take at most.
MaxSize(o) ==
    CASE o.op = "Label" -> 0
      [] o.op = "Header" -> 3 + 2
      [] o.op = "Jump" -> 3
      [] o.op = "Branch" -> 6
      [] o.op = "StartTry" -> 4
      [] o.op = "AsyncResume" -> 3 + 2 + 3
      [] OTHER -> Len(Instruction(o))

AddressOfBlock(f, layout, b) == layout[f.start[b]].at + layout[f.start[b]].size
End_(layout, p) == layout[p].at + layout[p].size

\* The farthest that the block may be, as the jump itself may become shorter.
tentativeOffsetOfBlock(f, estimate, p, b) ==
    LET target == AddressOfBlock(f, estimate, b)
    IN  IF target > End_(estimate, p) THEN target - estimate[p].at
        ELSE target - End_(estimate, p)

JumpSize(offset) == IF offset = 0 THEN 0 ELSE IF IsSInt8(offset) THEN 2 ELSE 3
\* A branch is in front of a jump, of at most 3 bytes.
TentativeConsequent(f, estimate, p) ==
    LET offset == tentativeOffsetOfBlock(f, estimate, p, f.places[p].args[1])
    IN  IF offset < 0 THEN offset + 3 ELSE offset
BranchSize(f, estimate, p) == IF IsSInt8(TentativeConsequent(f, estimate, p)) THEN 2 ELSE 3
\* The size of the jump to b at a place, or of the one that is part of a branch.
JumpSizeTo(f, estimate, p, b) == JumpSize(tentativeOffsetOfBlock(f, estimate, p, b))

\* Mutant of Padding: to a multiple of two.
PaddingToEven(address) == (2 - ((address + 2) % 2)) % 2
Padding(address) == (4 - ((address + 2) % 4)) % 4

Size(f, estimate, p, address, isFinal) ==
    LET o == f.places[p]
        padding == IF isFinal THEN Padding(address) ELSE 3
    IN  CASE o.op = "Header" -> padding + 2
          [] o.op = "AsyncResume" -> padding + 2 + 3
          [] o.op = "Jump" -> JumpSizeTo(f, estimate, p, o.args[1])
          [] o.op = "Branch" ->
               BranchSize(f, estimate, p) + JumpSizeTo(f, estimate, p, o.args[2])
          [] OTHER -> MaxSize(o)

NextAddress(layout) == IF layout = <<>> THEN 0 ELSE End_(layout, Len(layout))
LayOutNext(layout, size) == Append(layout, [at |-> NextAddress(layout), size |-> size])
pass1(f) == FoldLeft(LAMBDA layout, o : LayOutNext(layout, MaxSize(o)), <<>>, f.places)
pass2(f, estimate, isFinal) ==
    FoldLeft(LAMBDA layout, p :
                LayOutNext(layout, Size(f, estimate, p, NextAddress(layout), isFinal)),
             <<>>, [p \in DOMAIN f.places |-> p])

-----------------------------------------------------------------------------
(***************************************************************************)
(* The bytes                                                               *)
(***************************************************************************)
\* Where the function is: after the padding and its own header.
FunctionStart == 4
TC_REF_FUNCTION == 5

\* The header of a point in the function leads back to its start.
Header(distance) == UInt16(TC_REF_FUNCTION * 4096 + 2048 + distance \div 4)
HeaderFits(distance) == distance > 0 /\ distance % 4 = 0 /\ distance < 8192

JumpBytes(offset, size) ==
    CASE size = 0 -> <<>>
      [] size = 2 -> Append(Ex2("Jump"), offset % 256)
      [] size = 3 -> Ex3("Jump") \o UInt16(offset)
BranchBytes(offset, size) ==
    IF size = 2 THEN Append(Ex2("Branch"), offset % 256) ELSE Ex3("Branch") \o UInt16(offset)

\* estimate is what the sizes of the layout were decided on.
Bytes(f, estimate, layout, p) ==
    LET o == f.places[p]
        to(b) == AddressOfBlock(f, layout, b) - End_(layout, p)
        alternate == JumpSizeTo(f, estimate, p, o.args[2])
        padded(header, rest) == Zeros(layout[p].size - 2 - Len(rest)) \o header \o rest
    IN  CASE o.op = "Label" -> <<>>
          [] o.op = "Header" -> padded(Header(End_(layout, p)), <<>>)
          [] o.op = "AsyncResume" -> padded(Header(End_(layout, p) - 3), Ex3("AsyncResume") \o o.args)
          [] o.op = "Jump" -> JumpBytes(to(o.args[1]), layout[p].size)
          [] o.op = "Branch" ->
               BranchBytes(to(o.args[1]) + alternate, BranchSize(f, estimate, p))
                   \o JumpBytes(to(o.args[2]), alternate)
          [] o.op = "StartTry" ->
               Ex4("StartTry") \o UInt16(FunctionStart + AddressOfBlock(f, layout, o.args[1]) + 1)
          [] OTHER -> Instruction(o)

\* The assertions of the encoder.
Asserted(f, estimate, layout, p) ==
    LET o == f.places[p]
        to(b) == AddressOfBlock(f, layout, b) - End_(layout, p)
        shorter(offset, tentative) ==
            offset \in -tentative .. tentative \/ offset \in tentative .. -tentative
        closer(b) == shorter(to(b), tentativeOffsetOfBlock(f, estimate, p, b))
    IN  /\ layout[p].size <= estimate[p].size
        /\ o.op = "Header" => HeaderFits(End_(layout, p))
        /\ o.op = "AsyncResume" => HeaderFits(End_(layout, p) - 3)
        /\ o.op = "Jump" => closer(o.args[1])
        /\ o.op = "Branch" =>
            /\ closer(o.args[2])
            /\ shorter(to(o.args[1]) + JumpSizeTo(f, estimate, p, o.args[2]),
                       TentativeConsequent(f, estimate, p))

\* The snapshot: the function with its header, and what there is to know of it.
outputPass(f, layouts, maxStackDepth) ==
    [function |-> f, layout |-> layouts[3],
     encodes |-> \A p \in DOMAIN f.places : layouts[2][p].size <= layouts[1][p].size
                                             /\ Asserted(f, layouts[2], layouts[3], p),
     memory |-> <<0, 0>> \o UInt16(TC_REF_FUNCTION * 4096 + maxStackDepth)
                    \o FlattenSeq([p \in DOMAIN f.places |-> Bytes(f, layouts[2], layouts[3], p)])]

Layouts(f) ==
    LET relax(layouts, isFinal) == Append(layouts, pass2(f, Last(layouts), isFinal))
    IN  FoldLeft(relax, <<pass1(f)>>, <<FALSE, TRUE>>)
writeFunctionBody(f, maxStackDepth) == outputPass(f, Layouts(f), maxStackDepth)
writeFunction(c) == writeFunctionBody(ToEncode(c), c.maxStackDepth)

-----------------------------------------------------------------------------
(***************************************************************************)
(* Reading instructions: the operation and its operands, with addresses    *)
(* for blocks, and the address that comes next.                            *)
(***************************************************************************)
Reads(op, args, next) == [op |-> op, args |-> args, next |-> next]

UnaryOperators == [NEGATE |-> "-", UNARY_PLUS |-> "+", typeof |-> "typeof",
                   typeCodeOf |-> "typeCodeOf"] @@ "!" :> "!" @@ "~" :> "~"
Operates(operator, next) ==
    IF operator \in DOMAIN UnaryOperators THEN Reads("UnOp", <<UnaryOperators[operator]>>, next)
    ELSE Reads("BinOp", <<operator>>, next)
OperatorsOfEx1 == {"+", "===", "!==", "!", "typeof", "typeCodeOf"}

Byte(memory, a) == memory[a + 1]
SInt8(n) == IF n < 128 THEN n ELSE n - 256
ReadUInt16(memory, a) == Byte(memory, a) + 256 * Byte(memory, a + 1)
ReadSInt16(memory, a) ==
    LET n == ReadUInt16(memory, a) IN IF n < 32768 THEN n ELSE n - 65536
ReadWord(memory, a) == Byte(memory, a)[2]

-----------------------------------------------------------------------------
(***************************************************************************)
(* The engine                                                              *)
(***************************************************************************)
\* A variable relative to the stack pointer, which a store has lowered by one.
SubOpVariable(op, reg1, depth, next) ==
    CASE op = "LoadVar" -> Reads(op, <<depth - reg1 - 1>>, next)
      [] op = "StoreVar" -> Reads(op, <<(depth - 1) - reg1 - 1>>, next)
      [] op \in {"LoadScoped", "StoreScoped", "LoadArg"} -> Reads(op, <<reg1>>, next)

SubOpExtended1(op, memory, a) ==
    CASE op \in OperatorsOfEx1 -> Operates(op, a)
      [] op \in {"New", "ScopeNew"} -> Reads(op, <<Byte(memory, a)>>, a + 1)
      [] op = "Pop" -> Reads("Pop", <<1>>, a)
      [] OTHER -> Reads(op, <<>>, a)

SubOpExtended4(op, memory, a) ==
    LET n == Byte(memory, a)
        address == ReadUInt16(memory, a)
    IN  CASE op = "StartTry" -> Reads(op, <<address - (address % 2)>>, a + 2)
          [] op = "AsyncStart" -> Reads(op, <<n % 128, n >= 128>>, a + 1)
          [] op = "ScopePush" -> Reads(op, <<n>>, a + 1)
          [] op = "LoadReg" -> Reads(op, <<"closure">>, a)
          [] OTHER -> Reads(op, <<>>, a)

SubOpExtended2(op, memory, a, depth) ==
    LET reg1 == Byte(memory, a)
    IN  CASE op \in {"Branch", "Jump"} -> Reads(op, <<a + 1 + SInt8(reg1)>>, a + 1)
          [] op = "Call" -> Reads(op, <<reg1 % 128, reg1 >= 128>>, a + 1)
          [] op = "ArrayNew" -> Reads(op, <<reg1>>, a + 1)
          [] op \in {"LoadVar", "StoreVar", "LoadScoped", "StoreScoped"} ->
               SubOpVariable(op, reg1, depth, a + 1)
          [] op = "EXTENDED_4" -> SubOpExtended4(VM_OP4[reg1 + 1], memory, a + 1)
          [] OTHER -> Reads("not implemented", <<op>>, a + 1)

\* Where an await goes on: after the padding and the header.
ResumePoint(a) == ((a + 2 + 3) \div 4) * 4

SubOpExtended3(op, memory, a, depth) ==
    CASE op = "POP_N" -> Reads("Pop", <<Byte(memory, a)>>, a + 1)
      [] op \in {"ScopeDiscard", "ScopeClone"} -> Reads(op, <<>>, a)
      [] op = "Await" -> Reads(op, <<>>, ResumePoint(a))
      [] op = "AwaitCall" -> Reads(op, <<Byte(memory, a)>>, a + 1)
      [] op = "AsyncResume" -> Reads(op, <<Byte(memory, a), Byte(memory, a + 1)>>, a + 2)
      [] op \in {"Jump", "Branch"} -> Reads(op, <<a + 2 + ReadSInt16(memory, a)>>, a + 2)
      [] op \in {"Literal", "LoadGlobal", "StoreGlobal"} ->
           Reads(op, <<ReadWord(memory, a)>>, a + 2)
      [] op \in {"LoadScoped", "StoreScoped"} ->
           SubOpVariable(op, ReadUInt16(memory, a), depth, a + 2)
      [] OTHER -> Reads("not implemented", <<op>>, a + 2)

\* The instruction at a, when the stack has this depth.
SubDoNextInstruction(memory, a, depth) ==
    LET reg1 == Byte(memory, a) % 16
        op == VM_OP[Byte(memory, a) \div 16 + 1]
    IN  CASE op = "Literal" -> Reads(op, <<smallLiterals[reg1 + 1]>>, a + 1)
          [] op \in {"LoadVar", "StoreVar", "LoadScoped", "StoreScoped", "LoadArg"} ->
               SubOpVariable(op, reg1, depth, a + 1)
          [] op = "EXTENDED_1" -> SubOpExtended1(VM_OP1[reg1 + 1], memory, a + 1)
          [] op = "EXTENDED_2" -> SubOpExtended2(VM_OP2[reg1 + 1], memory, a + 1, depth)
          [] op = "EXTENDED_3" -> SubOpExtended3(VM_OP3[reg1 + 1], memory, a + 1, depth)
          [] op = "NUM_OP" -> Operates(VM_NUM_OP[reg1 + 1], a + 1)
          [] op = "BIT_OP" -> Operates(VM_BIT_OP[reg1 + 1], a + 1)

\* A point that has an address of its own, and whose header leads to the function.
IsContinuation(memory, a) ==
    LET header == ReadUInt16(memory, a - 2)
    IN  /\ a % 4 = 0
        /\ header \div 4096 = TC_REF_FUNCTION
        /\ (header \div 2048) % 2 = 1
        /\ a - (header % 2048) * 4 = FunctionStart

-----------------------------------------------------------------------------
(***************************************************************************)
(* The decoder                                                             *)
(***************************************************************************)
\* A jump to where no block has been is what a Nop has become: it is skipped.
opJump(offset, readOffset, names) ==
    IF offset \in names THEN Reads("Jump", <<offset>>, readOffset)
    ELSE Reads("Nop", <<offset + 3 - readOffset>>, offset)
opBranch(offset, readOffset) == Reads("Branch", <<offset, readOffset>>, readOffset)
opLoadVar(n, depth, next) == Reads("LoadVar", <<depth - n - 1>>, next)
opStoreVar(n, depth, next) == Reads("StoreVar", <<depth - n - 2>>, next)

DecodeEx1(op, memory, a) ==
    CASE op \in OperatorsOfEx1 -> Operates(op, a)
      [] op = "Pop" -> Reads("Pop", <<1>>, a)
      [] op \in {"New", "ScopeNew"} -> Reads(op, <<Byte(memory, a)>>, a + 1)
      [] op \in {"Return", "Throw", "ClosureNew", "ObjectNew", "ObjectGet", "ObjectSet"} ->
           Reads(op, <<>>, a)

DecodeEx4(op, memory, a) ==
    LET param == Byte(memory, a)
    IN  CASE op = "StartTry" -> Reads(op, <<ReadUInt16(memory, a) - 1>>, a + 2)
          [] op = "LoadReg" -> Reads(op, <<"closure">>, a)
          [] op = "ScopePush" -> Reads(op, <<param>>, a + 1)
          [] op = "AsyncStart" -> Reads(op, <<param % 128, param >= 128>>, a + 1)
          [] OTHER -> Reads(op, <<>>, a)

DecodeEx2(op, memory, a, depth, names) ==
    LET param == Byte(memory, a)
    IN  CASE op = "Branch" -> opBranch(a + 1 + SInt8(param), a + 1)
          [] op = "Jump" -> opJump(a + 1 + SInt8(param), a + 1, names)
          [] op \in {"StoreScoped", "LoadScoped", "LoadArg", "ArrayNew"} ->
               Reads(op, <<param>>, a + 1)
          [] op = "LoadVar" -> opLoadVar(param, depth, a + 1)
          [] op = "Call" -> Reads(op, <<param % 128, param >= 128>>, a + 1)
          [] op = "EXTENDED_4" -> DecodeEx4(vm_TeOpcodeEx4[param + 1], memory, a + 1)
          [] OTHER -> Reads("not implemented", <<op>>, a + 1)

\* The next instruction after an await.
SkipHeader(a) == ((a + 3 + 2) \div 4) * 4

DecodeEx3(op, memory, a, depth, names) ==
    CASE op = "POP_N" -> Reads("Pop", <<Byte(memory, a)>>, a + 1)
      [] op = "Jump" -> opJump(a + 2 + ReadSInt16(memory, a), a + 2, names)
      [] op = "Branch" -> opBranch(a + 2 + ReadSInt16(memory, a), a + 2)
      [] op \in {"Literal", "LoadGlobal", "StoreGlobal"} ->
           Reads(op, <<ReadWord(memory, a)>>, a + 2)
      [] op \in {"LoadScoped", "StoreScoped"} -> Reads(op, <<ReadUInt16(memory, a)>>, a + 2)
      [] op \in {"ScopeDiscard", "ScopeClone"} -> Reads(op, <<>>, a)
      [] op = "Await" -> Reads(op, <<>>, SkipHeader(a))
      [] op = "AwaitCall" -> Reads(op, <<Byte(memory, a)>>, a + 1)
      [] op = "AsyncResume" -> Reads(op, <<Byte(memory, a), Byte(memory, a + 1)>>, a + 2)

\* names are the addresses of blocks.
decodeInstruction(memory, a, depth, names) ==
    LET param == Byte(memory, a) % 16
        opcode == vm_TeOpcode[Byte(memory, a) \div 16 + 1]
    IN  CASE opcode = "Literal" -> Reads(opcode, <<vm_TeSmallLiteralValue[param + 1]>>, a + 1)
          [] opcode = "LoadVar" -> opLoadVar(param, depth, a + 1)
          [] opcode = "StoreVar" -> opStoreVar(param, depth, a + 1)
          [] opcode \in {"LoadScoped", "StoreScoped", "LoadArg"} -> Reads(opcode, <<param>>, a + 1)
          [] opcode = "EXTENDED_1" -> DecodeEx1(vm_TeOpcodeEx1[param + 1], memory, a + 1)
          [] opcode = "EXTENDED_2" ->
               DecodeEx2(vm_TeOpcodeEx2[param + 1], memory, a + 1, depth, names)
          [] opcode = "EXTENDED_3" ->
               DecodeEx3(vm_TeOpcodeEx3[param + 1], memory, a + 1, depth, names)
          [] opcode = "NUM_OP" -> Operates(vm_TeNumberOp[param + 1], a + 1)
          [] opcode = "BIT_OP" -> Operates(vm_TeBitwiseOp[param + 1], a + 1)

blockTerminatingOpcodes == {"Jump", "Branch", "Return", "AsyncReturn", "Throw", "AsyncComplete"}

\* Mutant of DepthAfter: the variables of the try are still there.
DepthAfterHandler(read, depth, tries) ==
    CASE read.op = "StartTry" -> depth + 2
      [] read.op = "EndTry" -> depth - 2
      [] OTHER -> depth + StackChange(read.op, read.args)
\* tries are the depths at which the handlers in force were installed.
DepthAfter(read, depth, tries) ==
    CASE read.op = "StartTry" -> depth + 2
      [] read.op = "EndTry" -> Last(tries)
      [] OTHER -> depth + StackChange(read.op, read.args)
TriesAfter(o, tries) ==
    CASE o.op = "StartTry" -> Append(tries, o.before)
      [] o.op = "EndTry" -> Front(tries)
      [] OTHER -> tries
\* The blocks that an instruction leads to, with the depth at their entry.
LinksOf(o, tries) ==
    CASE o.op \in {"Jump", "Branch"} ->
            [i \in DOMAIN o.args |-> [at |-> o.args[i], depth |-> o.after, tries |-> tries]]
      [] o.op = "StartTry" -> <<[at |-> o.args[1], depth |-> o.before + 1, tries |-> tries]>>
      [] OTHER -> <<>>
Operation(read, a, depth, tries) ==
    [op |-> read.op, args |-> read.args, at |-> a, next |-> read.next,
     before |-> depth, after |-> DepthAfter(read, depth, tries)]

RECURSIVE decodeBlock(_, _, _, _, _, _)
RECURSIVE DecodeFrom(_, _, _, _, _, _, _)
RECURSIVE DecodeOn(_, _, _, _, _, _)

FollowLinks(s, memory, names, links) ==
    FoldLeft(LAMBDA t, l : decodeBlock(t, memory, names, l.at, l.depth, l.tries), s, links)

\* Decodes what follows an instruction, unless that ends the block, and then
\* the blocks that all of these lead to.
DecodeOn(s, memory, names, o, tries, links) ==
    IF o.op \in blockTerminatingOpcodes THEN FollowLinks(s, memory, names, links)
    ELSE DecodeFrom(s, memory, names, o.next, o.after, tries, links)
DecodeOperation(s, memory, names, o, tries, links) ==
    DecodeOn([s EXCEPT !.operations = Append(@, o), !.covered = @ \cup {o.at}],
             memory, names, o, TriesAfter(o, tries), links \o LinksOf(o, tries))

\* Decodes the instructions from an address on, up to one that has been decoded.
DecodeFrom(s, memory, names, a, depth, tries, links) ==
    IF a \in s.covered THEN FollowLinks(s, memory, names, links)
    ELSE DecodeOperation(s, memory, names,
                         Operation(decodeInstruction(memory, a, depth, names), a, depth, tries),
                         tries, links)

decodeBlock(s, memory, names, a, depth, tries) ==
    IF a \in DOMAIN s.entries THEN [s EXCEPT !.ok = @ /\ s.entries[a] = depth]
    ELSE DecodeFrom([s EXCEPT !.entries = @ @@ (a :> depth)], memory, names, a, depth, tries, <<>>)

\* The instructions by their addresses, cut at the entries; a block that ends
\* because the next one starts gets a jump to it, with the depths of the
\* instruction before.  A point of the function is a block and an index.
divideInstructionsIntoBlocks(s) ==
    LET inOrder == SortSeq(s.operations, LAMBDA x, y : x.at < y.at)
        startsBlock(o) == o.at \in DOMAIN s.entries
        end(acc, next) ==
            LET o == Last(acc[Len(acc)].operations)
            IN  IF o.op \in blockTerminatingOpcodes THEN acc
                ELSE [acc EXCEPT ![Len(acc)].operations =
                        Append(@, [o EXCEPT !.op = "Jump", !.args = <<next.at>>])]
        add(acc, o) ==
            IF startsBlock(o)
            THEN Append(IF acc = <<>> THEN acc ELSE end(acc, o),
                        [id |-> o.at, operations |-> <<o>>])
            ELSE [acc EXCEPT ![Len(acc)].operations = Append(@, o)]
    IN  FoldLeft(add, <<>>, inOrder)

\* The points at which the decoded function can be entered from outside, each
\* with its block and the index in it.
ResumePoints(blocks) ==
    UNION {{[at |-> blocks[k].operations[i].at, block |-> k, index |-> i] :
              i \in {j \in DOMAIN blocks[k].operations :
                        j = 1 \/ blocks[k].operations[j].op = "AsyncResume"}} : k \in DOMAIN blocks}

decodeFunction(memory, names) ==
    LET s == decodeBlock([operations |-> <<>>, covered |-> {}, entries |-> <<>>, ok |-> TRUE],
                         memory, names, FunctionStart, 0, <<>>)
    IN  [blocks |-> divideInstructionsIntoBlocks(s), ok |-> s.ok]

-----------------------------------------------------------------------------
(***************************************************************************)
(* What was encoded, with addresses for blocks                             *)
(***************************************************************************)
Places(e) == e.function.places
IsInstruction(o) == o.op \notin {"Label", "Header"}

\* The address of a place: behind the padding and the header, if there is one.
Address(e, p) ==
    FunctionStart + (CASE Places(e)[p].op = "Header" -> End_(e.layout, p)
                       [] Places(e)[p].op = "AsyncResume" -> End_(e.layout, p) - 3
                       [] OTHER -> e.layout[p].at)
BlockAddress(e, b) == Address(e, e.function.start[b])

\* The operands with addresses for blocks.
Located(e, o) == IF o.op \in {"Jump", "Branch", "StartTry"}
                 THEN [i \in DOMAIN o.args |-> BlockAddress(e, o.args[i])] ELSE o.args

\* An instruction that takes no bytes.
IsNothing(e, p) == Places(e)[p].op = "Jump" /\ e.layout[p].size = 0

\* The blocks at an address; the last one written gives it its name.
BlocksAt(e, a) ==
    {p \in DOMAIN Places(e) : ~IsInstruction(Places(e)[p]) /\ Address(e, p) = a}
BlockNames(e) == {BlockAddress(e, b) : b \in DOMAIN e.function.start}

RECURSIVE WrittenFrom(_, _, _)
\* The instructions from a place on to the end of a block, where entries are
\* the addresses at which blocks start.
WrittenFrom(e, p, entries) ==
    LET o == Places(e)[p]
        located == [op |-> o.op, args |-> Located(e, o), at |-> Address(e, p),
                    before |-> o.before, after |-> o.after]
    IN  CASE IsNothing(e, p) /\ located.args[1] \notin entries ->
               WrittenFrom(e, Max(BlocksAt(e, located.args[1])) + 1, entries)
          [] o.op \in blockTerminatingOpcodes -> <<located>>
          [] OTHER -> <<located>> \o WrittenFrom(e, p + 1, entries)

\* A jump that was added has no place of its own.
Comparable(o) == IF o.op = "Jump" THEN <<o.op, o.args>> ELSE <<o.op, o.args, o.at, o.before, o.after>>

-----------------------------------------------------------------------------
(***************************************************************************)
(* Properties.  c is what the compiler made of a function, and e is what   *)
(* the encoder made of that.                                               *)
(***************************************************************************)
\* A function is about to run.
AtStart ==
    effects = <<>> /\ block = 1 /\ index = 1 /\ status = "running" /\ caller = NoCatch

\* The consequent of a branch is behind it: the end of a do-while loop.
BranchesBack(f) ==
    \E p \in DOMAIN f.places : f.places[p].op = "Branch" /\ f.start[f.places[p].args[1]] < p

\* What the engine reads at the place of an instruction.
EngineReadsPlace(e, p) ==
    LET o == Places(e)[p]
        args == Located(e, o)
        read == SubDoNextInstruction(e.memory, Address(e, p), o.before)
        leadsTo(a, target) ==
            \/ a = target
            \/ SubDoNextInstruction(e.memory, a, o.after).op = "Jump"
               /\ SubDoNextInstruction(e.memory, a, o.after).args = <<target>>
    IN  CASE o.op = "Header" -> IsContinuation(e.memory, Address(e, p))
          [] o.op = "Label" -> TRUE
          [] IsNothing(e, p) -> Address(e, p) = args[1]
          [] o.op = "Branch" ->
               read.op = "Branch" /\ read.args = <<args[1]>> /\ leadsTo(read.next, args[2])
          [] o.op = "Nop" -> read.op = "Jump" /\ read.args = <<Address(e, p + 1)>>
          [] OTHER ->
               /\ read.op = o.op
               /\ read.args = args
               /\ o.op \in blockTerminatingOpcodes \/ read.next = Address(e, p + 1)
               /\ o.op = "AsyncResume" => IsContinuation(e.memory, Address(e, p))

\* Every function without a do-while loop is encoded, and the engine reads its
\* instructions where the encoder put them.
EngineReads(e) ==
    /\ e.encodes \/ BranchesBack(e.function)
    /\ e.encodes => \A p \in DOMAIN Places(e) : EngineReadsPlace(e, p)

\* The decoder finds the blocks that can be reached, with their instructions.
Matches(e, decoded, blocks) ==
    LET entries == {blocks[k].id : k \in DOMAIN blocks}
        same(read, wrote) ==
            /\ Len(read) = Len(wrote)
            /\ \A i \in DOMAIN read : Comparable(read[i]) = Comparable(wrote[i])
        written(id) == WrittenFrom(e, Max(BlocksAt(e, id)) + 1, entries)
        leads(o, k, i) ==
            /\ o.op \in {"Jump", "Branch", "StartTry"} => ToSet(o.args) \subseteq entries
            /\ o.op = "StartTry" =>
                \E point \in ResumePoints(blocks) : point.at = o.args[1] /\ point.index = 1
            /\ o.op = "AsyncResume" => [at |-> o.at, block |-> k, index |-> i] \in ResumePoints(blocks)
    IN  /\ decoded.ok
        /\ FunctionStart \in entries
        /\ \A k \in DOMAIN blocks :
            /\ same(blocks[k].operations, written(blocks[k].id))
            /\ \A i \in DOMAIN blocks[k].operations : leads(blocks[k].operations[i], k, i)
DecodedAs(e, decoded) == Matches(e, decoded, decoded.blocks)
DecoderReads(e) == e.encodes => DecodedAs(e, decodeFunction(e.memory, BlockNames(e)))

\* An instruction by itself, at address 0.
EngineReadsInstruction(o) ==
    LET memory == Instruction(o)
    IN  o.op # "Nop" /\ (o.op = "LoadArg" => o.args[1] < 16) =>
            SubDoNextInstruction(memory, 0, o.before) = Reads(o.op, o.args, Len(memory))
DecoderReadsInstruction(o) ==
    LET memory == Instruction(o)
    IN  (o.op = "StoreVar" => o.before - 2 - o.args[1] < 16) =>
            decodeInstruction(memory, 0, o.before, {}) = Reads(o.op, o.args, Len(memory))
=============================================================================
