------------------------------ MODULE Sequence ------------------------------
(***************************************************************************)
(* Sequences (arakoon.c): the operations an application adds are kept in a *)
(* list, the last one first.  _arakoon_sequence_impl goes over the list    *)
(* twice, to measure the command and to write it from its end to its       *)
(* start; whatever the two passes disagree on is written outside the       *)
(* command's memory, or ends the program.                                  *)
(*                                                                         *)
(* A key or value is told by its size.  A command is a sequence of tokens, *)
(* each some bytes wide.  A size is a size_t; what is stored of it in a    *)
(* command is the uint32_t.                                                *)
(***************************************************************************)
EXTENDS Integers, SequencesExt

CONSTANTS
    Sizes,      \* the sizes of keys and values
    MaxOps,     \* bound: operations of a sequence
    NoValue,    \* the NULL value of an assertion that a key has none
    Word        \* how many numbers a uint32_t can hold: 2^32

ASSUME SizesAssumption == Sizes \subseteq Nat
ASSUME NoValueAssumption == NoValue \notin Sizes
ASSUME MaxOpsAssumption == MaxOps \in Nat
ASSUME WordAssumption == Word \in Nat /\ Word > 15   \* the largest type code

VARIABLES
    step,       \* "absent", "open", the steps of a call: "measure", "write",
                \* "sent"; "freeing" and "aborted"
    ops,        \* the list of items, in its order
    blocks,     \* how many blocks of memory the items take
    rest,       \* the items the loop at hand has not come to
    len,        \* the size of the command
    pos,        \* where in the command it was written last (i)
    count,
    command,    \* what is written, from pos on
    code,       \* 0x10: sequence, 0x24: synced_sequence
    added       \* history: the operations in the order of their addition

seqVars == <<step, ops, blocks, rest, len, pos, count, command, code, added>>
call    == <<rest, len, pos, count, command, code>>

\* The variables of a call end with it.
CallOver ==
    /\ rest' = <<>> /\ command' = <<>>
    /\ len' = 0 /\ pos' = 0 /\ count' = 0 /\ code' = 0

-----------------------------------------------------------------------------
(* Tokens and items *)

CommandLen == 4
UInt32Len  == 4
BoolLen    == 1

\* A number of a command, and WRITE_UINT32, which stores what fits.
Number(n) == [is |-> "uint32", of |-> n, width |-> UInt32Len]
UInt32(n) == Number(n % Word)
Bytes(n)  == [is |-> "bytes", of |-> n, width |-> n]
Bool(b)   == [is |-> "bool", of |-> IF b THEN 1 ELSE 0, width |-> BoolLen]
Command(c) == [is |-> "command", of |-> c, width |-> CommandLen]

\* The sums of the first numbers of s.
Sums(s) ==
    LET sum[n \in 0 .. Len(s)] == IF n = 0 THEN 0 ELSE sum[n - 1] + s[n]
    IN  sum

Width(tokens) ==
    Sums([n \in 1 .. Len(tokens) |-> tokens[n].width])[Len(tokens)]

Operations ==
    [type : {"set"}, key : Sizes, value : Sizes]
    \union [type : {"assert"}, key : Sizes, value : Sizes \union {NoValue}]
    \union [type : {"delete", "assert_exists"}, key : Sizes, value : {NoValue}]

StringLen(n) == UInt32Len + n

\* Mutant: the flag is left out when there is no value.
MutStringOptionLen(v) == IF v = NoValue THEN 0 ELSE BoolLen + StringLen(v)

StringOptionLen(v) == BoolLen + IF v = NoValue THEN 0 ELSE StringLen(v)

\* What the first loop adds for an item.
ItemLen(o) ==
    UInt32Len + StringLen(o.key)
    + CASE o.type = "set" -> StringLen(o.value)
        [] o.type = "assert" -> StringOptionLen(o.value)
        [] OTHER -> 0

String(n) == <<UInt32(n), Bytes(n)>>

StringOption(v) ==
    IF v = NoValue THEN <<Bool(FALSE)>> ELSE <<Bool(TRUE)>> \o String(v)

TypeCode == [set |-> 1, delete |-> 2, assert |-> 8, assert_exists |-> 15]

\* What the second loop puts in front of what is written, for an item.
Written(o) ==
    <<UInt32(TypeCode[o.type])>> \o String(o.key)
    \o CASE o.type = "set" -> String(o.value)
         [] o.type = "assert" -> StringOption(o.value)
         [] OTHER -> <<>>

-----------------------------------------------------------------------------
SeqInit ==
    /\ step = "absent"
    /\ ops = <<>> /\ rest = <<>> /\ command = <<>> /\ added = <<>>
    /\ blocks = 0 /\ len = 0 /\ pos = 0 /\ count = 0 /\ code = 0

SeqNew ==
    /\ step = "absent"
    /\ step' = "open"
    /\ ops' = <<>> /\ added' = <<>>
    /\ UNCHANGED <<blocks, call>>

\* An item and copies of its strings.  (No memory for the item: nothing
\* changes.)
AddOperation(o) ==
    /\ step = "open" /\ Len(ops) < MaxOps
    /\ ops' = <<o>> \o ops
    /\ added' = Append(added, o)
    /\ blocks' = blocks + IF o.value = NoValue THEN 2 ELSE 3
    /\ UNCHANGED <<step, call>>

\* COPY_STRING finds no memory, or COPY_STRING_OPTION is given a size without a
\* value.
AddAborts ==
    /\ step = "open" /\ Len(ops) < MaxOps
    /\ step' = "aborted"
    /\ UNCHANGED <<ops, blocks, call, added>>

HeaderLen == CommandLen + 3 * UInt32Len

\* A call starts to measure.
Call ==
    /\ step = "open"
    /\ step' = "measure"
    /\ code' \in {16, 36}
    /\ rest' = ops /\ len' = HeaderLen /\ count' = 0 /\ command' = <<>>
    /\ UNCHANGED <<ops, blocks, pos, added>>

MeasureItem ==
    /\ step = "measure" /\ rest # <<>>
    /\ len' = len + ItemLen(Head(rest))
    /\ rest' = Tail(rest)
    /\ UNCHANGED <<step, ops, blocks, pos, count, command, code, added>>

\* The command is allocated, or the call returns -ENOMEM.
Allocate ==
    /\ step = "measure" /\ rest = <<>>
    /\ \/ /\ step' = "write" /\ rest' = ops /\ pos' = len
          /\ UNCHANGED <<len, count, command, code>>
       \/ step' = "open" /\ CallOver
    /\ UNCHANGED <<ops, blocks, added>>

WriteItem ==
    /\ step = "write" /\ rest # <<>>
    /\ command' = Written(Head(rest)) \o command
    /\ pos' = pos - Width(Written(Head(rest)))
    /\ count' = count + 1
    /\ rest' = Tail(rest)
    /\ UNCHANGED <<step, ops, blocks, len, code, added>>

\* Mutant: the size counts the header of the command.
MutHeader == <<Command(code), UInt32(len - UInt32Len), UInt32(5), UInt32(count)>>

Header ==
    <<Command(code), UInt32(len - UInt32Len - CommandLen), UInt32(5), UInt32(count)>>

\* The header, if it fits what is left; then the command is sent.
WriteHeader ==
    /\ step = "write" /\ rest = <<>>
    /\ IF pos = HeaderLen
       THEN step' = "sent" /\ command' = Header \o command /\ pos' = 0
       ELSE step' = "aborted" /\ UNCHANGED <<command, pos>>
    /\ UNCHANGED <<ops, blocks, rest, len, count, code, added>>

\* The call returns, whatever came of it; the sequence can be used again.
CallReturns ==
    /\ step = "sent"
    /\ step' = "open" /\ CallOver
    /\ UNCHANGED <<ops, blocks, added>>

SeqFree ==
    /\ step = "open"
    /\ step' = "freeing" /\ rest' = ops
    /\ UNCHANGED <<ops, blocks, len, pos, count, command, code, added>>

\* Mutant: assertions are freed like deletions.
MutItemBlocks(o) == IF o.type = "set" THEN 3 ELSE 2

\* What arakoon_sequence_item_free gives back: the NULL of an assertion is
\* freed to no effect.
ItemBlocks(o) ==
    IF o.type \in {"set", "assert"} /\ o.value # NoValue THEN 3 ELSE 2

\* Mutant: the loop does not go on.
MutFreeOperation ==
    /\ step = "freeing" /\ rest # <<>>
    /\ blocks' = blocks - ItemBlocks(Head(rest))
    /\ UNCHANGED <<step, ops, rest, len, pos, count, command, code, added>>

FreeOperation ==
    /\ step = "freeing" /\ rest # <<>>
    /\ blocks' = blocks - ItemBlocks(Head(rest))
    /\ rest' = Tail(rest)
    /\ UNCHANGED <<step, ops, len, pos, count, command, code, added>>

SeqFreed ==
    /\ step = "freeing" /\ rest = <<>>
    /\ step' = "absent"
    /\ ops' = <<>> /\ added' = <<>>
    /\ UNCHANGED <<blocks, call>>

SeqNext ==
    \/ SeqNew \/ (\E o \in Operations : AddOperation(o)) \/ AddAborts
    \/ Call \/ MeasureItem \/ Allocate \/ WriteItem \/ WriteHeader \/ CallReturns
    \/ SeqFree \/ FreeOperation \/ SeqFreed

SeqSpec == SeqInit /\ [][SeqNext]_seqVars

-----------------------------------------------------------------------------
(* Properties *)

\* Type invariant.
SeqTypeOK ==
    /\ step \in {"absent", "open", "measure", "write", "sent", "freeing", "aborted"}
    /\ {ops, rest, added} \subseteq Seq(Operations)
    /\ blocks \in 0 .. 3 * MaxOps
    /\ {len, pos} \subseteq Nat
    /\ count \in 0 .. MaxOps
    /\ code \in {0, 16, 36}

\* While it is written the command stays in its memory, clear of the place of
\* its header, and the two passes never disagree, so that no call ends the
\* program with "Incorrect count in sequence construction".
BuiltWithinBuffer ==
    [][/\ step' = "write" => pos' >= HeaderLen
       /\ step = "write" => step' # "aborted"]_seqVars

\* A string and an operation of a command, whatever their size.
Whole(n) == <<Number(n), Bytes(n)>>

Asked(o) ==
    <<Number(TypeCode[o.type])>> \o Whole(o.key)
    \o CASE o.type = "set" -> Whole(o.value)
         [] o.type = "assert" -> IF o.value = NoValue THEN <<Bool(FALSE)>>
                                 ELSE <<Bool(TRUE)>> \o Whole(o.value)
         [] OTHER -> <<>>

\* A command from its start to its end: the operations in the order in which
\* they were added, their number, and the size of all that follows the size.
Body(s) ==
    <<Number(5), Number(Len(s))>> \o FlattenSeq([n \in 1 .. Len(s) |-> Asked(s[n])])

Wire(s) == <<Command(code), Number(Width(Body(s)))>> \o Body(s)

\* The command and its numbers fit 32 bits.  (_arakoon_sequence_impl does not look:
\* the sizes of longer ones are sent modulo 2^32.)
Fits(s) ==
    /\ Len(s) < Word /\ Width(Body(s)) < Word
    /\ \A n \in 1 .. Len(s) :
           s[n].key < Word /\ (s[n].value # NoValue => s[n].value < Word)

\* What is sent is the sequence the application built, in its order, although
\* the list is kept and the command is written the other way round; also when
\* the sequence was sent before.
SentAsAdded == step = "sent" /\ Fits(added) => command = Wire(added)

\* A freed sequence leaves no memory behind (arakoon_sequence_free).
SequenceFreed == step = "absent" => blocks = 0

=============================================================================
