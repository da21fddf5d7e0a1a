------------------------------ MODULE Protocol ------------------------------
(***************************************************************************)
(* The client's side of the Arakoon wire protocol: for every call of the   *)
(* API, how its command is written and which fields of the answer its code *)
(* reads.  Translated from src/src/arakoon.c, src/src/arakoon-protocol.h   *)
(* and src/src/arakoon-cluster-node.c.                                     *)
(*                                                                         *)
(* A field stands for what one READ_BYTES (or one READ_ macro) takes from  *)
(* the connection.  Its bytes are abstracted to the one number the code    *)
(* branches on: a return code (0: success), the presence flag of an        *)
(* option, the length of a string (0: empty) or the size of a list.        *)
(* Commands are not encoded here: a command is the name of its call.       *)
(***************************************************************************)
EXTENDS Integers, Sequences

CONSTANTS
    MaxItems,   \* bound: entries of a list answer
    MaxKeys     \* bound: keys of a multi_get request

ASSUME MaxItemsAssumption == MaxItems \in Nat
ASSUME MaxKeysAssumption  == MaxKeys \in Nat

-----------------------------------------------------------------------------
(***************************************************************************)
(* The shape of a call:                                                    *)
(*   writes   how many WRITE_BYTES its command may take;                   *)
(*   closes   whether a failing write disconnects the node (WRITE_BYTES)   *)
(*            or only returns (_arakoon_cluster_node_write_bytes);         *)
(*   message  whether an error code makes it read the error message        *)
(*            (HANDLE_ERROR);                                              *)
(*   owned    whether it converts the result into a fresh C string         *)
(*            (arakoon_utils_make_string) once all is read;                *)
(*   reply    what it reads after a success code.                          *)
(***************************************************************************)
\* Mutant: after an error code the message is left unread.
MutPlain(reply) == [writes |-> {1}, closes |-> TRUE, message |-> FALSE,
                    owned |-> FALSE, reply |-> reply]

Plain(reply) == [writes |-> {1}, closes |-> TRUE, message |-> TRUE,
                 owned |-> FALSE, reply |-> reply]

Hello                  == [Plain(<<"string">>) EXCEPT !.closes = FALSE, !.owned = TRUE]
WhoMaster              == [Plain(<<"option">>) EXCEPT !.message = FALSE, !.owned = TRUE]
ExpectProgressPossible == Plain(<<"bool">>)
Exists                 == Plain(<<"bool">>)
Get                    == Plain(<<"string">>)
Set                    == Plain(<<>>)
\* Mutant: the header is not counted.
MutMultiGet            == [Plain(<<"list">>) EXCEPT
                              !.writes = {2 * k : k \in 0 .. MaxKeys}]

\* The header, then a size and a key for each of the keys.
MultiGet               == [Plain(<<"list">>) EXCEPT
                              !.writes = {1 + 2 * k : k \in 0 .. MaxKeys}]
Delete                 == Plain(<<>>)
RangeOfKeys            == Plain(<<"list">>)
RangeHelper            == Plain(<<"pairs">>)
RangeEntries           == RangeHelper
Prefix                 == Plain(<<"list">>)
TestAndSet             == Plain(<<"option">>)
SequenceImpl           == Plain(<<>>)
AssertValue            == Plain(<<>>)
AssertExists           == Plain(<<>>)
RevRangeEntries        == RangeHelper
DeletePrefix           == Plain(<<"uint32">>)
Version                == [Plain(<<"int32", "int32", "int32", "string">>) EXCEPT
                              !.closes = FALSE, !.owned = TRUE]
UserFunction           == Plain(<<"option">>)

Shape ==
    [hello |-> Hello, who_master |-> WhoMaster,
     expect_progress_possible |-> ExpectProgressPossible,
     exists |-> Exists, get |-> Get, set |-> Set, multi_get |-> MultiGet,
     delete |-> Delete, range |-> RangeOfKeys, range_entries |-> RangeEntries,
     prefix |-> Prefix, test_and_set |-> TestAndSet,
     sequence |-> SequenceImpl, synced_sequence |-> SequenceImpl,
     assert |-> AssertValue, assert_exists |-> AssertExists,
     rev_range_entries |-> RevRangeEntries, delete_prefix |-> DeletePrefix,
     version |-> Version, user_function |-> UserFunction]

CallNames == DOMAIN Shape

-----------------------------------------------------------------------------
(***************************************************************************)
(* A field carries the command it answers, so that a misread can be told.  *)
(* Torn is the command of which only a part was written.                   *)
(***************************************************************************)
Torn == "torn"

Commands == CallNames \union {Torn}

ResultKinds == {"bool", "uint32", "int32", "string", "option", "list", "pairs"}

Kinds == ResultKinds \union {"rc", "message", "bytes"}

Fields == [kind : Kinds, of : Commands]

Field(k, c) == [kind |-> k, of |-> c]

Code(c) == Field("rc", c)

\* The numbers a field can hold, as far as the reading code branches on them.
Values(f) ==
    CASE f.kind = "list" -> 0 .. MaxItems
      [] f.kind = "pairs" -> 0 .. MaxItems
      [] f.kind \in {"rc", "string", "message", "option"} -> {0, 1}
      [] OTHER -> {0}

Strings(n, c) == [i \in 1 .. n |-> Field("string", c)]

Payload(c) ==
    IF c = Torn THEN <<>>
                ELSE [i \in 1 .. Len(Shape[c].reply) |-> Field(Shape[c].reply[i], c)]

\* What the protocol sends after a field f that holds v: a code is followed by
\* the result or by an error message, a length by that many bytes.
Follows(f, v) ==
    CASE f.kind = "rc" /\ v = 0 -> Payload(f.of)
      [] f.kind = "rc" /\ v # 0 -> <<Field("message", f.of)>>
      [] f.kind \in {"string", "message"} /\ v # 0 -> <<Field("bytes", f.of)>>
      [] f.kind = "option" /\ v # 0 -> <<Field("string", f.of)>>
      [] f.kind = "list" -> Strings(v, f.of)
      [] f.kind = "pairs" -> Strings(2 * v, f.of)
      [] OTHER -> <<>>

\* What the client goes on to read after a field f that held v.  An error
\* code makes every call but who_master read the message (HANDLE_ERROR).
Reads(f, v) ==
    IF f.kind = "rc" /\ v # 0 /\ ~Shape[f.of].message
    THEN <<>>
    ELSE Follows(f, v)

=============================================================================
