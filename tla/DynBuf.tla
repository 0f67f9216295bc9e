------------------------------- MODULE DynBuf -------------------------------
(***************************************************************************)
(* The dynamic buffer of cutils.c (struct DynBuf).  A buffer is what it    *)
(* holds, in items of some bytes each, the bytes allocated for it, and an  *)
(* error that stays once an allocation has failed: what does not fit any   *)
(* more is then dropped, and whoever filled the buffer asks at the end.    *)
(***************************************************************************)
EXTENDS Integers, Sequences

CONSTANTS ItemSize,      \* the bytes of an item
          SizeMax        \* SIZE_MAX

EmptyBuffer == [data |-> << >>, allocated |-> 0, error |-> FALSE]

Bytes(s) == ItemSize * Len(s.data)
Wrap(n) == n % (SizeMax + 1)

(* dbuf_claim of len more bytes.  It needs nothing if the buffer has room, *)
(* asks for memory unless a sum overflows or an allocation failed before,  *)
(* and otherwise returns -1 and leaves the buffer, also its error, as is.  *)
NewSize(s, len) == Wrap(Bytes(s) + len)
Half(s) == Wrap(s.allocated + s.allocated \div 2)

(* Mutant: the overflow of the sum is not looked at.                       *)
HasRoomWrapped(s, len) == NewSize(s, len) <= s.allocated

HasRoom(s, len) == len <= NewSize(s, len) /\ NewSize(s, len) <= s.allocated

Allocates(s, len) ==
    /\ NewSize(s, len) >= len
    /\ NewSize(s, len) > s.allocated
    /\ ~s.error
    /\ Half(s) >= s.allocated

(* The buffer after the memory was given, and after it was not.            *)
Claimed(s, len) ==
    [s EXCEPT !.allocated = IF Half(s) > NewSize(s, len) THEN Half(s) ELSE NewSize(s, len)]

Refusal(s) == [s EXCEPT !.error = TRUE]

(* dbuf_put_u32 of an item.  Once the claim succeeded the item is written, *)
(* and nothing looks whether it fits; if it failed the item is dropped.    *)
Fits(s) == s.allocated - Bytes(s) >= ItemSize
Grows(s) == ~Fits(s) /\ Allocates(s, ItemSize)

Put(s, item) ==
    IF Fits(s) \/ HasRoom(s, ItemSize) THEN [s EXCEPT !.data = Append(@, item)]
    ELSE IF Allocates(s, ItemSize)
    THEN [Claimed(s, ItemSize) EXCEPT !.data = Append(@, item)]
    ELSE s

(* The buffer cannot grow by half any more.                                *)
AtLimit(s) == Half(s) < s.allocated
=============================================================================
