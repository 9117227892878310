------------------------------ MODULE Storage -------------------------------
(***************************************************************************)
(* The storage of AvmString and of AvmArrayList, whose growth is the same  *)
(* code (array-list.c:57: "straight up copied from avm.core/string.c"):    *)
(* capacity and length are uints that wrap around at M, and the buffer has *)
(* as many bytes as the last allocation asked for. Contents are left out.  *)
(*                                                                         *)
(* A program that asks for items one way or another never asks for more    *)
(* than Limit of them in all; how large Limit may be is the question.      *)
(***************************************************************************)
EXTENDS Naturals

CONSTANTS M,         \* 2^32 on the supported platforms: the range of uint
          ItemSize,  \* bytes per item: sizeof(char), or the size of a list's type
          Limit      \* the most items the program ever wants in one container

ASSUME StorageAssumption ==
    /\ M \in Nat \ {0, 1}
    /\ ItemSize \in Nat \ {0}
    /\ Limit \in Nat /\ Limit < M

VARIABLES capacity, length,
          allocated,  \* size in bytes of the memory that _buffer or _items points to
          fault       \* the first failed assertion or write out of bounds

vars == <<capacity, length, allocated, fault>>

Wrap(x) == x % M

(***************************************************************************)
(* EnsureCapacity: the capacity it leaves when cap is the capacity, len    *)
(* the length and n more items must fit.                                   *)
(***************************************************************************)
MustGrow(cap, len, n) == n # 0 /\ Wrap(len + n) > cap

(* Mutant: doubling is always taken to be enough.                          *)
NewCapacityDoubled(cap, len, n) ==
    IF ~ MustGrow(cap, len, n) THEN cap ELSE Wrap(2 * cap)

NewCapacity(cap, len, n) ==
    IF ~ MustGrow(cap, len, n) THEN cap
    ELSE IF Wrap(2 * cap) < Wrap(len + n) THEN Wrap(Wrap(2 * cap) + n)
    ELSE Wrap(2 * cap)

(* The two assertions at the end of EnsureCapacity.                        *)
PostHolds(cap, len, n) == n # 0 => cap >= len /\ cap >= n

-----------------------------------------------------------------------------
(* AvmStringNew and AvmArrayListNew: nothing is allocated for 0 items.     *)
Created(c) ==
    /\ capacity = c
    /\ length = 0
    /\ allocated = Wrap(c * ItemSize)
    /\ fault = "none"

Init == \E c \in 0..Limit : Created(c)

Ensure(n) ==
    /\ capacity' = NewCapacity(capacity, length, n)
    /\ allocated' = IF MustGrow(capacity, length, n) THEN Wrap(capacity' * ItemSize)
                    ELSE allocated

(* AvmStringEnsureCapacity, called by the program itself.                  *)
Reserve(n) ==
    /\ fault = "none"
    /\ length + n <= Limit
    /\ Ensure(n)
    /\ fault' = IF PostHolds(capacity', length, n) THEN "none" ELSE "assert_growth"
    /\ UNCHANGED length

(***************************************************************************)
(* AvmStringPushChar (n = 1), AvmStringPushChars and AvmArrayListInsert    *)
(* (n = 1): make room, then write up to the new length, then record it.    *)
(***************************************************************************)
Add(n) ==
    /\ fault = "none"
    /\ length + n <= Limit
    /\ Ensure(n)
    /\ fault' = IF ~ PostHolds(capacity', length, n) THEN "assert_growth"
                ELSE IF (length + n) * ItemSize > allocated' THEN "overrun"
                ELSE "none"
    /\ length' = IF fault' = "none" THEN Wrap(length + n) ELSE length

(* Mutant: the length is signed, and more may be removed than is there.    *)
ShrinkUnchecked(k) ==
    /\ fault = "none"
    /\ length' = length - k
    /\ UNCHANGED <<capacity, allocated, fault>>

(* AvmStringClear, AvmStringErase, AvmArrayListRemove and AvmListClear:    *)
(* memory is never given back.                                             *)
Shrink(k) ==
    /\ fault = "none"
    /\ k <= length
    /\ length' = length - k
    /\ UNCHANGED <<capacity, allocated, fault>>

(* The object is destroyed and another one is created in its place.        *)
Renew(c) ==
    /\ fault = "none"
    /\ c <= Limit
    /\ capacity' = c /\ length' = 0 /\ allocated' = Wrap(c * ItemSize)
    /\ UNCHANGED fault

(***************************************************************************)
(* AvmStringFrom, AvmStringFromChars and AvmStringRepeat: a new string     *)
(* with twice the room it needs is filled, and must not have grown.        *)
(***************************************************************************)
Preload(n) ==
    /\ fault = "none"
    /\ capacity' = NewCapacity(Wrap(2 * n), 0, n)
    /\ allocated' = Wrap(capacity' * ItemSize)
    /\ length' = n
    /\ fault' = IF capacity' = Wrap(2 * n) THEN "none" ELSE "assert_create"

Next ==
    \/ \E n \in 0..Limit : Reserve(n) \/ Add(n) \/ Preload(n)
    \/ \E k \in 1..Limit : Shrink(k)
    \/ \E c \in 0..Limit : Renew(c)

Spec == Init /\ [][Next]_vars
-----------------------------------------------------------------------------
TypeOK ==
    /\ capacity \in 0..(M - 1)
    /\ length \in 0..(M - 1)
    /\ allocated \in 0..(M - 1)
    /\ fault \in {"none", "assert_growth", "assert_create", "overrun"}

(***************************************************************************)
(* What every reader of a string or list relies on: the items that length  *)
(* announces are in memory that is allocated, which is exactly what        *)
(* capacity announces, and making room never failed to make room.          *)
(***************************************************************************)
StorageSafe ==
    /\ fault = "none"
    /\ length <= capacity
    /\ allocated = capacity * ItemSize
=============================================================================
