------------------------------ MODULE OsekBitmap -------------------------------
(***************************************************************************)
(* bitmap_search of toppers_osek/kernel/task.c: the number of the highest  *)
(* 1 bit of a 16-bit map, by two halvings and a table.                     *)
(***************************************************************************)
EXTENDS Integers, Sequences

\* Bit p of b, b | PRIMAP_BIT(p) and b & ~PRIMAP_BIT(p).
PRIMAP_BIT(p)  == 2 ^ p
HasBit(b, p)   == (b \div PRIMAP_BIT(p)) % 2 = 1
SetBit(b, p)   == IF HasBit(b, p) THEN b ELSE b + PRIMAP_BIT(p)
ClearBit(b, p) == IF HasBit(b, p) THEN b - PRIMAP_BIT(p) ELSE b

search_table == <<0, 1, 1, 2, 2, 2, 2, 3, 3, 3, 3, 3, 3, 3, 3>>

\* The halvings.
High(bitmap)   == bitmap >= 2 ^ 8
Byte(bitmap)   == IF High(bitmap) THEN bitmap \div 2 ^ 8 ELSE bitmap
Upper(bitmap)  == Byte(bitmap) >= 2 ^ 4
Nibble(bitmap) == IF Upper(bitmap) THEN Byte(bitmap) \div 2 ^ 4 ELSE Byte(bitmap)

NibbleNotCounted(bitmap) ==                                                \* fault
  (IF High(bitmap) THEN 8 ELSE 0) + search_table[Nibble(bitmap)]

bitmap_search(bitmap) ==
  (IF High(bitmap) THEN 8 ELSE 0) + (IF Upper(bitmap) THEN 4 ELSE 0) + search_table[Nibble(bitmap)]

================================================================================
