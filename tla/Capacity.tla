------------------------------ MODULE Capacity ------------------------------
(***************************************************************************)
(* MSCapacityForCount (MSCoreSystem.c): how much room the growing          *)
(* containers of MSCore take for a number of elements.                     *)
(***************************************************************************)
EXTENDS Naturals

(* The code's table of the counts below 128, and its rule from 128 on.     *)
MSCapacityForCount(count) ==
  IF      count < 2   THEN 2
  ELSE IF count < 4   THEN 4
  ELSE IF count < 8   THEN 8
  ELSE IF count < 16  THEN 16
  ELSE IF count < 32  THEN 32
  ELSE IF count < 56  THEN 64
  ELSE IF count < 104 THEN 128
  ELSE IF count < 128 THEN 256
  ELSE ((count + count \div 2) \div 256) * 256 + 256
=============================================================================
