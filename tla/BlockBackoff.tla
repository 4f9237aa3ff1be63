----------------------------- MODULE BlockBackoff -----------------------------
(***************************************************************************)
(* The arithmetic of CreateBlockInfo and UpdateBlockInfo                   *)
(* (Middleware/RateLimitingMiddleware.cs): how long the n-th block of a    *)
(* token in a row lasts.  The code computes in 32-bit ints: the power is a *)
(* double converted to int, which saturates, and the product wraps around. *)
(***************************************************************************)
EXTENDS Integers

CONSTANTS
  TokenWindow,           \* RateLimitSettings.TokenWindow, in seconds
  MaxConsecutiveBlocks,  \* _maxConsecutiveBlocks
  MaxBlock               \* the cap of a block, 3600

\* A window of 34 years or more is not considered.
ASSUME BackoffAssumption ==
  /\ TokenWindow \in 1..(2^30 - 1)
  /\ MaxConsecutiveBlocks \in Nat
  /\ MaxBlock \in Nat

\* Arithmetic the provers do not know; TLC evaluates it.
ASSUME PowerAssumption == \A e \in 0..30 : 2^e \in Nat \ {0}

\* x * 2^e as a 32-bit int, for x < 2^30 and e <= 30: the low 32 bits of the
\* product, read as a signed number (and computed without leaving 32 bits).
ShiftLeft32(x, e) ==
  LET span == 2^(32 - e)
      low  == x % span
  IN  IF e < 2 THEN x * 2^e
      ELSE IF 2 * low < span THEN low * 2^e ELSE (low - span) * 2^e

\* x * IntMax as a 32-bit int: the power saturates from 2^31 on.
TimesIntMax(x) == IF x % 2 = 0 THEN 0 - x ELSE (2147483647 - x) + 1

\* newBlockDuration of the n-th consecutive block.
BlockDuration(n) ==
  LET e == n - MaxConsecutiveBlocks
      d == IF e <= 0 THEN TokenWindow
           ELSE IF e <= 30 THEN ShiftLeft32(TokenWindow, e)
           ELSE TimesIntMax(TokenWindow)
  IN  IF d <= MaxBlock THEN d ELSE MaxBlock

\* The first block of a token.
CreateBlockInfo(now) == [until |-> now + TokenWindow, count |-> 1]

\* The block after one more refusal.
UpdateBlockInfo(existing, now) ==
  [until |-> now + BlockDuration(existing.count + 1), count |-> existing.count + 1]
================================================================================
